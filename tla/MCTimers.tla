------------------------------- MODULE MCTimers -------------------------------
(* Timer events and the heap of pointers that their queue is made of, for   *)
(* TLC.  EventsTimer takes what the heap promises for granted, so the two   *)
(* are checked one beside the other: each behaviour runs one of them, and   *)
(* which says which one.  See README.md for the bounds.                     *)
EXTENDS EventsTimer, PtrHeap, TLC

VARIABLE which

allvars == <<which, timervars, recvars, heapvars>>

Init == which \in {"timers", "heap"} /\ TimerStart /\ HeapInit

Next ==
  /\ UNCHANGED which
  /\ \/ which = "timers" /\ TimerNext
     \/ which # "timers" /\ UNCHANGED <<timervars, recvars>>
  /\ \/ which = "heap" /\ HeapNext
     \/ which # "heap" /\ UNCHANGED heapvars

Spec == Init /\ [][Next]_allvars

(* Elements but one are exchanged: more permutations take longer than they  *)
(* save.                                                                    *)
MCSymmetry ==
  Permutations(Recs) \cup Permutations(Elems \ {CHOOSE e \in Elems : TRUE})

(* Delays of no time, less than a second and more than a second. *)
MCTimeos ==
  {[tv_sec |-> 0, tv_usec |-> 0], [tv_sec |-> 0, tv_usec |-> 2], [tv_sec |-> 1, tv_usec |-> 1]}
=============================================================================
