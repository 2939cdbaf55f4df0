--------------------------- MODULE ImmediateQueue ---------------------------
(***************************************************************************)
(* What events.h promises of immediate events, with no trace of how        *)
(* events_immediate.c finds them: events with smaller prio values run      *)
(* first, and events of one prio value run in the order they were          *)
(* registered.  r is the event being run.                                  *)
(***************************************************************************)
EXTENDS Integers, Sequences

CONSTANTS Recs, NULL, NPrio

VARIABLES
  pending,  \* for each prio, the registered events in order
  r

Prios == 0 .. (NPrio - 1)

(* The queue q without its i-th element. *)
RemoveNth(q, i) == [k \in 1 .. (Len(q) - 1) |-> IF k < i THEN q[k] ELSE q[k + 1]]

Init ==
  /\ pending = [p \in Prios |-> << >>]
  /\ r = NULL

Register(x, p) ==
  /\ \A p2 \in Prios : \A i \in 1 .. Len(pending[p2]) : pending[p2][i] # x
  /\ pending' = [pending EXCEPT ![p] = Append(pending[p], x)]
  /\ UNCHANGED r

Cancel(x) ==
  /\ \E p \in Prios : \E i \in 1 .. Len(pending[p]) :
       /\ pending[p][i] = x
       /\ pending' = [pending EXCEPT ![p] = RemoveNth(pending[p], i)]
  /\ UNCHANGED r

Run ==
  /\ r = NULL
  /\ \E p \in Prios :
       /\ \A p2 \in 0 .. (p - 1) : pending[p2] = << >>
       /\ pending[p] # << >>
       /\ r' = pending[p][1]
       /\ pending' = [pending EXCEPT ![p] = RemoveNth(pending[p], 1)]

Finish ==
  /\ r # NULL
  /\ r' = NULL
  /\ UNCHANGED pending

Next ==
  \/ \E x \in Recs : (\E p \in Prios : Register(x, p)) \/ Cancel(x)
  \/ Run
  \/ Finish

Spec == Init /\ [][Next]_<<pending, r>>
=============================================================================
