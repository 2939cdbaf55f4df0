---------------------------- MODULE PriorityQueue ----------------------------
(***************************************************************************)
(* What a heap of pointers promises its user: it holds exactly the         *)
(* elements that were added and not removed, each once, under the key its  *)
(* user last gave it.  An operation takes effect when it is called; what   *)
(* it does to restore its order afterwards changes nothing of that.        *)
(***************************************************************************)
CONSTANTS Elems, Keys

VARIABLES
  live,  \* the elements in the queue
  key,   \* the key of each element
  busy   \* an operation is under way

Init ==
  /\ live = {}
  /\ key \in [Elems -> Keys]
  /\ busy = FALSE

(* An operation is called. *)
Called == ~busy /\ busy' \in BOOLEAN

Add(x, v) ==
  /\ Called
  /\ x \notin live
  /\ live' = live \cup {x}
  /\ key' = [key EXCEPT ![x] = v]

(* The key of an element that is not in the queue means nothing. *)
Remove(x) ==
  /\ Called
  /\ x \in live
  /\ live' = live \ {x}
  /\ key' \in [Elems -> Keys]
  /\ \A y \in live' : key'[y] = key[y]

Rekey(x, v) ==
  /\ Called
  /\ x \in live
  /\ key' = [key EXCEPT ![x] = v]
  /\ UNCHANGED live

(* A queue made from a set of elements, or given up, at one go. *)
Refill ==
  /\ Called
  /\ live = {}
  /\ live' \in SUBSET Elems
  /\ key' \in [Elems -> Keys]

Clear ==
  /\ Called
  /\ live' = {}
  /\ key' \in [Elems -> Keys]

(* The operation under way goes on, or returns. *)
Rearrange ==
  /\ busy
  /\ busy' \in BOOLEAN
  /\ UNCHANGED <<live, key>>

Next ==
  \/ \E x \in Elems : Remove(x) \/ \E v \in Keys : Add(x, v) \/ Rekey(x, v)
  \/ Refill
  \/ Clear
  \/ Rearrange

Spec == Init /\ [][Next]_<<live, key, busy>>
=============================================================================
