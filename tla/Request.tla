------------------------------- MODULE Request -------------------------------
(***************************************************************************)
(* What the network functions promise their callers (network/network.h): a *)
(* request that was started ends with exactly one call of its callback, or *)
(* with its cancellation and no call.                                      *)
(***************************************************************************)
CONSTANTS
  Cookies,  \* the requests
  NULL      \* no request: the loop is not in a callback

VARIABLES
  waiting,  \* the requests that were started and have not ended
  calling   \* the request whose callback is under way, or NULL

Init ==
  /\ waiting = {}
  /\ calling = NULL

Start(x) ==
  /\ x \notin waiting /\ x # calling
  /\ waiting' = waiting \cup {x}
  /\ UNCHANGED calling

Cancel(x) ==
  /\ x \in waiting
  /\ waiting' = waiting \ {x}
  /\ UNCHANGED calling

Call(x) ==
  /\ x \in waiting
  /\ calling = NULL
  /\ waiting' = waiting \ {x}
  /\ calling' = x

Return ==
  /\ calling # NULL
  /\ calling' = NULL
  /\ UNCHANGED waiting

Next ==
  \/ \E x \in Cookies : Start(x) \/ Cancel(x) \/ Call(x)
  \/ Return

Spec == Init /\ [][Next]_<<waiting, calling>>
=============================================================================
