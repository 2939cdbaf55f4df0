-------------------------------- MODULE PtrMap --------------------------------
(***************************************************************************)
(* What a sequential pointer map promises (datastruct/seqptrmap.h): every  *)
(* pointer is given the next integer, and is found under it until it is    *)
(* deleted.                                                                *)
(***************************************************************************)
EXTENDS Integers

CONSTANT Ptrs  \* the pointers

VARIABLES
  ptr,  \* the pointer of each integer that has one
  next  \* the integer of the next pointer

Init == ptr = [i \in {} |-> 0] /\ next = 0

Add(p) ==
  /\ ptr' = [i \in DOMAIN ptr \cup {next} |-> IF i = next THEN p ELSE ptr[i]]
  /\ next' = next + 1

Delete(i) ==
  /\ ptr' = [j \in DOMAIN ptr \ {i} |-> ptr[j]]
  /\ UNCHANGED next

Next == (\E p \in Ptrs : Add(p)) \/ (\E i \in 0 .. next : Delete(i))

Spec == Init /\ [][Next]_<<ptr, next>>
=============================================================================
