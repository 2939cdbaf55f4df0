----------------------------- MODULE ElasticQueue -----------------------------
(***************************************************************************)
(* Elastic queues (datastruct/elasticqueue.c): a queue is a window of the  *)
(* records of an elastic array.  A queue is a record of the array, of the  *)
(* records in it and of the window's offset and len.                       *)
(***************************************************************************)
EXTENDS ElasticArray, Sequences

CONSTANT RECLEN  \* the length of a record

ASSUME QueueAssumption == RECLEN \in RecLens

(* elasticqueue_init *)
EmptyQueue == [EA |-> EmptyArray, recs |-> <<>>, offset |-> 0, len |-> 0]

(* elasticqueue_add: the possible outcomes. *)
elasticqueue_add(Q, rec) ==
  {IF o.rc = 0
   THEN [Q EXCEPT !.EA = o.EA, !.recs = Append(@, rec), !.len = @ + 1]
   ELSE Q : o \in elasticarray_append(Q.EA, 1, RECLEN)}

(* Mutant: the records are not moved. *)
elasticqueue_delete_no_move(Q) ==
  IF Q.len = 0 THEN {Q}
  ELSE LET offset == Q.offset + 1
           len == Q.len - 1
       IN IF offset > len
          THEN {[EA |-> o.EA, recs |-> SubSeq(Q.recs, 1, len),
                 offset |-> 0, len |-> len] : o \in elasticarray_shrink(Q.EA, offset, RECLEN)}
          ELSE {[Q EXCEPT !.offset = offset, !.len = len]}

(* elasticqueue_delete: once the window is behind the middle of the array   *)
(* its records are copied to the front and the rest is released.            *)
elasticqueue_delete(Q) ==
  IF Q.len = 0 THEN {Q}
  ELSE LET offset == Q.offset + 1
           len == Q.len - 1
       IN IF offset > len
          THEN {[EA |-> o.EA, recs |-> SubSeq(Q.recs, offset + 1, offset + len),
                 offset |-> 0, len |-> len] : o \in elasticarray_shrink(Q.EA, offset, RECLEN)}
          ELSE {[Q EXCEPT !.offset = offset, !.len = len]}

(* elasticqueue_get, for pos < Q.len *)
elasticqueue_get(Q, pos) == Q.recs[pos + Q.offset + 1]

(* elasticqueue_getlen *)
elasticqueue_getlen(Q) == Q.len
=============================================================================
