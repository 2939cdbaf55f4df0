------------------------------- MODULE SeqPtrMap -------------------------------
(***************************************************************************)
(* The sequential pointer map (datastruct/seqptrmap.c): pointers in an     *)
(* elastic queue, whose records are RECLEN bytes hold a pointer.           *)
(***************************************************************************)
EXTENDS ElasticQueue, FiniteSetsExt

CONSTANTS
  Ptrs,      \* the pointers that are added
  NULLPTR,   \* what a deleted pointer is overwritten with
  INT64_MAX  \* largest integer for a pointer

ASSUME MapAssumption == NULLPTR \notin Ptrs /\ INT64_MAX \in Nat

VARIABLES
  EQ,  \* the elastic queue: its array, the records in it, offset and len
  M    \* the map: offset and len

mapvars == <<EQ, M>>

MapTypeOK ==
  /\ EQ.EA \in Arrays /\ EQ.offset \in Nat /\ EQ.len \in Nat
  /\ EQ.recs \in Seq(Ptrs \cup {NULLPTR})
  /\ M \in [offset : Nat, len : Nat]
----------------------------------------------------------------------------
(* seqptrmap_init has been called. *)
MapInit == EQ = EmptyQueue /\ M = [offset |-> 0, len |-> 0]

(* seqptrmap_add: a failure of elasticqueue_add changes nothing.  The guard *)
(* is the assertion on the integers.                                        *)
seqptrmap_add(ptr) ==
  /\ M.offset + M.len < INT64_MAX
  /\ EQ' \in elasticqueue_add(EQ, ptr)
  /\ M' = IF EQ' = EQ THEN M ELSE [M EXCEPT !.len = @ + 1]

(* The bounds that seqptrmap_get and seqptrmap_delete test. *)
InMap(i) == i >= M.offset /\ i - M.offset < M.len

(* seqptrmap_get *)
seqptrmap_get(i) ==
  IF InMap(i) THEN elasticqueue_get(EQ, i - M.offset) ELSE NULLPTR

(* seqptrmap_getmin *)
seqptrmap_getmin == IF elasticqueue_getlen(EQ) = 0 THEN -1 ELSE M.offset

(* The loop of seqptrmap_delete: the number of leading NULLs of the queue,  *)
(* and the queues that deleting that many records leaves.                   *)
LeadingNulls(Q) ==
  Max({n \in 0 .. Q.len : \A pos \in 0 .. n - 1 : elasticqueue_get(Q, pos) = NULLPTR})

DeleteFirst(Q, n) ==
  LET after[k \in 0 .. n] ==
        IF k = 0 THEN {Q} ELSE UNION {elasticqueue_delete(P) : P \in after[k - 1]}
  IN after[n]

(* seqptrmap_delete *)
seqptrmap_delete(i) ==
  IF InMap(i)
  THEN LET Q == [EQ EXCEPT !.recs[i - M.offset + EQ.offset + 1] = NULLPTR]
           n == LeadingNulls(Q)
       IN /\ EQ' \in DeleteFirst(Q, n)
          /\ M' = [offset |-> M.offset + n, len |-> M.len - n]
  ELSE UNCHANGED mapvars

MapNext ==
  \/ \E p \in Ptrs : seqptrmap_add(p)
  \/ \E i \in 0 .. INT64_MAX : seqptrmap_delete(i)

MapSpec == MapInit /\ [][MapNext]_mapvars
----------------------------------------------------------------------------
(* An elastic array's data fits its buffer.  The queue is a window of its   *)
(* array and the map counts the same records; no more than half of the      *)
(* array is behind the window; the smallest integer that is reported has a  *)
(* pointer, and the first record is never a deleted one.                    *)
MapConsistent ==
  /\ ElasticTypeOK /\ BufferFits
  /\ MapTypeOK
  /\ EQ.len = M.len
  /\ EQ.offset + EQ.len = Len(EQ.recs)
  /\ elasticarray_getsize(EQ.EA, RECLEN) = Len(EQ.recs) /\ EQ.EA.size <= EQ.EA.alloc
  /\ EQ.offset <= EQ.len
  /\ IF \E i \in 0 .. INT64_MAX : seqptrmap_get(i) # NULLPTR
     THEN seqptrmap_getmin = Min({i \in 0 .. INT64_MAX : seqptrmap_get(i) # NULLPTR})
     ELSE seqptrmap_getmin = -1

(* Whatever is deleted in whatever order, and however the array moves and   *)
(* shrinks: every integer finds its own pointer until it is deleted.        *)
Present == {i \in 0 .. INT64_MAX : seqptrmap_get(i) # NULLPTR}
AbstractMap == INSTANCE PtrMap WITH
  ptr <- [i \in Present |-> seqptrmap_get(i)], next <- M.offset + M.len
FindsPointers == AbstractMap!Spec
=============================================================================
