------------------------------ MODULE EventRec ------------------------------
(***************************************************************************)
(* Event records (events/events.c).  An event source keeps a record per    *)
(* registered event; events_run_internal() takes a record out of a source, *)
(* holds it in its local variable r, runs its callback and frees it.       *)
(*                                                                         *)
(* The pair (func, cookie) of a record is abstracted to the identity of    *)
(* the record: two records are told apart exactly when they are different  *)
(* registrations.                                                          *)
(***************************************************************************)
EXTENDS Null, Integers

CONSTANT Recs  \* the eventrec structures the pool can hand out

ASSUME RecsAssumption == NULL \notin Recs

VARIABLES
  recs,   \* the records that are allocated
  r       \* the record held by events_run_internal, or NULL

recvars == <<recs, r>>

RecTypeOK ==
  /\ recs \subseteq Recs
  /\ r \in Recs \cup {NULL}

RecInit ==
  /\ recs = {}
  /\ r = NULL

(* events_mkrec: x is the structure mpool_eventrec_malloc returns.  The     *)
(* failure of the allocation is a case of the operations that call it.     *)
events_mkrec(x) ==
  /\ x \in Recs \ recs
  /\ recs' = recs \cup {x}

(* events_freerec *)
events_freerec(x) ==
  recs' = recs \ {x}

(* Mutant: doevent forgets to free the record. *)
doevent_end_leaks ==
  /\ r # NULL
  /\ r' = NULL
  /\ UNCHANGED recs

(* The end of doevent: the callback of r has returned, r is freed. *)
doevent_end ==
  /\ r # NULL
  /\ events_freerec(r)
  /\ r' = NULL
=============================================================================
