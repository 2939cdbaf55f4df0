-------------------------------- MODULE MPool --------------------------------
(***************************************************************************)
(* Memory pools (datastruct/mpool.h): a stack of freed objects in front of *)
(* malloc, which doubles when malloc was needed too often.                 *)
(***************************************************************************)
EXTENDS Integers, Sequences, SequencesExt

CONSTANTS
  Objs,      \* the objects malloc gives out
  POOLSIZE,  \* the size of the static stack
  MaxAlloc,  \* the largest allocsize whose doubling does not overflow
  RATIO,     \* requests per request that may find the stack empty (256 in the source)
  WORD       \* nallocs and nempties wrap at this (2^64 in the source)

ASSUME PoolAssumption == {POOLSIZE, MaxAlloc, RATIO, WORD} \subseteq Nat \ {0}

VARIABLES
  allocs,     \* the stack
  allocsize,  \* the size of the array it is in
  onheap,     \* that array was allocated
  nallocs, nempties,
  pstate,     \* the atexit function was registered
  malloced,   \* the objects that malloc has given out
  lent,       \* the objects in the hands of clients
  exited      \* mpool_atexit has run

poolvars == <<allocs, allocsize, onheap, nallocs, nempties, pstate, malloced, lent, exited>>

PoolTypeOK ==
  /\ allocs \in Seq(Objs) /\ allocsize \in Nat /\ onheap \in BOOLEAN
  /\ nallocs \in 0 .. WORD - 1 /\ nempties \in 0 .. WORD - 1
  /\ pstate \in {0, 1} /\ exited \in BOOLEAN
  /\ malloced \subseteq Objs /\ lent \subseteq Objs

PoolInit ==
  /\ allocs = <<>> /\ allocsize = POOLSIZE /\ onheap = FALSE
  /\ nallocs = 0 /\ nempties = 0 /\ pstate = 0
  /\ malloced = {} /\ lent = {} /\ exited = FALSE

(* mpool_malloc takes the object on top of the stack. *)
mpool_malloc_cached ==
  /\ ~exited /\ allocs # <<>>
  /\ nallocs' = (nallocs + 1) % WORD
  /\ lent' = lent \cup {Last(allocs)}
  /\ allocs' = Front(allocs)
  /\ UNCHANGED <<allocsize, onheap, nempties, pstate, malloced, exited>>

(* mpool_malloc with an empty stack calls malloc; it fails if that does, or *)
(* if the atexit function cannot be registered.                             *)
mpool_malloc_empty(p) ==
  /\ ~exited /\ allocs = <<>>
  /\ nallocs' = (nallocs + 1) % WORD
  /\ nempties' = (nempties + 1) % WORD
  /\ \/ /\ p \in Objs \ malloced
        /\ malloced' = malloced \cup {p} /\ lent' = lent \cup {p}
        /\ pstate' = 1
     \/ UNCHANGED <<malloced, lent>> /\ pstate' \in {pstate, 1}
  /\ UNCHANGED <<allocs, allocsize, onheap, exited>>

(* mpool_free puts the object on the stack if there is space, makes space   *)
(* if malloc was called for more than 1/RATIO of the requests and a larger  *)
(* stack can be had, or else frees it.                                      *)
mpool_free(p) ==
  /\ ~exited /\ p \in lent
  /\ lent' = lent \ {p}
  /\ UNCHANGED <<pstate, exited>>
  /\ \/ /\ Len(allocs) < allocsize
        /\ allocs' = Append(allocs, p)
        /\ UNCHANGED <<allocsize, onheap, nallocs, nempties, malloced>>
     \/ /\ Len(allocs) >= allocsize
        /\ nallocs' = 0 /\ nempties' = 0
        /\ \/ /\ nempties > nallocs \div RATIO /\ allocsize <= MaxAlloc
              /\ allocsize' = allocsize * 2 /\ onheap' = TRUE
              /\ allocs' = Append(allocs, p)
              /\ UNCHANGED malloced
           \/ /\ malloced' = malloced \ {p}
              /\ UNCHANGED <<allocs, allocsize, onheap>>

(* Mutant: one object too few is freed. *)
mpool_atexit_off_by_one ==
  /\ ~exited /\ pstate = 1
  /\ malloced' = malloced \ {allocs[i] : i \in 2 .. Len(allocs)}
  /\ allocs' = <<>>
  /\ exited' = TRUE
  /\ UNCHANGED <<allocsize, onheap, nallocs, nempties, pstate, lent>>

(* mpool_atexit, run at exit if it was registered. *)
mpool_atexit ==
  /\ ~exited /\ pstate = 1
  /\ malloced' = malloced \ ToSet(allocs)
  /\ allocs' = <<>>
  /\ exited' = TRUE
  /\ UNCHANGED <<allocsize, onheap, nallocs, nempties, pstate, lent>>

PoolNext ==
  \/ mpool_malloc_cached
  \/ \E p \in Objs : mpool_malloc_empty(p) \/ mpool_free(p)
  \/ mpool_atexit

PoolSpec == PoolInit /\ [][PoolNext]_poolvars
----------------------------------------------------------------------------
(* An object is on the stack once or in the hands of a client, never both,  *)
(* so that no two clients are given the same; the stack stays in its array; *)
(* the array is the static one until it was doubled, and nothing that was   *)
(* allocated is forgotten: after exit only what clients hold is left.       *)
PoolAccounted ==
  /\ PoolTypeOK
  /\ IsInjective(allocs) /\ ToSet(allocs) \cap lent = {}
  /\ malloced = ToSet(allocs) \cup lent
  /\ Len(allocs) <= allocsize
  /\ onheap = (allocsize > POOLSIZE)
  /\ malloced # {} => pstate = 1
=============================================================================
