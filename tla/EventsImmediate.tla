--------------------------- MODULE EventsImmediate ---------------------------
(***************************************************************************)
(* Immediate events (events/events_immediate.c): one linked list per prio  *)
(* value and minq, below which every list is empty.  A list node is        *)
(* identified with the record it carries, so that the cookie the client    *)
(* holds is the record itself; prio is the node's prio member, which       *)
(* events_immediate_cancel trusts to find the list.                        *)
(***************************************************************************)
EXTENDS EventRec, Sequences

CONSTANT NPrio  \* number of lists (32 in the source)

ASSUME ImmAssumption == NPrio \in Nat \ {0}

VARIABLES
  heads,  \* the lists
  prio,   \* q->prio of the node that carries a record
  minq    \* for p < minq, heads[p] is empty

immvars == <<heads, prio, minq>>

Prios == 0 .. (NPrio - 1)

ImmTypeOK ==
  /\ heads \in [Prios -> Seq(Recs)]
  /\ prio \in [Recs -> Prios]
  /\ minq \in 0 .. NPrio

(* prio of an unused node is arbitrary: 0 stands for it. *)
ImmInit ==
  /\ heads = [p \in Prios |-> << >>]
  /\ prio = [x \in Recs |-> 0]
  /\ minq = NPrio

(* The positions of record x in the list q. *)
PositionsOf(q, x) == {i \in 1 .. Len(q) : q[i] = x}

(* TAILQ_REMOVE of the i-th node of q. *)
TAILQ_REMOVE(q, i) ==
  [k \in 1 .. (Len(q) - 1) |-> IF k < i THEN q[k] ELSE q[k + 1]]
----------------------------------------------------------------------------
(* Mutants: the node is given the wrong prio; it is inserted at the head of *)
(* its list.                                                                *)
events_immediate_register_prio(x, p) ==
  /\ events_mkrec(x)
  /\ heads' = [heads EXCEPT ![p] = Append(heads[p], x)]
  /\ minq' = IF p < minq THEN p ELSE minq
  /\ UNCHANGED <<prio, r>>

events_immediate_register_head(x, p) ==
  /\ events_mkrec(x)
  /\ heads' = [heads EXCEPT ![p] = <<x>> \o heads[p]]
  /\ prio' = [prio EXCEPT ![x] = p]
  /\ minq' = IF p < minq THEN p ELSE minq
  /\ UNCHANGED r

(* events_immediate_register(func, cookie, p): the assertion on p holds.    *)
(* A failing allocation, of the record or of the node after it, leaves      *)
(* everything as it was.                                                    *)
events_immediate_register(x, p) ==
  /\ events_mkrec(x)
  /\ heads' = [heads EXCEPT ![p] = Append(heads[p], x)]
  /\ prio' = [prio EXCEPT ![x] = p]
  /\ minq' = IF p < minq THEN p ELSE minq
  /\ UNCHANGED r

(* events_immediate_cancel(cookie), for a node that is registered: the      *)
(* node is unlinked from the list its prio names.                           *)
events_immediate_cancel(x) ==
  /\ \E p \in Prios : PositionsOf(heads[p], x) # {}
  /\ \E i \in PositionsOf(heads[prio[x]], x) :
       heads' = [heads EXCEPT ![prio[x]] = TAILQ_REMOVE(heads[prio[x]], i)]
  /\ events_freerec(x)
  /\ UNCHANGED <<prio, minq, r>>

(* The first loop of events_immediate_get leaves minq at q. *)
AdvanceMinq(q) ==
  /\ q \in minq .. NPrio
  /\ \A p \in minq .. (q - 1) : heads[p] = << >>
  /\ q < NPrio => heads[q] # << >>

(* events_immediate_get returns the first record of list q. *)
events_immediate_get(q) ==
  /\ q < NPrio
  /\ AdvanceMinq(q)
  /\ minq' = q
  /\ r' = heads[q][1]
  /\ heads' = [heads EXCEPT ![q] = TAILQ_REMOVE(heads[q], 1)]
  /\ UNCHANGED <<prio, recs>>

(* events_immediate_get returns NULL. *)
events_immediate_get_none ==
  /\ AdvanceMinq(NPrio)
  /\ minq' = NPrio
  /\ UNCHANGED <<heads, prio, recs, r>>
----------------------------------------------------------------------------
(* The component on its own, under any client. *)
ImmNext ==
  \/ \E x \in Recs : (\E p \in Prios : events_immediate_register(x, p))
                     \/ events_immediate_cancel(x)
  \/ r = NULL /\ (\/ \E q \in Prios : events_immediate_get(q)
                  \/ events_immediate_get_none)
  \/ doevent_end /\ UNCHANGED immvars

ImmStart == ImmInit /\ RecInit

ImmSpec == ImmStart /\ [][ImmNext]_<<immvars, recvars>>
----------------------------------------------------------------------------
(* The comment above minq: for p < minq, heads[p] is empty.  If it failed,  *)
(* events_immediate_get would pass over an event for ever.                  *)
BelowMinqEmpty == \A p \in Prios : p < minq => heads[p] = << >>

(* A record is in one list, at one position, and that list is the one its   *)
(* node's prio names: events_immediate_cancel unlinks from the right list.  *)
NodeInItsList ==
  \A p \in Prios : \A i \in 1 .. Len(heads[p]) :
    /\ prio[heads[p][i]] = p
    /\ \A k \in 1 .. Len(heads[p]) : heads[p][k] = heads[p][i] => k = i

(* The allocated records are those in the lists and the one being run,      *)
(* which is in no list.                                                     *)
ImmRecordsAccounted ==
  /\ \A p \in Prios : \A i \in 1 .. Len(heads[p]) :
       heads[p][i] \in recs /\ heads[p][i] # r
  /\ \A x \in recs : x = r \/ \E p \in Prios : \E i \in 1 .. Len(heads[p]) : heads[p][i] = x
  /\ r # NULL => r \in recs

(* The three together: minq, the lists and the nodes are consistent.        *)
ListsConsistent ==
  /\ BelowMinqEmpty
  /\ NodeInItsList
  /\ ImmRecordsAccounted

(* The lists with their minq implement the promised queue: smallest prio    *)
(* first, first registered first.                                           *)
ImmPromise == INSTANCE ImmediateQueue WITH pending <- heads
PromisedOrder == ImmPromise!Spec

(* Where events_immediate_get would return NULL, every list is empty: no    *)
(* registered event is overlooked.                                          *)
NullMeansEmpty == AdvanceMinq(NPrio) => \A p \in Prios : heads[p] = << >>
=============================================================================
