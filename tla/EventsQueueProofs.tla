-------------------------- MODULE EventsQueueProofs --------------------------
(***************************************************************************)
(* Proofs about the two sources that queue events themselves, for every    *)
(* number of lists, every set of records and all times.                    *)
(*                                                                         *)
(* EventsImmediate: the lists and minq implement ImmediateQueue.  The step *)
(* that needs the invariant is events_immediate_get: it looks only at the  *)
(* lists from minq up, so that the record it takes is the one the queue    *)
(* promises only because the lists below minq are empty; and               *)
(* events_immediate_cancel unlinks from the list prio names, which is the  *)
(* one that holds the node only by NodeInItsList.                          *)
(*                                                                         *)
(* EventsTimer: a deadline is the sum of the start and the delay, whatever *)
(* the number of microseconds in a second.                                 *)
(***************************************************************************)
EXTENDS EventsImmediate, EventsTimer, SequenceTheorems, TLAPS

(* The record y is in one of the lists. *)
InLists(y) == \E p \in Prios : \E i \in 1 .. Len(heads[p]) : heads[p][i] = y

(* What the lists, minq and the nodes keep among themselves, whoever else   *)
(* allocates records.                                                       *)
ImmCore ==
  /\ ImmTypeOK
  /\ BelowMinqEmpty
  /\ NodeInItsList

(* The component on its own. *)
ImmIInv ==
  /\ ImmCore
  /\ RecTypeOK
  /\ ImmRecordsAccounted

(* The accounting of the records, said with InLists. *)
LEMMA ImmRecordsMeans ==
  ImmRecordsAccounted <=> /\ \A y : InLists(y) => y \in recs /\ y # r
                          /\ \A y \in recs : y = r \/ InLists(y)
                          /\ r # NULL => r \in recs
BY DEF ImmRecordsAccounted, InLists

(* The same of the next state. *)
LEMMA ImmRecordsNext ==
  ASSUME \A y : InLists(y)' => y \in recs' /\ y # r',
         \A y \in recs' : y = r' \/ InLists(y)',
         r' # NULL => r' \in recs'
  PROVE  ImmRecordsAccounted'
BY DEF ImmRecordsAccounted, InLists

(* What TAILQ_REMOVE leaves: every other element, in order. *)
LEMMA RemoveEffect ==
  ASSUME NEW q \in Seq(Recs), NEW i \in 1 .. Len(q)
  PROVE  /\ TAILQ_REMOVE(q, i) \in Seq(Recs)
         /\ Len(TAILQ_REMOVE(q, i)) = Len(q) - 1
         /\ \A k \in 1 .. (Len(q) - 1) :
              TAILQ_REMOVE(q, i)[k] = IF k < i THEN q[k] ELSE q[k + 1]
<1> DEFINE f == TAILQ_REMOVE(q, i)
           n == Len(q) - 1
<1>1. Len(q) \in Nat /\ n \in Nat /\ \A k \in 1 .. Len(q) : q[k] \in Recs
  BY ElementOfSeq, LenProperties
<1>2. f = [k \in 1 .. n |-> IF k < i THEN q[k] ELSE q[k + 1]]
  BY DEF TAILQ_REMOVE
<1>3. f \in [1 .. n -> Recs]
  <2>1. \A k \in 1 .. n : k \in 1 .. Len(q) /\ k + 1 \in 1 .. Len(q)
    BY <1>1
  <2> QED BY <1>1, <1>2, <2>1
<1>4. f \in Seq(Recs)
  BY <1>1, <1>3, SeqDef
<1>5. Len(f) = n
  BY <1>1, <1>3, <1>4, LenProperties
<1> QED BY <1>2, <1>4, <1>5

(* Both modules remove a node in the same way. *)
LEMMA SameRemove == \A q, i : TAILQ_REMOVE(q, i) = ImmPromise!RemoveNth(q, i)
BY DEF TAILQ_REMOVE, ImmPromise!RemoveNth

(* Nothing is registered at first. *)
LEMMA ImmInitOK == ImmInit => ImmCore /\ \A y : ~InLists(y)
<1> SUFFICES ASSUME ImmInit PROVE ImmCore /\ \A y : ~InLists(y)
  OBVIOUS
<1>1. heads \in [Prios -> Seq(Recs)] /\ \A p \in Prios : heads[p] = << >> /\ Len(heads[p]) = 0
  BY EmptySeq DEF ImmInit
<1>2. ImmTypeOK
  BY <1>1, ImmAssumption DEF ImmInit, ImmTypeOK, Prios
<1> QED BY <1>1, <1>2 DEF ImmCore, ImmInit, BelowMinqEmpty, NodeInItsList, InLists

(* events_immediate_register adds its record to the lists and keeps them in *)
(* order.                                                                   *)
LEMMA ImmRegisterStep ==
  ASSUME ImmCore, NEW x \in Recs, NEW p \in Prios, ~InLists(x), events_immediate_register(x, p)
  PROVE  /\ ImmCore' /\ x \notin recs /\ recs' = recs \cup {x} /\ r' = r
         /\ \A y : InLists(y)' <=> InLists(y) \/ y = x
<1>1. /\ x \in Recs \ recs /\ recs' = recs \cup {x} /\ r' = r
      /\ heads' = [heads EXCEPT ![p] = Append(heads[p], x)]
      /\ prio' = [prio EXCEPT ![x] = p]
      /\ minq' = IF p < minq THEN p ELSE minq
  BY DEF events_immediate_register, events_mkrec
<1>2. /\ heads \in [Prios -> Seq(Recs)] /\ prio \in [Recs -> Prios] /\ minq \in 0 .. NPrio
      /\ NPrio \in Nat
  BY ImmAssumption DEF ImmCore, ImmTypeOK
<1>3. /\ \A p2 \in Prios : Len(heads[p2]) \in Nat
      /\ \A p2 \in Prios : p2 # p => heads'[p2] = heads[p2]
      /\ heads'[p] \in Seq(Recs) /\ Len(heads'[p]) = Len(heads[p]) + 1
      /\ heads'[p][Len(heads[p]) + 1] = x
      /\ \A i \in 1 .. Len(heads[p]) : heads'[p][i] = heads[p][i]
  BY <1>1, <1>2, AppendProperties, LenProperties
<1>4. heads' \in [Prios -> Seq(Recs)]
  BY <1>1, <1>2, <1>3
<1>5. \A i \in 1 .. Len(heads'[p]) : i \in 1 .. Len(heads[p]) \/ i = Len(heads[p]) + 1
  BY <1>3
<1>6. \A p2 \in Prios : \A i \in 1 .. Len(heads[p2]) : heads[p2][i] \in Recs /\ heads[p2][i] # x
  <2>1. \A p2 \in Prios : \A i \in 1 .. Len(heads[p2]) : heads[p2][i] \in Recs
    BY <1>2, ElementOfSeq
  <2> QED BY <2>1 DEF InLists
<1>7. \A p2 \in Prios : \A i \in 1 .. Len(heads'[p2]) :
        \/ p2 = p /\ i = Len(heads[p]) + 1 /\ heads'[p2][i] = x
        \/ i \in 1 .. Len(heads[p2]) /\ heads'[p2][i] = heads[p2][i] /\ heads[p2][i] # x
  <2> TAKE p2 \in Prios
  <2> TAKE i \in 1 .. Len(heads'[p2])
  <2>1. CASE p2 # p
    BY <2>1, <1>1, <1>3, <1>6
  <2>2. CASE p2 = p
    BY <2>2, <1>1, <1>3, <1>5, <1>6
  <2> QED BY <2>1, <2>2
<1>8. ImmTypeOK'
  BY <1>1, <1>2, <1>4 DEF ImmTypeOK, Prios
<1>9. BelowMinqEmpty'
  <2> SUFFICES ASSUME NEW p2 \in Prios, p2 < minq' PROVE heads'[p2] = << >>
    BY DEF BelowMinqEmpty
  <2>1. p2 < minq /\ p2 # p
    BY <1>1, <1>2 DEF Prios
  <2> QED BY <2>1, <1>3 DEF ImmCore, BelowMinqEmpty
<1>10. NodeInItsList'
  <2> SUFFICES ASSUME NEW p2 \in Prios, NEW i \in 1 .. Len(heads'[p2])
               PROVE  /\ prio'[heads'[p2][i]] = p2
                      /\ \A k \in 1 .. Len(heads'[p2]) : heads'[p2][k] = heads'[p2][i] => k = i
    BY DEF NodeInItsList
  <2>1. prio'[heads'[p2][i]] = p2
    <3>1. CASE heads'[p2][i] = x
      BY <3>1, <1>1, <1>2, <1>7
    <3>2. CASE heads'[p2][i] # x
      <4>1. i \in 1 .. Len(heads[p2]) /\ heads'[p2][i] = heads[p2][i]
        BY <3>2, <1>7
      <4>2. prio[heads[p2][i]] = p2 /\ heads[p2][i] \in Recs
        BY <4>1, <1>2, <1>6 DEF ImmCore, NodeInItsList
      <4> QED BY <4>1, <4>2, <3>2, <1>1, <1>2
    <3> QED BY <3>1, <3>2
  <2>2. ASSUME NEW k \in 1 .. Len(heads'[p2]), heads'[p2][k] = heads'[p2][i] PROVE k = i
    <3>1. CASE heads'[p2][i] = x
      BY <3>1, <2>2, <1>7
    <3>2. CASE heads'[p2][i] # x
      <4>1. /\ i \in 1 .. Len(heads[p2]) /\ heads'[p2][i] = heads[p2][i]
            /\ k \in 1 .. Len(heads[p2]) /\ heads'[p2][k] = heads[p2][k]
        BY <3>2, <2>2, <1>7
      <4> QED BY <4>1, <2>2 DEF ImmCore, NodeInItsList
    <3> QED BY <3>1, <3>2
  <2> QED BY <2>1, <2>2
<1>11. ASSUME NEW y, InLists(y)' PROVE InLists(y) \/ y = x
  BY <1>7, <1>11 DEF InLists
<1>12. InLists(x)'
  <2>1. Len(heads[p]) + 1 \in 1 .. Len(heads'[p])
    BY <1>3
  <2> QED BY <2>1, <1>3 DEF InLists
<1>13. ASSUME NEW y, InLists(y) PROVE InLists(y)'
  <2>1. PICK p2 \in Prios : \E i \in 1 .. Len(heads[p2]) : heads[p2][i] = y
    BY <1>13 DEF InLists
  <2>2. PICK i \in 1 .. Len(heads[p2]) : heads[p2][i] = y
    BY <2>1
  <2>3. i \in 1 .. Len(heads'[p2]) /\ heads'[p2][i] = y
    BY <2>2, <1>3
  <2> QED BY <2>3 DEF InLists
<1>14. ImmCore'
  BY <1>8, <1>9, <1>10 DEF ImmCore
<1> QED BY <1>1, <1>11, <1>12, <1>13, <1>14

(* Unlinking the i-th node of list p keeps the lists in order, and takes    *)
(* its record, and no other, out of them.                                   *)
LEMMA UnlinkStep ==
  ASSUME ImmCore, NEW p \in Prios, NEW i \in 1 .. Len(heads[p]),
         heads' = [heads EXCEPT ![p] = TAILQ_REMOVE(heads[p], i)],
         prio' = prio
  PROVE  /\ heads' \in [Prios -> Seq(Recs)]
         /\ \A p2 \in Prios : heads[p2] = << >> => heads'[p2] = << >>
         /\ NodeInItsList'
         /\ heads[p][i] \in Recs /\ InLists(heads[p][i])
         /\ \A y : InLists(y)' <=> InLists(y) /\ y # heads[p][i]
<1> DEFINE x == heads[p][i]
<1>1. /\ heads \in [Prios -> Seq(Recs)] /\ \A p2 \in Prios : Len(heads[p2]) \in Nat
  BY LenProperties DEF ImmCore, ImmTypeOK
<1>2. /\ TAILQ_REMOVE(heads[p], i) \in Seq(Recs)
      /\ Len(TAILQ_REMOVE(heads[p], i)) = Len(heads[p]) - 1
      /\ \A k \in 1 .. (Len(heads[p]) - 1) :
           TAILQ_REMOVE(heads[p], i)[k] = IF k < i THEN heads[p][k] ELSE heads[p][k + 1]
  BY <1>1, RemoveEffect
<1>3. /\ heads' \in [Prios -> Seq(Recs)]
      /\ \A p2 \in Prios : p2 # p => heads'[p2] = heads[p2]
      /\ Len(heads'[p]) = Len(heads[p]) - 1
      /\ \A k \in 1 .. Len(heads'[p]) :
           heads'[p][k] = IF k < i THEN heads[p][k] ELSE heads[p][k + 1]
  BY <1>1, <1>2
<1>4. \A p2 \in Prios : heads[p2] = << >> => heads'[p2] = << >>
  <2> SUFFICES ASSUME NEW p2 \in Prios, heads[p2] = << >> PROVE p2 # p
    BY <1>3
  <2> QED BY <1>1, EmptySeq
<1>5. \A k \in 1 .. Len(heads'[p]) :
        k \in 1 .. Len(heads[p]) /\ k + 1 \in 1 .. Len(heads[p])
  BY <1>1, <1>3
<1>6. x \in Recs /\ InLists(x)
  BY <1>1, ElementOfSeq DEF InLists
<1>7. \A p2 \in Prios : \A k \in 1 .. Len(heads[p2]) : heads[p2][k] = x => p2 = p /\ k = i
  BY DEF ImmCore, NodeInItsList
<1>8. ASSUME NEW p2 \in Prios, NEW k \in 1 .. Len(heads'[p2])
      PROVE  \E m \in 1 .. Len(heads[p2]) :
               /\ heads'[p2][k] = heads[p2][m]
               /\ ~(p2 = p /\ m = i)
               /\ m = IF p2 = p /\ ~(k < i) THEN k + 1 ELSE k
  <2>1. CASE p2 # p
    BY <2>1, <1>3
  <2>2. CASE p2 = p /\ k < i
    BY <2>2, <1>3, <1>5
  <2>3. CASE p2 = p /\ ~(k < i)
    <3>1. k + 1 # i
      BY <2>3, <1>1, <1>3
    <3> QED BY <2>3, <3>1, <1>3, <1>5
  <2> QED BY <2>1, <2>2, <2>3
<1>9. NodeInItsList'
  <2> SUFFICES ASSUME NEW p2 \in Prios, NEW k \in 1 .. Len(heads'[p2])
               PROVE  /\ prio[heads'[p2][k]] = p2
                      /\ \A l \in 1 .. Len(heads'[p2]) : heads'[p2][l] = heads'[p2][k] => l = k
    BY DEF NodeInItsList
  <2>1. PICK m \in 1 .. Len(heads[p2]) :
          heads'[p2][k] = heads[p2][m] /\ m = IF p2 = p /\ ~(k < i) THEN k + 1 ELSE k
    BY <1>8
  <2>2. prio[heads'[p2][k]] = p2
    BY <2>1 DEF ImmCore, NodeInItsList
  <2>3. ASSUME NEW l \in 1 .. Len(heads'[p2]), heads'[p2][l] = heads'[p2][k]
        PROVE  l = k
    <3>1. PICK n \in 1 .. Len(heads[p2]) :
            heads'[p2][l] = heads[p2][n] /\ n = IF p2 = p /\ ~(l < i) THEN l + 1 ELSE l
      BY <1>8
    <3>2. n = m
      BY <2>1, <2>3, <3>1 DEF ImmCore, NodeInItsList
    <3> QED BY <2>1, <3>1, <3>2, <1>1
  <2> QED BY <2>2, <2>3
<1>10. ASSUME NEW y, InLists(y)' PROVE InLists(y) /\ y # x
  <2>1. PICK p2 \in Prios : \E k \in 1 .. Len(heads'[p2]) : heads'[p2][k] = y
    BY <1>10 DEF InLists
  <2>2. PICK k \in 1 .. Len(heads'[p2]) : heads'[p2][k] = y
    BY <2>1
  <2>3. PICK m \in 1 .. Len(heads[p2]) : heads'[p2][k] = heads[p2][m] /\ ~(p2 = p /\ m = i)
    BY <1>8
  <2> QED BY <2>2, <2>3, <1>7 DEF InLists
<1>11. ASSUME NEW y, InLists(y), y # x PROVE InLists(y)'
  <2>2. PICK p2 \in Prios : \E m \in 1 .. Len(heads[p2]) : heads[p2][m] = y
    BY <1>11 DEF InLists
  <2>3. PICK m \in 1 .. Len(heads[p2]) : heads[p2][m] = y
    BY <2>2
  <2>4. CASE p2 # p
    BY <2>3, <2>4, <1>3 DEF InLists
  <2>5. CASE p2 = p
    <3>1. m # i
      BY <1>11, <2>3, <2>5
    <3>2. CASE m < i
      <4>1. m \in 1 .. Len(heads'[p])
        BY <3>2, <1>1, <1>3, <2>5
      <4>2. heads'[p][m] = heads[p][m]
        BY <3>2, <4>1, <1>3
      <4> QED BY <4>1, <4>2, <2>3, <2>5 DEF InLists
    <3>3. CASE ~(m < i)
      <4>1. m - 1 \in 1 .. Len(heads'[p]) /\ ~(m - 1 < i) /\ (m - 1) + 1 = m
        BY <3>1, <3>3, <1>1, <1>3, <2>5
      <4>2. heads'[p][m - 1] = heads[p][m]
        BY <4>1, <1>3
      <4> QED BY <4>1, <4>2, <2>3, <2>5 DEF InLists
    <3> QED BY <3>2, <3>3
  <2> QED BY <2>4, <2>5
<1> QED BY <1>3, <1>4, <1>6, <1>9, <1>10, <1>11

(* events_immediate_cancel finds its node in the list prio names. *)
LEMMA ImmCancelFinds ==
  ASSUME ImmCore, NEW x \in Recs, events_immediate_cancel(x)
  PROVE  /\ prio[x] \in Prios
         /\ \E i \in 1 .. Len(heads[prio[x]]) :
              /\ heads[prio[x]][i] = x
              /\ heads' = [heads EXCEPT ![prio[x]] = TAILQ_REMOVE(heads[prio[x]], i)]
         /\ recs' = recs \ {x} /\ prio' = prio /\ minq' = minq /\ r' = r
BY DEF ImmCore, ImmTypeOK, events_immediate_cancel, PositionsOf, events_freerec

(* events_immediate_cancel takes its record out of the lists and keeps them *)
(* in order.                                                                *)
LEMMA ImmCancelStep ==
  ASSUME ImmCore, NEW x \in Recs, events_immediate_cancel(x)
  PROVE  /\ ImmCore' /\ InLists(x) /\ recs' = recs \ {x} /\ r' = r
         /\ \A y : InLists(y)' <=> InLists(y) /\ y # x
<1>1. /\ prio[x] \in Prios
      /\ recs' = recs \ {x} /\ prio' = prio /\ minq' = minq /\ r' = r
  BY ImmCancelFinds
<1>2. PICK i \in 1 .. Len(heads[prio[x]]) :
        /\ heads[prio[x]][i] = x
        /\ heads' = [heads EXCEPT ![prio[x]] = TAILQ_REMOVE(heads[prio[x]], i)]
  BY ImmCancelFinds
<1>3. /\ heads' \in [Prios -> Seq(Recs)]
      /\ \A p2 \in Prios : heads[p2] = << >> => heads'[p2] = << >>
      /\ NodeInItsList'
      /\ InLists(x) /\ \A y : InLists(y)' <=> InLists(y) /\ y # x
  <2> DEFINE z == heads[prio[x]][i]
  <2>1. /\ heads' \in [Prios -> Seq(Recs)]
        /\ \A p2 \in Prios : heads[p2] = << >> => heads'[p2] = << >>
        /\ NodeInItsList'
        /\ InLists(z) /\ \A y : InLists(y)' <=> InLists(y) /\ y # z
    BY <1>1, <1>2, UnlinkStep
  <2>2. z = x
    BY <1>2
  <2> HIDE DEF z
  <2> QED BY <2>1, <2>2
<1>4. ImmTypeOK' /\ BelowMinqEmpty'
  BY <1>1, <1>3 DEF ImmCore, ImmTypeOK, BelowMinqEmpty
<1>5. ImmCore'
  BY <1>3, <1>4 DEF ImmCore
<1> QED BY <1>1, <1>3, <1>5

(* The list events_immediate_get takes from is the first non-empty one of   *)
(* all, not only of those it looked at.                                     *)
LEMMA ImmGetFinds ==
  ASSUME ImmCore, NEW q \in 0 .. NPrio, AdvanceMinq(q)
  PROVE  /\ \A p \in Prios : p < q => heads[p] = << >>
         /\ q < NPrio => /\ q \in Prios
                         /\ heads[q] # << >>
                         /\ 1 \in 1 .. Len(heads[q])
<1>1. NPrio \in Nat /\ minq \in 0 .. NPrio /\ heads \in [Prios -> Seq(Recs)]
  BY ImmAssumption DEF ImmCore, ImmTypeOK
<1>2. ASSUME NEW p \in Prios, p < q PROVE heads[p] = << >>
  <2>1. CASE p < minq
    BY <2>1 DEF ImmCore, BelowMinqEmpty
  <2>2. CASE ~(p < minq)
    <3>1. p \in minq .. (q - 1)
      BY <2>2, <1>1, <1>2 DEF Prios
    <3> QED BY <3>1 DEF AdvanceMinq
  <2> QED BY <2>1, <2>2
<1>3. ASSUME q < NPrio PROVE q \in Prios /\ heads[q] # << >> /\ 1 \in 1 .. Len(heads[q])
  <2>1. q \in Prios /\ heads[q] # << >>
    BY <1>1, <1>3 DEF Prios, AdvanceMinq
  <2>2. Len(heads[q]) \in Nat \ {0}
    BY <2>1, <1>1, EmptySeq
  <2> QED BY <2>1, <2>2
<1> QED BY <1>2, <1>3

(* events_immediate_get takes its record out of the lists and keeps them in *)
(* order.                                                                   *)
LEMMA ImmGetStep ==
  ASSUME ImmCore, NEW q \in Prios, events_immediate_get(q)
  PROVE  /\ ImmCore' /\ r' \in Recs /\ InLists(r') /\ recs' = recs
         /\ \A y : InLists(y)' <=> InLists(y) /\ y # r'
<1>1. /\ q < NPrio /\ AdvanceMinq(q) /\ minq' = q /\ r' = heads[q][1]
      /\ heads' = [heads EXCEPT ![q] = TAILQ_REMOVE(heads[q], 1)]
      /\ prio' = prio /\ recs' = recs
  BY DEF events_immediate_get
<1>2. q \in 0 .. NPrio
  BY ImmAssumption DEF Prios
<1>3. /\ \A p \in Prios : p < q => heads[p] = << >>
      /\ 1 \in 1 .. Len(heads[q])
  BY <1>1, <1>2, ImmGetFinds
<1>4. /\ heads' \in [Prios -> Seq(Recs)]
      /\ \A p2 \in Prios : heads[p2] = << >> => heads'[p2] = << >>
      /\ NodeInItsList'
      /\ heads[q][1] \in Recs /\ InLists(heads[q][1])
      /\ \A y : InLists(y)' <=> InLists(y) /\ y # heads[q][1]
  BY <1>1, <1>3, UnlinkStep
<1>5. ImmTypeOK'
  BY <1>1, <1>2, <1>4 DEF ImmCore, ImmTypeOK
<1>6. BelowMinqEmpty'
  BY <1>1, <1>3, <1>4 DEF BelowMinqEmpty
<1>7. ImmCore'
  BY <1>4, <1>5, <1>6 DEF ImmCore
<1> QED BY <1>1, <1>4, <1>7

(* events_immediate_get returns NULL only when every list is empty. *)
LEMMA ImmGetNoneStep ==
  ASSUME ImmCore, events_immediate_get_none
  PROVE  /\ ImmCore' /\ heads' = heads /\ recs' = recs /\ r' = r
         /\ \A p \in Prios : heads[p] = << >>
         /\ \A y : InLists(y)' <=> InLists(y)
<1>1. AdvanceMinq(NPrio) /\ minq' = NPrio
      /\ heads' = heads /\ prio' = prio /\ recs' = recs /\ r' = r
  BY DEF events_immediate_get_none
<1>2. NPrio \in 0 .. NPrio
  BY ImmAssumption
<1>3. \A p \in Prios : heads[p] = << >>
  <2>1. \A p \in Prios : p < NPrio
    BY ImmAssumption DEF Prios
  <2> QED BY <2>1, <1>1, <1>2, ImmGetFinds
<1>4. ImmCore'
  BY <1>1, <1>2, <1>3 DEF ImmCore, ImmTypeOK, BelowMinqEmpty, NodeInItsList
<1>5. \A y : InLists(y)' <=> InLists(y)
  BY <1>1 DEF InLists
<1> QED BY <1>1, <1>3, <1>4, <1>5

(* Any other step leaves the lists alone. *)
LEMMA ImmOtherStep ==
  ASSUME ImmCore, UNCHANGED immvars
  PROVE  ImmCore' /\ \A y : InLists(y)' <=> InLists(y)
<1>1. heads' = heads /\ prio' = prio /\ minq' = minq
  BY DEF immvars
<1>2. ImmCore'
  BY <1>1 DEF ImmCore, ImmTypeOK, BelowMinqEmpty, NodeInItsList
<1>3. \A y : InLists(y)' <=> InLists(y)
  BY <1>1 DEF InLists
<1> QED BY <1>2, <1>3

(* Every step keeps the invariant. *)
LEMMA ImmNextOK == ImmIInv /\ [ImmNext]_<<immvars, recvars>> => ImmIInv'
<1> SUFFICES ASSUME ImmIInv, [ImmNext]_<<immvars, recvars>> PROVE ImmIInv'
  OBVIOUS
<1>0. /\ ImmCore /\ recs \subseteq Recs /\ r \in Recs \cup {NULL} /\ NULL \notin Recs
      /\ \A y : InLists(y) => y \in recs /\ y # r
      /\ \A y \in recs : y = r \/ InLists(y)
      /\ r # NULL => r \in recs
  BY ImmRecordsMeans, RecsAssumption DEF ImmIInv, RecTypeOK
<1>1. ASSUME NEW x \in Recs, NEW p \in Prios, events_immediate_register(x, p)
      PROVE  ImmIInv'
  <2>1. x \notin recs
    BY <1>1 DEF events_immediate_register, events_mkrec
  <2>2. /\ ImmCore' /\ recs' = recs \cup {x} /\ r' = r
        /\ \A y : InLists(y)' <=> InLists(y) \/ y = x
    BY <2>1, <1>0, <1>1, ImmRegisterStep
  <2>3. ImmRecordsAccounted'
    BY ONLY <2>1, <2>2, <1>0, ImmRecordsNext
  <2> QED BY <2>2, <2>3, <1>0 DEF ImmIInv, RecTypeOK
<1>2. ASSUME NEW x \in Recs, events_immediate_cancel(x) PROVE ImmIInv'
  <2>1. /\ ImmCore' /\ InLists(x) /\ recs' = recs \ {x} /\ r' = r
        /\ \A y : InLists(y)' <=> InLists(y) /\ y # x
    BY <1>0, <1>2, ImmCancelStep
  <2>2. ImmRecordsAccounted'
    BY ONLY <2>1, <1>0, ImmRecordsNext
  <2> QED BY <2>1, <2>2, <1>0 DEF ImmIInv, RecTypeOK
<1>3. ASSUME r = NULL, NEW q \in Prios, events_immediate_get(q) PROVE ImmIInv'
  <2>1. /\ ImmCore' /\ r' \in Recs /\ InLists(r') /\ recs' = recs
        /\ \A y : InLists(y)' <=> InLists(y) /\ y # r'
    BY <1>0, <1>3, ImmGetStep
  <2>2. ImmRecordsAccounted'
    BY ONLY <2>1, <1>0, <1>3, ImmRecordsNext
  <2> QED BY <2>1, <2>2, <1>0 DEF ImmIInv, RecTypeOK
<1>4. ASSUME events_immediate_get_none PROVE ImmIInv'
  <2>1. ImmCore' /\ recs' = recs /\ r' = r /\ \A y : InLists(y)' <=> InLists(y)
    BY <1>0, <1>4, ImmGetNoneStep
  <2>2. ImmRecordsAccounted'
    BY ONLY <2>1, <1>0, ImmRecordsNext
  <2> QED BY <2>1, <2>2, <1>0 DEF ImmIInv, RecTypeOK
<1>5. ASSUME doevent_end, UNCHANGED immvars PROVE ImmIInv'
  <2>1. r # NULL /\ recs' = recs \ {r} /\ r' = NULL
    BY <1>5 DEF doevent_end, events_freerec
  <2>2. ImmCore' /\ \A y : InLists(y)' <=> InLists(y)
    BY <1>0, <1>5, ImmOtherStep
  <2>3. ImmRecordsAccounted'
    BY ONLY <2>1, <2>2, <1>0, ImmRecordsNext
  <2> QED BY <2>1, <2>2, <2>3, <1>0 DEF ImmIInv, RecTypeOK
<1>6. ASSUME UNCHANGED <<immvars, recvars>> PROVE ImmIInv'
  <2>1. ImmCore' /\ recs' = recs /\ r' = r /\ \A y : InLists(y)' <=> InLists(y)
    BY <1>0, <1>6, ImmOtherStep DEF recvars
  <2>2. ImmRecordsAccounted'
    BY ONLY <2>1, <1>0, ImmRecordsNext
  <2> QED BY <2>1, <2>2, <1>0 DEF ImmIInv, RecTypeOK
<1> QED BY <1>1, <1>2, <1>3, <1>4, <1>5, <1>6 DEF ImmNext

(* The inductive invariant always holds. *)
LEMMA ImmInductive == ImmSpec => []ImmIInv
<1>1. ImmStart => ImmIInv
  <2> SUFFICES ASSUME ImmInit, RecInit PROVE ImmIInv
    BY DEF ImmStart
  <2>1. ImmCore /\ \A y : ~InLists(y)
    BY ImmInitOK
  <2> QED BY <2>1, ImmRecordsMeans DEF ImmIInv, RecInit, RecTypeOK
<1> QED BY <1>1, ImmNextOK, PTL DEF ImmSpec

(* The lists, minq and the nodes' prio are always as the comment above minq *)
(* and events_immediate_cancel need them, and no record is lost.            *)
THEOREM ListsCorrect == ImmSpec => []ListsConsistent
<1>1. ImmIInv => ListsConsistent
  BY DEF ImmIInv, ImmCore, ListsConsistent
<1> QED BY <1>1, ImmInductive, PTL

(* A step of the lists is a step of the promised queue, or none. *)
LEMMA ImmStepRefines ==
  ImmIInv /\ [ImmNext]_<<immvars, recvars>> => [ImmPromise!Next]_<<heads, r>>
<1> SUFFICES ASSUME ImmIInv, [ImmNext]_<<immvars, recvars>>
             PROVE  ImmPromise!Next \/ (heads' = heads /\ r' = r)
  OBVIOUS
<1>0. ImmPromise!Prios = Prios
  BY DEF Prios, ImmPromise!Prios
<1>1. ASSUME NEW x \in Recs, NEW p \in Prios, events_immediate_register(x, p)
      PROVE  ImmPromise!Next
  <2>1. \A p2 \in Prios : \A i \in 1 .. Len(heads[p2]) : heads[p2][i] # x
    BY <1>1 DEF ImmIInv, ImmRecordsAccounted, events_immediate_register, events_mkrec
  <2>2. ImmPromise!Register(x, p)
    BY <1>0, <1>1, <2>1 DEF events_immediate_register, ImmPromise!Register
  <2> QED BY <1>0, <2>2 DEF ImmPromise!Next
<1>2. ASSUME NEW x \in Recs, events_immediate_cancel(x)
      PROVE  ImmPromise!Next
  <2>1. prio[x] \in Prios /\ r' = r
    BY <1>2, ImmCancelFinds DEF ImmIInv
  <2>2. PICK i \in 1 .. Len(heads[prio[x]]) :
          /\ heads[prio[x]][i] = x
          /\ heads' = [heads EXCEPT ![prio[x]] = TAILQ_REMOVE(heads[prio[x]], i)]
    BY <1>2, ImmCancelFinds DEF ImmIInv
  <2>3. ImmPromise!Cancel(x)
    BY <1>0, <2>1, <2>2, SameRemove DEF ImmPromise!Cancel
  <2> QED BY <2>3 DEF ImmPromise!Next
<1>3. ASSUME NEW q \in Prios, r = NULL, events_immediate_get(q)
      PROVE  ImmPromise!Next
  <2>1. /\ q < NPrio /\ AdvanceMinq(q) /\ r' = heads[q][1]
        /\ heads' = [heads EXCEPT ![q] = TAILQ_REMOVE(heads[q], 1)]
    BY <1>3 DEF events_immediate_get
  <2>2. q \in 0 .. NPrio /\ \A p \in 0 .. (q - 1) : p \in Prios /\ p < q
    BY ImmAssumption DEF Prios
  <2>3. (\A p \in Prios : p < q => heads[p] = << >>) /\ heads[q] # << >>
    BY <2>1, <2>2, ImmGetFinds DEF ImmIInv
  <2>4. ImmPromise!Run
    BY <1>0, <1>3, <2>1, <2>2, <2>3, SameRemove DEF ImmPromise!Run
  <2> QED BY <2>4 DEF ImmPromise!Next
<1>4. ASSUME events_immediate_get_none PROVE heads' = heads /\ r' = r
  BY <1>4 DEF events_immediate_get_none
<1>5. ASSUME doevent_end, UNCHANGED immvars PROVE ImmPromise!Next
  BY <1>5 DEF doevent_end, immvars, ImmPromise!Next, ImmPromise!Finish
<1>6. ASSUME UNCHANGED <<immvars, recvars>> PROVE heads' = heads /\ r' = r
  BY <1>6 DEF immvars, recvars
<1> QED BY <1>1, <1>2, <1>3, <1>4, <1>5, <1>6 DEF ImmNext

(* Immediate events are run in the promised order: the component implements *)
(* ImmediateQueue.                                                          *)
THEOREM ImplementsPromise == ImmSpec => PromisedOrder
<1>1. ImmStart => ImmPromise!Init
  BY DEF ImmStart, ImmInit, RecInit, ImmPromise!Init, Prios, ImmPromise!Prios
<1> QED BY <1>1, ImmInductive, ImmStepRefines, PTL DEF ImmSpec, PromisedOrder, ImmPromise!Spec

(* events_immediate_get returns NULL only when no event is registered. *)
THEOREM NullCorrect == ImmSpec => []NullMeansEmpty
<1>1. ImmIInv => NullMeansEmpty
  <2> SUFFICES ASSUME ImmIInv, AdvanceMinq(NPrio), NEW p \in Prios PROVE heads[p] = << >>
    BY DEF NullMeansEmpty
  <2>1. minq \in 0 .. NPrio /\ NPrio \in Nat
    BY ImmAssumption DEF ImmIInv, ImmCore, ImmTypeOK
  <2>2. CASE p < minq
    BY <2>2 DEF ImmIInv, ImmCore, BelowMinqEmpty
  <2>3. CASE ~(p < minq)
    BY <2>1, <2>3 DEF AdvanceMinq, Prios
  <2> QED BY <2>2, <2>3
<1> QED BY <1>1, ImmInductive, PTL
----------------------------------------------------------------------------
(* The sum of two times, as gettimeout computes it. *)
Plus(a, b) ==
  LET usec == a.tv_usec + b.tv_usec
      sec == a.tv_sec + b.tv_sec
  IN IF usec >= USEC THEN [tv_sec |-> sec + 1, tv_usec |-> usec - USEC]
     ELSE [tv_sec |-> sec, tv_usec |-> usec]

(* A timer is due its delay after the time it was started, no later than n. *)
TimerOK(t, n) ==
  /\ t.tv = Plus(t.since, t.tv_orig)
  /\ ~Later(t.since, n)

(* What the timers, the queue and the clock keep among themselves, whoever  *)
(* else allocates records.                                                  *)
TimerCore ==
  /\ TimerTypeOK
  /\ timers \in [DOMAIN timers -> TimerRec]
  /\ ~Q => DOMAIN timers = {}
  /\ \A x \in DOMAIN timers : TimerOK(timers[x], now)

(* The component on its own. *)
TimerIInv ==
  /\ TimerCore
  /\ RecTypeOK
  /\ TimerRecordsAccounted
----------------------------------------------------------------------------
(* The arithmetic of struct timeval. *)

LEMMA TimesFields ==
  ASSUME NEW t \in Times
  PROVE  /\ t.tv_sec \in Nat /\ t.tv_usec \in Nat /\ t.tv_usec < USEC
         /\ t = [tv_sec |-> t.tv_sec, tv_usec |-> t.tv_usec]
BY TimerAssumption DEF Times

LEMMA PlusFields ==
  ASSUME NEW a \in Times, NEW b \in Times
  PROVE  /\ Plus(a, b) \in Times
         /\ \/ /\ Plus(a, b).tv_sec = a.tv_sec + b.tv_sec
               /\ Plus(a, b).tv_usec = a.tv_usec + b.tv_usec
               /\ a.tv_usec + b.tv_usec < USEC
            \/ /\ Plus(a, b).tv_sec = a.tv_sec + b.tv_sec + 1
               /\ Plus(a, b).tv_usec = a.tv_usec + b.tv_usec - USEC
               /\ a.tv_usec + b.tv_usec >= USEC
BY TimerAssumption DEF Plus, Times

(* Adding the same delay keeps the order of two times. *)
LEMMA PlusMonotone ==
  ASSUME NEW a \in Times, NEW b \in Times, NEW d \in Times, ~Later(a, b)
  PROVE  ~Later(Plus(a, d), Plus(b, d))
<1>1. /\ USEC \in Nat /\ a.tv_sec \in Nat /\ b.tv_sec \in Nat /\ d.tv_sec \in Nat
      /\ a.tv_usec \in Nat /\ b.tv_usec \in Nat /\ d.tv_usec \in Nat
      /\ a.tv_usec < USEC /\ b.tv_usec < USEC /\ d.tv_usec < USEC
  BY TimerAssumption, TimesFields
<1>2. \/ /\ Plus(a, d).tv_sec = a.tv_sec + d.tv_sec
         /\ Plus(a, d).tv_usec = a.tv_usec + d.tv_usec
         /\ a.tv_usec + d.tv_usec < USEC
      \/ /\ Plus(a, d).tv_sec = a.tv_sec + d.tv_sec + 1
         /\ Plus(a, d).tv_usec = a.tv_usec + d.tv_usec - USEC
         /\ a.tv_usec + d.tv_usec >= USEC
  BY PlusFields
<1>3. \/ /\ Plus(b, d).tv_sec = b.tv_sec + d.tv_sec
         /\ Plus(b, d).tv_usec = b.tv_usec + d.tv_usec
         /\ b.tv_usec + d.tv_usec < USEC
      \/ /\ Plus(b, d).tv_sec = b.tv_sec + d.tv_sec + 1
         /\ Plus(b, d).tv_usec = b.tv_usec + d.tv_usec - USEC
         /\ b.tv_usec + d.tv_usec >= USEC
  BY PlusFields
<1> QED  BY <1>1, <1>2, <1>3 DEF Later

LEMMA LaterFacts ==
  /\ \A a \in Times : ~Later(a, a)
  /\ \A a, b, c \in Times : ~Later(a, b) /\ ~Later(b, c) => ~Later(a, c)
  /\ \A a, b \in Times : ~Later(a, b) /\ ~Later(b, a) => a = b
<1>1. \A a \in Times : ~Later(a, a)
  BY TimesFields DEF Later
<1>2. \A a, b, c \in Times : ~Later(a, b) /\ ~Later(b, c) => ~Later(a, c)
  BY TimesFields DEF Later
<1>3. ASSUME NEW a \in Times, NEW b \in Times, ~Later(a, b), ~Later(b, a) PROVE a = b
  <2>1. a.tv_sec = b.tv_sec /\ a.tv_usec = b.tv_usec
    BY <1>3, TimesFields DEF Later
  <2> QED  BY <2>1, TimesFields
<1> QED  BY <1>1, <1>2, <1>3

LEMMA MicrosType == \A a \in Times : Micros(a) \in Nat
BY TimerAssumption, TimesFields DEF Micros

LEMMA MicrosPlus ==
  ASSUME NEW a \in Times, NEW b \in Times
  PROVE  Micros(Plus(a, b)) = Micros(a) + Micros(b)
<1> DEFINE u == a.tv_sec
           w == b.tv_sec
<1>1. u \in Nat /\ w \in Nat /\ USEC \in Nat /\ a.tv_usec \in Nat /\ b.tv_usec \in Nat
  BY TimerAssumption, TimesFields
<1> HIDE DEF u, w
<1>2. (u + w) * USEC = u * USEC + w * USEC
  BY <1>1
<1>3. (u + w + 1) * USEC = u * USEC + w * USEC + USEC
  BY <1>1
<1>4. u * USEC \in Nat /\ w * USEC \in Nat
  BY <1>1
<1>5. CASE /\ Plus(a, b).tv_sec = u + w
           /\ Plus(a, b).tv_usec = a.tv_usec + b.tv_usec
  BY <1>1, <1>2, <1>4, <1>5 DEF Micros, u, w
<1>6. CASE /\ Plus(a, b).tv_sec = u + w + 1
           /\ Plus(a, b).tv_usec = a.tv_usec + b.tv_usec - USEC
  BY <1>1, <1>3, <1>4, <1>6 DEF Micros, u, w
<1> QED  BY <1>5, <1>6, PlusFields DEF u, w

(* tvcmp compares lengths of time. *)
LEMMA LaterMicros ==
  ASSUME NEW a \in Times, NEW b \in Times
  PROVE  Later(a, b) <=> Micros(a) > Micros(b)
<1>1. /\ a.tv_sec \in Nat /\ b.tv_sec \in Nat /\ USEC \in Nat
      /\ a.tv_usec \in Nat /\ b.tv_usec \in Nat /\ a.tv_usec < USEC /\ b.tv_usec < USEC
  BY TimerAssumption, TimesFields
<1>2. ASSUME NEW x \in Nat, NEW y \in Nat, x > y
      PROVE  x * USEC >= y * USEC + USEC /\ x * USEC \in Nat /\ y * USEC \in Nat
  <2>1. PICK d \in Nat : x = y + 1 + d
    <3>1. x - y - 1 \in Nat /\ x = y + 1 + (x - y - 1)
      BY <1>2
    <3> QED  BY <3>1
  <2>2. d * USEC \in Nat /\ y * USEC \in Nat /\ x * USEC \in Nat
    BY <1>1
  <2>3. (y + 1 + d) * USEC = y * USEC + USEC + d * USEC
    BY <1>1
  <2> QED  BY <2>1, <2>2, <2>3, <1>1
<1>3. CASE a.tv_sec > b.tv_sec
  <2>1. /\ a.tv_sec * USEC >= b.tv_sec * USEC + USEC
        /\ a.tv_sec * USEC \in Nat /\ b.tv_sec * USEC \in Nat
    BY <1>1, <1>2, <1>3
  <2> QED  BY <2>1, <1>1, <1>3 DEF Later, Micros
<1>4. CASE b.tv_sec > a.tv_sec
  <2>1. /\ b.tv_sec * USEC >= a.tv_sec * USEC + USEC
        /\ a.tv_sec * USEC \in Nat /\ b.tv_sec * USEC \in Nat
    BY <1>1, <1>2, <1>4
  <2> QED  BY <2>1, <1>1, <1>4 DEF Later, Micros
<1>5. CASE a.tv_sec = b.tv_sec
  <2>1. a.tv_sec * USEC \in Nat
    BY <1>1
  <2> QED  BY <2>1, <1>1, <1>5 DEF Later, Micros
<1> QED  BY <1>1, <1>3, <1>4, <1>5

(* The clock goes forward. *)
LEMMA TickForward ==
  ASSUME now \in Times, Tick
  PROVE  now' \in Times /\ ~Later(now, now')
BY TimerAssumption DEF Tick, Times, Later

(* What a timer started now looks like. *)
LEMMA Started ==
  ASSUME now \in Times, NEW d \in Times
  PROVE  /\ StartedNow(d) \in TimerRec
         /\ StartedNow(d).tv_orig = d /\ StartedNow(d).since = now
         /\ TimerOK(StartedNow(d), now)
<1>1. gettimeout(d) = Plus(now, d)
  BY DEF gettimeout, Plus
<1>2. Plus(now, d) \in Times
  BY PlusFields
<1>3. StartedNow(d) = [tv |-> Plus(now, d), tv_orig |-> d, since |-> now]
  BY <1>1 DEF StartedNow
<1>4. ~Later(now, now)
  BY LaterFacts
<1> QED  BY <1>2, <1>3, <1>4 DEF TimerRec, TimerOK
----------------------------------------------------------------------------
(* Nothing is registered at first. *)
LEMMA TimerInitOK == TimerInit => TimerCore /\ DOMAIN timers = {}
<1> SUFFICES ASSUME TimerInit PROVE TimerCore /\ DOMAIN timers = {}
  OBVIOUS
<1>1. timers = [x \in {} |-> Zero] /\ now = Zero /\ Q = FALSE
  BY DEF TimerInit
<1>2. DOMAIN timers = {} /\ timers \in [DOMAIN timers -> TimerRec]
  BY <1>1
<1>3. Zero \in Times
  BY TimerAssumption DEF Zero, Times
<1>4. Q \in BOOLEAN
  BY <1>1, Zenon
<1> QED  BY <1>1, <1>2, <1>3, <1>4 DEF TimerCore, TimerTypeOK

(* events_timer_register adds its record to the timers. *)
LEMMA TimerRegisterStep ==
  ASSUME TimerCore, NEW x \in Recs, NEW timeo \in Timeos, events_timer_register(x, timeo)
  PROVE  /\ TimerCore' /\ x \notin recs /\ recs' = recs \cup {x} /\ r' = r /\ now' = now /\ Q'
         /\ DOMAIN timers' = DOMAIN timers \cup {x}
         /\ \A y \in DOMAIN timers : y # x => timers'[y] = timers[y]
<1>1. /\ now \in Times /\ timeo \in Times /\ x \notin recs /\ recs' = recs \cup {x}
      /\ timers \in [DOMAIN timers -> TimerRec] /\ DOMAIN timers \subseteq Recs
      /\ now' = now /\ r' = r /\ Q' = TRUE
      /\ timers' = [y \in DOMAIN timers \cup {x} |-> IF y = x THEN StartedNow(timeo) ELSE timers[y]]
  BY TimerAssumption
     DEF TimerCore, TimerTypeOK, events_timer_register, events_mkrec, timerqueue_add
<1>2. StartedNow(timeo) \in TimerRec /\ TimerOK(StartedNow(timeo), now)
  BY <1>1, Started
<1>3. /\ DOMAIN timers' = DOMAIN timers \cup {x}
      /\ timers' \in [DOMAIN timers \cup {x} -> TimerRec]
      /\ timers'[x] = StartedNow(timeo)
      /\ \A y \in DOMAIN timers : y # x => timers'[y] = timers[y]
  BY <1>1, <1>2
<1>4. \A y \in DOMAIN timers' : TimerOK(timers'[y], now')
  BY <1>1, <1>2, <1>3 DEF TimerCore, TimerOK
<1>5. Q' \in BOOLEAN /\ Q'
  BY <1>1, Zenon
<1>6. TimerTypeOK'
  BY <1>1, <1>3, <1>5 DEF TimerTypeOK
<1>7. TimerCore'
  BY <1>3, <1>4, <1>5, <1>6 DEF TimerCore
<1> QED  BY <1>1, <1>3, <1>5, <1>7

(* Taking a timer out of the queue, to free it or to run it. *)
LEMMA TimerTakeStep ==
  ASSUME TimerCore, NEW x \in DOMAIN timers, timerqueue_delete(x), now' = now, Q' = Q
  PROVE  /\ TimerCore' /\ Q
         /\ DOMAIN timers' = DOMAIN timers \ {x}
         /\ \A y \in DOMAIN timers' : timers'[y] = timers[y]
<1>1. /\ timers \in [DOMAIN timers -> TimerRec] /\ DOMAIN timers \subseteq Recs
      /\ timers' = [y \in DOMAIN timers \ {x} |-> timers[y]]
      /\ Q
  BY DEF TimerCore, TimerTypeOK, timerqueue_delete
<1>2. /\ DOMAIN timers' = DOMAIN timers \ {x}
      /\ timers' \in [DOMAIN timers \ {x} -> TimerRec]
      /\ \A y \in DOMAIN timers' : timers'[y] = timers[y]
  BY <1>1
<1>3. \A y \in DOMAIN timers' : TimerOK(timers'[y], now')
  BY <1>2 DEF TimerCore, TimerOK
<1>4. TimerTypeOK'
  BY <1>1, <1>2 DEF TimerCore, TimerTypeOK
<1>5. TimerCore'
  BY <1>1, <1>2, <1>3, <1>4 DEF TimerCore
<1> QED  BY <1>1, <1>2, <1>5

(* events_timer_reset moves no deadline down. *)
LEMMA TimerResetStep ==
  ASSUME TimerCore, NEW x \in Recs, events_timer_reset(x)
  PROVE  /\ TimerCore' /\ recs' = recs /\ r' = r
         /\ DOMAIN timers' = DOMAIN timers
         /\ \A y \in DOMAIN timers : ~Later(timers[y].tv, timers'[y].tv)
<1> DEFINE t == StartedNow(timers[x].tv_orig)
<1>1. /\ x \in DOMAIN timers /\ now \in Times
      /\ timers \in [DOMAIN timers -> TimerRec] /\ DOMAIN timers \subseteq Recs
      /\ timers' = [timers EXCEPT ![x] = t]
      /\ UNCHANGED <<Q, now, recs, r>>
  BY DEF TimerCore, TimerTypeOK, events_timer_reset, timerqueue_increase
<1>2. \A y \in DOMAIN timers :
        timers[y].tv \in Times /\ timers[y].tv_orig \in Times /\ timers[y].since \in Times
  BY <1>1 DEF TimerRec
<1>3. t \in TimerRec /\ TimerOK(t, now) /\ t.tv_orig = timers[x].tv_orig /\ t.since = now
  BY <1>1, <1>2, Started
<1> HIDE DEF t
<1>4. /\ DOMAIN timers' = DOMAIN timers /\ timers' \in [DOMAIN timers -> TimerRec]
      /\ timers'[x] = t /\ \A y \in DOMAIN timers : y # x => timers'[y] = timers[y]
  BY <1>1, <1>3
<1>5. \A y \in DOMAIN timers' : TimerOK(timers'[y], now')
  BY <1>1, <1>3, <1>4 DEF TimerCore, TimerOK
<1>6. TimerTypeOK' /\ (~Q' => DOMAIN timers' = {})
  BY <1>1, <1>4 DEF TimerCore, TimerTypeOK
<1>7. ~Later(timers[x].tv, t.tv)
  <2>1. timers[x].tv = Plus(timers[x].since, timers[x].tv_orig) /\ ~Later(timers[x].since, now)
    BY <1>1 DEF TimerCore, TimerOK
  <2>2. t.tv = Plus(now, timers[x].tv_orig)
    BY <1>3 DEF TimerOK
  <2> QED  BY <2>1, <2>2, <1>1, <1>2, PlusMonotone
<1>8. \A y \in DOMAIN timers : ~Later(timers[y].tv, timers'[y].tv)
  <2> SUFFICES ASSUME NEW y \in DOMAIN timers PROVE ~Later(timers[y].tv, timers'[y].tv)
    OBVIOUS
  <2>1. CASE y = x
    BY <2>1, <1>4, <1>7
  <2>2. CASE y # x
    <3>1. timers'[y] = timers[y] /\ timers[y].tv \in Times
      BY <2>2, <1>2, <1>4
    <3> QED  BY <3>1, LaterFacts
  <2> QED  BY <2>1, <2>2
<1>9. TimerCore'
  BY <1>4, <1>5, <1>6 DEF TimerCore
<1> QED  BY <1>1, <1>4, <1>8, <1>9

(* The steps that leave the timers alone. *)
LEMMA TimerQuietStep ==
  ASSUME TimerCore,
         \/ events_timer_register_fails
         \/ events_timer_shutdown
         \/ events_timer_get_none
         \/ Tick /\ UNCHANGED <<Q, timers>>
         \/ UNCHANGED timervars
  PROVE  TimerCore' /\ timers' = timers
<1>1. CASE Tick /\ UNCHANGED <<Q, timers>>
  <2>1. now \in Times /\ \A x \in DOMAIN timers : timers[x].since \in Times
    BY DEF TimerCore, TimerTypeOK, TimerRec
  <2>2. now' \in Times /\ ~Later(now, now')
    BY <1>1, <2>1, TickForward
  <2>3. \A x \in DOMAIN timers : TimerOK(timers[x], now')
    BY <1>1, <2>1, <2>2, LaterFacts DEF TimerCore, TimerOK
  <2> QED  BY <1>1, <2>2, <2>3 DEF TimerCore, TimerTypeOK
<1>3. CASE events_timer_register_fails
  <2>1. Q' \in BOOLEAN /\ Q'
    BY <1>3, Zenon DEF events_timer_register_fails
  <2> QED  BY <2>1, <1>3
           DEF events_timer_register_fails, TimerCore, TimerTypeOK, TimerOK
<1>4. CASE events_timer_shutdown
  <2>1. Q' \in BOOLEAN /\ DOMAIN timers = {}
    BY <1>4, Zenon DEF events_timer_shutdown
  <2> QED  BY <2>1, <1>4
           DEF events_timer_shutdown, TimerCore, TimerTypeOK, TimerOK
<1>5. CASE events_timer_get_none \/ UNCHANGED timervars
  BY <1>5 DEF events_timer_get_none, timervars, TimerCore, TimerTypeOK, TimerOK
<1> QED  BY <1>1, <1>3, <1>4, <1>5

(* What events_timer_get does to the timers and the records. *)
LEMMA TimerGetStep ==
  ASSUME TimerCore, NEW x \in Recs, events_timer_get(x)
  PROVE  /\ TimerCore' /\ x \in DOMAIN timers /\ r' = x /\ recs' = recs
         /\ DOMAIN timers' = DOMAIN timers \ {x}
         /\ \A y \in DOMAIN timers' : timers'[y] = timers[y]
<1>1. /\ x \in DOMAIN timers /\ timerqueue_delete(x)
      /\ now' = now /\ Q' = Q /\ r' = x /\ recs' = recs
  BY DEF events_timer_get, timerqueue_getptr, Earliest
<1> QED  BY <1>1, TimerTakeStep

(* What events_timer_cancel does to them. *)
LEMMA TimerCancelStep ==
  ASSUME TimerCore, NEW x \in Recs, events_timer_cancel(x)
  PROVE  /\ TimerCore' /\ x \in DOMAIN timers /\ r' = r /\ recs' = recs \ {x}
         /\ DOMAIN timers' = DOMAIN timers \ {x}
         /\ \A y \in DOMAIN timers' : timers'[y] = timers[y]
<1>1. /\ x \in DOMAIN timers /\ timerqueue_delete(x)
      /\ now' = now /\ Q' = Q /\ r' = r /\ recs' = recs \ {x}
  BY DEF events_timer_cancel, events_freerec
<1> QED  BY <1>1, TimerTakeStep

(* The steps of TimerNext, and the stuttering step. *)
LEMMA TimerStepCases ==
  ASSUME [TimerNext]_<<timervars, recvars>>
  PROVE  \/ \E x \in Recs, timeo \in Timeos : events_timer_register(x, timeo)
         \/ \E x \in Recs : events_timer_cancel(x)
         \/ \E x \in Recs : events_timer_reset(x)
         \/ \E x \in Recs : r = NULL /\ events_timer_get(x)
         \/ /\ timers' = timers
            /\ \/ events_timer_register_fails
               \/ events_timer_shutdown
               \/ events_timer_get_none
               \/ doevent_end /\ UNCHANGED timervars
               \/ Tick /\ UNCHANGED <<Q, timers, recs, r>>
               \/ UNCHANGED <<timervars, recvars>>
<1>1. CASE TimerClient
  BY <1>1 DEF TimerClient, events_timer_register_fails, events_timer_shutdown
<1>2. CASE r = NULL /\ ((\E x \in Recs : events_timer_get(x)) \/ events_timer_get_none)
  BY <1>2 DEF events_timer_get_none, timervars
<1>3. CASE doevent_end /\ UNCHANGED timervars
  BY <1>3 DEF timervars
<1>4. CASE Tick /\ UNCHANGED <<Q, timers, recs, r>>
  BY <1>4
<1>5. CASE UNCHANGED <<timervars, recvars>>
  BY <1>5 DEF timervars
<1> QED  BY <1>1, <1>2, <1>3, <1>4, <1>5, Zenon DEF TimerNext

(* The invariant of the next state, from what a step lemma says of it. *)
LEMMA TimerIInvNext ==
  ASSUME TimerCore', recs' \subseteq Recs, r' \in Recs \cup {NULL},
         recs' = DOMAIN timers' \cup ({r'} \ {NULL}), r' \notin DOMAIN timers'
  PROVE  TimerIInv'
<1>1. ~Q' => DOMAIN timers' = {}
  BY DEF TimerCore
<1>2. TimerRecordsAccounted'
  BY <1>1 DEF TimerRecordsAccounted
<1> QED  BY <1>2 DEF TimerIInv, RecTypeOK

(* Every step keeps the invariant. *)
LEMMA TimerNextOK == TimerIInv /\ [TimerNext]_<<timervars, recvars>> => TimerIInv'
<1> SUFFICES ASSUME TimerIInv, [TimerNext]_<<timervars, recvars>> PROVE TimerIInv'
  OBVIOUS
<1>0. /\ TimerCore /\ recs \subseteq Recs /\ r \in Recs \cup {NULL} /\ NULL \notin Recs
      /\ DOMAIN timers \subseteq Recs
      /\ recs = DOMAIN timers \cup ({r} \ {NULL}) /\ r \notin DOMAIN timers
  BY RecsAssumption DEF TimerIInv, TimerCore, TimerTypeOK, RecTypeOK, TimerRecordsAccounted
<1>1. ASSUME NEW x \in Recs, NEW timeo \in Timeos, events_timer_register(x, timeo)
      PROVE  TimerIInv'
  <2>1. /\ TimerCore' /\ x \notin recs /\ recs' = recs \cup {x} /\ r' = r
        /\ DOMAIN timers' = DOMAIN timers \cup {x}
    BY <1>0, <1>1, TimerRegisterStep
  <2>2. r # x
    BY <1>0, <2>1
  <2>3. recs' = DOMAIN timers' \cup ({r'} \ {NULL})
    BY <1>0, <2>1, Zenon
  <2>4. r' \notin DOMAIN timers'
    BY <1>0, <2>1, <2>2
  <2> QED  BY <2>1, <2>3, <2>4, <1>0, TimerIInvNext
<1>2. ASSUME NEW x \in Recs, events_timer_cancel(x) PROVE TimerIInv'
  <2>1. /\ TimerCore' /\ x \in DOMAIN timers /\ r' = r /\ recs' = recs \ {x}
        /\ DOMAIN timers' = DOMAIN timers \ {x}
    BY <1>0, <1>2, TimerCancelStep
  <2>2. recs' = DOMAIN timers' \cup ({r'} \ {NULL}) /\ r' \notin DOMAIN timers'
    BY <1>0, <2>1
  <2> QED  BY <2>1, <2>2, <1>0, TimerIInvNext
<1>3. ASSUME NEW x \in Recs, events_timer_reset(x) PROVE TimerIInv'
  <2>1. TimerCore' /\ recs' = recs /\ r' = r /\ DOMAIN timers' = DOMAIN timers
    BY <1>0, <1>3, TimerResetStep
  <2> QED  BY <2>1, <1>0, TimerIInvNext
<1>4. ASSUME NEW x \in Recs, r = NULL, events_timer_get(x) PROVE TimerIInv'
  <2>1. /\ TimerCore' /\ x \in DOMAIN timers /\ r' = x /\ recs' = recs
        /\ DOMAIN timers' = DOMAIN timers \ {x}
    BY <1>0, <1>4, TimerGetStep
  <2>2. recs' = DOMAIN timers' \cup ({r'} \ {NULL}) /\ r' \notin DOMAIN timers'
    BY <1>0, <1>4, <2>1
  <2> QED  BY <2>1, <2>2, <1>0, TimerIInvNext
<1>5. ASSUME \/ events_timer_register_fails
             \/ events_timer_shutdown
             \/ events_timer_get_none
             \/ Tick /\ UNCHANGED <<Q, timers, recs, r>>
             \/ UNCHANGED <<timervars, recvars>>
      PROVE  TimerIInv'
  <2>1. TimerCore' /\ timers' = timers
    BY <1>0, <1>5, TimerQuietStep
  <2>2. recs' = recs /\ r' = r
    BY <1>5 DEF events_timer_register_fails, events_timer_shutdown, events_timer_get_none, recvars
  <2> QED  BY <2>1, <2>2, <1>0, TimerIInvNext
<1>6. ASSUME doevent_end, UNCHANGED timervars PROVE TimerIInv'
  <2>1. recs' = recs \ {r} /\ r' = NULL /\ r # NULL
    BY <1>6 DEF doevent_end, events_freerec
  <2>2. TimerCore' /\ timers' = timers
    BY <1>0, <1>6, TimerQuietStep
  <2>3. recs' = DOMAIN timers' \cup ({r'} \ {NULL}) /\ r' \notin DOMAIN timers'
    BY <1>0, <2>1, <2>2
  <2> QED  BY <2>1, <2>2, <2>3, <1>0, TimerIInvNext
<1> QED  BY <1>1, <1>2, <1>3, <1>4, <1>5, <1>6, TimerStepCases

(* The inductive invariant always holds. *)
LEMMA TimerInductive == TimerSpec => []TimerIInv
<1>1. TimerStart => TimerIInv
  <2> SUFFICES ASSUME TimerInit, RecInit PROVE TimerIInv
    BY DEF TimerStart
  <2>1. TimerCore /\ DOMAIN timers = {}
    BY TimerInitOK
  <2>2. recs = {} /\ r = NULL
    BY DEF RecInit
  <2>3. TimerRecordsAccounted
    BY <2>1, <2>2 DEF TimerRecordsAccounted
  <2> QED  BY <2>1, <2>2, <2>3 DEF TimerIInv, RecTypeOK
<1> QED  BY <1>1, TimerNextOK, PTL DEF TimerSpec
----------------------------------------------------------------------------
(* The timers, the queue, the clock and the records keep their types. *)
THEOREM TimerTypeCorrect == TimerSpec => [](TimerTypeOK /\ RecTypeOK)
<1>1. TimerIInv => TimerTypeOK /\ RecTypeOK
  BY DEF TimerIInv, TimerCore
<1> QED  BY <1>1, TimerInductive, PTL

(* No event record is leaked, freed twice or both registered and being run, *)
(* and the queue is never freed with timers in it.                          *)
THEOREM TimerRecordsCorrect == TimerSpec => []TimerRecordsAccounted
<1>1. TimerIInv => TimerRecordsAccounted
  BY DEF TimerIInv
<1> QED  BY <1>1, TimerInductive, PTL

(* gettimeout carries correctly: deadlines are exact to the microsecond. *)
THEOREM DeadlinesCorrect == TimerSpec => []DeadlinesExact
<1>1. TimerIInv => DeadlinesExact
  <2> SUFFICES ASSUME TimerIInv, NEW x \in DOMAIN timers
               PROVE  Micros(timers[x].tv) = Micros(timers[x].since) + Micros(timers[x].tv_orig)
    BY DEF DeadlinesExact
  <2>1. /\ timers[x].since \in Times /\ timers[x].tv_orig \in Times
        /\ timers[x].tv = Plus(timers[x].since, timers[x].tv_orig)
    BY DEF TimerIInv, TimerCore, TimerTypeOK, TimerRec, TimerOK
  <2> QED  BY <2>1, MicrosPlus
<1> QED  BY <1>1, TimerInductive, PTL

(* Deadlines are exact and no record is lost, whatever is registered, reset *)
(* and cancelled.                                                           *)
THEOREM TimersCorrect == TimerSpec => []TimersConsistent
BY TimerTypeCorrect, TimerRecordsCorrect, DeadlinesCorrect, PTL DEF TimersConsistent

(* events_timer_reset may use timerqueue_increase: no deadline decreases. *)
THEOREM ResetCorrect == TimerSpec => ResetOnlyIncreases
<1>1. TimerIInv /\ [TimerNext]_<<timervars, recvars>> =>
        [\A x \in DOMAIN timers \cap DOMAIN timers' :
           ~Later(timers[x].tv, timers'[x].tv)]_<<timervars, recvars>>
  <2> SUFFICES ASSUME TimerIInv, [TimerNext]_<<timervars, recvars>>,
                      NEW x \in DOMAIN timers \cap DOMAIN timers'
               PROVE  ~Later(timers[x].tv, timers'[x].tv)
    OBVIOUS
  <2>1. timers[x].tv \in Times
    BY DEF TimerIInv, TimerCore, TimerTypeOK, TimerRec
  <2>2. CASE timers'[x] = timers[x]
    BY <2>1, <2>2, LaterFacts
  <2>3. ASSUME NEW y \in Recs, events_timer_reset(y) PROVE ~Later(timers[x].tv, timers'[x].tv)
    BY <2>3, TimerResetStep DEF TimerIInv
  <2>4. ASSUME NEW y \in Recs, NEW timeo \in Timeos, events_timer_register(y, timeo)
        PROVE  timers'[x] = timers[x]
    <3>1. y \notin recs /\ x \in recs
      BY <2>4 DEF events_timer_register, events_mkrec, TimerIInv, TimerRecordsAccounted
    <3> QED  BY <3>1, <2>4 DEF events_timer_register, timerqueue_add
  <2>5. ASSUME NEW y \in Recs, timerqueue_delete(y) PROVE timers'[x] = timers[x]
    BY <2>5 DEF timerqueue_delete
  <2>6. ASSUME NEW y \in Recs, events_timer_cancel(y) \/ events_timer_get(y)
        PROVE  timers'[x] = timers[x]
    BY <2>5, <2>6 DEF events_timer_cancel, events_timer_get, timerqueue_getptr
  <2> QED  BY <2>2, <2>3, <2>4, <2>6, TimerStepCases
<1> QED  BY <1>1, TimerInductive, PTL DEF TimerSpec, ResetOnlyIncreases

(* No timer runs early, and none overtakes one that was due before it. *)
THEOREM NeverEarlyCorrect == TimerSpec => NeverEarlyEarliestFirst
<1> DEFINE Due(x) == Micros(timers[x].since) + Micros(timers[x].tv_orig)
<1>1. ASSUME TimerIInv, [TimerNext]_<<timervars, recvars>>, NEW x \in DOMAIN timers, r' = x, r # x
      PROVE  Micros(now) >= Due(x) /\ \A y \in DOMAIN timers : Due(x) <= Due(y)
  <2>1. x \in Recs /\ now \in Times
    BY <1>1 DEF TimerIInv, TimerCore, TimerTypeOK
  <2>2. events_timer_get(x)
    <3>1. x # NULL
      BY <2>1, RecsAssumption
    <3>2. r' = NULL \/ r' = r \/ events_timer_get(x)
      BY <1>1, TimerStepCases
      DEF events_timer_register, events_timer_cancel, events_timer_reset, events_timer_get,
          events_timer_register_fails, events_timer_shutdown, events_timer_get_none,
          doevent_end, recvars
    <3> QED  BY <3>1, <3>2, <1>1
  <2>3. \A y \in DOMAIN timers :
          timers[y].tv \in Times /\ Micros(timers[y].tv) = Due(y)
    <3> SUFFICES ASSUME NEW y \in DOMAIN timers
                 PROVE  timers[y].tv \in Times /\ Micros(timers[y].tv) = Due(y)
      OBVIOUS
    <3>1. /\ timers[y].since \in Times /\ timers[y].tv_orig \in Times /\ timers[y].tv \in Times
          /\ timers[y].tv = Plus(timers[y].since, timers[y].tv_orig)
      BY <1>1 DEF TimerIInv, TimerCore, TimerTypeOK, TimerRec, TimerOK
    <3> QED  BY <3>1, MicrosPlus
  <2>4. ~Later(timers[x].tv, now) /\ \A y \in DOMAIN timers : ~Later(timers[x].tv, timers[y].tv)
    BY <2>2 DEF events_timer_get, timerqueue_getptr, Earliest
  <2> HIDE DEF Due
  <2>5. ASSUME NEW a \in Times, NEW b \in Times, ~Later(a, b) PROVE Micros(a) <= Micros(b)
    BY <2>5, LaterMicros, MicrosType
  <2>6. Due(x) <= Micros(now)
    BY <2>1, <2>3, <2>4, <2>5
  <2>7. \A y \in DOMAIN timers : Due(x) <= Due(y)
    BY <2>3, <2>4, <2>5
  <2>8. Micros(now) \in Nat /\ Due(x) \in Nat
    BY <2>1, <2>3, MicrosType
  <2> QED  BY <2>6, <2>7, <2>8
<1>2. TimerIInv /\ [TimerNext]_<<timervars, recvars>> =>
        [\A x \in DOMAIN timers : r' = x /\ r # x =>
           /\ Micros(now) >= Micros(timers[x].since) + Micros(timers[x].tv_orig)
           /\ \A y \in DOMAIN timers :
                Micros(timers[x].since) + Micros(timers[x].tv_orig)
                  <= Micros(timers[y].since) + Micros(timers[y].tv_orig)]_<<timervars, recvars>>
  BY <1>1
<1> QED  BY <1>2, TimerInductive, PTL DEF TimerSpec, NeverEarlyEarliestFirst
----------------------------------------------------------------------------
(* The wait for a deadline ends at the deadline. *)
LEMMA WaitExact ==
  ASSUME now \in Times, NEW d \in Times
  PROVE  /\ TimeUntil(d) \in Times
         /\ Micros(now) > Micros(d) => TimeUntil(d) = Zero
         /\ ~(Micros(now) > Micros(d)) => Micros(now) + Micros(TimeUntil(d)) = Micros(d)
<1> DEFINE w == TimeUntil(d)
<1>1. /\ now.tv_sec \in Nat /\ d.tv_sec \in Nat /\ USEC \in Nat
      /\ now.tv_usec \in Nat /\ d.tv_usec \in Nat /\ now.tv_usec < USEC /\ d.tv_usec < USEC
      /\ USEC > 0
  BY TimerAssumption, TimesFields
<1>2. CASE Later(now, d)
  <2>1. w = Zero /\ Zero \in Times
    BY <1>1, <1>2 DEF TimeUntil, Zero, Times
  <2> QED  BY <1>2, <2>1, LaterMicros
<1>3. CASE ~Later(now, d)
  <2>1. w \in Times /\ Plus(now, w) = d
    <3>1. CASE d.tv_usec < now.tv_usec
      <4>1. /\ w = [tv_sec |-> d.tv_sec - now.tv_sec - 1,
                    tv_usec |-> d.tv_usec - now.tv_usec + USEC]
            /\ d.tv_sec > now.tv_sec
        BY <1>1, <1>3, <3>1 DEF TimeUntil, Later
      <4> HIDE DEF w
      <4>2. w \in Times
        BY <4>1, <1>1, <3>1 DEF Times
      <4> QED  BY <4>1, <4>2, <1>1, <3>1, TimesFields DEF Plus
    <3>2. CASE ~(d.tv_usec < now.tv_usec)
      <4>1. /\ w = [tv_sec |-> d.tv_sec - now.tv_sec, tv_usec |-> d.tv_usec - now.tv_usec]
            /\ d.tv_sec >= now.tv_sec
        BY <1>1, <1>3, <3>2 DEF TimeUntil, Later
      <4> HIDE DEF w
      <4>2. w \in Times
        BY <4>1, <1>1, <3>2 DEF Times
      <4> QED  BY <4>1, <4>2, <1>1, <3>2, TimesFields DEF Plus
    <3> QED  BY <3>1, <3>2
  <2> HIDE DEF w
  <2>2. Micros(now) + Micros(w) = Micros(d)
    BY <2>1, MicrosPlus
  <2> QED  BY <1>3, <2>1, <2>2, LaterMicros DEF w
<1> QED  BY <1>2, <1>3

(* poll is told to wait until the earliest deadline, and no longer. *)
THEOREM WaitCorrect == TimerSpec => []WaitEndsAtDeadline
<1>1. TimerIInv => WaitEndsAtDeadline
  <2> SUFFICES ASSUME TimerIInv, NEW x \in Earliest
               PROVE  /\ TimeUntil(timers[x].tv) \in Times
                      /\ IF Micros(now) > Micros(timers[x].tv) THEN TimeUntil(timers[x].tv) = Zero
                         ELSE Micros(now) + Micros(TimeUntil(timers[x].tv)) = Micros(timers[x].tv)
                      /\ events_timer_min = {TimeUntil(timers[x].tv)}
    BY DEF WaitEndsAtDeadline
  <2>1. now \in Times /\ \A y \in DOMAIN timers : timers[y].tv \in Times
    BY DEF TimerIInv, TimerCore, TimerTypeOK, TimerRec
  <2>2. Earliest \subseteq DOMAIN timers
    BY DEF Earliest
  <2>3. \A y \in Earliest : timers[y].tv = timers[x].tv
    <3> SUFFICES ASSUME NEW y \in Earliest PROVE timers[y].tv = timers[x].tv
      OBVIOUS
    <3>1. ~Later(timers[y].tv, timers[x].tv) /\ ~Later(timers[x].tv, timers[y].tv)
      BY <2>2 DEF Earliest
    <3> QED  BY <3>1, <2>1, <2>2, LaterFacts
  <2>4. events_timer_min = {TimeUntil(timers[x].tv)}
    <3>1. events_timer_min = {TimeUntil(timers[y].tv) : y \in Earliest}
      BY DEF events_timer_min
    <3>2. \A e : e \in events_timer_min => e = TimeUntil(timers[x].tv)
      BY <3>1, <2>3
    <3>3. TimeUntil(timers[x].tv) \in events_timer_min
      BY <3>1
    <3> QED  BY <3>2, <3>3, Zenon
  <2>5. timers[x].tv \in Times
    BY <2>1, <2>2
  <2> QED  BY <2>1, <2>4, <2>5, WaitExact
<1> QED  BY <1>1, TimerInductive, PTL
=============================================================================
