------------------------ MODULE EventsNetworkProofs ------------------------
(***************************************************************************)
(* Proofs about EventsNetwork, for every number of descriptors, every      *)
(* initial allocation and every set of records.                            *)
(*                                                                         *)
(* The invariants the source lists in a comment are not inductive one by   *)
(* one: clearbit moves a pollfd on the strength of all of them at once.    *)
(* ArraysOK gathers the ones about S and fds, as a predicate on any pair   *)
(* of arrays, so that the effect of each helper is one lemma.              *)
(***************************************************************************)
EXTENDS EventsNetwork, FiniteSetTheorems, TLAPS

ArraysTyped(sl, so, n, f) ==
  /\ sl \in 0 .. MaxFd
  /\ n \in Nat
  /\ so \in [0 .. (sl - 1) -> SocketRec]
  /\ f \in [0 .. (n - 1) -> PollFd]

ArraysLinked(sl, so, n, f) ==
  /\ \A i \in 0 .. (sl - 1) :
       so[i].pollpos # SIZE_MAX =>
         /\ so[i].pollpos < n
         /\ f[so[i].pollpos].fd = i
  /\ \A j \in 0 .. (n - 1) :
       /\ f[j].fd < sl
       /\ so[f[j].fd].pollpos = j

ArraysAgree(sl, so, n, f) ==
  /\ \A i \in 0 .. (sl - 1) :
       so[i].pollpos # SIZE_MAX <=> \E op \in Ops : so[i].ev[op] # NULL
  /\ \A j \in 0 .. (n - 1), op \in Ops :
       op \in f[j].events <=> so[f[j].fd].ev[op] # NULL
  /\ \A j \in 0 .. (n - 1) : f[j].revents \cap Ops \subseteq f[j].events

ArraysOK(sl, so, n, f) ==
  /\ ArraysTyped(sl, so, n, f)
  /\ ArraysLinked(sl, so, n, f)
  /\ ArraysAgree(sl, so, n, f)

(* What the reports noted in f and the history rd have to do with each      *)
(* other; sc is the scan position.                                          *)
ReportsOK(sl, so, n, f, sc, rd) ==
  /\ \A j \in 0 .. (n - 1) : f[j].revents # {} => j <= sc /\ sc # SIZE_MAX
  /\ \A i \in Fds, op \in Ops :
       <<i, op>> \in rd => /\ i < sl
                          /\ so[i].pollpos < n
                          /\ op \in f[so[i].pollpos].revents
  /\ \A j \in 0 .. (n - 1) : \A b \in f[j].revents :
       <<f[j].fd, b>> \in rd \/ <<f[j].fd, "ERR">> \in rd

(* The inductive invariant. *)
Arrays == ArraysOK(slen, S, nfds, fds)

RestTyped ==
  /\ inited \in BOOLEAN
  /\ fds_alloc \in Nat
  /\ fdscanpos \in Nat
  /\ running \in BOOLEAN
  /\ ready \subseteq Fds \X PollBits

Reports == ReportsOK(slen, S, nfds, fds, fdscanpos, ready)

(* The record y is registered; a registered record has one place. *)
InSockets(y) == \E i \in 0 .. (slen - 1), op \in Ops : S[i].ev[op] = y

OnePlace ==
  \A i \in 0 .. (slen - 1), op \in Ops :
    S[i].ev[op] # NULL =>
      \A k \in 0 .. (slen - 1), o \in Ops : S[k].ev[o] = S[i].ev[op] => k = i /\ o = op

(* What the operations keep whatever else allocates records: the event loop *)
(* shares them between its sources.                                         *)
NetCore ==
  /\ RestTyped
  /\ Arrays
  /\ Reports
  /\ OnePlace
  /\ ClockOnlyWithEvents
  /\ AllocationOK

NetIInv ==
  /\ RecTypeOK
  /\ NetCore
  /\ RecordsAccounted

----------------------------------------------------------------------------
(* The pollfd array cannot outgrow the descriptors: two pollfds for one     *)
(* descriptor would both be where its pollpos points.                       *)
LEMMA ArraysFit ==
  ASSUME NEW sl, NEW so, NEW n, NEW f, ArraysOK(sl, so, n, f)
  PROVE  n <= MaxFd /\ n < SIZE_MAX
<1>1. /\ n \in Nat /\ MaxFd \in Nat \ {0} /\ SIZE_MAX \in Nat /\ SIZE_MAX > MaxFd
      /\ f \in [0 .. (n - 1) -> PollFd]
  BY NetAssumption DEF ArraysOK, ArraysTyped
<1>2. ASSUME n > MaxFd PROVE FALSE
  <2>1. DEFINE D == 0 .. (n - 1)
               g == [j \in D |-> f[j].fd]
  <2>2. g \in [D -> Fds]
    BY <1>1 DEF PollFd
  <2>3. /\ IsFiniteSet(D) /\ IsFiniteSet(Fds)
        /\ Cardinality(D) = n /\ Cardinality(Fds) = MaxFd
    <3>0. 0 \in Int /\ n - 1 \in Int /\ MaxFd - 1 \in Int
      BY <1>1
    <3>1. IsFiniteSet(D) /\ Cardinality(D) = IF 0 > n - 1 THEN 0 ELSE (n - 1) - 0 + 1
      BY ONLY <3>0, FS_Interval
    <3>2. IsFiniteSet(Fds) /\ Cardinality(Fds) = IF 0 > MaxFd - 1 THEN 0 ELSE (MaxFd - 1) - 0 + 1
      BY ONLY <3>0, FS_Interval DEF Fds
    <3> QED BY <3>1, <3>2, <1>1
  <2>4. Cardinality(Fds) < Cardinality(D)
    BY <2>3, <1>2, <1>1
  <2>5. \E x, y \in D : x # y /\ g[x] = g[y]
    <3> HIDE DEF D, g
    <3> QED BY <2>2, <2>3, <2>4, FS_PigeonHole
  <2>6. PICK x, y \in D : x # y /\ f[x].fd = f[y].fd
    BY <2>5
  <2>7. so[f[x].fd].pollpos = x /\ so[f[y].fd].pollpos = y
    BY <2>6 DEF ArraysOK, ArraysLinked
  <2> QED BY <2>6, <2>7
<1> QED BY <1>1, <1>2

(* Replacing a record keeps the types, and every other record. *)
LEMMA SetEventEffect ==
  ASSUME NEW sl \in 0 .. MaxFd, NEW so \in [0 .. (sl - 1) -> SocketRec],
         NEW s \in 0 .. (sl - 1), NEW op \in Ops, NEW x \in Recs \cup {NULL}
  PROVE  /\ SetEvent(so, s, op, x) \in [0 .. (sl - 1) -> SocketRec]
         /\ \A i \in 0 .. (sl - 1) :
              /\ SetEvent(so, s, op, x)[i].pollpos = so[i].pollpos
              /\ \A o \in Ops :
                   SetEvent(so, s, op, x)[i].ev[o] =
                     IF i = s /\ o = op THEN x ELSE so[i].ev[o]
<1> DEFINE y == [ev |-> [so[s].ev EXCEPT ![op] = x], pollpos |-> so[s].pollpos]
<1>0. \A i \in 0 .. (sl - 1) : /\ so[i] \in SocketRec
                             /\ so[i].pollpos \in Nat
                             /\ so[i].ev \in [Ops -> Recs \cup {NULL}]
  BY DEF SocketRec
<1>1. [so[s].ev EXCEPT ![op] = x] \in [Ops -> Recs \cup {NULL}]
  BY <1>0
<1>2. y \in SocketRec
  BY <1>1, <1>0 DEF SocketRec
<1>3. SetEvent(so, s, op, x) = [so EXCEPT ![s] = y]
  BY DEF SetEvent
<1>4. y.pollpos = so[s].pollpos
      /\ \A o \in Ops : y.ev[o] = IF o = op THEN x ELSE so[s].ev[o]
  BY <1>0
<1> HIDE DEF y
<1> QED BY <1>2, <1>3, <1>4

(* clearbit, after the record has been removed from S, keeps the arrays in  *)
(* order.  pf stands for fds as the caller has left it.                     *)
LEMMA ClearbitOK ==
  ASSUME NEW pf, ArraysOK(slen, S, nfds, pf),
         NEW s \in 0 .. (slen - 1), NEW op \in Ops, S[s].ev[op] # NULL
  PROVE  ArraysOK(slen,
                  clearbit_S(SetEvent(S, s, op, NULL), pf, S[s].pollpos, op),
                  clearbit_nfds(pf, S[s].pollpos, op),
                  clearbit_fds(pf, S[s].pollpos, op))
<1> DEFINE pos == S[s].pollpos
           S1 == SetEvent(S, s, op, NULL)
           S2 == clearbit_S(S1, pf, pos, op)
           n2 == clearbit_nfds(pf, pos, op)
           f2 == clearbit_fds(pf, pos, op)
           last == pf[nfds - 1].fd
<1>1. /\ slen \in 0 .. MaxFd /\ MaxFd \in Nat /\ SIZE_MAX \in Nat
      /\ nfds \in Nat /\ nfds < SIZE_MAX /\ NULL \notin Recs
      /\ S \in [0 .. (slen - 1) -> SocketRec]
      /\ pf \in [0 .. (nfds - 1) -> PollFd]
  BY ArraysFit, NetAssumption, RecsAssumption DEF ArraysOK, ArraysTyped
<1>2. /\ pos \in 0 .. (nfds - 1)
      /\ pf[pos].fd = s
      /\ op \in pf[pos].events
  <2>1. S[s].pollpos # SIZE_MAX
    BY DEF ArraysOK, ArraysAgree
  <2>2. S[s].pollpos \in Nat
    BY <1>1 DEF SocketRec
  <2>3. pos < nfds /\ pf[pos].fd = s
    BY <2>1 DEF ArraysOK, ArraysLinked
  <2>4. pos \in 0 .. (nfds - 1)
    BY <2>2, <2>3, <1>1
  <2> QED BY <2>3, <2>4 DEF ArraysOK, ArraysAgree
<1>3. /\ S1 \in [0 .. (slen - 1) -> SocketRec]
      /\ \A i \in 0 .. (slen - 1) :
           /\ S1[i].pollpos = S[i].pollpos
           /\ \A o \in Ops : S1[i].ev[o] = IF i = s /\ o = op THEN NULL ELSE S[i].ev[o]
  <2>1. NULL \in Recs \cup {NULL}
    OBVIOUS
  <2>2. slen \in 0 .. MaxFd /\ S \in [0 .. (slen - 1) -> SocketRec]
    BY <1>1
  <2> HIDE DEF pos
  <2>3. /\ SetEvent(S, s, op, NULL) \in [0 .. (slen - 1) -> SocketRec]
        /\ \A i \in 0 .. (slen - 1) :
             /\ SetEvent(S, s, op, NULL)[i].pollpos = S[i].pollpos
             /\ \A o \in Ops :
                  SetEvent(S, s, op, NULL)[i].ev[o] =
                    IF i = s /\ o = op THEN NULL ELSE S[i].ev[o]
    BY ONLY <2>1, <2>2, SetEventEffect, s \in 0 .. (slen - 1), op \in Ops
  <2> QED BY <2>3
<1>4. \A j \in 0 .. (nfds - 1) :
        /\ pf[j] \in PollFd /\ pf[j].fd \in 0 .. (slen - 1)
        /\ pf[j].events \subseteq Ops /\ pf[j].revents \subseteq PollBits
        /\ S[pf[j].fd].pollpos = j
        /\ pf[j].revents \cap Ops \subseteq pf[j].events
        /\ \A o \in Ops : o \in pf[j].events <=> S[pf[j].fd].ev[o] # NULL
  BY <1>1 DEF ArraysOK, ArraysLinked, ArraysAgree, PollFd, Fds
<1>5. \A i \in 0 .. (slen - 1) :
        /\ S[i].pollpos # SIZE_MAX =>
             S[i].pollpos \in 0 .. (nfds - 1) /\ pf[S[i].pollpos].fd = i
        /\ S[i].pollpos # SIZE_MAX <=> \E o \in Ops : S[i].ev[o] # NULL
        /\ S[i].pollpos \in Nat
  BY <1>1 DEF ArraysOK, ArraysLinked, ArraysAgree, SocketRec
<1>6. CASE ~clearbit_leaves(pf, pos, op)
  <2> DEFINE p2 == [fd |-> pf[pos].fd, events |-> pf[pos].events \ {op},
                    revents |-> pf[pos].revents \ {op}]
  <2>1. S2 = S1 /\ n2 = nfds /\ f2 = [pf EXCEPT ![pos] = p2]
    BY <1>6 DEF clearbit_S, clearbit_nfds, clearbit_fds
  <2>2. PICK o \in Ops : o \in pf[pos].events /\ o # op
    BY <1>6, <1>4, <1>2 DEF clearbit_leaves
  <2>3. p2 \in PollFd /\ p2.fd = s /\ p2.events = pf[pos].events \ {op}
        /\ p2.revents = pf[pos].revents \ {op}
    BY <1>2, <1>4 DEF PollFd, Fds
  <2> HIDE DEF p2, S1
  <2>4. /\ f2 \in [0 .. (nfds - 1) -> PollFd]
        /\ \A j \in 0 .. (nfds - 1) : f2[j] = IF j = pos THEN p2 ELSE pf[j]
    BY <2>1, <2>3, <1>1, <1>2
  <2>5. ArraysTyped(slen, S1, nfds, f2)
    BY <2>4, <1>1, <1>3 DEF ArraysTyped
  <2>6. ArraysLinked(slen, S1, nfds, f2)
    <3>1. \A j \in 0 .. (nfds - 1) : f2[j].fd = pf[j].fd
      BY <2>4, <2>3, <1>2
    <3> HIDE DEF f2
    <3>2. \A i \in 0 .. (slen - 1) :
            S1[i].pollpos # SIZE_MAX => S1[i].pollpos < nfds /\ f2[S1[i].pollpos].fd = i
      <4> SUFFICES ASSUME NEW i \in 0 .. (slen - 1), S1[i].pollpos # SIZE_MAX
                   PROVE  S1[i].pollpos < nfds /\ f2[S1[i].pollpos].fd = i
        OBVIOUS
      <4>1. S1[i].pollpos = S[i].pollpos
        BY <1>3
      <4>2. S[i].pollpos \in 0 .. (nfds - 1) /\ pf[S[i].pollpos].fd = i
        BY <4>1, <1>5
      <4>3. f2[S[i].pollpos].fd = pf[S[i].pollpos].fd
        BY <4>2, <3>1
      <4>4. S[i].pollpos < nfds
        BY ONLY <4>2, <1>1
      <4> QED BY <4>1, <4>2, <4>3, <4>4
    <3>3. \A j \in 0 .. (nfds - 1) : f2[j].fd < slen /\ S1[f2[j].fd].pollpos = j
      <4> TAKE j \in 0 .. (nfds - 1)
      <4>1. f2[j].fd = pf[j].fd /\ pf[j].fd \in 0 .. (slen - 1)
        BY <3>1, <1>4
      <4>2. S1[pf[j].fd].pollpos = S[pf[j].fd].pollpos
        BY <4>1, <1>3
      <4>3. S[pf[j].fd].pollpos = j
        BY <1>4
      <4> QED BY <4>1, <4>2, <4>3, <1>1
    <3> QED BY <3>2, <3>3 DEF ArraysLinked
  <2>7. \A i \in 0 .. (slen - 1) :
          S1[i].pollpos # SIZE_MAX <=> \E q \in Ops : S1[i].ev[q] # NULL
    <3>1. S1[s].ev[o] # NULL
      BY <2>2, <1>2, <1>3, <1>4
    <3>2. S[s].pollpos # SIZE_MAX
      BY <1>2, <1>1
    <3> QED BY <3>1, <3>2, <1>3, <1>5
  <2>8. \A j \in 0 .. (nfds - 1), q \in Ops :
          q \in f2[j].events <=> S1[f2[j].fd].ev[q] # NULL
    BY <2>4, <2>3, <1>2, <1>3, <1>4
  <2>9. \A j \in 0 .. (nfds - 1) : f2[j].revents \cap Ops \subseteq f2[j].events
    BY <2>4, <2>3, <1>4
  <2>10. ArraysAgree(slen, S1, nfds, f2)
    BY <2>7, <2>8, <2>9 DEF ArraysAgree
  <2> QED BY <2>1, <2>5, <2>6, <2>10 DEF ArraysOK, S1
<1>7. CASE clearbit_leaves(pf, pos, op)
  <2>0. n2 = nfds - 1 /\ n2 \in Nat
    BY <1>7, <1>2, <1>1 DEF clearbit_nfds
  <2>1. /\ f2 = [j \in 0 .. (nfds - 2) |-> IF j = pos THEN pf[nfds - 1] ELSE pf[j]]
        /\ S2 = [i \in 0 .. (slen - 1) |->
                   [ev |-> S1[i].ev,
                    pollpos |-> IF i = s THEN SIZE_MAX
                                ELSE IF i = last THEN pos ELSE S1[i].pollpos]]
    <3>1. DOMAIN S1 = 0 .. (slen - 1)
      BY <1>3
    <3> QED BY <3>1, <1>7, <1>2, <1>1 DEF clearbit_S, clearbit_fds
  <2>2. /\ last \in 0 .. (slen - 1)
        /\ S[last].pollpos = nfds - 1
        /\ nfds - 1 \in 0 .. (nfds - 1)
    BY <1>4, <1>2, <1>1
  <2>3. \A o \in Ops : S1[s].ev[o] = NULL
    BY <1>7, <1>2, <1>3, <1>4 DEF clearbit_leaves
  <2> HIDE DEF S1, last
  <2>4. \A i \in 0 .. (slen - 1) :
          /\ S2[i] \in SocketRec
          /\ S2[i].ev = S1[i].ev
          /\ S2[i].pollpos = IF i = s THEN SIZE_MAX
                             ELSE IF i = last THEN pos ELSE S[i].pollpos
    <3>1. \A i \in 0 .. (slen - 1) : S1[i].ev \in [Ops -> Recs \cup {NULL}]
      BY <1>3 DEF SocketRec
    <3> QED BY <3>1, <2>1, <1>1, <1>2, <1>3, <1>5 DEF SocketRec
  <2>5. \A j \in 0 .. (n2 - 1) :
          /\ f2[j] = IF j = pos THEN pf[nfds - 1] ELSE pf[j]
          /\ j \in 0 .. (nfds - 1) /\ j # nfds - 1
    BY <2>0, <2>1, <1>1
  <2> HIDE DEF S2, n2, f2
  <2>6. ArraysTyped(slen, S2, n2, f2)
    <3>1. f2 \in [0 .. (n2 - 1) -> PollFd]
      BY <2>0, <2>1, <2>2, <1>1, <1>4
    <3>2. S2 \in [0 .. (slen - 1) -> SocketRec]
      BY <2>1, <2>4
    <3> QED BY <3>1, <3>2, <2>0, <1>1 DEF ArraysTyped
  <2>7. \A j \in 0 .. (n2 - 1) :
          /\ f2[j].fd \in 0 .. (slen - 1) /\ f2[j].fd < slen
          /\ f2[j].fd # s
          /\ S2[f2[j].fd].pollpos = j
    <3> SUFFICES ASSUME NEW j \in 0 .. (n2 - 1)
                 PROVE  /\ f2[j].fd \in 0 .. (slen - 1) /\ f2[j].fd < slen
                        /\ f2[j].fd # s
                        /\ S2[f2[j].fd].pollpos = j
      OBVIOUS
    <3>1. CASE j = pos
      <4>1. f2[j].fd = last
        BY <3>1, <2>5 DEF last
      <4>2. last # s
        BY <2>2, <2>5, <3>1, <1>1
      <4> QED BY <4>1, <4>2, <2>2, <2>4, <3>1, <1>1
    <3>2. CASE j # pos
      <4>1. f2[j] = pf[j] /\ j \in 0 .. (nfds - 1) /\ j # nfds - 1
        BY <3>2, <2>5
      <4>2. pf[j].fd # s /\ pf[j].fd # last
        BY <4>1, <3>2, <2>2, <1>4, <1>2
      <4> QED BY <4>1, <4>2, <2>4, <1>4, <1>1
    <3> QED BY <3>1, <3>2
  <2>8. \A i \in 0 .. (slen - 1) :
          S2[i].pollpos # SIZE_MAX =>
            /\ S2[i].pollpos < n2
            /\ f2[S2[i].pollpos].fd = i
    <3> SUFFICES ASSUME NEW i \in 0 .. (slen - 1), S2[i].pollpos # SIZE_MAX
                 PROVE  S2[i].pollpos \in 0 .. (n2 - 1) /\ f2[S2[i].pollpos].fd = i
      BY <2>0, <1>1
    <3>1. i # s
      BY <2>4
    <3>2. CASE i = last
      <4>1. S2[i].pollpos = pos /\ pos # nfds - 1
        BY <3>1, <3>2, <2>4, <1>2, <2>2 DEF last
      <4>2. pos \in 0 .. (n2 - 1)
        BY <4>1, <2>0, <1>2, <1>1
      <4> QED BY <4>1, <4>2, <2>5, <3>2 DEF last
    <3>3. CASE i # last
      <4>1. S2[i].pollpos = S[i].pollpos /\ S[i].pollpos \in 0 .. (nfds - 1)
            /\ pf[S[i].pollpos].fd = i
        BY <3>1, <3>3, <2>4, <1>5
      <4>2. S[i].pollpos # nfds - 1 /\ S[i].pollpos # pos
        BY <4>1, <3>3, <3>1, <1>2 DEF last
      <4>3. S[i].pollpos \in 0 .. (n2 - 1)
        BY <4>1, <4>2, <2>0, <1>1
      <4> QED BY <4>1, <4>2, <4>3, <2>5
    <3> QED BY <3>2, <3>3
  <2>9. ArraysLinked(slen, S2, n2, f2)
    BY <2>7, <2>8 DEF ArraysLinked
  <2>10. \A i \in 0 .. (slen - 1) :
           S2[i].pollpos # SIZE_MAX <=> \E o \in Ops : S2[i].ev[o] # NULL
    <3> SUFFICES ASSUME NEW i \in 0 .. (slen - 1)
                 PROVE  S2[i].pollpos # SIZE_MAX <=> \E o \in Ops : S2[i].ev[o] # NULL
      OBVIOUS
    <3>1. CASE i = s
      BY <3>1, <2>3, <2>4
    <3>2. CASE i # s
      <4>1. \A o \in Ops : S2[i].ev[o] = S[i].ev[o]
        BY <3>2, <2>4, <1>3
      <4>2. S2[i].pollpos # SIZE_MAX <=> S[i].pollpos # SIZE_MAX
        BY <3>2, <2>4, <2>2, <1>2, <1>1
      <4> QED BY <4>1, <4>2, <1>5
    <3> QED BY <3>1, <3>2
  <2>11. \A j \in 0 .. (n2 - 1), o \in Ops :
           o \in f2[j].events <=> S2[f2[j].fd].ev[o] # NULL
    <3> SUFFICES ASSUME NEW j \in 0 .. (n2 - 1), NEW o \in Ops
                 PROVE  o \in f2[j].events <=> S2[f2[j].fd].ev[o] # NULL
      OBVIOUS
    <3>1. PICK k \in 0 .. (nfds - 1) : f2[j] = pf[k]
      BY <2>5, <2>2
    <3>2. S2[f2[j].fd].ev[o] = S[f2[j].fd].ev[o]
      BY <2>7, <2>4, <1>3
    <3> QED BY <3>1, <3>2, <1>4
  <2>12. \A j \in 0 .. (n2 - 1) : f2[j].revents \cap Ops \subseteq f2[j].events
    BY <2>5, <2>2, <1>4
  <2>13. ArraysAgree(slen, S2, n2, f2)
    BY <2>10, <2>11, <2>12 DEF ArraysAgree
  <2> QED BY <2>6, <2>9, <2>13 DEF ArraysOK, S1, S2, n2, f2
<1> QED BY <1>6, <1>7

(* What clearbit does to the records and to the reports, position by        *)
(* position: a pollfd only ever moves down.                                 *)
ClearbitMoves(pf, s, op) ==
  LET pos == S[s].pollpos
      S1 == SetEvent(S, s, op, NULL)
      S2 == clearbit_S(S1, pf, pos, op)
      n2 == clearbit_nfds(pf, pos, op)
      f2 == clearbit_fds(pf, pos, op)
  IN /\ pos \in 0 .. (nfds - 1) /\ pf[pos].fd = s
     /\ \A i \in 0 .. (slen - 1), o \in Ops :
          /\ S1[i].ev[o] = IF i = s /\ o = op THEN NULL ELSE S[i].ev[o]
          /\ S2[i].ev[o] = IF i = s /\ o = op THEN NULL ELSE S[i].ev[o]
     /\ n2 \in Nat /\ n2 <= nfds
     /\ \A j \in 0 .. (n2 - 1) : \E k \in 0 .. (nfds - 1) :
          /\ j <= k
          /\ f2[j].fd = pf[k].fd
          /\ f2[j].revents = IF k = pos THEN pf[k].revents \ {op} ELSE pf[k].revents
          /\ k = pos => \E o \in Ops : S1[s].ev[o] # NULL

(* clearbit moves pollfds as ClearbitMoves says. *)
LEMMA ClearbitEffect ==
  ASSUME NEW pf, ArraysOK(slen, S, nfds, pf),
         NEW s \in 0 .. (slen - 1), NEW op \in Ops, S[s].ev[op] # NULL
  PROVE  ClearbitMoves(pf, s, op)
<1> DEFINE pos == S[s].pollpos
           S1 == SetEvent(S, s, op, NULL)
           S2 == clearbit_S(S1, pf, pos, op)
           n2 == clearbit_nfds(pf, pos, op)
           f2 == clearbit_fds(pf, pos, op)
<1>1. /\ slen \in 0 .. MaxFd /\ MaxFd \in Nat /\ SIZE_MAX \in Nat
      /\ nfds \in Nat /\ nfds < SIZE_MAX
      /\ S \in [0 .. (slen - 1) -> SocketRec]
      /\ pf \in [0 .. (nfds - 1) -> PollFd]
  BY ArraysFit, NetAssumption DEF ArraysOK, ArraysTyped
<1>2. /\ pos \in 0 .. (nfds - 1) /\ pf[pos].fd = s
      /\ pf[pos].events \subseteq Ops
      /\ \A o \in Ops : o \in pf[pos].events <=> S[s].ev[o] # NULL
  <2>1. S[s].pollpos # SIZE_MAX
    BY DEF ArraysOK, ArraysAgree
  <2>2. S[s].pollpos \in Nat
    BY <1>1 DEF SocketRec
  <2>3. pos < nfds /\ pf[pos].fd = s
    BY <2>1 DEF ArraysOK, ArraysLinked
  <2>4. pos \in 0 .. (nfds - 1)
    BY <2>2, <2>3, <1>1
  <2>5. pf[pos].events \subseteq Ops
    BY <2>4, <1>1 DEF PollFd
  <2> QED BY <2>3, <2>4, <2>5 DEF ArraysOK, ArraysAgree
<1>3. /\ S1 \in [0 .. (slen - 1) -> SocketRec]
      /\ \A i \in 0 .. (slen - 1) : \A o \in Ops :
            S1[i].ev[o] = IF i = s /\ o = op THEN NULL ELSE S[i].ev[o]
  <2>1. NULL \in Recs \cup {NULL}
    OBVIOUS
  <2>2. slen \in 0 .. MaxFd /\ S \in [0 .. (slen - 1) -> SocketRec]
    BY <1>1
  <2> HIDE DEF pos
  <2>3. /\ SetEvent(S, s, op, NULL) \in [0 .. (slen - 1) -> SocketRec]
        /\ \A i \in 0 .. (slen - 1) :
             /\ SetEvent(S, s, op, NULL)[i].pollpos = S[i].pollpos
             /\ \A o \in Ops :
                  SetEvent(S, s, op, NULL)[i].ev[o] =
                    IF i = s /\ o = op THEN NULL ELSE S[i].ev[o]
    BY ONLY <2>1, <2>2, SetEventEffect, s \in 0 .. (slen - 1), op \in Ops
  <2> QED BY <2>3
<1> HIDE DEF S1
<1>4. \A i \in 0 .. (slen - 1) : S2[i].ev = S1[i].ev
  BY <1>3 DEF clearbit_S
<1>5. n2 \in Nat /\ n2 <= nfds
  BY <1>1, <1>2 DEF clearbit_nfds
<1>6. ASSUME NEW j \in 0 .. (n2 - 1)
      PROVE  \E k \in 0 .. (nfds - 1) :
               /\ j <= k
               /\ f2[j].fd = pf[k].fd
               /\ f2[j].revents = IF k = pos THEN pf[k].revents \ {op}
                                  ELSE pf[k].revents
               /\ k = pos => \E o \in Ops : S1[s].ev[o] # NULL
  <2>1. CASE clearbit_leaves(pf, pos, op)
    <3>1. /\ n2 = nfds - 1
          /\ f2 = [i \in 0 .. (nfds - 2) |-> IF i = pos THEN pf[nfds - 1] ELSE pf[i]]
      BY <2>1 DEF clearbit_nfds, clearbit_fds
    <3> HIDE DEF n2, f2, pos
    <3>2. CASE j = pos
      <4>1. nfds - 1 \in 0 .. (nfds - 1) /\ j <= nfds - 1 /\ nfds - 1 # pos
        BY <3>1, <3>2, <1>1, <1>2
      <4>2. f2[j] = pf[nfds - 1]
        BY <3>1, <3>2, <1>1
      <4> QED BY <4>1, <4>2
    <3>3. CASE j # pos
      <4>1. j \in 0 .. (nfds - 1) /\ j <= j
        BY <3>1, <1>1
      <4>2. f2[j] = pf[j]
        BY <3>1, <3>3, <1>1
      <4> QED BY <4>1, <4>2, <3>3
    <3> QED BY <3>2, <3>3
  <2>2. CASE ~clearbit_leaves(pf, pos, op)
    <3>1. /\ n2 = nfds
          /\ f2 = [pf EXCEPT ![pos] = [fd |-> pf[pos].fd,
                                       events |-> pf[pos].events \ {op},
                                       revents |-> pf[pos].revents \ {op}]]
      BY <2>2 DEF clearbit_nfds, clearbit_fds
    <3>2. PICK o \in Ops : o \in pf[pos].events /\ o # op
      BY <2>2, <1>2 DEF clearbit_leaves
    <3>3. S1[s].ev[o] # NULL
      BY <3>2, <1>2, <1>3
    <3> HIDE DEF n2, f2, pos
    <3>4. j \in 0 .. (nfds - 1) /\ j <= j
      BY <3>1, <1>1
    <3>5. /\ f2[j].fd = pf[j].fd
          /\ f2[j].revents = IF j = pos THEN pf[j].revents \ {op} ELSE pf[j].revents
      BY <3>1, <3>4, <1>1
    <3> QED BY <3>3, <3>4, <3>5
  <2> QED BY <2>1, <2>2
<1> HIDE DEF n2, f2, S2, pos
<1>7. /\ pos \in 0 .. (nfds - 1) /\ pf[pos].fd = s
      /\ \A i \in 0 .. (slen - 1), o \in Ops :
           /\ S1[i].ev[o] = IF i = s /\ o = op THEN NULL ELSE S[i].ev[o]
           /\ S2[i].ev[o] = IF i = s /\ o = op THEN NULL ELSE S[i].ev[o]
  BY <1>2, <1>3, <1>4
<1> QED BY <1>5, <1>6, <1>7 DEF ClearbitMoves, pos, S1, S2, n2, f2

(* clearbit keeps the reports and the history together. *)
LEMMA ClearbitReports ==
  ASSUME NEW pf, NEW sc, ArraysOK(slen, S, nfds, pf),
         ReportsOK(slen, S, nfds, pf, sc, ready), sc \in Nat,
         ready \subseteq Fds \X PollBits,
         NEW s \in 0 .. (slen - 1), NEW op \in Ops, S[s].ev[op] # NULL
  PROVE  ReportsOK(slen,
                   clearbit_S(SetEvent(S, s, op, NULL), pf, S[s].pollpos, op),
                   clearbit_nfds(pf, S[s].pollpos, op),
                   clearbit_fds(pf, S[s].pollpos, op),
                   sc, Forget(SetEvent(S, s, op, NULL), s, op))
<1> DEFINE pos == S[s].pollpos
           S1 == SetEvent(S, s, op, NULL)
           S2 == clearbit_S(S1, pf, pos, op)
           n2 == clearbit_nfds(pf, pos, op)
           f2 == clearbit_fds(pf, pos, op)
           rd2 == Forget(S1, s, op)
<1>1. ArraysOK(slen, S2, n2, f2)
  BY ClearbitOK
<1>2. /\ pos \in 0 .. (nfds - 1) /\ pf[pos].fd = s
      /\ \A i \in 0 .. (slen - 1), o \in Ops :
           /\ S1[i].ev[o] = IF i = s /\ o = op THEN NULL ELSE S[i].ev[o]
           /\ S2[i].ev[o] = IF i = s /\ o = op THEN NULL ELSE S[i].ev[o]
      /\ n2 \in Nat /\ n2 <= nfds
      /\ \A j \in 0 .. (n2 - 1) : \E k \in 0 .. (nfds - 1) :
           /\ j <= k
           /\ f2[j].fd = pf[k].fd
           /\ f2[j].revents = IF k = pos THEN pf[k].revents \ {op} ELSE pf[k].revents
           /\ k = pos => \E o \in Ops : S1[s].ev[o] # NULL
  <2>1. ClearbitMoves(pf, s, op)
    BY ClearbitEffect
  <2> QED BY <2>1 DEF ClearbitMoves
<1>3. /\ slen \in 0 .. MaxFd /\ MaxFd \in Nat /\ SIZE_MAX \in Nat
      /\ nfds \in Nat /\ nfds < SIZE_MAX
      /\ S \in [0 .. (slen - 1) -> SocketRec]
      /\ pf \in [0 .. (nfds - 1) -> PollFd]
  BY ArraysFit, NetAssumption DEF ArraysOK, ArraysTyped
<1>4. \A i, b : <<i, b>> \in rd2 <=>
        /\ <<i, b>> \in ready
        /\ <<i, b>> # <<s, op>>
        /\ i = s => \E o \in Ops : S1[s].ev[o] # NULL
  BY DEF Forget
<1> HIDE DEF pos, S1, S2, n2, f2, rd2
<1>5. \A j \in 0 .. (n2 - 1) : f2[j].revents # {} => j <= sc /\ sc # SIZE_MAX
  <2> SUFFICES ASSUME NEW j \in 0 .. (n2 - 1), f2[j].revents # {}
               PROVE  j <= sc /\ sc # SIZE_MAX
    OBVIOUS
  <2>1. PICK k \in 0 .. (nfds - 1) : j <= k /\ pf[k].revents # {}
    BY <1>2
  <2>2. k <= sc /\ sc # SIZE_MAX
    BY <2>1 DEF ReportsOK
  <2> QED BY <2>1, <2>2, <1>2, <1>3
<1>6. \A i \in Fds, o \in Ops :
        <<i, o>> \in rd2 => i < slen /\ S2[i].pollpos < n2 /\ o \in f2[S2[i].pollpos].revents
  <2> SUFFICES ASSUME NEW i \in Fds, NEW o \in Ops, <<i, o>> \in rd2
               PROVE  i < slen /\ S2[i].pollpos < n2 /\ o \in f2[S2[i].pollpos].revents
    OBVIOUS
  <2>1. <<i, o>> \in ready /\ ~(i = s /\ o = op)
    BY <1>4
  <2>2. i < slen /\ S[i].pollpos < nfds /\ o \in pf[S[i].pollpos].revents
    BY <2>1 DEF ReportsOK
  <2>3. i \in 0 .. (slen - 1) /\ S[i].pollpos \in 0 .. (nfds - 1)
    BY <2>2, <1>3 DEF Fds, SocketRec
  <2>4. pf[S[i].pollpos].fd = i
    BY <2>2, <2>3, <1>3 DEF ArraysOK, ArraysLinked
  <2>5. S[i].ev[o] # NULL
    BY <2>2, <2>3, <2>4 DEF ArraysOK, ArraysAgree
  <2>6. S2[i].ev[o] # NULL
    BY <2>1, <2>3, <2>5, <1>2
  <2>7. S2[i].pollpos # SIZE_MAX /\ S2[i].pollpos \in Nat
    BY <2>3, <2>6, <1>1 DEF ArraysOK, ArraysAgree, ArraysTyped, SocketRec
  <2>8. S2[i].pollpos < n2 /\ f2[S2[i].pollpos].fd = i
    BY <2>3, <2>7, <1>1 DEF ArraysOK, ArraysLinked
  <2>9. S2[i].pollpos \in 0 .. (n2 - 1)
    BY <2>7, <2>8, <1>2
  <2>10. PICK k \in 0 .. (nfds - 1) :
           /\ f2[S2[i].pollpos].fd = pf[k].fd
           /\ f2[S2[i].pollpos].revents = IF k = pos THEN pf[k].revents \ {op}
                                          ELSE pf[k].revents
    BY <2>9, <1>2
  <2>11. k = S[i].pollpos
    BY <2>8, <2>10, <2>4 DEF ArraysOK, ArraysLinked
  <2>12. k = pos => i = s
    BY <2>10, <2>8, <1>2
  <2> QED BY <2>1, <2>2, <2>3, <2>8, <2>10, <2>11, <2>12
<1>7. \A j \in 0 .. (n2 - 1) : \A b \in f2[j].revents :
        <<f2[j].fd, b>> \in rd2 \/ <<f2[j].fd, "ERR">> \in rd2
  <2> SUFFICES ASSUME NEW j \in 0 .. (n2 - 1), NEW b \in f2[j].revents
               PROVE  <<f2[j].fd, b>> \in rd2 \/ <<f2[j].fd, "ERR">> \in rd2
    OBVIOUS
  <2>1. PICK k \in 0 .. (nfds - 1) :
           /\ f2[j].fd = pf[k].fd
           /\ f2[j].revents = IF k = pos THEN pf[k].revents \ {op} ELSE pf[k].revents
           /\ k = pos => \E o \in Ops : S1[s].ev[o] # NULL
    BY <1>2
  <2>2. <<pf[k].fd, b>> \in ready \/ <<pf[k].fd, "ERR">> \in ready
    BY <2>1 DEF ReportsOK
  <2>3. pf[k].fd = s => k = pos
    BY <1>2 DEF ArraysOK, ArraysLinked
  <2>4. <<pf[k].fd, b>> # <<s, op>> /\ <<pf[k].fd, "ERR">> # <<s, op>>
    BY <2>1, <2>3 DEF Ops
  <2> QED BY <2>1, <2>2, <2>3, <2>4, <1>4
<1> QED BY <1>5, <1>6, <1>7 DEF ReportsOK, pos, S1, S2, n2, f2, rd2

----------------------------------------------------------------------------
(* Two facts used throughout: on ranges, and on an unregistered descriptor. *)
LEMMA RangeSubset ==
  \A a, b \in Int : a <= b => \A i \in 0 .. (a - 1) : i \in 0 .. (b - 1) /\ i < a
OBVIOUS

(* A descriptor that growsocketlist adds has no event. *)
LEMMA NoSocketHasNone == \A o \in Ops : NoSocket.ev[o] = NULL
BY DEF NoSocket

(* growsocketlist adds unregistered descriptors and keeps the others. *)
LEMMA GrowOK ==
  ASSUME ArraysOK(slen, S, nfds, fds), NEW s \in Fds
  PROVE  LET sl == growsocketlist_len(s)
             so == growsocketlist(s)
         IN /\ ArraysOK(sl, so, nfds, fds)
            /\ s \in 0 .. (sl - 1) /\ slen <= sl /\ sl \in 0 .. MaxFd
            /\ \A i \in 0 .. (sl - 1) : so[i] = IF i < slen THEN S[i] ELSE NoSocket
<1> DEFINE sl == growsocketlist_len(s)
           so == growsocketlist(s)
<1>1. /\ slen \in 0 .. MaxFd /\ MaxFd \in Nat /\ SIZE_MAX \in Nat /\ nfds \in Nat
      /\ s \in 0 .. (MaxFd - 1)
      /\ S \in [0 .. (slen - 1) -> SocketRec]
      /\ fds \in [0 .. (nfds - 1) -> PollFd]
  BY NetAssumption DEF ArraysOK, ArraysTyped, Fds
<1>2. /\ s \in 0 .. (sl - 1) /\ slen <= sl /\ sl \in 0 .. MaxFd
  BY <1>1 DEF growsocketlist_len
<1>3. NoSocket \in SocketRec /\ NoSocket.pollpos = SIZE_MAX
      /\ \A o \in Ops : NoSocket.ev[o] = NULL
  BY <1>1 DEF NoSocket, SocketRec
<1>4. so \in [0 .. (sl - 1) -> SocketRec]
      /\ \A i \in 0 .. (sl - 1) : so[i] = IF i < slen THEN S[i] ELSE NoSocket
  <2>1. CASE s < slen
    <3>1. sl = slen /\ so = S
      BY <2>1 DEF growsocketlist, growsocketlist_len
    <3> QED BY <3>1, <1>1
  <2>2. CASE ~(s < slen)
    <3>1. sl = s + 1 /\ so = [i \in 0 .. s |-> IF i < slen THEN S[i] ELSE NoSocket]
      BY <2>2 DEF growsocketlist, growsocketlist_len
    <3> HIDE DEF sl, so
    <3>2. sl - 1 = s
      BY <3>1, <1>1
    <3> QED BY <3>1, <3>2, <1>1, <1>3
  <2> QED BY <2>1, <2>2
<1> HIDE DEF sl, so
<1>5. ArraysTyped(sl, so, nfds, fds)
  BY <1>1, <1>2, <1>4 DEF ArraysTyped
<1>6. \A j \in 0 .. (nfds - 1) : fds[j].fd \in 0 .. (slen - 1) /\ fds[j].fd \in 0 .. (sl - 1)
                                /\ so[fds[j].fd] = S[fds[j].fd]
  <2> TAKE j \in 0 .. (nfds - 1)
  <2>1. fds[j].fd \in Nat /\ fds[j].fd < slen
    BY <1>1 DEF ArraysOK, ArraysLinked, PollFd, Fds
  <2>2. fds[j].fd \in 0 .. (slen - 1) /\ fds[j].fd \in 0 .. (sl - 1)
    BY <2>1, <1>1, <1>2
  <2> QED BY <2>1, <2>2, <1>4
<1>7. ArraysLinked(sl, so, nfds, fds)
  <2>1. \A i \in 0 .. (sl - 1) : so[i].pollpos # SIZE_MAX =>
          so[i].pollpos < nfds /\ fds[so[i].pollpos].fd = i
    <3> SUFFICES ASSUME NEW i \in 0 .. (sl - 1), so[i].pollpos # SIZE_MAX
                 PROVE  so[i].pollpos < nfds /\ fds[so[i].pollpos].fd = i
      OBVIOUS
    <3>1. i \in 0 .. (slen - 1) /\ so[i] = S[i]
      BY <1>1, <1>2, <1>3, <1>4
    <3> QED BY <3>1 DEF ArraysOK, ArraysLinked
  <2>2. \A j \in 0 .. (nfds - 1) : fds[j].fd < sl /\ so[fds[j].fd].pollpos = j
    BY <1>1, <1>2, <1>6 DEF ArraysOK, ArraysLinked
  <2> QED BY <2>1, <2>2 DEF ArraysLinked
<1>8. ArraysAgree(sl, so, nfds, fds)
  <2>1. \A i \in 0 .. (sl - 1) :
          so[i].pollpos # SIZE_MAX <=> \E op \in Ops : so[i].ev[op] # NULL
    <3> TAKE i \in 0 .. (sl - 1)
    <3>1. CASE i < slen
      <4>1. i \in 0 .. (slen - 1) /\ so[i] = S[i]
        BY <3>1, <1>1, <1>2, <1>4
      <4> QED BY <4>1 DEF ArraysOK, ArraysAgree
    <3>2. CASE ~(i < slen)
      BY <3>2, <1>3, <1>4
    <3> QED BY <3>1, <3>2
  <2> QED BY <2>1, <1>6 DEF ArraysOK, ArraysAgree
<1> QED BY <1>2, <1>4, <1>5, <1>7, <1>8 DEF ArraysOK, sl, so

(* Registering an event on a descriptor that is not being polled. *)
LEMMA AddPollfdOK ==
  ASSUME NEW sl, NEW so, ArraysOK(sl, so, nfds, fds),
         NEW s \in 0 .. (sl - 1), NEW op \in Ops, NEW x \in Recs,
         so[s].pollpos = SIZE_MAX
  PROVE  LET S1 == SetEvent(so, s, op, x)
             S2 == [S1 EXCEPT ![s] = [ev |-> S1[s].ev, pollpos |-> nfds]]
         IN  ArraysOK(sl, S2, nfds + 1, growpollfd_fds(s, {op}))
<1> DEFINE S1 == SetEvent(so, s, op, x)
           S2 == [S1 EXCEPT ![s] = [ev |-> S1[s].ev, pollpos |-> nfds]]
           f2 == growpollfd_fds(s, {op})
           p2 == [fd |-> s, events |-> {op}, revents |-> {}]
<1>1. /\ sl \in 0 .. MaxFd /\ MaxFd \in Nat /\ SIZE_MAX \in Nat
      /\ nfds \in Nat /\ nfds < SIZE_MAX
      /\ so \in [0 .. (sl - 1) -> SocketRec]
      /\ fds \in [0 .. (nfds - 1) -> PollFd]
      /\ NULL \notin Recs
  BY ArraysFit, NetAssumption, RecsAssumption DEF ArraysOK, ArraysTyped
<1>2. /\ S1 \in [0 .. (sl - 1) -> SocketRec]
      /\ \A i \in 0 .. (sl - 1) :
           /\ S1[i].pollpos = so[i].pollpos
           /\ \A o \in Ops : S1[i].ev[o] = IF i = s /\ o = op THEN x ELSE so[i].ev[o]
  <2>1. x \in Recs \cup {NULL} /\ sl \in 0 .. MaxFd /\ so \in [0 .. (sl - 1) -> SocketRec]
    BY <1>1
  <2> QED BY ONLY <2>1, SetEventEffect, s \in 0 .. (sl - 1), op \in Ops
<1> HIDE DEF S1
<1>3. /\ S2 \in [0 .. (sl - 1) -> SocketRec]
      /\ \A i \in 0 .. (sl - 1) :
           /\ S2[i].pollpos = IF i = s THEN nfds ELSE so[i].pollpos
           /\ \A o \in Ops : S2[i].ev[o] = IF i = s /\ o = op THEN x ELSE so[i].ev[o]
  <2>1. [ev |-> S1[s].ev, pollpos |-> nfds] \in SocketRec
    BY <1>1, <1>2 DEF SocketRec
  <2> QED BY <2>1, <1>2
<1>4. p2 \in PollFd /\ p2.fd = s /\ p2.events = {op} /\ p2.revents = {}
  BY <1>1 DEF PollFd, Fds
<1>5. f2 = [j \in 0 .. nfds |-> IF j = nfds THEN p2 ELSE fds[j]]
  BY DEF growpollfd_fds
<1> HIDE DEF S2, f2, p2
<1>6. /\ f2 \in [0 .. nfds -> PollFd]
      /\ f2[nfds] = p2
      /\ \A j \in 0 .. (nfds - 1) : f2[j] = fds[j]
  BY <1>1, <1>4, <1>5
<1>7. (nfds + 1) - 1 = nfds /\ \A j \in 0 .. nfds : j = nfds \/ j \in 0 .. (nfds - 1)
  BY <1>1
<1>8. ArraysTyped(sl, S2, nfds + 1, f2)
  BY <1>1, <1>3, <1>6, <1>7 DEF ArraysTyped
<1>9. \A j \in 0 .. (nfds - 1) :
        /\ fds[j].fd \in 0 .. (sl - 1) /\ fds[j].fd # s /\ so[fds[j].fd].pollpos = j
  <2> TAKE j \in 0 .. (nfds - 1)
  <2>1. fds[j].fd \in Nat /\ fds[j].fd < sl /\ so[fds[j].fd].pollpos = j
    BY <1>1 DEF ArraysOK, ArraysLinked, PollFd, Fds
  <2> QED BY <2>1, <1>1
<1>10. ArraysLinked(sl, S2, nfds + 1, f2)
  <2>1. \A i \in 0 .. (sl - 1) : S2[i].pollpos # SIZE_MAX =>
          S2[i].pollpos < nfds + 1 /\ f2[S2[i].pollpos].fd = i
    <3> SUFFICES ASSUME NEW i \in 0 .. (sl - 1), S2[i].pollpos # SIZE_MAX
                 PROVE  S2[i].pollpos < nfds + 1 /\ f2[S2[i].pollpos].fd = i
      OBVIOUS
    <3>1. CASE i = s
      BY <3>1, <1>1, <1>3, <1>4, <1>6
    <3>2. CASE i # s
      <4>1. S2[i].pollpos = so[i].pollpos /\ so[i].pollpos \in Nat
        BY <3>2, <1>1, <1>3 DEF SocketRec
      <4>2. so[i].pollpos < nfds /\ fds[so[i].pollpos].fd = i
        BY <4>1 DEF ArraysOK, ArraysLinked
      <4>3. so[i].pollpos \in 0 .. (nfds - 1)
        BY <4>1, <4>2, <1>1
      <4> QED BY <4>1, <4>2, <4>3, <1>1, <1>6
    <3> QED BY <3>1, <3>2
  <2>2. \A j \in 0 .. nfds : f2[j].fd < sl /\ S2[f2[j].fd].pollpos = j
    <3> TAKE j \in 0 .. nfds
    <3>1. CASE j = nfds
      BY <3>1, <1>1, <1>3, <1>4, <1>6
    <3>2. CASE j \in 0 .. (nfds - 1)
      <4>1. f2[j] = fds[j] /\ fds[j].fd \in 0 .. (sl - 1) /\ fds[j].fd # s
        BY <3>2, <1>6, <1>9
      <4>2. S2[fds[j].fd].pollpos = so[fds[j].fd].pollpos
        BY <4>1, <1>3
      <4>3. so[fds[j].fd].pollpos = j
        BY <3>2, <1>9
      <4> QED BY <4>1, <4>2, <4>3, <1>1
    <3> QED BY <3>1, <3>2, <1>7
  <2> QED BY <2>1, <2>2, <1>7 DEF ArraysLinked
<1>11. \A o \in Ops : so[s].ev[o] = NULL
  BY DEF ArraysOK, ArraysAgree
<1>12. ArraysAgree(sl, S2, nfds + 1, f2)
  <2>1. \A i \in 0 .. (sl - 1) :
          S2[i].pollpos # SIZE_MAX <=> \E o \in Ops : S2[i].ev[o] # NULL
    <3> TAKE i \in 0 .. (sl - 1)
    <3>1. CASE i = s
      <4>1. S2[i].ev[op] # NULL /\ S2[i].pollpos # SIZE_MAX
        BY <3>1, <1>1, <1>3
      <4> QED BY <4>1
    <3>2. CASE i # s
      <4>1. S2[i].pollpos = so[i].pollpos /\ \A o \in Ops : S2[i].ev[o] = so[i].ev[o]
        BY <3>2, <1>3
      <4> QED BY <4>1 DEF ArraysOK, ArraysAgree
    <3> QED BY <3>1, <3>2
  <2>2. \A j \in 0 .. nfds, o \in Ops : o \in f2[j].events <=> S2[f2[j].fd].ev[o] # NULL
    <3> TAKE j \in 0 .. nfds, o \in Ops
    <3>1. CASE j = nfds
      <4>1. f2[j].events = {op} /\ f2[j].fd = s
        BY <3>1, <1>4, <1>6
      <4> QED BY <4>1, <1>1, <1>3, <1>11
    <3>2. CASE j \in 0 .. (nfds - 1)
      <4>1. S2[f2[j].fd].ev[o] = so[fds[j].fd].ev[o] /\ f2[j] = fds[j]
        BY <3>2, <1>3, <1>6, <1>9
      <4> QED BY <4>1, <3>2 DEF ArraysOK, ArraysAgree
    <3> QED BY <3>1, <3>2, <1>7
  <2>3. \A j \in 0 .. nfds : f2[j].revents \cap Ops \subseteq f2[j].events
    BY <1>4, <1>6, <1>7 DEF ArraysOK, ArraysAgree
  <2> QED BY <2>1, <2>2, <2>3, <1>7 DEF ArraysAgree
<1> QED BY <1>8, <1>10, <1>12 DEF ArraysOK, S1, S2, f2

(* Registering an event on a descriptor that is already polled for the      *)
(* other operation.                                                         *)
LEMMA SetMaskOK ==
  ASSUME NEW sl, NEW so, ArraysOK(sl, so, nfds, fds),
         NEW s \in 0 .. (sl - 1), NEW op \in Ops, NEW x \in Recs,
         so[s].pollpos # SIZE_MAX
  PROVE  LET pos == so[s].pollpos
         IN  ArraysOK(sl, SetEvent(so, s, op, x), nfds,
                      [fds EXCEPT ![pos] = [fd |-> fds[pos].fd,
                                            events |-> fds[pos].events \cup {op},
                                            revents |-> fds[pos].revents]])
<1> DEFINE pos == so[s].pollpos
           S1 == SetEvent(so, s, op, x)
           p2 == [fd |-> fds[pos].fd, events |-> fds[pos].events \cup {op},
                  revents |-> fds[pos].revents]
           f2 == [fds EXCEPT ![pos] = p2]
<1>1. /\ sl \in 0 .. MaxFd /\ MaxFd \in Nat /\ SIZE_MAX \in Nat
      /\ nfds \in Nat /\ nfds < SIZE_MAX
      /\ so \in [0 .. (sl - 1) -> SocketRec]
      /\ fds \in [0 .. (nfds - 1) -> PollFd]
      /\ NULL \notin Recs
  BY ArraysFit, NetAssumption, RecsAssumption DEF ArraysOK, ArraysTyped
<1>2. /\ S1 \in [0 .. (sl - 1) -> SocketRec]
      /\ \A i \in 0 .. (sl - 1) :
           /\ S1[i].pollpos = so[i].pollpos
           /\ \A o \in Ops : S1[i].ev[o] = IF i = s /\ o = op THEN x ELSE so[i].ev[o]
  <2>1. x \in Recs \cup {NULL} /\ sl \in 0 .. MaxFd /\ so \in [0 .. (sl - 1) -> SocketRec]
    BY <1>1
  <2> QED BY ONLY <2>1, SetEventEffect, s \in 0 .. (sl - 1), op \in Ops
<1>3. pos \in 0 .. (nfds - 1) /\ fds[pos].fd = s /\ fds[pos] \in PollFd
  <2>1. pos \in Nat
    BY <1>1 DEF SocketRec
  <2>2. pos < nfds /\ fds[pos].fd = s
    BY DEF ArraysOK, ArraysLinked
  <2> QED BY <2>1, <2>2, <1>1
<1> HIDE DEF S1, pos
<1>4. /\ p2 \in PollFd /\ p2.fd = s /\ p2.events = fds[pos].events \cup {op}
      /\ p2.revents = fds[pos].revents
  BY <1>3 DEF PollFd
<1>5. /\ f2 \in [0 .. (nfds - 1) -> PollFd]
      /\ \A j \in 0 .. (nfds - 1) : f2[j] = IF j = pos THEN p2 ELSE fds[j]
  BY <1>1, <1>3, <1>4
<1> HIDE DEF p2, f2
<1>6. ArraysTyped(sl, S1, nfds, f2)
  BY <1>1, <1>2, <1>5 DEF ArraysTyped
<1>7. \A j \in 0 .. (nfds - 1) :
        /\ f2[j].fd = fds[j].fd /\ fds[j].fd \in 0 .. (sl - 1)
        /\ fds[j].fd < sl /\ so[fds[j].fd].pollpos = j
  <2> TAKE j \in 0 .. (nfds - 1)
  <2>1. f2[j].fd = fds[j].fd
    BY <1>3, <1>4, <1>5
  <2>2. fds[j].fd \in Nat /\ fds[j].fd < sl /\ so[fds[j].fd].pollpos = j
    BY <1>1 DEF ArraysOK, ArraysLinked, PollFd, Fds
  <2> QED BY <2>1, <2>2, <1>1
<1>8. ArraysLinked(sl, S1, nfds, f2)
  <2>1. \A i \in 0 .. (sl - 1) : S1[i].pollpos # SIZE_MAX =>
          S1[i].pollpos < nfds /\ f2[S1[i].pollpos].fd = i
    <3> SUFFICES ASSUME NEW i \in 0 .. (sl - 1), S1[i].pollpos # SIZE_MAX
                 PROVE  S1[i].pollpos < nfds /\ f2[S1[i].pollpos].fd = i
      OBVIOUS
    <3>1. S1[i].pollpos = so[i].pollpos /\ so[i].pollpos \in Nat
      BY <1>1, <1>2 DEF SocketRec
    <3>2. so[i].pollpos < nfds /\ fds[so[i].pollpos].fd = i
      BY <3>1 DEF ArraysOK, ArraysLinked
    <3>3. so[i].pollpos \in 0 .. (nfds - 1)
      BY <3>1, <3>2, <1>1
    <3> QED BY <3>1, <3>2, <3>3, <1>7
  <2>2. \A j \in 0 .. (nfds - 1) : f2[j].fd < sl /\ S1[f2[j].fd].pollpos = j
    <3> TAKE j \in 0 .. (nfds - 1)
    <3>1. S1[fds[j].fd].pollpos = so[fds[j].fd].pollpos
      BY <1>2, <1>7
    <3> QED BY <3>1, <1>7
  <2> QED BY <2>1, <2>2 DEF ArraysLinked
<1>9. ArraysAgree(sl, S1, nfds, f2)
  <2>1. \A i \in 0 .. (sl - 1) :
          S1[i].pollpos # SIZE_MAX <=> \E o \in Ops : S1[i].ev[o] # NULL
    <3> TAKE i \in 0 .. (sl - 1)
    <3>1. CASE i = s
      <4>1. S1[i].ev[op] # NULL /\ S1[i].pollpos # SIZE_MAX
        BY <3>1, <1>1, <1>2
      <4> QED BY <4>1
    <3>2. CASE i # s
      <4>1. S1[i].pollpos = so[i].pollpos /\ \A o \in Ops : S1[i].ev[o] = so[i].ev[o]
        BY <3>2, <1>2
      <4> QED BY <4>1 DEF ArraysOK, ArraysAgree
    <3> QED BY <3>1, <3>2
  <2>2. \A j \in 0 .. (nfds - 1), o \in Ops :
          o \in f2[j].events <=> S1[f2[j].fd].ev[o] # NULL
    <3> TAKE j \in 0 .. (nfds - 1), o \in Ops
    <3>1. o \in fds[j].events <=> so[fds[j].fd].ev[o] # NULL
      BY DEF ArraysOK, ArraysAgree
    <3>2. S1[f2[j].fd].ev[o] = IF fds[j].fd = s /\ o = op THEN x ELSE so[fds[j].fd].ev[o]
      BY <1>2, <1>7
    <3>3. CASE j = pos
      BY <3>1, <3>2, <3>3, <1>1, <1>3, <1>4, <1>5
    <3>4. CASE j # pos
      <4>1. fds[j].fd # s
        BY <3>4, <1>7 DEF pos
      <4> QED BY <4>1, <3>1, <3>2, <3>4, <1>5
    <3> QED BY <3>3, <3>4
  <2>3. \A j \in 0 .. (nfds - 1) : f2[j].revents \cap Ops \subseteq f2[j].events
    <3> TAKE j \in 0 .. (nfds - 1)
    <3>1. fds[j].revents \cap Ops \subseteq fds[j].events
      BY DEF ArraysOK, ArraysAgree
    <3> QED BY <3>1, <1>4, <1>5
  <2> QED BY <2>1, <2>2, <2>3 DEF ArraysAgree
<1> QED BY <1>6, <1>8, <1>9 DEF ArraysOK, S1, pos, p2, f2

----------------------------------------------------------------------------
(* init() does nothing that the invariant notices: before it nothing is     *)
(* registered, so there is no report to lose.                               *)
LEMMA NetInitEffect ==
  ASSUME NetCore
  PROVE  /\ init_alloc \in Nat /\ InitAlloc <= init_alloc /\ nfds <= init_alloc
         /\ init_scanpos \in Nat
         /\ ReportsOK(slen, S, nfds, fds, init_scanpos, ready)
<1>1. init_alloc \in Nat /\ InitAlloc <= init_alloc /\ nfds <= init_alloc
      /\ init_scanpos \in Nat
  BY NetAssumption DEF NetCore, RestTyped, AllocationOK, init_alloc, init_scanpos
<1>2. \A j \in 0 .. (nfds - 1) :
        fds[j].revents # {} => j <= init_scanpos /\ init_scanpos # SIZE_MAX
  <2>1. CASE inited
    BY <2>1 DEF NetCore, Reports, ReportsOK, init_scanpos
  <2>2. CASE ~inited
    BY <2>2 DEF NetCore, AllocationOK
  <2> QED BY <2>1, <2>2
<1> QED BY <1>1, <1>2 DEF NetCore, Reports, ReportsOK

(* A record that was not registered gets a place. *)
LEMMA RegisterPlaces ==
  ASSUME NetCore, NEW s \in Fds, NEW op \in Ops, NEW x, x # NULL, ~InSockets(x),
         slen' \in 0 .. MaxFd, slen <= slen', s \in 0 .. (slen' - 1),
         s < slen => S[s].ev[op] = NULL,
         \A i \in 0 .. (slen' - 1), o \in Ops :
           S'[i].ev[o] = IF i = s /\ o = op THEN x
                         ELSE IF i < slen THEN S[i].ev[o] ELSE NULL
  PROVE  OnePlace' /\ \A y : y # NULL => (InSockets(y)' <=> InSockets(y) \/ y = x)
<1>1. slen \in 0 .. MaxFd /\ MaxFd \in Nat
  BY NetAssumption DEF NetCore, Arrays, ArraysOK, ArraysTyped
<1>2. \A i \in 0 .. (slen' - 1) : i < slen => i \in 0 .. (slen - 1)
  BY <1>1
<1>3. \A i \in 0 .. (slen - 1) : i \in 0 .. (slen' - 1) /\ i < slen
  <2>1. slen \in Int /\ slen' \in Int /\ slen <= slen'
    BY <1>1
  <2> QED BY ONLY <2>1, RangeSubset
<1>4. ASSUME NEW y, y # NULL, InSockets(y) \/ y = x PROVE InSockets(y)'
  <2>1. CASE y = x
    BY <2>1 DEF InSockets
  <2>2. CASE y # x
    <3>1. PICK i \in 0 .. (slen - 1), o \in Ops : S[i].ev[o] = y
      BY <2>2, <1>4 DEF InSockets
    <3>2. ~(i = s /\ o = op)
      BY <3>1, <1>1, <1>4
    <3>3. S'[i].ev[o] = S[i].ev[o]
      BY <3>2, <1>3
    <3> QED BY <3>1, <3>3, <1>3 DEF InSockets
  <2> QED BY <2>1, <2>2
<1>6. ASSUME NEW i \in 0 .. (slen' - 1), NEW o \in Ops, S'[i].ev[o] # NULL
      PROVE  /\ S'[i].ev[o] = x <=> i = s /\ o = op
             /\ ~(i = s /\ o = op) => i \in 0 .. (slen - 1) /\ S'[i].ev[o] = S[i].ev[o]
  <2>1. CASE i = s /\ o = op
    BY <2>1
  <2>2. CASE ~(i = s /\ o = op)
    <3>1. i \in 0 .. (slen - 1) /\ S'[i].ev[o] = S[i].ev[o]
      BY <2>2, <1>2, <1>6
    <3>2. S[i].ev[o] # x
      BY <3>1 DEF InSockets
    <3> QED BY <2>2, <3>1, <3>2
  <2> QED BY <2>1, <2>2
<1>7. ASSUME NEW i \in 0 .. (slen' - 1), NEW o \in Ops, S'[i].ev[o] # NULL,
             NEW k \in 0 .. (slen' - 1), NEW q \in Ops, S'[k].ev[q] = S'[i].ev[o]
      PROVE  k = i /\ q = o
  <2>1. CASE i = s /\ o = op
    <3>1. S'[i].ev[o] = x
      BY ONLY <2>1, <1>6, <1>7, i \in 0 .. (slen' - 1), o \in Ops
    <3>2. S'[k].ev[q] # NULL /\ S'[k].ev[q] = x
      BY ONLY <3>1, <1>7
    <3>3. k = s /\ q = op
      BY ONLY <3>2, <1>6, k \in 0 .. (slen' - 1), q \in Ops
    <3> QED BY ONLY <3>3, <2>1
  <2>2. CASE ~(i = s /\ o = op)
    <3>0. S'[i].ev[o] # x
      BY <2>2, <1>6, <1>7
    <3>1. ~(k = s /\ q = op)
      <4> SUFFICES ASSUME k = s, q = op PROVE FALSE
        OBVIOUS
      <4>1. S'[k].ev[q] # NULL
        BY <1>7
      <4>2. S'[k].ev[q] = x
        BY ONLY <4>1, <1>6, k \in 0 .. (slen' - 1), q \in Ops, k = s, q = op
      <4> QED BY ONLY <4>2, <3>0, <1>7
    <3>2. /\ i \in 0 .. (slen - 1) /\ k \in 0 .. (slen - 1)
          /\ S[i].ev[o] # NULL /\ S[k].ev[q] = S[i].ev[o]
      <4>1. i \in 0 .. (slen - 1) /\ S'[i].ev[o] = S[i].ev[o]
        BY ONLY <2>2, <1>6, <1>7, i \in 0 .. (slen' - 1), o \in Ops
      <4>2. S'[k].ev[q] # NULL
        BY ONLY <1>7
      <4>3. k \in 0 .. (slen - 1) /\ S'[k].ev[q] = S[k].ev[q]
        BY ONLY <3>1, <4>2, <1>6, k \in 0 .. (slen' - 1), q \in Ops
      <4> QED BY ONLY <4>1, <4>3, <1>7
    <3>3. OnePlace
      BY DEF NetCore
    <3> QED BY ONLY <3>2, <3>3, o \in Ops, q \in Ops DEF OnePlace
  <2> QED BY <2>1, <2>2
<1>8. ASSUME NEW y, y # NULL, InSockets(y)' PROVE InSockets(y) \/ y = x
  <2>1. PICK i \in 0 .. (slen' - 1), o \in Ops : S'[i].ev[o] = y
    BY <1>8 DEF InSockets
  <2> QED BY <2>1, <1>6, <1>8 DEF InSockets
<1>9. OnePlace'
  BY <1>7 DEF OnePlace
<1> QED BY <1>4, <1>8, <1>9

(* The record of s and op loses its place. *)
LEMMA RemovePlaces ==
  ASSUME NetCore, NEW s \in 0 .. (slen - 1), NEW op \in Ops, S[s].ev[op] # NULL,
         slen' = slen,
         \A i \in 0 .. (slen - 1), o \in Ops :
           S'[i].ev[o] = IF i = s /\ o = op THEN NULL ELSE S[i].ev[o]
  PROVE  /\ OnePlace'
         /\ \A y : y # NULL => (InSockets(y)' <=> InSockets(y) /\ y # S[s].ev[op])
<1> DEFINE x == S[s].ev[op]
<1>1. \A k \in 0 .. (slen - 1), o \in Ops : S[k].ev[o] = x => k = s /\ o = op
  BY DEF NetCore, OnePlace
<1>2. ASSUME NEW y, y # NULL, InSockets(y), y # x PROVE InSockets(y)'
  <2>1. PICK i \in 0 .. (slen - 1), o \in Ops : S[i].ev[o] = y
    BY <1>2 DEF InSockets
  <2> QED BY <2>1, <1>2 DEF InSockets
<1>3. ASSUME NEW y, y # NULL, InSockets(y)' PROVE InSockets(y) /\ y # x
  <2>1. PICK i \in 0 .. (slen - 1), o \in Ops : S'[i].ev[o] = y
    BY <1>3 DEF InSockets
  <2>2. ~(i = s /\ o = op) /\ S[i].ev[o] = y
    BY <2>1, <1>3
  <2> QED BY <2>2, <1>1 DEF InSockets
<1>4. OnePlace'
  <2> SUFFICES ASSUME NEW i \in 0 .. (slen - 1), NEW o \in Ops, S'[i].ev[o] # NULL,
                      NEW k \in 0 .. (slen - 1), NEW q \in Ops, S'[k].ev[q] = S'[i].ev[o]
               PROVE  k = i /\ q = o
    BY DEF OnePlace
  <2>1. S'[i].ev[o] = S[i].ev[o] /\ S'[k].ev[q] = S[k].ev[q]
    OBVIOUS
  <2> QED BY <2>1 DEF NetCore, OnePlace
<1> QED BY <1>2, <1>3, <1>4

----------------------------------------------------------------------------
(* events_network_register keeps the invariant. *)
LEMMA NetRegisterStep ==
  ASSUME NetCore, NEW x \in Recs, NEW s \in Fds, NEW op \in Ops, ~InSockets(x),
         events_network_register(x, s, op)
  PROVE  /\ NetCore' /\ x \notin recs /\ recs' = recs \cup {x} /\ r' = r
         /\ \A y : y # NULL => (InSockets(y)' <=> InSockets(y) \/ y = x)
<1> DEFINE sl == growsocketlist_len(s)
           so == growsocketlist(s)
           S1 == SetEvent(so, s, op, x)
<1>1. /\ ArraysOK(sl, so, nfds, fds)
      /\ s \in 0 .. (sl - 1) /\ slen <= sl /\ sl \in 0 .. MaxFd
      /\ \A i \in 0 .. (sl - 1) : so[i] = IF i < slen THEN S[i] ELSE NoSocket
  BY GrowOK DEF NetCore, Arrays
<1>2. /\ so[s].ev[op] = NULL /\ inited' /\ x \in Recs \ recs /\ recs' = recs \cup {x}
      /\ slen' = sl /\ fdscanpos' = init_scanpos /\ ready' = ready /\ r' = r
      /\ running' \in IF nfds = 0 THEN startclock ELSE {running}
      /\ \/ /\ S1[s].pollpos = SIZE_MAX
            /\ S' = [S1 EXCEPT ![s] = [ev |-> S1[s].ev, pollpos |-> nfds]]
            /\ fds' = growpollfd_fds(s, {op})
            /\ nfds' = nfds + 1
            /\ fds_alloc' = growpollfd_alloc
         \/ /\ S1[s].pollpos # SIZE_MAX
            /\ S' = S1
            /\ fds' = [fds EXCEPT ![S1[s].pollpos] =
                         [fd |-> fds[S1[s].pollpos].fd,
                          events |-> fds[S1[s].pollpos].events \cup {op},
                          revents |-> fds[S1[s].pollpos].revents]]
            /\ fds_alloc' = init_alloc
            /\ nfds' = nfds
  BY DEF events_network_register, init_succeeds, events_mkrec
<1>3. /\ nfds \in Nat /\ nfds < SIZE_MAX /\ slen \in 0 .. MaxFd /\ MaxFd \in Nat
      /\ SIZE_MAX \in Nat /\ InitAlloc \in Nat \ {0}
      /\ fds \in [0 .. (nfds - 1) -> PollFd] /\ so \in [0 .. (sl - 1) -> SocketRec]
      /\ running \in BOOLEAN
  BY <1>1, ArraysFit, NetAssumption DEF NetCore, Arrays, ArraysOK, ArraysTyped, RestTyped
<1>4. /\ S1 \in [0 .. (sl - 1) -> SocketRec]
      /\ \A i \in 0 .. (sl - 1) :
           /\ S1[i].pollpos = so[i].pollpos
           /\ \A o \in Ops : S1[i].ev[o] = IF i = s /\ o = op THEN x ELSE so[i].ev[o]
  <2>1. x \in Recs \cup {NULL} /\ sl \in 0 .. MaxFd
        /\ so \in [0 .. (sl - 1) -> SocketRec] /\ s \in 0 .. (sl - 1)
    BY <1>1, <1>3
  <2> QED BY ONLY <2>1, SetEventEffect, op \in Ops
<1>5. /\ init_alloc \in Nat /\ InitAlloc <= init_alloc /\ nfds <= init_alloc
      /\ init_scanpos \in Nat
      /\ ReportsOK(slen, S, nfds, fds, init_scanpos, ready)
  BY NetInitEffect
<1> HIDE DEF S1, sl, so
<1>6. ArraysOK(sl, S', nfds', fds')
  <2>1. CASE S1[s].pollpos = SIZE_MAX
    <3>1. so[s].pollpos = SIZE_MAX
      BY <2>1, <1>1, <1>4
    <3> QED BY <2>1, <3>1, <1>1, <1>2, AddPollfdOK DEF S1
  <2>2. CASE S1[s].pollpos # SIZE_MAX
    <3>1. so[s].pollpos = S1[s].pollpos
      BY <1>1, <1>4
    <3> QED BY <2>2, <3>1, <1>1, <1>2, SetMaskOK DEF S1
  <2> QED BY <2>1, <2>2
<1>7. \A i \in 0 .. (sl - 1) :
        /\ S'[i].ev = S1[i].ev
        /\ i = s \/ S'[i].pollpos = so[i].pollpos
        /\ so[s].pollpos # SIZE_MAX => S'[i].pollpos = so[i].pollpos
  BY <1>1, <1>2, <1>4
<1>8. nfds' \in Nat /\ nfds <= nfds' /\ nfds' > 0 /\ nfds' <= fds_alloc'
      /\ fds_alloc' \in Nat /\ InitAlloc <= fds_alloc'
  <2>1. CASE S1[s].pollpos = SIZE_MAX
    <3>1. nfds' = nfds + 1 /\ fds_alloc' = growpollfd_alloc
      BY <2>1, <1>2
    <3> QED BY <3>1, <1>3, <1>5 DEF growpollfd_alloc
  <2>2. CASE S1[s].pollpos # SIZE_MAX
    <3>1. nfds' = nfds /\ fds_alloc' = init_alloc
      BY <2>2, <1>2
    <3>2. so[s].pollpos \in Nat /\ so[s].pollpos # SIZE_MAX
      BY <2>2, <1>1, <1>3, <1>4 DEF SocketRec
    <3>3. so[s].pollpos < nfds
      BY <3>2, <1>1 DEF ArraysOK, ArraysLinked
    <3> QED BY <3>1, <3>2, <3>3, <1>3, <1>5
  <2> QED BY <2>1, <2>2
<1>9. \A j \in 0 .. (nfds' - 1) :
        \/ j \in 0 .. (nfds - 1) /\ fds'[j].fd = fds[j].fd /\ fds'[j].revents = fds[j].revents
        \/ ~(j < nfds) /\ fds'[j].revents = {}
  <2>1. CASE S1[s].pollpos = SIZE_MAX
    <3>1. nfds' = nfds + 1 /\ fds' = growpollfd_fds(s, {op})
      BY <2>1, <1>2
    <3> QED BY <3>1, <1>3 DEF growpollfd_fds
  <2>2. CASE S1[s].pollpos # SIZE_MAX
    BY <2>2, <1>2, <1>3
  <2> QED BY <2>1, <2>2
<1>10. \A j \in 0 .. (nfds - 1) : j \in 0 .. (nfds' - 1) /\ j < nfds
  <2>1. nfds \in Int /\ nfds' \in Int /\ nfds <= nfds'
    BY <1>3, <1>8
  <2> QED BY ONLY <2>1, RangeSubset
<1>11. ReportsOK(sl, S', nfds', fds', init_scanpos, ready)
  <2>1. \A j \in 0 .. (nfds' - 1) :
          fds'[j].revents # {} => j <= init_scanpos /\ init_scanpos # SIZE_MAX
    BY <1>5, <1>9 DEF ReportsOK
  <2>2. \A j \in 0 .. (nfds' - 1) : \A b \in fds'[j].revents :
          <<fds'[j].fd, b>> \in ready \/ <<fds'[j].fd, "ERR">> \in ready
    BY <1>5, <1>9 DEF ReportsOK
  <2>3. ASSUME NEW i \in Fds, NEW o \in Ops, <<i, o>> \in ready
        PROVE  i < sl /\ S'[i].pollpos < nfds' /\ o \in fds'[S'[i].pollpos].revents
    <3>1. i < slen /\ S[i].pollpos < nfds /\ o \in fds[S[i].pollpos].revents
      BY <2>3, <1>5 DEF ReportsOK
    <3>2. i \in 0 .. (sl - 1) /\ i < sl /\ i \in 0 .. (slen - 1)
      BY <3>1, <1>1, <1>3 DEF Fds
    <3>3. so[i] = S[i] /\ so[i].pollpos \in Nat
      BY <3>1, <3>2, <1>1, <1>3 DEF SocketRec
    <3>4. so[i].pollpos # SIZE_MAX /\ S[i].pollpos \in 0 .. (nfds - 1)
      BY <3>1, <3>3, <1>3
    <3>5. S'[i].pollpos = S[i].pollpos
      <4>1. CASE i = s
        BY <4>1, <3>2, <3>3, <3>4, <1>7
      <4>2. CASE i # s
        BY <4>2, <3>2, <3>3, <1>7
      <4> QED BY <4>1, <4>2
    <3>6. S[i].pollpos < nfds'
      BY <3>1, <3>4, <1>3, <1>8
    <3>7. fds'[S[i].pollpos].revents = fds[S[i].pollpos].revents
      BY <3>4, <1>9, <1>10
    <3> QED BY <3>1, <3>2, <3>5, <3>6, <3>7
  <2> QED BY <2>1, <2>2, <2>3 DEF ReportsOK
<1>12. OnePlace' /\ \A y : y # NULL => (InSockets(y)' <=> InSockets(y) \/ y = x)
  <2>1. s < slen => S[s].ev[op] = NULL
    BY <1>1, <1>2
  <2>2. \A i \in 0 .. (sl - 1), o \in Ops :
          S'[i].ev[o] = IF i = s /\ o = op THEN x
                        ELSE IF i < slen THEN S[i].ev[o] ELSE NULL
    <3> TAKE i \in 0 .. (sl - 1), o \in Ops
    <3>1. S'[i].ev[o] = IF i = s /\ o = op THEN x ELSE so[i].ev[o]
      BY <1>4, <1>7
    <3>2. so[i].ev[o] = IF i < slen THEN S[i].ev[o] ELSE NULL
      BY <1>1, NoSocketHasNone
    <3> QED BY <3>1, <3>2
  <2>3. x # NULL
    BY RecsAssumption
  <2> QED BY <2>1, <2>2, <2>3, <1>1, <1>2, RegisterPlaces
<1>13. RestTyped'
  BY <1>2, <1>3, <1>5, <1>8 DEF NetCore, RestTyped, startclock
<1>14. ClockOnlyWithEvents' /\ AllocationOK'
  BY <1>2, <1>8 DEF ClockOnlyWithEvents, AllocationOK
<1> QED BY <1>2, <1>6, <1>11, <1>12, <1>13, <1>14 DEF NetCore, Arrays, Reports

(* events_network_register failing keeps the invariant; in particular a     *)
(* clock started for it keeps running only if there are other events.       *)
LEMMA NetRegisterFailsStep ==
  ASSUME NetCore, NEW s \in Fds, NEW op \in Ops, events_network_register_fails(s, op)
  PROVE  /\ NetCore' /\ recs' = recs /\ r' = r
         /\ \A y : y # NULL => (InSockets(y)' <=> InSockets(y))
<1> DEFINE sl == growsocketlist_len(s)
           so == growsocketlist(s)
<1>1. /\ ArraysOK(sl, so, nfds, fds)
      /\ s \in 0 .. (sl - 1) /\ slen <= sl /\ sl \in 0 .. MaxFd
      /\ \A i \in 0 .. (sl - 1) : so[i] = IF i < slen THEN S[i] ELSE NoSocket
  BY GrowOK DEF NetCore, Arrays
<1>2. /\ inited' /\ fds_alloc' = init_alloc /\ fdscanpos' = init_scanpos
      /\ nfds' = nfds /\ fds' = fds /\ ready' = ready /\ recs' = recs /\ r' = r
      /\ \/ slen' = slen /\ S' = S
         \/ slen' = sl /\ S' = so
      /\ \/ running' = running
         \/ init_alloc = nfds /\ running' \in IF nfds = 0 THEN startclock ELSE {running}
  BY DEF events_network_register_fails, init_succeeds
<1>3. /\ init_alloc \in Nat /\ InitAlloc <= init_alloc /\ nfds <= init_alloc
      /\ init_scanpos \in Nat
      /\ ReportsOK(slen, S, nfds, fds, init_scanpos, ready)
  BY NetInitEffect
<1>4. /\ nfds \in Nat /\ slen \in 0 .. MaxFd /\ MaxFd \in Nat
      /\ InitAlloc \in Nat \ {0} /\ ArraysOK(slen, S, nfds, fds)
  BY NetAssumption DEF NetCore, Arrays, ArraysOK, ArraysTyped
<1>5. running' = running
  BY <1>2, <1>3, <1>4
<1> HIDE DEF sl, so
<1>6. /\ slen <= slen' /\ slen' \in 0 .. MaxFd /\ ArraysOK(slen', S', nfds, fds)
      /\ \A i \in 0 .. (slen' - 1) : S'[i] = IF i < slen THEN S[i] ELSE NoSocket
  BY <1>1, <1>2, <1>4
<1>7. \A i \in 0 .. (slen - 1) : i \in 0 .. (slen' - 1) /\ i < slen /\ S'[i] = S[i]
  <2>1. slen \in Int /\ slen' \in Int /\ slen <= slen'
    BY <1>4, <1>6
  <2>2. \A i \in 0 .. (slen - 1) : i \in 0 .. (slen' - 1) /\ i < slen
    BY ONLY <2>1, RangeSubset
  <2> QED BY <2>2, <1>6
<1>8. ReportsOK(slen', S', nfds, fds, init_scanpos, ready)
  <2>1. ASSUME NEW i \in Fds, NEW o \in Ops, <<i, o>> \in ready
        PROVE  i < slen' /\ S'[i].pollpos < nfds /\ o \in fds[S'[i].pollpos].revents
    <3>1. i < slen /\ S[i].pollpos < nfds /\ o \in fds[S[i].pollpos].revents
      BY <2>1, <1>3 DEF ReportsOK
    <3>2. i \in 0 .. (slen - 1)
      BY <3>1, <1>4 DEF Fds
    <3>3. S'[i] = S[i]
      BY <3>2, <1>7
    <3>4. i < slen'
      BY <3>2, <1>4, <1>6, <1>7
    <3> QED BY <3>1, <3>3, <3>4
  <2> QED BY <2>1, <1>3 DEF ReportsOK
<1>9. OnePlace' /\ \A y : y # NULL => (InSockets(y)' <=> InSockets(y))
  <2>1. \A i \in 0 .. (slen' - 1), o \in Ops : S'[i].ev[o] # NULL =>
          i \in 0 .. (slen - 1) /\ S'[i].ev[o] = S[i].ev[o]
    <3> TAKE i \in 0 .. (slen' - 1), o \in Ops
    <3>1. CASE i < slen
      <4>1. i \in 0 .. (slen - 1)
        BY <3>1, <1>4, <1>6
      <4>2. S'[i] = S[i]
        BY <4>1, <1>7
      <4> QED BY <4>1, <4>2
    <3>2. CASE ~(i < slen)
      <4>1. S'[i] = NoSocket
        BY <3>2, <1>6
      <4> QED BY <4>1, NoSocketHasNone
    <3> QED BY <3>1, <3>2
  <2>2. \A y : y # NULL => (InSockets(y)' <=> InSockets(y))
    BY <2>1, <1>7 DEF InSockets
  <2>3. ASSUME NEW i \in 0 .. (slen' - 1), NEW o \in Ops, S'[i].ev[o] # NULL
        PROVE  \A k \in 0 .. (slen' - 1), q \in Ops :
                 S'[k].ev[q] = S'[i].ev[o] => k = i /\ q = o
    <3>1. i \in 0 .. (slen - 1) /\ S'[i].ev[o] = S[i].ev[o]
      BY <2>1, <2>3
    <3>2. \A k \in 0 .. (slen - 1), q \in Ops : S[k].ev[q] = S[i].ev[o] => k = i /\ q = o
      BY <3>1, <2>3 DEF NetCore, OnePlace
    <3> QED BY <3>1, <3>2, <2>1, <2>3
  <2> QED BY <2>2, <2>3 DEF OnePlace
<1>10. RestTyped' /\ ClockOnlyWithEvents' /\ AllocationOK'
  BY <1>2, <1>3, <1>5 DEF NetCore, RestTyped, ClockOnlyWithEvents, AllocationOK
<1> QED BY <1>2, <1>6, <1>8, <1>9, <1>10 DEF NetCore, Arrays, Reports

(* events_network_cancel keeps the invariant. *)
LEMMA NetCancelStep ==
  ASSUME NetCore, NEW s \in Fds, NEW op \in Ops, events_network_cancel(s, op)
  PROVE  /\ NetCore' /\ s < slen /\ S[s].ev[op] # NULL
         /\ recs' = recs \ {S[s].ev[op]} /\ r' = r
         /\ \A y : y # NULL => (InSockets(y)' <=> InSockets(y) /\ y # S[s].ev[op])
<1> DEFINE S1 == SetEvent(S, s, op, NULL)
           pos == S[s].pollpos
<1>1. /\ inited /\ s < slen /\ S[s].ev[op] # NULL
      /\ recs' = recs \ {S[s].ev[op]} /\ r' = r
      /\ S' = clearbit_S(S1, fds, pos, op)
      /\ fds' = clearbit_fds(fds, pos, op)
      /\ nfds' = clearbit_nfds(fds, pos, op)
      /\ running' = (running /\ nfds' # 0)
      /\ ready' = Forget(S1, s, op)
      /\ inited' = inited /\ slen' = slen /\ fds_alloc' = fds_alloc
      /\ fdscanpos' = fdscanpos
  BY DEF events_network_cancel, events_freerec
<1>2. s \in 0 .. (slen - 1) /\ nfds \in Nat
  BY <1>1, NetAssumption DEF Fds, NetCore, Arrays, ArraysOK, ArraysTyped
<1>3. ArraysOK(slen', S', nfds', fds')
  BY <1>1, <1>2, ClearbitOK DEF NetCore, Arrays
<1>4. ReportsOK(slen', S', nfds', fds', fdscanpos', ready')
  BY <1>1, <1>2, ClearbitReports DEF NetCore, Arrays, Reports, RestTyped
<1>5. ClearbitMoves(fds, s, op)
  BY <1>1, <1>2, ClearbitEffect DEF NetCore, Arrays
<1>6. OnePlace' /\ \A y : y # NULL => (InSockets(y)' <=> InSockets(y) /\ y # S[s].ev[op])
  <2>1. \A i \in 0 .. (slen - 1), o \in Ops :
          S'[i].ev[o] = IF i = s /\ o = op THEN NULL ELSE S[i].ev[o]
    BY <1>1, <1>5 DEF ClearbitMoves
  <2> QED BY <2>1, <1>1, <1>2, RemovePlaces
<1>7. nfds' \in Nat /\ nfds' <= nfds
  BY <1>1, <1>5 DEF ClearbitMoves
<1>8. RestTyped'
  <2>1. ready' \subseteq ready
    BY <1>1 DEF Forget
  <2> QED BY <2>1, <1>1 DEF NetCore, RestTyped
<1>9. ClockOnlyWithEvents'
  <2>1. running' => nfds' # 0
    BY <1>1, Zenon
  <2>2. nfds' # 0 => nfds' > 0
    BY <1>7
  <2> QED BY <2>1, <2>2, Zenon DEF ClockOnlyWithEvents
<1>10. AllocationOK'
  BY <1>1, <1>2, <1>7, NetAssumption DEF NetCore, RestTyped, AllocationOK
<1> QED BY <1>1, <1>3, <1>4, <1>6, <1>8, <1>9, <1>10 DEF NetCore, Arrays, Reports

(* The scan converts an error into the requested operations and loses no    *)
(* report; nothing is left to take above the position where it stops.       *)
LEMMA ScanOK ==
  ASSUME NetCore, NEW k \in 0 .. (nfds - 1), fdscanpos < nfds,
         \A j \in 0 .. (nfds - 1) :
           j <= fdscanpos /\ k < j => ErrToOps(fds[j]) \cap Ops = {}
  PROVE  /\ ArraysOK(slen, S, nfds, Scanned(k))
         /\ ReportsOK(slen, S, nfds, Scanned(k), k, ready)
         /\ \A j \in 0 .. (nfds - 1) : Scanned(k)[j].fd = fds[j].fd
<1> DEFINE pf == Scanned(k)
<1>1. /\ nfds \in Nat /\ slen \in 0 .. MaxFd /\ MaxFd \in Nat /\ SIZE_MAX \in Nat
      /\ S \in [0 .. (slen - 1) -> SocketRec]
      /\ fds \in [0 .. (nfds - 1) -> PollFd] /\ nfds < SIZE_MAX /\ fdscanpos \in Nat
  BY ArraysFit, NetAssumption DEF NetCore, Arrays, ArraysOK, ArraysTyped, RestTyped
<1>2. \A j \in 0 .. (nfds - 1) :
        /\ fds[j] \in PollFd /\ fds[j].fd \in Fds /\ fds[j].events \subseteq Ops
        /\ fds[j].revents \subseteq PollBits
        /\ fds[j].revents \cap Ops \subseteq fds[j].events
  BY <1>1 DEF NetCore, Arrays, ArraysOK, ArraysAgree, PollFd
<1>3. \A j \in 0 .. (nfds - 1) :
        /\ pf[j].fd = fds[j].fd
        /\ pf[j].events = fds[j].events
        /\ pf[j].revents = IF k <= j /\ j <= fdscanpos THEN ErrToOps(fds[j])
                           ELSE fds[j].revents
  BY DEF Scanned
<1>4. \A j \in 0 .. (nfds - 1) :
        /\ ErrToOps(fds[j]) \subseteq PollBits
        /\ ErrToOps(fds[j]) \cap Ops \subseteq fds[j].events
        /\ fds[j].revents \cap Ops \subseteq ErrToOps(fds[j])
  BY <1>2 DEF ErrToOps, PollBits, Ops
<1>5. pf \in [0 .. (nfds - 1) -> PollFd]
  <2>1. \A j \in 0 .. (nfds - 1) :
          [fd |-> fds[j].fd, events |-> fds[j].events, revents |-> ErrToOps(fds[j])] \in PollFd
    BY <1>2, <1>4 DEF PollFd
  <2> QED BY <2>1, <1>2 DEF Scanned
<1> HIDE DEF pf
<1>6. ArraysOK(slen, S, nfds, pf)
  <2>1. ArraysTyped(slen, S, nfds, pf)
    BY <1>1, <1>5 DEF ArraysTyped
  <2>2. ArraysLinked(slen, S, nfds, pf)
    <3>1. \A i \in 0 .. (slen - 1) : S[i].pollpos # SIZE_MAX =>
            S[i].pollpos < nfds /\ pf[S[i].pollpos].fd = i
      <4> SUFFICES ASSUME NEW i \in 0 .. (slen - 1), S[i].pollpos # SIZE_MAX
                   PROVE  S[i].pollpos < nfds /\ pf[S[i].pollpos].fd = i
        OBVIOUS
      <4>1. S[i].pollpos < nfds /\ fds[S[i].pollpos].fd = i
        BY DEF NetCore, Arrays, ArraysOK, ArraysLinked
      <4>2. S[i].pollpos \in 0 .. (nfds - 1)
        BY <4>1, <1>1 DEF SocketRec
      <4> QED BY <4>1, <4>2, <1>3
    <3>2. \A j \in 0 .. (nfds - 1) : pf[j].fd < slen /\ S[pf[j].fd].pollpos = j
      BY <1>3 DEF NetCore, Arrays, ArraysOK, ArraysLinked
    <3> QED BY <3>1, <3>2 DEF ArraysLinked
  <2>3. ArraysAgree(slen, S, nfds, pf)
    BY <1>2, <1>3, <1>4 DEF NetCore, Arrays, ArraysOK, ArraysAgree
  <2> QED BY <2>1, <2>2, <2>3 DEF ArraysOK
<1>7. \A j \in 0 .. (nfds - 1) : pf[j].revents # {} => j <= k /\ k # SIZE_MAX
  <2> SUFFICES ASSUME NEW j \in 0 .. (nfds - 1), pf[j].revents # {}, k < j
               PROVE  FALSE
    BY <1>1
  <2>1. j <= fdscanpos
    BY <1>3 DEF NetCore, Reports, ReportsOK
  <2>2. ErrToOps(fds[j]) \cap Ops = {} /\ pf[j].revents = ErrToOps(fds[j])
    BY <2>1, <1>1, <1>3
  <2>3. "ERR" \in ErrToOps(fds[j])
    BY <2>2, <1>4 DEF PollBits
  <2>4. FALSE
    BY <2>3, <1>2 DEF ErrToOps, Ops
  <2> QED BY <2>4
<1>8. ASSUME NEW i \in Fds, NEW o \in Ops, <<i, o>> \in ready
      PROVE  i < slen /\ S[i].pollpos < nfds /\ o \in pf[S[i].pollpos].revents
  <2>1. i < slen /\ S[i].pollpos < nfds /\ o \in fds[S[i].pollpos].revents
    BY <1>8 DEF NetCore, Reports, ReportsOK
  <2>2. S[i].pollpos \in 0 .. (nfds - 1)
    <3>1. i \in 0 .. (slen - 1)
      BY <2>1, <1>1 DEF Fds
    <3>2. S[i].pollpos \in Nat
      BY <3>1, <1>1 DEF SocketRec
    <3> QED BY <3>2, <2>1, <1>1
  <2>3. o \in ErrToOps(fds[S[i].pollpos])
    BY <2>1, <2>2, <1>4
  <2> QED BY <2>1, <2>2, <2>3, <1>3
<1>9. ASSUME NEW j \in 0 .. (nfds - 1), NEW b \in pf[j].revents
      PROVE  <<pf[j].fd, b>> \in ready \/ <<pf[j].fd, "ERR">> \in ready
  <2>1. b \in fds[j].revents \/ "ERR" \in fds[j].revents
    BY <1>3, <1>9 DEF ErrToOps
  <2> QED BY <2>1, <1>3 DEF NetCore, Reports, ReportsOK
<1> QED BY <1>3, <1>6, <1>7, <1>8, <1>9 DEF ReportsOK, pf

(* events_network_get, when it stops at position k, finds a registered      *)
(* event that poll reported, and takes it.                                  *)
LEMMA NetGetFinds ==
  ASSUME NetCore, NEW k \in 0 .. (nfds - 1), events_network_get_hit(k)
  PROVE  \E s \in 0 .. (slen - 1), op \in Ops :
           /\ ArraysOK(slen, S, nfds, Scanned(k))
           /\ ReportsOK(slen, S, nfds, Scanned(k), k, ready)
           /\ S[s].ev[op] # NULL /\ S[s].pollpos = k /\ r' = S[s].ev[op]
           /\ <<s, op>> \in ready \/ <<s, "ERR">> \in ready
           /\ S' = clearbit_S(SetEvent(S, s, op, NULL), Scanned(k), k, op)
           /\ fds' = clearbit_fds(Scanned(k), k, op)
           /\ nfds' = clearbit_nfds(Scanned(k), k, op)
           /\ ready' = Forget(SetEvent(S, s, op, NULL), s, op)
<1> DEFINE pf == Scanned(k)
           op == IF "IN" \in pf[k].revents THEN "IN" ELSE "OUT"
           s == pf[k].fd
<1>1. /\ fdscanpos < nfds /\ k \in Hits /\ (\A j \in Hits : j <= k)
      /\ r' = S[s].ev[op]
      /\ S' = clearbit_S(SetEvent(S, s, op, NULL), pf, k, op)
      /\ fds' = clearbit_fds(pf, k, op)
      /\ nfds' = clearbit_nfds(pf, k, op)
      /\ ready' = Forget(SetEvent(S, s, op, NULL), s, op)
  BY DEF events_network_get_hit
<1>2. nfds \in Nat /\ slen \in Nat
  BY DEF NetCore, Arrays, ArraysOK, ArraysTyped
<1>3. \A j \in 0 .. (nfds - 1) :
        j <= fdscanpos /\ k < j => ErrToOps(fds[j]) \cap Ops = {}
  BY <1>1, <1>2 DEF Hits
<1>4. ArraysOK(slen, S, nfds, pf) /\ ReportsOK(slen, S, nfds, pf, k, ready)
  BY <1>1, <1>3, ScanOK
<1>5. pf[k].revents = ErrToOps(fds[k]) /\ ErrToOps(fds[k]) \cap Ops # {}
  BY <1>1, <1>2 DEF Scanned, Hits
<1>6. op \in Ops /\ op \in pf[k].revents
  BY <1>5 DEF Ops
<1> HIDE DEF pf
<1>7. /\ s \in 0 .. (slen - 1) /\ S[s].pollpos = k /\ S[s].ev[op] # NULL
      /\ <<s, op>> \in ready \/ <<s, "ERR">> \in ready
  <2>1. s \in Nat /\ s < slen /\ S[s].pollpos = k
    BY <1>4 DEF ArraysOK, ArraysTyped, ArraysLinked, PollFd, Fds
  <2>2. op \in pf[k].events
    BY <1>4, <1>6 DEF ArraysOK, ArraysAgree
  <2>3. S[s].ev[op] # NULL
    BY <2>2, <1>4, <1>6 DEF ArraysOK, ArraysAgree
  <2>4. <<s, op>> \in ready \/ <<s, "ERR">> \in ready
    BY <1>4, <1>6 DEF ReportsOK
  <2> QED BY <2>1, <2>3, <2>4, <1>2
<1> HIDE DEF s, op
<1> QED BY <1>1, <1>4, <1>6, <1>7 DEF pf

(* events_network_get, taking an event, keeps the invariant. *)
LEMMA NetGetHitStep ==
  ASSUME NetCore, NEW k \in 0 .. (nfds - 1), events_network_get_hit(k)
  PROVE  /\ NetCore' /\ recs' = recs /\ r' \in Recs /\ InSockets(r')
         /\ \A y : y # NULL => (InSockets(y)' <=> InSockets(y) /\ y # r')
<1> DEFINE pf == Scanned(k)
<1>1. PICK s \in 0 .. (slen - 1), op \in Ops :
           /\ ArraysOK(slen, S, nfds, pf)
           /\ ReportsOK(slen, S, nfds, pf, k, ready)
           /\ S[s].ev[op] # NULL /\ S[s].pollpos = k /\ r' = S[s].ev[op]
           /\ S' = clearbit_S(SetEvent(S, s, op, NULL), pf, k, op)
           /\ fds' = clearbit_fds(pf, k, op)
           /\ nfds' = clearbit_nfds(pf, k, op)
           /\ ready' = Forget(SetEvent(S, s, op, NULL), s, op)
  BY NetGetFinds
<1>2. /\ fdscanpos' = k /\ running' = (running /\ (r' = NULL \/ nfds' # 0))
      /\ inited' = inited /\ slen' = slen /\ fds_alloc' = fds_alloc /\ recs' = recs
  BY DEF events_network_get_hit
<1> HIDE DEF pf
<1>3. nfds \in Nat /\ k \in Nat /\ ready \subseteq Fds \X PollBits
  BY DEF NetCore, RestTyped, Arrays, ArraysOK, ArraysTyped
<1>4. ArraysOK(slen', S', nfds', fds')
  BY <1>1, <1>2, ClearbitOK
<1>5. ReportsOK(slen', S', nfds', fds', fdscanpos', ready')
  BY <1>1, <1>2, <1>3, ClearbitReports
<1>6. ClearbitMoves(pf, s, op)
  BY <1>1, ClearbitEffect
<1>7. OnePlace' /\ \A y : y # NULL => (InSockets(y)' <=> InSockets(y) /\ y # r')
  <2>1. \A i \in 0 .. (slen - 1), o \in Ops :
          S'[i].ev[o] = IF i = s /\ o = op THEN NULL ELSE S[i].ev[o]
    BY <1>1, <1>6 DEF ClearbitMoves
  <2> QED BY <2>1, <1>1, <1>2, RemovePlaces
<1>8. nfds' \in Nat /\ nfds' <= nfds
  BY <1>1, <1>6 DEF ClearbitMoves
<1>9. r' \in Recs /\ InSockets(r')
  BY <1>1 DEF NetCore, Arrays, ArraysOK, ArraysTyped, SocketRec, InSockets
<1>10. RestTyped'
  <2>1. ready' \subseteq ready
    BY <1>1 DEF Forget
  <2> QED BY <2>1, <1>2, <1>3 DEF NetCore, RestTyped
<1>11. ClockOnlyWithEvents'
  <2>1. r' # NULL
    BY <1>1
  <2>2. running' => nfds' # 0
    BY <2>1, <1>2, Zenon
  <2>3. nfds' # 0 => nfds' > 0
    BY <1>8
  <2> QED BY <2>2, <2>3, Zenon DEF ClockOnlyWithEvents
<1>12. AllocationOK'
  BY <1>2, <1>3, <1>8, NetAssumption DEF NetCore, RestTyped, AllocationOK
<1> QED BY <1>2, <1>4, <1>5, <1>7, <1>9, <1>10, <1>11, <1>12 DEF NetCore, Arrays, Reports

(* events_network_get returning NULL keeps the invariant. *)
LEMMA NetGetNoneStep ==
  ASSUME NetCore, events_network_get_none
  PROVE  /\ NetCore' /\ recs' = recs /\ r' = r
         /\ fdscanpos < nfds => \A j \in 0 .. (nfds' - 1) : fds'[j].revents = {}
         /\ \A y : InSockets(y)' <=> InSockets(y)
<1>1. /\ inited' = inited /\ slen' = slen /\ S' = S /\ fds_alloc' = fds_alloc
      /\ nfds' = nfds /\ running' = running /\ ready' = ready /\ recs' = recs /\ r' = r
  BY DEF events_network_get_none
<1>0. \A y : InSockets(y)' <=> InSockets(y)
  BY <1>1 DEF InSockets
<1>2. CASE ~(fdscanpos < nfds) /\ fds' = fds /\ fdscanpos' = fdscanpos
  BY <1>0, <1>1, <1>2 DEF NetCore, RestTyped, Arrays, Reports, OnePlace,
                          ClockOnlyWithEvents, AllocationOK
<1>3. CASE fdscanpos < nfds /\ Hits = {} /\ fds' = Scanned(0) /\ fdscanpos' = SIZE_MAX
  <2>1. nfds \in Nat /\ fdscanpos \in Nat /\ 0 \in 0 .. (nfds - 1) /\ SIZE_MAX \in Nat
    BY <1>3, NetAssumption DEF NetCore, RestTyped, Arrays, ArraysOK, ArraysTyped
  <2>2. \A j \in 0 .. (nfds - 1) : j <= fdscanpos => ErrToOps(fds[j]) \cap Ops = {}
    BY <1>3 DEF Hits
  <2>3. /\ ArraysOK(slen, S, nfds, Scanned(0))
        /\ ReportsOK(slen, S, nfds, Scanned(0), 0, ready)
    BY <1>3, <2>1, <2>2, ScanOK
  <2>4. \A j \in 0 .. (nfds - 1) : Scanned(0)[j].revents = {}
    <3> TAKE j \in 0 .. (nfds - 1)
    <3>1. CASE j <= fdscanpos
      <4>1. Scanned(0)[j].revents = ErrToOps(fds[j])
        BY <3>1, <2>1 DEF Scanned
      <4>2. ErrToOps(fds[j]) \cap Ops = {}
        BY <3>1, <2>2
      <4>3. ErrToOps(fds[j]) \subseteq PollBits
        <5>1. Scanned(0)[j].revents \subseteq PollBits
          BY <2>3 DEF ArraysOK, ArraysTyped, PollFd
        <5> QED BY <5>1, <4>1
      <4>4. "ERR" \notin ErrToOps(fds[j])
        <5>1. fds[j].events \subseteq Ops
          BY DEF NetCore, Arrays, ArraysOK, ArraysTyped, PollFd
        <5> QED BY <5>1 DEF ErrToOps, Ops
      <4> QED BY <4>1, <4>2, <4>3, <4>4 DEF PollBits
    <3>2. CASE ~(j <= fdscanpos)
      <4>1. Scanned(0)[j] = fds[j]
        BY <3>2 DEF Scanned
      <4>2. fds[j].revents = {}
        BY <3>2 DEF NetCore, Reports, ReportsOK
      <4> QED BY <4>1, <4>2
    <3> QED BY <3>1, <3>2
  <2>5. ReportsOK(slen, S, nfds, Scanned(0), SIZE_MAX, ready)
    BY <2>3, <2>4 DEF ReportsOK
  <2>6. RestTyped' /\ OnePlace' /\ ClockOnlyWithEvents' /\ AllocationOK'
    BY <1>1, <1>3, <2>1 DEF NetCore, RestTyped, OnePlace, ClockOnlyWithEvents, AllocationOK
  <2> QED BY <1>0, <1>1, <1>3, <2>3, <2>4, <2>5, <2>6 DEF NetCore, Arrays, Reports
<1> QED BY <1>2, <1>3 DEF events_network_get_none

(* events_network_select: poll writes every revents, so the reports start   *)
(* again from what it wrote.                                                *)
LEMMA NetSelectStep ==
  ASSUME NetCore, NEW rev \in PollResults, events_network_select(rev)
  PROVE  NetCore' /\ recs' = recs /\ r' = r /\ \A y : InSockets(y)' <=> InSockets(y)
<1>1. /\ inited' /\ slen' = slen /\ S' = S /\ nfds' = nfds /\ recs' = recs /\ r' = r
      /\ fds' = [j \in 0 .. (nfds - 1) |->
                   [fd |-> fds[j].fd, events |-> fds[j].events, revents |-> rev[j]]]
      /\ ready' = ReportedReady(rev)
      /\ running' \in IF nfds > 0 THEN BOOLEAN ELSE {FALSE}
      /\ fds_alloc' = init_alloc
      /\ fdscanpos' = Pred(nfds)
  BY DEF events_network_select, init_succeeds
<1>2. /\ nfds \in Nat /\ nfds < SIZE_MAX /\ SIZE_MAX \in Nat
      /\ slen \in 0 .. MaxFd /\ MaxFd \in Nat
      /\ S \in [0 .. (slen - 1) -> SocketRec]
      /\ fds \in [0 .. (nfds - 1) -> PollFd]
  BY ArraysFit, NetAssumption DEF NetCore, Arrays, ArraysOK, ArraysTyped
<1>3. \A j \in 0 .. (nfds - 1) :
        /\ rev[j] \subseteq PollBits
        /\ rev[j] \cap Ops \subseteq fds[j].events
        /\ fds[j].fd \in Fds /\ fds[j].events \in SUBSET Ops
  BY <1>2 DEF PollResults, PollFd, Ops
<1>4. \A j \in 0 .. (nfds - 1) :
        /\ fds'[j] \in PollFd /\ fds'[j].fd = fds[j].fd
        /\ fds'[j].events = fds[j].events /\ fds'[j].revents = rev[j]
  BY <1>1, <1>3 DEF PollFd
<1>5. fds' \in [0 .. (nfds - 1) -> PollFd]
  BY <1>1, <1>4
<1>6. Arrays'
  <2>1. ArraysTyped(slen, S, nfds, fds')
    BY <1>2, <1>5 DEF ArraysTyped
  <2>2. ArraysLinked(slen, S, nfds, fds')
    <3>1. \A i \in 0 .. (slen - 1) : S[i].pollpos # SIZE_MAX =>
            S[i].pollpos < nfds /\ fds'[S[i].pollpos].fd = i
      <4> SUFFICES ASSUME NEW i \in 0 .. (slen - 1), S[i].pollpos # SIZE_MAX
                   PROVE  S[i].pollpos < nfds /\ fds'[S[i].pollpos].fd = i
        OBVIOUS
      <4>1. S[i].pollpos < nfds /\ fds[S[i].pollpos].fd = i
        BY DEF NetCore, Arrays, ArraysOK, ArraysLinked
      <4>2. S[i].pollpos \in 0 .. (nfds - 1)
        BY <4>1, <1>2 DEF SocketRec
      <4> QED BY <4>1, <4>2, <1>4
    <3>2. \A j \in 0 .. (nfds - 1) : fds'[j].fd < slen /\ S[fds'[j].fd].pollpos = j
      BY <1>4 DEF NetCore, Arrays, ArraysOK, ArraysLinked
    <3> QED BY <3>1, <3>2 DEF ArraysLinked
  <2>3. ArraysAgree(slen, S, nfds, fds')
    BY <1>3, <1>4 DEF NetCore, Arrays, ArraysOK, ArraysAgree
  <2> QED BY <2>1, <2>2, <2>3, <1>1 DEF Arrays, ArraysOK
<1>7. Reports'
  <2>1. \A j \in 0 .. (nfds - 1) :
          fds'[j].revents # {} => j <= fdscanpos' /\ fdscanpos' # SIZE_MAX
    BY <1>1, <1>2 DEF Pred
  <2>2. ASSUME NEW i \in Fds, NEW o \in Ops, <<i, o>> \in ready'
        PROVE  i < slen /\ S[i].pollpos < nfds /\ o \in fds'[S[i].pollpos].revents
    <3>1. PICK j \in 0 .. (nfds - 1) : fds[j].fd = i /\ o \in rev[j]
      BY <2>2, <1>1 DEF ReportedReady
    <3>2. i < slen /\ S[i].pollpos = j
      BY <3>1 DEF NetCore, Arrays, ArraysOK, ArraysLinked
    <3> QED BY <3>1, <3>2, <1>2, <1>4
  <2>3. ASSUME NEW j \in 0 .. (nfds - 1), NEW b \in fds'[j].revents
        PROVE  <<fds'[j].fd, b>> \in ready'
    <3>1. fds'[j].fd \in Fds /\ b \in PollBits /\ b \in rev[j] /\ fds'[j].fd = fds[j].fd
      BY <1>3, <1>4, <2>3
    <3> QED BY <3>1, <1>1 DEF ReportedReady
  <2> QED BY <2>1, <2>2, <2>3, <1>1 DEF Reports, ReportsOK
<1>8. OnePlace' /\ \A y : InSockets(y)' <=> InSockets(y)
  BY <1>1 DEF NetCore, OnePlace, InSockets
<1>9. RestTyped' /\ AllocationOK'
  <2>1. init_alloc \in Nat /\ InitAlloc <= init_alloc /\ nfds <= init_alloc
    BY NetInitEffect
  <2>2. ready' \subseteq Fds \X PollBits
    BY <1>1 DEF ReportedReady
  <2>3. Pred(nfds) \in Nat
    BY <1>2 DEF Pred
  <2> QED BY <2>1, <2>2, <2>3, <1>1 DEF NetCore, RestTyped, AllocationOK
<1>10. ClockOnlyWithEvents'
  BY <1>1 DEF ClockOnlyWithEvents
<1> QED BY <1>1, <1>6, <1>7, <1>8, <1>9, <1>10 DEF NetCore

(* The steps that only initialise, restart the scan or stop the clock. *)
LEMMA NetQuietStep ==
  ASSUME NetCore,
         \/ events_network_select_interrupted
         \/ events_network_select_fails
         \/ \E s \in Fds, op \in Ops : events_network_cancel_fails(s, op)
         \/ init_fails /\ UNCHANGED r
  PROVE  NetCore' /\ recs' = recs /\ r' = r /\ \A y : InSockets(y)' <=> InSockets(y)
<1>1. /\ slen' = slen /\ S' = S /\ nfds' = nfds /\ fds' = fds
      /\ ready' = ready /\ recs' = recs /\ r' = r
  BY DEF events_network_select_interrupted, events_network_select_fails,
         events_network_cancel_fails, init_fails
<1>2. /\ init_alloc \in Nat /\ InitAlloc <= init_alloc /\ nfds <= init_alloc
      /\ init_scanpos \in Nat
      /\ ReportsOK(slen, S, nfds, fds, init_scanpos, ready)
  BY NetInitEffect
<1>3. /\ nfds \in Nat /\ nfds < SIZE_MAX /\ SIZE_MAX \in Nat /\ InitAlloc \in Nat
      /\ fds_alloc \in Nat /\ fdscanpos \in Nat /\ running \in BOOLEAN /\ inited \in BOOLEAN
  BY ArraysFit, NetAssumption DEF NetCore, Arrays, ArraysOK, ArraysTyped, RestTyped
<1>4. /\ inited' \in BOOLEAN /\ fds_alloc' \in Nat /\ fdscanpos' \in Nat
      /\ running' \in BOOLEAN
      /\ inited' => InitAlloc <= fds_alloc' /\ nfds <= fds_alloc'
      /\ ~inited' => ~inited
  <2>1. CASE events_network_select_interrupted
    <3>1. /\ inited' = TRUE /\ fds_alloc' = init_alloc /\ fdscanpos' = Pred(nfds)
          /\ running' \in IF nfds > 0 THEN BOOLEAN ELSE {FALSE}
      BY <2>1 DEF events_network_select_interrupted, init_succeeds
    <3>2. running' \in BOOLEAN
      BY <3>1
    <3>3. Pred(nfds) \in Nat
      BY <1>3 DEF Pred
    <3> QED BY <3>1, <3>2, <3>3, <1>2
  <2>2. CASE init_fails
    BY <2>2, <1>2, <1>3 DEF init_fails
  <2>3. CASE events_network_select_fails
    BY <2>3, <1>2, <1>3 DEF events_network_select_fails, init_succeeds
  <2>4. CASE \E s \in Fds, op \in Ops : events_network_cancel_fails(s, op)
    BY <2>4, <1>2, <1>3 DEF events_network_cancel_fails, init_succeeds
  <2> QED BY <2>1, <2>2, <2>3, <2>4
<1>5. running' => running \/ nfds > 0
  BY <1>3 DEF events_network_select_interrupted, events_network_select_fails,
              events_network_cancel_fails, init_fails
<1>6. ReportsOK(slen, S, nfds, fds, fdscanpos', ready)
  <2>1. CASE events_network_select_interrupted
    BY <2>1, <1>2, <1>3 DEF events_network_select_interrupted, Pred, ReportsOK
  <2>2. CASE init_fails
    BY <2>2 DEF init_fails, NetCore, AllocationOK, Reports, ReportsOK
  <2>3. CASE ~events_network_select_interrupted /\ ~init_fails
    BY <2>3, <1>2 DEF events_network_select_fails, events_network_cancel_fails
  <2> QED BY <2>1, <2>2, <2>3
<1>7. /\ RestTyped' /\ OnePlace' /\ AllocationOK'
      /\ \A y : InSockets(y)' <=> InSockets(y)
  BY <1>1, <1>3, <1>4 DEF NetCore, RestTyped, OnePlace, AllocationOK, InSockets
<1>8. ClockOnlyWithEvents'
  BY <1>1, <1>5 DEF NetCore, ClockOnlyWithEvents
<1> QED BY <1>1, <1>6, <1>7, <1>8 DEF NetCore, Arrays, Reports

(* Freeing the arrays when nothing is registered. *)
LEMMA NetShutdownStep ==
  ASSUME NetCore, events_network_shutdown
  PROVE  /\ NetCore' /\ recs' = recs /\ r' = r
         /\ \A y : y # NULL => (InSockets(y)' <=> InSockets(y))
<1>1. /\ nfds = 0 /\ inited' = FALSE /\ slen' = 0 /\ fds_alloc' = 0
      /\ S' = [i \in 0 .. (0 - 1) |-> NoSocket]
      /\ nfds' = nfds /\ fds' = fds /\ fdscanpos' = fdscanpos
      /\ running' = running /\ ready' = ready /\ recs' = recs /\ r' = r
  BY DEF events_network_shutdown
<1>2. Arrays'
  <2>1. S' \in [0 .. (0 - 1) -> SocketRec]
    BY <1>1
  <2>2. fds \in [0 .. (nfds - 1) -> PollFd] /\ MaxFd \in Nat
    BY NetAssumption DEF NetCore, Arrays, ArraysOK, ArraysTyped
  <2> QED BY <1>1, <2>1, <2>2 DEF Arrays, ArraysOK, ArraysTyped, ArraysLinked, ArraysAgree
<1>3. slen \in Nat /\ \A i \in 0 .. (slen - 1), o \in Ops : S[i].ev[o] = NULL
  <2>1. slen \in Nat /\ \A i \in 0 .. (slen - 1) : S[i].pollpos \in Nat
    BY DEF NetCore, Arrays, ArraysOK, ArraysTyped, SocketRec
  <2>2. \A i \in 0 .. (slen - 1) : S[i].pollpos = SIZE_MAX
    BY <1>1, <2>1 DEF NetCore, Arrays, ArraysOK, ArraysLinked
  <2> QED BY <2>1, <2>2 DEF NetCore, Arrays, ArraysOK, ArraysAgree
<1>4. OnePlace' /\ \A y : y # NULL => (InSockets(y)' <=> InSockets(y))
  BY <1>1, <1>3 DEF OnePlace, InSockets
<1>5. \A i \in Fds, o \in Ops : <<i, o>> \notin ready
  <2> SUFFICES ASSUME NEW i \in Fds, NEW o \in Ops, <<i, o>> \in ready
               PROVE  FALSE
    OBVIOUS
  <2>1. i < slen /\ S[i].pollpos < 0
    BY <1>1 DEF NetCore, Reports, ReportsOK
  <2>2. i \in 0 .. (slen - 1)
    BY <2>1, <1>3, NetAssumption DEF Fds
  <2>3. S[i].pollpos \in Nat
    BY <2>2 DEF NetCore, Arrays, ArraysOK, ArraysTyped, SocketRec
  <2> QED BY <2>1, <2>3
<1>6. Reports'
  BY <1>1, <1>5 DEF Reports, ReportsOK
<1>7. RestTyped' /\ ClockOnlyWithEvents' /\ AllocationOK'
  BY <1>1 DEF NetCore, RestTyped, ClockOnlyWithEvents, AllocationOK
<1> QED BY <1>1, <1>2, <1>4, <1>6, <1>7 DEF NetCore

(* A step of something else. *)
LEMMA NetOtherStep ==
  ASSUME NetCore, UNCHANGED netvars
  PROVE  NetCore' /\ \A y : InSockets(y)' <=> InSockets(y)
<1>1. /\ inited' = inited /\ slen' = slen /\ S' = S /\ fds_alloc' = fds_alloc
      /\ nfds' = nfds /\ fds' = fds /\ fdscanpos' = fdscanpos
      /\ running' = running /\ ready' = ready
  BY DEF netvars
<1> QED BY <1>1 DEF NetCore, RestTyped, Arrays, Reports, OnePlace, InSockets,
                    ClockOnlyWithEvents, AllocationOK

----------------------------------------------------------------------------
(* The initial state, with nothing registered, satisfies the invariant. *)
LEMMA NetInitOK == NetInit => NetCore /\ \A y : ~InSockets(y)
<1> SUFFICES ASSUME NetInit PROVE NetCore /\ \A y : ~InSockets(y)
  OBVIOUS
<1>1. /\ inited = FALSE /\ slen = 0 /\ fds_alloc = 0 /\ nfds = 0 /\ fdscanpos = 0
      /\ running = FALSE /\ ready = {}
      /\ S \in [0 .. (0 - 1) -> SocketRec] /\ fds \in [0 .. (0 - 1) -> PollFd]
  BY DEF NetInit
<1>2. Arrays
  BY <1>1, NetAssumption DEF Arrays, ArraysOK, ArraysTyped, ArraysLinked, ArraysAgree
<1>3. Reports
  BY <1>1 DEF Reports, ReportsOK
<1>4. RestTyped
  BY <1>1 DEF RestTyped
<1>5. OnePlace /\ \A y : ~InSockets(y)
  BY <1>1 DEF OnePlace, InSockets
<1> QED BY <1>1, <1>2, <1>3, <1>4, <1>5 DEF NetCore, ClockOnlyWithEvents, AllocationOK

(* RecordsAccounted in terms of the registered records. *)
LEMMA RecordsMeans ==
  ASSUME NetCore, RecTypeOK
  PROVE  RecordsAccounted <=> /\ \A y \in recs : y = r \/ InSockets(y)
                              /\ r # NULL => r \in recs
                              /\ \A y : y # NULL /\ InSockets(y) => y \in recs /\ y # r
BY DEF NetCore, OnePlace, RecordsAccounted, InSockets

(* Every call of a client and every step of the event loop keeps it. *)
LEMMA NetNextOK == NetIInv /\ [NetClient \/ NetLoop]_<<netvars, recvars>> => NetIInv'
<1> SUFFICES ASSUME NetIInv, [NetClient \/ NetLoop]_<<netvars, recvars>> PROVE NetIInv'
  OBVIOUS
<1>1. /\ NetCore /\ RecTypeOK /\ recs \subseteq Recs /\ r \in Recs \cup {NULL}
      /\ NULL \notin Recs
      /\ \A y \in recs : y = r \/ InSockets(y)
      /\ r # NULL => r \in recs
      /\ \A y : y # NULL /\ InSockets(y) => y \in recs /\ y # r
  BY RecordsMeans, RecsAssumption DEF NetIInv, RecTypeOK
<1>2. ASSUME NetCore', recs' \subseteq Recs, r' \in Recs \cup {NULL},
             \A y \in recs' : y = r' \/ InSockets(y)',
             r' # NULL => r' \in recs',
             \A y : y # NULL /\ InSockets(y)' => y \in recs' /\ y # r'
      PROVE  NetIInv'
  <2>1. RecTypeOK'
    BY <1>2 DEF RecTypeOK
  <2>2. RecordsAccounted'
    BY <1>2 DEF NetCore, OnePlace, RecordsAccounted, InSockets
  <2> QED BY <1>2, <2>1, <2>2 DEF NetIInv
<1>3. ASSUME NetCore', recs' = recs, r' = r, \A y : y # NULL => (InSockets(y)' <=> InSockets(y))
      PROVE  NetIInv'
  BY <1>1, <1>2, <1>3
<1>4. ASSUME NEW x \in recs, x # r, NetCore', r' = r, recs' = recs \ {x},
             \A y : y # NULL => (InSockets(y)' <=> InSockets(y) /\ y # x)
      PROVE  NetIInv'
  BY <1>1, <1>2, <1>4
<1>5. CASE NetClient
  <2>1. ASSUME NEW s \in Fds, NEW op \in Ops, NEW x \in Recs, events_network_register(x, s, op)
        PROVE  NetIInv'
    <3>1. x \notin recs /\ x # NULL
      BY <2>1, <1>1 DEF events_network_register, events_mkrec
    <3>2. ~InSockets(x)
      BY <3>1, <1>1
    <3>3. /\ NetCore' /\ recs' = recs \cup {x} /\ r' = r
          /\ \A y : y # NULL => (InSockets(y)' <=> InSockets(y) \/ y = x)
      BY <2>1, <3>2, <1>1, NetRegisterStep
    <3> QED BY <3>1, <3>3, <1>1, <1>2
  <2>2. ASSUME NEW s \in Fds, NEW op \in Ops, events_network_register_fails(s, op)
        PROVE  NetIInv'
    BY <2>2, <1>1, <1>3, NetRegisterFailsStep
  <2>3. ASSUME NEW s \in Fds, NEW op \in Ops, events_network_cancel(s, op)
        PROVE  NetIInv'
    <3>1. /\ NetCore' /\ s < slen /\ S[s].ev[op] # NULL
          /\ recs' = recs \ {S[s].ev[op]} /\ r' = r
          /\ \A y : y # NULL => (InSockets(y)' <=> InSockets(y) /\ y # S[s].ev[op])
      BY <2>3, <1>1, NetCancelStep
    <3>2. s \in 0 .. (slen - 1)
      BY <3>1, <1>1, NetAssumption DEF Fds, NetCore, Arrays, ArraysOK, ArraysTyped
    <3>3. InSockets(S[s].ev[op])
      BY <3>2 DEF InSockets
    <3> QED BY <3>1, <3>3, <1>1, <1>4
  <2>4. CASE \/ \E s \in Fds, op \in Ops : events_network_cancel_fails(s, op)
             \/ init_fails /\ UNCHANGED r
    BY <2>4, <1>1, <1>3, NetQuietStep
  <2>5. CASE events_network_shutdown
    BY <2>5, <1>1, <1>3, NetShutdownStep
  <2> QED BY <1>5, <2>1, <2>2, <2>3, <2>4, <2>5 DEF NetClient
<1>6. CASE NetLoop
  <2>1. CASE doevent_end /\ UNCHANGED netvars
    <3>1. recs' = recs \ {r} /\ r' = NULL /\ r # NULL
      BY <2>1 DEF doevent_end, events_freerec
    <3>2. NetCore' /\ \A y : InSockets(y)' <=> InSockets(y)
      BY <2>1, <1>1, NetOtherStep
    <3> QED BY <3>1, <3>2, <1>1, <1>2
  <2>2. ASSUME NEW rev \in PollResults, events_network_select(rev) PROVE NetIInv'
    BY <2>2, <1>1, <1>3, NetSelectStep
  <2>3. CASE events_network_select_interrupted \/ events_network_select_fails
    BY <2>3, <1>1, <1>3, NetQuietStep
  <2>4. ASSUME r = NULL, NEW k \in 0 .. (nfds - 1), events_network_get_hit(k) PROVE NetIInv'
    <3>1. /\ NetCore' /\ recs' = recs /\ r' \in Recs /\ InSockets(r')
          /\ \A y : y # NULL => (InSockets(y)' <=> InSockets(y) /\ y # r')
      BY <2>4, <1>1, NetGetHitStep
    <3>2. r' \in recs
      BY <3>1, <1>1
    <3> QED BY <3>1, <3>2, <2>4, <1>1, <1>2
  <2>5. CASE events_network_get_none
    BY <2>5, <1>1, <1>3, NetGetNoneStep
  <2> QED BY <1>6, <2>1, <2>2, <2>3, <2>4, <2>5 DEF NetLoop
<1>7. CASE UNCHANGED <<netvars, recvars>>
  <2>1. UNCHANGED netvars /\ recs' = recs /\ r' = r
    BY <1>7 DEF recvars
  <2> QED BY <2>1, <1>1, <1>3, NetOtherStep
<1> QED BY <1>5, <1>6, <1>7

(* The inductive invariant gives each of the properties by name. *)
LEMMA NetIInvImplies ==
  NetIInv => /\ NetTypeOK /\ RecTypeOK
          /\ PointToEachOther /\ InArrayIffRegistered /\ MasksMatch /\ NothingUnwanted
          /\ NonePassed /\ NoReportLost /\ NotedWasReported
          /\ RecordsAccounted /\ ClockOnlyWithEvents /\ AllocationOK
<1> SUFFICES ASSUME NetIInv PROVE
          /\ NetTypeOK /\ RecTypeOK
          /\ PointToEachOther /\ InArrayIffRegistered /\ MasksMatch /\ NothingUnwanted
          /\ NonePassed /\ NoReportLost /\ NotedWasReported
          /\ RecordsAccounted /\ ClockOnlyWithEvents /\ AllocationOK
  OBVIOUS
<1>1. NetTypeOK /\ RecTypeOK
  BY DEF NetIInv, NetCore, RestTyped, Arrays, ArraysOK, ArraysTyped, NetTypeOK
<1>2. PointToEachOther
  BY DEF NetIInv, NetCore, Arrays, ArraysOK, ArraysLinked, PointToEachOther
<1>3. InArrayIffRegistered /\ MasksMatch /\ NothingUnwanted
  BY DEF NetIInv, NetCore, Arrays, ArraysOK, ArraysAgree, InArrayIffRegistered, MasksMatch, NothingUnwanted
<1>4. NonePassed /\ NoReportLost /\ NotedWasReported
  BY DEF NetIInv, NetCore, Reports, ReportsOK, NonePassed, NoReportLost, NotedWasReported
<1> QED BY <1>1, <1>2, <1>3, <1>4 DEF NetIInv, NetCore

(* The inductive invariant always holds. *)
LEMMA NetInductive == NetSpec => []NetIInv
<1>1. NetStart => NetIInv
  BY NetInitOK DEF NetStart, RecInit, NetIInv, RecTypeOK, RecordsAccounted, InSockets
<1> QED BY <1>1, NetNextOK, PTL DEF NetSpec

(* The variables always have the types they are declared with. *)
THEOREM NetTypeCorrect == NetSpec => [](NetTypeOK /\ RecTypeOK)
BY NetInductive, NetIInvImplies, PTL

(* The first five invariants of the comment in events_network.c, and the    *)
(* assertions of growpollfd, hold for every number of descriptors.          *)
THEOREM ArraysCorrect == NetSpec => []ArraysConsistent
<1>1. NetIInv => ArraysConsistent
  BY NetIInvImplies DEF ArraysConsistent
<1> QED BY <1>1, NetInductive, PTL

(* No report of poll is lost or invented as pollfds move, and the scan of    *)
(* events_network_get has passed none.                                       *)
THEOREM ReportsCorrect == NetSpec => []ReportsKept
<1>1. NetIInv => ReportsKept
  BY NetIInvImplies DEF ReportsKept
<1> QED BY <1>1, NetInductive, PTL

(* No record is leaked, registered twice or freed while registered. *)
THEOREM RecordsCorrect == NetSpec => []RecordsAccounted
BY NetInductive, NetIInvImplies, PTL

(* The inter-select clock never runs without events. *)
THEOREM ClockCorrect == NetSpec => []ClockOnlyWithEvents
BY NetInductive, NetIInvImplies, PTL

(* The arrays describe the same registrations, no record is lost, and the   *)
(* clock runs only with events, whichever steps fail.                       *)
THEOREM NetworkCorrect == NetSpec => []NetworkConsistent
BY NetTypeCorrect, ArraysCorrect, RecordsCorrect, ClockCorrect, PTL DEF NetworkConsistent

(* events_network_get takes only events that poll has reported. *)
THEOREM GetCorrect == NetSpec => GetOnlyReported
<1> DEFINE A == r' # NULL /\ r' # r =>
                  \E i \in 0 .. (slen - 1), op \in Ops :
                    /\ S[i].ev[op] = r'
                    /\ <<i, op>> \in ready \/ <<i, "ERR">> \in ready
<1>1. NetIInv /\ [NetClient \/ NetLoop]_<<netvars, recvars>> => [A]_<<netvars, recvars>>
  <2> SUFFICES ASSUME NetIInv, NetClient \/ NetLoop, r' # NULL, r' # r
               PROVE  \E i \in 0 .. (slen - 1), op \in Ops :
                        /\ S[i].ev[op] = r'
                        /\ <<i, op>> \in ready \/ <<i, "ERR">> \in ready
    OBVIOUS
  <2>1. \E k \in 0 .. (nfds - 1) : events_network_get_hit(k)
    <3>1. ~NetClient
      <4>1. ASSUME NEW s \in Fds, NEW op \in Ops, NEW x \in Recs,
                   events_network_register(x, s, op)
            PROVE  r' = r
        BY <4>1 DEF events_network_register
      <4>2. ASSUME NEW s \in Fds, NEW op \in Ops,
                   \/ events_network_register_fails(s, op)
                   \/ events_network_cancel(s, op)
                   \/ events_network_cancel_fails(s, op)
            PROVE  r' = r
        BY <4>2 DEF events_network_register_fails, events_network_cancel,
                    events_network_cancel_fails
      <4>3. events_network_shutdown => r' = r
        BY DEF events_network_shutdown
      <4> QED BY <4>1, <4>2, <4>3 DEF NetClient
    <3>2. /\ doevent_end => r' = NULL
          /\ events_network_get_none => r' = r
          /\ events_network_select_fails => r' = r
          /\ events_network_select_interrupted => r' = r
      BY DEF doevent_end, events_network_get_none, events_network_select_fails,
             events_network_select_interrupted
    <3>3. ASSUME NEW rev \in PollResults, events_network_select(rev) PROVE r' = r
      BY <3>3 DEF events_network_select
    <3> QED BY <3>1, <3>2, <3>3 DEF NetLoop
  <2> QED BY <2>1, NetGetFinds DEF NetIInv
<1>2. NetIInv /\ [NetClient \/ NetLoop]_<<netvars, recvars>> =>
        [r' # NULL /\ r' # r =>
           \E i \in 0 .. (slen - 1), op \in Ops :
             /\ S[i].ev[op] = r'
             /\ <<i, op>> \in ready \/ <<i, "ERR">> \in ready]_<<netvars, recvars>>
  BY <1>1
<1> QED BY <1>2, NetInductive, PTL DEF NetSpec, GetOnlyReported
=============================================================================
