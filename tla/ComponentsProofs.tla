--------------------------- MODULE ComponentsProofs ---------------------------
(***************************************************************************)
(* Proofs about components that stand alone: the memory pool, the elastic  *)
(* array, the elastic queue on it and the sequential pointer map on that,  *)
(* and the option parser.                                                  *)
(***************************************************************************)
EXTENDS MPool, SeqPtrMap, Getopt, FiniteSetTheorems, FunctionTheorems,
        SequenceTheorems, NaturalsInduction, WellFoundedInduction, TLAPS

----------------------------------------------------------------------------
(* The memory pool.  What is missing from PoolAccounted for an induction:   *)
(* the array never becomes smaller than the static one, so that doubling it *)
(* makes it larger.                                                         *)
PoolIInv ==
  /\ PoolAccounted
  /\ allocsize >= POOLSIZE

(* mpool_free, data structure: a new object on top of a stack of different  *)
(* objects leaves them different.                                           *)
LEMMA Pushed ==
  ASSUME NEW S, NEW s \in Seq(S), NEW x \in S, IsInjective(s), x \notin ToSet(s)
  PROVE  /\ Append(s, x) \in Seq(S)
         /\ Len(Append(s, x)) = Len(s) + 1
         /\ IsInjective(Append(s, x))
         /\ ToSet(Append(s, x)) = ToSet(s) \cup {x}
<1> DEFINE t == Append(s, x)
<1>1. /\ t \in Seq(S) /\ Len(t) = Len(s) + 1 /\ Len(s) \in Nat
      /\ \A i \in 1 .. Len(s) : t[i] = s[i]
      /\ t[Len(s) + 1] = x
      /\ DOMAIN s = 1 .. Len(s) /\ DOMAIN t = 1 .. Len(s) + 1
  BY AppendProperties, LenProperties
<1>2. \A i \in 1 .. Len(s) + 1 : i \in 1 .. Len(s) \/ i = Len(s) + 1
  BY <1>1
<1>3. 1 .. Len(s) \subseteq 1 .. Len(s) + 1 /\ Len(s) + 1 \in 1 .. Len(s) + 1
  BY <1>1
<1>4. \A i \in 1 .. Len(s) : s[i] # x
  BY <1>1 DEF ToSet
<1> HIDE DEF t
<1>5. IsInjective(t)
  <2> SUFFICES ASSUME NEW a \in 1 .. Len(s) + 1, NEW b \in 1 .. Len(s) + 1, t[a] = t[b]
               PROVE  a = b
    BY <1>1 DEF IsInjective
  <2>1. CASE a \in 1 .. Len(s) /\ b \in 1 .. Len(s)
    BY <2>1, <1>1 DEF IsInjective
  <2>2. CASE a = Len(s) + 1 /\ b = Len(s) + 1
    BY <2>2
  <2>3. CASE a \in 1 .. Len(s) /\ b = Len(s) + 1
    BY <2>3, <1>1, <1>4
  <2>4. CASE a = Len(s) + 1 /\ b \in 1 .. Len(s)
    BY <2>4, <1>1, <1>4
  <2> QED BY <2>1, <2>2, <2>3, <2>4, <1>2
<1>6. ToSet(t) = ToSet(s) \cup {x}
  BY <1>1, <1>2, <1>3 DEF ToSet
<1> QED BY <1>1, <1>5, <1>6 DEF t

(* mpool_malloc, data structure: the object on top is different from those  *)
(* that stay.                                                               *)
LEMMA Popped ==
  ASSUME NEW S, NEW s \in Seq(S), s # <<>>, IsInjective(s)
  PROVE  /\ Front(s) \in Seq(S)
         /\ Len(Front(s)) = Len(s) - 1
         /\ IsInjective(Front(s))
         /\ Last(s) \in ToSet(s) /\ Last(s) \in S
         /\ ToSet(Front(s)) = ToSet(s) \ {Last(s)}
<1> DEFINE n == Len(s)
           t == Front(s)
<1>1. /\ n \in Nat \ {0} /\ DOMAIN s = 1 .. n /\ \A i \in 1 .. n : s[i] \in S
  BY LenProperties, EmptySeq, ElementOfSeq
<1> HIDE DEF n
<1>2. /\ t \in Seq(S) /\ Len(t) = n - 1 /\ DOMAIN t = 1 .. n - 1
      /\ \A i \in 1 .. n - 1 : t[i] = s[i]
  <2>1. \A i \in 1 .. n - 1 : s[i] \in S
    BY <1>1
  <2>2. 1 \in Int /\ n - 1 \in Int
    BY <1>1
  <2>3. /\ SubSeq(s, 1, n - 1) \in Seq(S)
        /\ Len(SubSeq(s, 1, n - 1)) = IF 1 <= n - 1 THEN (n - 1) - 1 + 1 ELSE 0
        /\ \A i \in 1 .. (n - 1) - 1 + 1 : SubSeq(s, 1, n - 1)[i] = s[1 + i - 1]
    BY ONLY <2>1, <2>2, SubSeqProperties
  <2>4. t = SubSeq(s, 1, n - 1)
    BY DEF Front, n
  <2>5. \A i \in 1 .. n - 1 : i \in 1 .. (n - 1) - 1 + 1 /\ 1 + i - 1 = i
    BY <1>1
  <2>6. Len(t) = n - 1
    BY <2>3, <2>4, <1>1
  <2> QED BY <2>3, <2>4, <2>5, <2>6, LenProperties
<1> HIDE DEF t
<1>3. n \in 1 .. n /\ Last(s) = s[n] /\ 1 .. n - 1 \subseteq 1 .. n
  BY <1>1 DEF Last, n
<1>4. \A i \in 1 .. n : i = n \/ i \in 1 .. n - 1
  BY <1>1
<1>5. IsInjective(t)
  BY <1>1, <1>2, <1>3 DEF IsInjective
<1>6. \A i \in 1 .. n - 1 : i # n
  BY <1>1
<1>7. ToSet(t) = ToSet(s) \ {s[n]}
  <2>1. \A i \in 1 .. n - 1 : s[i] # s[n]
    BY <1>1, <1>3, <1>6 DEF IsInjective
  <2> QED BY <1>1, <1>2, <1>3, <1>4, <2>1 DEF ToSet
<1> QED BY <1>1, <1>2, <1>3, <1>5, <1>7 DEF t, n, ToSet

LEMMA PoolInitOK == PoolInit => PoolIInv
<1> SUFFICES ASSUME PoolInit PROVE PoolIInv
  OBVIOUS
<1>1. <<>> \in Seq(Objs) /\ Len(<<>>) = 0 /\ IsInjective(<<>>) /\ ToSet(<<>>) = {}
  BY EmptySeq DEF IsInjective, ToSet
<1>2. ~(POOLSIZE > POOLSIZE) /\ POOLSIZE >= POOLSIZE /\ 0 <= POOLSIZE
      /\ POOLSIZE \in Nat /\ 0 \in 0 .. WORD - 1
  BY PoolAssumption
<1>3. onheap = (allocsize > POOLSIZE)
  <2>1. onheap \in BOOLEAN /\ ~onheap
    BY Zenon DEF PoolInit
  <2>2. ~(allocsize > POOLSIZE)
    BY <1>2, Zenon DEF PoolInit
  <2> QED BY <2>1, <2>2
<1> QED BY <1>1, <1>2, <1>3 DEF PoolInit, PoolIInv, PoolAccounted, PoolTypeOK

LEMMA PoolNextOK == PoolIInv /\ [PoolNext]_poolvars => PoolIInv'
<1> SUFFICES ASSUME PoolIInv, [PoolNext]_poolvars PROVE PoolIInv'
  OBVIOUS
<1> USE PoolAssumption
<1>0. /\ allocs \in Seq(Objs) /\ allocsize \in Nat /\ POOLSIZE \in Nat \ {0} /\ WORD \in Nat \ {0}
      /\ Len(allocs) \in Nat /\ PoolTypeOK /\ PoolAccounted
  BY LenProperties DEF PoolIInv, PoolAccounted, PoolTypeOK
<1>1. CASE mpool_malloc_cached
  <2>1. /\ Front(allocs) \in Seq(Objs) /\ Len(Front(allocs)) = Len(allocs) - 1
        /\ IsInjective(Front(allocs))
        /\ Last(allocs) \in ToSet(allocs) /\ Last(allocs) \in Objs
        /\ ToSet(Front(allocs)) = ToSet(allocs) \ {Last(allocs)}
    BY <1>1, <1>0, Popped DEF mpool_malloc_cached, PoolAccounted
  <2>2. (nallocs + 1) % WORD \in 0 .. WORD - 1
    BY <1>0 DEF PoolTypeOK
  <2> QED BY <2>1, <2>2, <1>0, <1>1 DEF mpool_malloc_cached, PoolIInv, PoolAccounted, PoolTypeOK
<1>2. ASSUME NEW p \in Objs, mpool_malloc_empty(p) PROVE PoolIInv'
  <2>1. (nallocs + 1) % WORD \in 0 .. WORD - 1 /\ (nempties + 1) % WORD \in 0 .. WORD - 1
    BY <1>0 DEF PoolTypeOK
  <2>2. pstate' \in {0, 1} /\ (pstate = 1 => pstate' = 1)
    BY <1>2, <1>0 DEF mpool_malloc_empty, PoolTypeOK
  <2>3. /\ malloced' \subseteq Objs /\ lent' \subseteq Objs
        /\ ToSet(allocs) \cap lent' = {} /\ malloced' = ToSet(allocs) \cup lent'
        /\ malloced' # {} => pstate' = 1
    BY <1>2, <1>0, <2>2 DEF mpool_malloc_empty, PoolTypeOK, PoolAccounted
  <2> QED BY <2>1, <2>2, <2>3, <1>0, <1>2
          DEF mpool_malloc_empty, PoolIInv, PoolAccounted, PoolTypeOK
<1>3. ASSUME NEW p \in Objs, mpool_free(p) PROVE PoolIInv'
  <2>1. p \notin ToSet(allocs) /\ p \in malloced
    BY <1>3, <1>0 DEF mpool_free, PoolAccounted
  <2>2. /\ Append(allocs, p) \in Seq(Objs) /\ Len(Append(allocs, p)) = Len(allocs) + 1
        /\ IsInjective(Append(allocs, p)) /\ ToSet(Append(allocs, p)) = ToSet(allocs) \cup {p}
    BY <2>1, <1>0, Pushed DEF PoolAccounted
  <2>3. CASE Len(allocs) < allocsize
    <3>1. /\ allocs' = Append(allocs, p) /\ lent' = lent \ {p}
          /\ UNCHANGED <<allocsize, onheap, nallocs, nempties, malloced, pstate, exited>>
      BY <2>3, <1>3, <1>0 DEF mpool_free
    <3>2. malloced' = ToSet(allocs') \cup lent' /\ ToSet(allocs') \cap lent' = {}
      BY <3>1, <2>1, <2>2, <1>0, <1>3 DEF mpool_free, PoolAccounted
    <3> QED BY <3>1, <3>2, <2>1, <2>2, <2>3, <1>0 DEF PoolIInv, PoolAccounted, PoolTypeOK
  <2>4. CASE Len(allocs) >= allocsize
    <3>1. CASE allocs' = Append(allocs, p) /\ allocsize' = allocsize * 2 /\ onheap' = TRUE
               /\ malloced' = malloced
      <4>1. allocsize' \in Nat /\ Len(allocs) + 1 <= allocsize' /\ allocsize' > POOLSIZE
        BY <3>1, <1>0 DEF PoolIInv, PoolAccounted
      <4>2. onheap' = (allocsize' > POOLSIZE)
        BY <4>1, <3>1, Zenon
      <4>3. /\ lent' = lent \ {p} /\ nallocs' = 0 /\ nempties' = 0
            /\ UNCHANGED <<pstate, exited>>
        BY <2>4, <1>3, <1>0 DEF mpool_free
      <4>4. malloced' = ToSet(allocs') \cup lent' /\ ToSet(allocs') \cap lent' = {}
        BY <3>1, <4>3, <2>1, <2>2, <1>0, <1>3 DEF mpool_free, PoolAccounted
      <4>5. 0 \in 0 .. WORD - 1 /\ allocsize' >= POOLSIZE
        BY <1>0, <4>1
      <4>6. Len(allocs') <= allocsize'
        BY <3>1, <4>1, <2>2, <1>0
      <4> QED BY <4>1, <4>2, <4>3, <4>4, <4>5, <4>6, <3>1, <2>2, <1>0
              DEF PoolIInv, PoolAccounted, PoolTypeOK
    <3>2. CASE malloced' = malloced \ {p} /\ UNCHANGED <<allocs, allocsize, onheap>>
      <4>1. /\ lent' = lent \ {p} /\ nallocs' = 0 /\ nempties' = 0
            /\ UNCHANGED <<pstate, exited>>
        BY <2>4, <1>3, <1>0 DEF mpool_free
      <4>2. malloced' = ToSet(allocs) \cup lent'
        BY <3>2, <4>1, <2>1, <1>0 DEF PoolAccounted
      <4>3. 0 \in 0 .. WORD - 1
        BY <1>0
      <4> QED BY <4>1, <4>2, <4>3, <3>2, <1>0 DEF PoolIInv, PoolAccounted, PoolTypeOK
    <3>3. ~(Len(allocs) < allocsize)
      BY <2>4, <1>0
    <3> QED BY <3>1, <3>2, <3>3, <1>3, Zenon DEF mpool_free
  <2> QED BY <2>3, <2>4, <1>0
<1>4. CASE mpool_atexit
  <2>1. <<>> \in Seq(Objs) /\ Len(<<>>) = 0 /\ IsInjective(<<>>) /\ ToSet(<<>>) = {}
    BY EmptySeq DEF IsInjective, ToSet
  <2>2. malloced' = lent
    BY <1>4, <1>0 DEF mpool_atexit, PoolAccounted
  <2>3. exited' \in BOOLEAN
    BY <1>4, Zenon DEF mpool_atexit
  <2>4. malloced' # {} => pstate' = 1
    BY <1>4 DEF mpool_atexit
  <2>5. allocs' = <<>> /\ UNCHANGED <<allocsize, onheap, nallocs, nempties, pstate, lent>>
    BY <1>4 DEF mpool_atexit
  <2>6. Len(allocs') <= allocsize'
    BY <2>1, <2>5, <1>0
  <2> QED BY <2>1, <2>2, <2>3, <2>4, <2>5, <2>6, <1>0 DEF PoolIInv, PoolAccounted, PoolTypeOK
<1>5. CASE UNCHANGED poolvars
  BY <1>5 DEF poolvars, PoolIInv, PoolAccounted, PoolTypeOK
<1> QED BY <1>1, <1>2, <1>3, <1>4, <1>5 DEF PoolNext

(* Every behaviour of a pool, for every set of objects and size of the      *)
(* stack, keeps its accounts: mpool_malloc never gives the same object to   *)
(* two clients, mpool_free never runs over the end of the stack, and        *)
(* mpool_atexit frees everything the pool itself still has.                 *)
THEOREM PoolCorrect == PoolSpec => []PoolAccounted
<1>1. PoolIInv => PoolAccounted
  BY DEF PoolIInv
<1> QED BY <1>1, PoolInitOK, PoolNextOK, PTL DEF PoolSpec
----------------------------------------------------------------------------
(* Elastic arrays. *)

(* The arithmetic of size_t. *)
LEMMA WrapFacts ==
  ASSUME NEW n \in Nat
  PROVE  Wrap(n) \in Sizes /\ Wrap(n) <= n /\ (n <= EA_SIZE_MAX => Wrap(n) = n)
<1> DEFINE m == EA_SIZE_MAX + 1
<1>1. m \in Nat \ {0}
  BY ElasticAssumption
<1> HIDE DEF m
<1>2. n % m \in 0 .. m - 1 /\ n % m <= n /\ (n < m => n % m = n)
  BY <1>1
<1> QED BY <1>2, ElasticAssumption DEF m, Wrap, Sizes

LEMMA MulFits ==
  ASSUME NEW a \in Nat, NEW b \in Nat \ {0}, NEW n \in Nat
  PROVE  n * b \in Nat /\ (n <= a \div b <=> n * b <= a)
<1>1. a \div b \in Nat /\ b * (a \div b) <= a /\ a < b * (a \div b) + b
  OBVIOUS
<1> DEFINE q == a \div b
<1>2. q \in Nat /\ b * q <= a /\ a < b * q + b
  BY <1>1
<1> HIDE DEF q
<1>3. n * b \in Nat
  OBVIOUS
<1>4. n <= q => n * b <= b * q
  BY <1>2
<1>5. n >= q + 1 => n * b >= b * q + b
  BY <1>2
<1> QED BY <1>2, <1>3, <1>4, <1>5 DEF q

ArrayOK(A) == A \in Arrays /\ A.size <= A.alloc

(* The outcomes of resize. *)
LEMMA ResizeOK ==
  ASSUME NEW A, ArrayOK(A), NEW nsize \in Sizes, NEW o \in resize(A, nsize)
  PROVE  \/ /\ o.rc = 0 /\ ArrayOK(o.EA) /\ o.EA.size = nsize
            /\ o.EA.alloc <= 4 * nsize + 3
         \/ o.rc = -1 /\ o.EA = A
<1> USE ElasticAssumption
<1> DEFINE nalloc == NewAlloc(A, nsize)
<1>1. A.alloc \in Sizes /\ A.size \in Sizes /\ nsize \in Nat /\ A.alloc \in Nat
  BY DEF ArrayOK, Arrays, Sizes
<1>2. nalloc \in Sizes /\ nsize <= nalloc /\ nalloc <= 4 * nsize + 3
  <2>1. CASE A.alloc < nsize
    <3>1. Wrap(A.alloc * 2) \in Sizes /\ Wrap(A.alloc * 2) <= A.alloc * 2
      BY <1>1, WrapFacts
    <3> QED BY <1>1, <2>1, <3>1 DEF NewAlloc, Sizes
  <2>2. CASE ~(A.alloc < nsize) /\ A.alloc \div 4 > nsize
    <3>1. nsize * 2 <= EA_SIZE_MAX /\ nsize * 2 \in Nat
      BY <1>1, <2>2 DEF Sizes
    <3>2. Wrap(nsize * 2) = nsize * 2
      BY <3>1, WrapFacts
    <3> QED BY <1>1, <2>2, <3>1, <3>2 DEF NewAlloc, Sizes
  <2>3. CASE ~(A.alloc < nsize) /\ ~(A.alloc \div 4 > nsize)
    <3>1. nalloc = A.alloc
      BY <2>3 DEF NewAlloc
    <3> QED BY <1>1, <2>3, <3>1
  <2> QED BY <2>1, <2>2, <2>3
<1> HIDE DEF nalloc
<1>3. o = Ok([size |-> nsize, alloc |-> nalloc]) \/ o = Err(A)
  BY DEF resize, nalloc
<1>4. CASE o = Ok([size |-> nsize, alloc |-> nalloc])
  BY <1>2, <1>4 DEF Ok, ArrayOK, Arrays
<1>5. CASE o = Err(A)
  BY <1>5 DEF Err
<1> QED BY <1>3, <1>4, <1>5

LEMMA AppendOK ==
  ASSUME NEW A, ArrayOK(A), NEW nrec \in Sizes, NEW reclen \in RecLens,
         NEW o \in elasticarray_append(A, nrec, reclen)
  PROVE  \/ /\ o.rc = 0 /\ ArrayOK(o.EA) /\ o.EA.size = A.size + nrec * reclen
            /\ o.EA.alloc <= 4 * o.EA.size + 3
         \/ o.rc = -1 /\ o.EA = A
<1> USE ElasticAssumption
<1>1. nrec \in Nat /\ reclen \in Nat \ {0} /\ A.size \in Nat /\ A.size <= EA_SIZE_MAX
  BY DEF Sizes, ArrayOK, Arrays
<1>2. CASE nrec > EA_SIZE_MAX \div reclen \/ Wrap(nrec * reclen) > EA_SIZE_MAX - A.size
  BY <1>2 DEF elasticarray_append, Err
<1>3. CASE ~(nrec > EA_SIZE_MAX \div reclen \/ Wrap(nrec * reclen) > EA_SIZE_MAX - A.size)
  <2>1. EA_SIZE_MAX \div reclen \in Nat
    BY <1>1
  <2>2. nrec * reclen \in Nat /\ nrec * reclen <= EA_SIZE_MAX
    BY <1>1, <1>3, <2>1, MulFits
  <2>3. Wrap(nrec * reclen) = nrec * reclen
    BY <2>2, WrapFacts
  <2> DEFINE m == nrec * reclen
             nsize == A.size + m
  <2>4. nsize \in Sizes
    <3>1. m \in Nat /\ ~(m > EA_SIZE_MAX - A.size)
      BY <1>3, <2>2, <2>3
    <3> HIDE DEF m
    <3> QED BY <3>1, <1>1 DEF Sizes
  <2>5. o \in resize(A, nsize)
    BY <1>3 DEF elasticarray_append
  <2> HIDE DEF nsize
  <2>6. \/ /\ o.rc = 0 /\ ArrayOK(o.EA) /\ o.EA.size = nsize
           /\ o.EA.alloc <= 4 * nsize + 3
        \/ o.rc = -1 /\ o.EA = A
    BY <2>4, <2>5, ResizeOK
  <2> QED BY <2>6 DEF nsize
<1> QED BY <1>2, <1>3

LEMMA ShrinkOK ==
  ASSUME NEW A, ArrayOK(A), NEW nrec \in Nat, NEW reclen \in RecLens,
         NEW o \in elasticarray_shrink(A, nrec, reclen)
  PROVE  /\ ArrayOK(o.EA) /\ o.rc \in {0, -1}
         /\ o.rc = 0 => o.EA.alloc <= 4 * o.EA.size + 3
         /\ nrec * reclen <= A.size => o.EA.size = A.size - nrec * reclen
<1> USE ElasticAssumption
<1>1. /\ reclen \in Nat \ {0} /\ A.size \in Nat /\ A.size <= EA_SIZE_MAX /\ A.alloc \in Nat
      /\ A.size <= A.alloc
  BY DEF Sizes, ArrayOK, Arrays
<1> DEFINE big == nrec > EA_SIZE_MAX \div reclen \/ Wrap(nrec * reclen) > A.size
           m == nrec * reclen
           nsize == IF big THEN 0 ELSE A.size - m
<1>2. m \in Nat /\ (nrec <= EA_SIZE_MAX \div reclen <=> m <= EA_SIZE_MAX)
  BY <1>1, MulFits
<1>3. Wrap(m) \in Nat /\ (m <= EA_SIZE_MAX => Wrap(m) = m)
  BY <1>2, WrapFacts DEF Sizes
<1>4. EA_SIZE_MAX \div reclen \in Nat
  BY <1>1
<1>5. m <= A.size <=> ~big
  <2>0. big <=> nrec > EA_SIZE_MAX \div reclen \/ Wrap(m) > A.size
    OBVIOUS
  <2> HIDE DEF m, big
  <2> QED BY <1>1, <1>2, <1>3, <1>4, <2>0
<1>6. nsize \in Sizes /\ nsize <= A.size /\ (m <= A.size => nsize = A.size - m)
  <2> HIDE DEF m, big
  <2> QED BY <1>1, <1>2, <1>5 DEF Sizes
<1>7. PICK q \in resize(A, nsize) : o = IF q.rc = 0 THEN q ELSE Err([A EXCEPT !.size = nsize])
  BY DEF elasticarray_shrink
<1> HIDE DEF m, nsize
<1>8. \/ /\ q.rc = 0 /\ ArrayOK(q.EA) /\ q.EA.size = nsize
         /\ q.EA.alloc <= 4 * nsize + 3
      \/ q.rc = -1 /\ q.EA = A
  BY <1>6, ResizeOK
<1>9. CASE q.rc = 0
  <2>1. o = q
    BY <1>7, <1>9
  <2> QED BY <1>6, <1>8, <1>9, <2>1 DEF m
<1>10. CASE q.rc = -1
  <2>1. o = Err([A EXCEPT !.size = nsize])
    BY <1>7, <1>10
  <2>2. o.rc = -1 /\ o.EA = [A EXCEPT !.size = nsize]
    BY <2>1 DEF Err
  <2>3. o.EA \in Arrays /\ o.EA.size = nsize /\ o.EA.alloc = A.alloc
    BY <1>6, <2>2 DEF ArrayOK, Arrays
  <2>4. nsize <= A.alloc
    BY <1>1, <1>6 DEF Sizes
  <2> QED BY <1>6, <2>2, <2>3, <2>4 DEF ArrayOK, m
<1> QED BY <1>8, <1>9, <1>10

ElasticIInv == ElasticTypeOK /\ BufferFits

LEMMA ArrayResizeOK ==
  ASSUME NEW A, ArrayOK(A), NEW nrec \in Sizes, NEW reclen \in RecLens,
         NEW o \in elasticarray_resize(A, nrec, reclen)
  PROVE  \/ o.rc = 0 /\ ArrayOK(o.EA) /\ o.EA.alloc <= 4 * o.EA.size + 3
         \/ o.rc = -1 /\ o.EA = A
<1> USE ElasticAssumption
<1>1. nrec \in Nat /\ reclen \in Nat \ {0}
  BY DEF Sizes
<1>2. CASE nrec > EA_SIZE_MAX \div reclen
  BY <1>2 DEF elasticarray_resize, Err
<1>3. CASE ~(nrec > EA_SIZE_MAX \div reclen)
  <2> DEFINE nsize == Wrap(nrec * reclen)
  <2>1. nsize \in Sizes
    BY <1>1, MulFits, WrapFacts
  <2>2. o \in resize(A, nsize)
    BY <1>3 DEF elasticarray_resize
  <2> HIDE DEF nsize
  <2> QED BY <2>1, <2>2, ResizeOK
<1> QED BY <1>2, <1>3

LEMMA EmptyOK == ArrayOK(EmptyArray) /\ EmptyArray.size = 0 /\ EmptyArray.alloc = 0
BY ElasticAssumption DEF ArrayOK, Arrays, EmptyArray, Sizes

LEMMA ArrayInitOK ==
  ASSUME NEW nrec \in Sizes, NEW reclen \in RecLens, NEW o \in elasticarray_init(nrec, reclen)
  PROVE  o.rc = 0 /\ ArrayOK(o.EA) /\ o.EA.alloc <= 4 * o.EA.size + 3
<1>1. o \in elasticarray_resize(EmptyArray, nrec, reclen) /\ o.rc = 0
  BY DEF elasticarray_init
<1> QED BY <1>1, EmptyOK, ArrayResizeOK

LEMMA TruncateOK ==
  ASSUME NEW A, ArrayOK(A), NEW o \in elasticarray_truncate(A)
  PROVE  \/ o.rc = 0 /\ ArrayOK(o.EA) /\ (o.EA = A \/ o.EA.alloc <= 4 * o.EA.size + 3)
         \/ o.rc = -1 /\ o.EA = A
<1>1. A \in Arrays /\ A.size \in Sizes /\ A.size \in Nat
  BY ElasticAssumption DEF ArrayOK, Arrays, Sizes
<1>2. o = Ok(EmptyArray) \/ o = Ok([A EXCEPT !.alloc = A.size]) \/ o = Ok(A) \/ o = Err(A)
  BY DEF elasticarray_truncate
<1>3. CASE o = Ok(EmptyArray)
  BY <1>3, EmptyOK DEF Ok
<1>4. CASE o = Ok([A EXCEPT !.alloc = A.size])
  <2>1. o.rc = 0 /\ o.EA \in Arrays /\ o.EA.size = A.size /\ o.EA.alloc = A.size
    BY <1>1, <1>4 DEF Ok, Arrays
  <2> QED BY <1>1, <2>1 DEF ArrayOK
<1>5. CASE o = Ok(A) \/ o = Err(A)
  BY <1>5 DEF Ok, Err
<1> QED BY <1>2, <1>3, <1>4, <1>5

(* An array that grows or shrinks keeps its data in its buffer. *)
LEMMA ElasticNextOK == ElasticIInv /\ [ElasticNext]_eavars => ElasticIInv'
<1> SUFFICES ASSUME ElasticIInv, [ElasticNext]_eavars PROVE ElasticIInv'
  OBVIOUS
<1>1. /\ ArrayOK(EA) /\ earc \in {0, -1} /\ slack \in BOOLEAN
      /\ EA.alloc > 4 * EA.size + 3 => slack
  BY DEF ElasticIInv, ElasticTypeOK, BufferFits, ArrayOK
<1>2. ASSUME ArrayOK(EA'), earc' \in {0, -1}, slack' \in BOOLEAN,
             EA'.alloc <= 4 * EA'.size + 3 \/ slack'
      PROVE  ElasticIInv'
  <2>1. EA'.alloc \in Nat /\ EA'.size \in Nat
    BY <1>2, ElasticAssumption DEF ArrayOK, Arrays, Sizes
  <2>2. EA'.alloc > 4 * EA'.size + 3 => slack'
    BY <1>2, <2>1
  <2> QED BY <1>2, <2>2 DEF ElasticIInv, ElasticTypeOK, BufferFits, ArrayOK
<1>3. EA.alloc <= 4 * EA.size + 3 \/ slack
  <2>1. EA.alloc \in Nat /\ EA.size \in Nat
    BY <1>1, ElasticAssumption DEF ArrayOK, Arrays, Sizes
  <2> QED BY <1>1, <2>1
<1>4. ASSUME NEW nrec \in Sizes, NEW reclen \in RecLens,
             NEW o \in elasticarray_resize(EA, nrec, reclen)
                         \cup elasticarray_append(EA, nrec, reclen),
             Outcome(o), slack' = (slack /\ o.rc = -1)
      PROVE  ElasticIInv'
  <2>1. \/ o.rc = 0 /\ ArrayOK(o.EA) /\ o.EA.alloc <= 4 * o.EA.size + 3
        \/ o.rc = -1 /\ o.EA = EA
    BY <1>1, <1>4, ArrayResizeOK, AppendOK
  <2>2. EA' = o.EA /\ earc' = o.rc /\ slack' \in BOOLEAN
    BY <1>4 DEF Outcome
  <2>3. o.rc = -1 => (slack => slack')
    BY <1>4
  <2> QED BY <1>1, <1>2, <1>3, <2>1, <2>2, <2>3
<1>5. ASSUME NEW nrec \in Sizes, NEW reclen \in RecLens,
             NEW o \in elasticarray_shrink(EA, nrec, reclen), Outcome(o), slack' = (o.rc = -1)
      PROVE  ElasticIInv'
  <2>1. nrec \in Nat
    BY ElasticAssumption DEF Sizes
  <2>2. /\ ArrayOK(o.EA) /\ o.rc \in {0, -1}
        /\ o.rc = 0 => o.EA.alloc <= 4 * o.EA.size + 3
    BY <1>1, <2>1, ShrinkOK
  <2>3. EA' = o.EA /\ earc' = o.rc /\ slack' \in BOOLEAN
    BY <1>5 DEF Outcome
  <2>4. o.rc = -1 => slack'
    BY <1>5
  <2> QED BY <1>2, <2>2, <2>3, <2>4
<1>6. ASSUME NEW o \in elasticarray_truncate(EA) \cup elasticarray_exportdup(EA),
             Outcome(o), slack' = (slack /\ (o.rc = -1 \/ o.EA = EA))
      PROVE  ElasticIInv'
  <2>1. \/ o.rc = 0 /\ ArrayOK(o.EA) /\ (o.EA = EA \/ o.EA.alloc <= 4 * o.EA.size + 3)
        \/ o.rc = -1 /\ o.EA = EA
    <3>1. CASE o \in elasticarray_truncate(EA)
      BY <1>1, <3>1, TruncateOK
    <3>2. CASE o = Ok(EA) \/ o = Err(EA)
      BY <1>1, <3>2 DEF Ok, Err
    <3> QED BY <3>1, <3>2 DEF elasticarray_exportdup
  <2>2. EA' = o.EA /\ earc' = o.rc /\ slack' \in BOOLEAN
    BY <1>6 DEF Outcome
  <2>3. o.rc = -1 \/ o.EA = EA => (slack => slack')
    BY <1>6
  <2> QED BY <1>1, <1>2, <1>3, <2>1, <2>2, <2>3
<1>7. ASSUME NEW o \in elasticarray_export(EA), NEW new \in elasticarray_init(0, 1),
             IF o.rc = 0 THEN Outcome(new) /\ slack' = FALSE ELSE Outcome(o) /\ UNCHANGED slack
      PROVE  ElasticIInv'
  <2>1. \/ o.rc = 0 /\ ArrayOK(o.EA) /\ (o.EA = EA \/ o.EA.alloc <= 4 * o.EA.size + 3)
        \/ o.rc = -1 /\ o.EA = EA
    BY <1>1, TruncateOK DEF elasticarray_export
  <2>2. CASE o.rc = 0
    <3>1. new \in elasticarray_resize(EmptyArray, 0, 1) /\ new.rc = 0
      BY DEF elasticarray_init
    <3>2. new \in resize(EmptyArray, 0)
      <4>1. EA_SIZE_MAX \div 1 \in Nat
        BY ElasticAssumption
      <4>2. ~(0 > EA_SIZE_MAX \div 1) /\ Wrap(0 * 1) = 0
        <5>1. 0 * 1 = 0 /\ 0 <= EA_SIZE_MAX /\ 0 \in Nat
          BY ElasticAssumption
        <5>2. Wrap(0) = 0
          BY <5>1, WrapFacts
        <5> QED BY <4>1, <5>1, <5>2
      <4> QED BY <3>1, <4>2 DEF elasticarray_resize
    <3>3. ArrayOK(new.EA) /\ new.EA.alloc <= 4 * 0 + 3 /\ new.EA.size = 0
      <4>1. 0 \in Sizes
        BY ElasticAssumption DEF Sizes
      <4> QED BY <3>1, <3>2, <4>1, EmptyOK, ResizeOK
    <3>4. EA' = new.EA /\ earc' = new.rc /\ slack' \in BOOLEAN
      BY <1>7, <2>2 DEF Outcome
    <3>5. EA'.alloc <= 4 * EA'.size + 3
      BY <3>3, <3>4
    <3> QED BY <1>2, <3>1, <3>3, <3>4, <3>5
  <2>3. CASE o.rc = -1
    <3>1. EA' = o.EA /\ earc' = o.rc /\ slack' = slack
      BY <1>7, <2>3 DEF Outcome
    <3> QED BY <1>1, <1>2, <1>3, <2>1, <2>3, <3>1
  <2> QED BY <2>1, <2>2, <2>3
<1>8. CASE UNCHANGED eavars
  BY <1>8 DEF eavars, ElasticIInv, ElasticTypeOK, BufferFits
<1> QED BY <1>4, <1>5, <1>6, <1>7, <1>8 DEF ElasticNext

LEMMA ElasticInitOK == ElasticInit => ElasticIInv
<1> SUFFICES ASSUME ElasticInit PROVE ElasticIInv
  OBVIOUS
<1>1. PICK nrec \in Sizes, reclen \in RecLens :
        \E o \in elasticarray_init(nrec, reclen) : EA = o.EA
  BY DEF ElasticInit
<1>2. ArrayOK(EA) /\ EA.alloc <= 4 * EA.size + 3
  BY <1>1, ArrayInitOK
<1>3. EA.alloc \in Nat /\ EA.size \in Nat
  BY <1>2, ElasticAssumption DEF ArrayOK, Arrays, Sizes
<1>4. earc = 0 /\ slack = FALSE
  BY DEF ElasticInit
<1>5. ~(EA.alloc > 4 * EA.size + 3)
  BY <1>2, <1>3
<1>6. slack \in BOOLEAN
  BY <1>4
<1> QED BY <1>2, <1>4, <1>5, <1>6 DEF ElasticIInv, ElasticTypeOK, BufferFits, ArrayOK
----------------------------------------------------------------------------
(* Elastic queues. *)

Pointer == Ptrs \cup {NULLPTR}

(* The queue is a window of an array of whole records, and no more than     *)
(* half of the array is in front of it.                                     *)
QueueOK(Q) ==
  /\ Q = [EA |-> Q.EA, recs |-> Q.recs, offset |-> Q.offset, len |-> Q.len]
  /\ ArrayOK(Q.EA) /\ Q.recs \in Seq(Pointer) /\ Q.offset \in Nat /\ Q.len \in Nat
  /\ Q.EA.size = Len(Q.recs) * RECLEN
  /\ Q.offset + Q.len = Len(Q.recs)
  /\ Q.offset <= Q.len

(* The queue P is the queue Q without its first k records. *)
Without(Q, k, P) ==
  /\ P.len = Q.len - k
  /\ \A pos \in 0 .. Q.len - k - 1 : elasticqueue_get(P, pos) = elasticqueue_get(Q, pos + k)

LEMMA MulAdd ==
  ASSUME NEW a \in Nat, NEW b \in Nat, NEW c \in Nat, NEW n, n = a + b
  PROVE  n * c = a * c + b * c /\ a * c \in Nat /\ b * c \in Nat
OBVIOUS

(* The l records of r that follow the first o. *)
Window(r, o, l) == SubSeq(r, o + 1, o + l)

LEMMA WindowOK ==
  ASSUME NEW S, NEW r \in Seq(S), NEW o \in Nat, NEW l \in Nat, o + l = Len(r)
  PROVE  /\ Window(r, o, l) \in Seq(S) /\ Len(Window(r, o, l)) = l
         /\ \A i \in 1 .. l : Window(r, o, l)[i] = r[o + i]
<1> DEFINE m == o + 1
           n == o + l
           s == SubSeq(r, m, n)
<1>1. m \in Int /\ n \in Int /\ m = o + 1 /\ n = o + l /\ n = Len(r) /\ m >= 1
  OBVIOUS
<1>2. /\ m \in Int /\ n \in Int /\ m = o + 1 /\ n = o + l
      /\ \A i \in m .. n : r[i] \in S
  <2>1. \A i \in 1 .. Len(r) : r[i] \in S
    BY ElementOfSeq
  <2> HIDE DEF m, n
  <2>2. \A i \in m .. n : i \in 1 .. Len(r)
    BY <1>1
  <2> QED BY <1>1, <2>1, <2>2
<1> HIDE DEF m, n
<1>3. /\ s \in Seq(S) /\ Len(s) = IF m <= n THEN n - m + 1 ELSE 0
      /\ \A i \in 1 .. n - m + 1 : s[i] = r[m + i - 1]
  BY ONLY <1>2, SubSeqProperties
<1> HIDE DEF s
<1>4. n - m + 1 = l /\ (m <= n <=> l > 0)
  BY ONLY <1>2, o \in Nat, l \in Nat
<1>5. Len(s) = l
  BY ONLY <1>3, <1>4, l \in Nat
<1>6. \A i \in 1 .. l : m + i - 1 = o + i
  BY ONLY <1>2, o \in Nat, l \in Nat
<1>7. \A i \in 1 .. l : s[i] = r[o + i]
  BY ONLY <1>3, <1>4, <1>6
<1> QED BY <1>3, <1>5, <1>7 DEF s, m, n, Window

LEMMA EmptyQueueOK == QueueOK(EmptyQueue) /\ EmptyQueue.len = 0
<1>1. <<>> \in Seq(Pointer) /\ Len(<<>>) = 0
  BY EmptySeq
<1>2. RECLEN \in Nat
  BY QueueAssumption, ElasticAssumption
<1>3. 0 * RECLEN = 0
  BY <1>2
<1> QED BY <1>1, <1>3, EmptyOK DEF QueueOK, EmptyQueue

(* A record is added behind the others, or nothing happens. *)
LEMMA QueueAddOK ==
  ASSUME NEW Q, QueueOK(Q), NEW rec \in Pointer, NEW P \in elasticqueue_add(Q, rec)
  PROVE  \/ P = Q
         \/ /\ QueueOK(P) /\ P.len = Q.len + 1 /\ P # Q
            /\ \A pos \in 0 .. Q.len - 1 : elasticqueue_get(P, pos) = elasticqueue_get(Q, pos)
            /\ elasticqueue_get(P, Q.len) = rec
<1>1. PICK o \in elasticarray_append(Q.EA, 1, RECLEN) :
        P = IF o.rc = 0
            THEN [Q EXCEPT !.EA = o.EA, !.recs = Append(@, rec), !.len = @ + 1]
            ELSE Q
  BY DEF elasticqueue_add
<1>2. RECLEN \in RecLens /\ RECLEN \in Nat \ {0} /\ 1 \in Sizes /\ 1 * RECLEN = RECLEN
  BY QueueAssumption, ElasticAssumption DEF Sizes
<1>3. CASE o.rc # 0
  BY <1>1, <1>3
<1>4. CASE o.rc = 0
  <2>1. ArrayOK(o.EA) /\ o.EA.size = Q.EA.size + RECLEN
    BY <1>2, <1>4, AppendOK DEF QueueOK
  <2> DEFINE r == Q.recs
             s == Append(r, rec)
  <2>2. r \in Seq(Pointer) /\ Len(r) \in Nat /\ Q.offset \in Nat /\ Q.len \in Nat
        /\ Q.offset + Q.len = Len(r) /\ Q.offset <= Q.len
    BY LenProperties DEF QueueOK
  <2>3. s \in Seq(Pointer) /\ Len(s) = Len(r) + 1 /\ s[Len(r) + 1] = rec
        /\ \A i \in 1 .. Len(r) : s[i] = r[i]
    BY <2>2, AppendProperties
  <2>4. P = [Q EXCEPT !.EA = o.EA, !.recs = s, !.len = Q.len + 1]
    BY <1>1, <1>4
  <2> HIDE DEF s
  <2>5. /\ P.EA = o.EA /\ P.recs = s /\ P.len = Q.len + 1 /\ P.offset = Q.offset
        /\ P = [EA |-> P.EA, recs |-> P.recs, offset |-> P.offset, len |-> P.len]
    BY <2>4 DEF QueueOK
  <2>6. P.EA.size = Len(P.recs) * RECLEN
    <3>1. Q.EA.size = Len(r) * RECLEN
      BY DEF QueueOK
    <3>2. (Len(r) + 1) * RECLEN = Len(r) * RECLEN + 1 * RECLEN
      <4> HIDE DEF r
      <4>1. 1 \in Nat /\ Len(r) \in Nat /\ RECLEN \in Nat
        BY <1>2, <2>2
      <4> QED BY ONLY <4>1, MulAdd
    <3>3. P.EA.size = Len(r) * RECLEN + RECLEN /\ Len(P.recs) = Len(r) + 1
      BY <2>1, <2>3, <2>5, <3>1
    <3>4. (Len(r) + 1) * RECLEN = Len(r) * RECLEN + RECLEN
      BY <1>2, <3>2
    <3> QED BY ONLY <3>3, <3>4
  <2>7. QueueOK(P)
    <3>1. P.offset + P.len = Len(P.recs) /\ P.offset <= P.len /\ P.len \in Nat /\ P.offset \in Nat
      <4>1. /\ P.offset = Q.offset /\ P.len = Q.len + 1 /\ Len(P.recs) = Len(r) + 1
            /\ Q.offset + Q.len = Len(r) /\ Q.offset <= Q.len /\ Q.offset \in Nat /\ Q.len \in Nat
        BY <2>2, <2>3, <2>5
      <4> HIDE DEF r
      <4> QED BY ONLY <4>1
    <3> QED BY <2>1, <2>3, <2>5, <2>6, <3>1 DEF QueueOK
  <2>8. P # Q
    BY <2>2, <2>5
  <2>9. ASSUME NEW pos \in 0 .. Q.len - 1
        PROVE  elasticqueue_get(P, pos) = elasticqueue_get(Q, pos)
    <3>1. pos + Q.offset + 1 \in 1 .. Len(r)
      BY <2>2
    <3> QED BY <3>1, <2>3, <2>5 DEF elasticqueue_get
  <2>10. elasticqueue_get(P, Q.len) = rec
    <3>1. Q.len + Q.offset + 1 = Len(r) + 1
      BY <2>2
    <3> QED BY <3>1, <2>3, <2>5 DEF elasticqueue_get
  <2> QED BY <2>5, <2>7, <2>8, <2>9, <2>10
<1> QED BY <1>3, <1>4

(* The first record is taken out, and the others keep their order even when *)
(* they are moved.                                                          *)
LEMMA QueueDeleteOK ==
  ASSUME NEW Q, QueueOK(Q), Q.len # 0, NEW P \in elasticqueue_delete(Q)
  PROVE  QueueOK(P) /\ Without(Q, 1, P)
<1> DEFINE offset == Q.offset + 1
           len == Q.len - 1
           r == Q.recs
<1>1. RECLEN \in RecLens /\ RECLEN \in Nat \ {0}
  BY QueueAssumption, ElasticAssumption
<1>2. /\ r \in Seq(Pointer) /\ Len(r) \in Nat /\ offset \in Nat /\ len \in Nat
      /\ offset + len = Len(r) /\ Q.offset <= Q.len /\ Q.offset \in Nat /\ Q.len \in Nat
      /\ offset = Q.offset + 1 /\ len = Q.len - 1
  BY LenProperties DEF QueueOK
<1>3. ArrayOK(Q.EA) /\ Q.EA.size = Len(r) * RECLEN
  BY DEF QueueOK
<1>4. CASE offset > len
  <2> DEFINE s == Window(r, offset, len)
  <2>1. PICK o \in elasticarray_shrink(Q.EA, offset, RECLEN) :
          P = [EA |-> o.EA, recs |-> s, offset |-> 0, len |-> len]
    BY <1>4 DEF elasticqueue_delete, Window
  <2>2. /\ s \in Seq(Pointer) /\ Len(s) = len
        /\ \A i \in 1 .. len : s[i] = r[offset + i]
    <3> HIDE DEF offset, len, r
    <3>1. r \in Seq(Pointer) /\ offset \in Nat /\ len \in Nat /\ offset + len = Len(r)
      BY <1>2
    <3>2. s = Window(r, offset, len)
      OBVIOUS
    <3> HIDE DEF s
    <3>3. /\ Window(r, offset, len) \in Seq(Pointer) /\ Len(Window(r, offset, len)) = len
          /\ \A i \in 1 .. len : Window(r, offset, len)[i] = r[offset + i]
      BY ONLY <3>1, WindowOK
    <3> QED BY <3>2, <3>3
  <2> HIDE DEF s
  <2>3. offset * RECLEN <= Q.EA.size /\ Q.EA.size - offset * RECLEN = len * RECLEN
    <3> HIDE DEF offset, len, r
    <3>1. Len(r) * RECLEN = offset * RECLEN + len * RECLEN /\ offset * RECLEN \in Nat
          /\ len * RECLEN \in Nat
      <4>1. Len(r) = offset + len /\ offset \in Nat /\ len \in Nat /\ RECLEN \in Nat
        BY <1>1, <1>2
      <4> QED BY ONLY <4>1, MulAdd
    <3> DEFINE x == offset * RECLEN
               y == len * RECLEN
               z == Len(r) * RECLEN
    <3>2. z = x + y /\ x \in Nat /\ y \in Nat /\ Q.EA.size = z
      BY <1>3, <3>1
    <3> HIDE DEF x, y, z
    <3>3. x <= Q.EA.size /\ Q.EA.size - x = y
      BY ONLY <3>2
    <3> QED BY <3>3 DEF x, y
  <2>4. ArrayOK(o.EA) /\ o.EA.size = len * RECLEN
    <3>1. offset \in Nat /\ ArrayOK(Q.EA)
      BY <1>2, <1>3
    <3> HIDE DEF offset, len
    <3>2. ArrayOK(o.EA) /\ o.EA.size = Q.EA.size - offset * RECLEN
      BY ONLY <1>1, <2>1, <2>3, <3>1, ShrinkOK
    <3> QED BY <2>3, <3>2
  <2> HIDE DEF len, offset, r
  <2>5. QueueOK(P)
    <3>1. /\ P.EA = o.EA /\ P.recs = s /\ P.offset = 0 /\ P.len = len
          /\ P = [EA |-> P.EA, recs |-> P.recs, offset |-> P.offset, len |-> P.len]
      BY <2>1
    <3> QED BY <1>2, <2>2, <2>4, <3>1 DEF QueueOK
  <2>6. Without(Q, 1, P)
    <3>1. P.len = Q.len - 1 /\ P.recs = s /\ P.offset = 0
      BY <1>2, <2>1
    <3>2. ASSUME NEW pos \in 0 .. Q.len - 1 - 1
          PROVE  s[pos + 0 + 1] = r[pos + 1 + Q.offset + 1]
      <4>1. pos + 1 \in 1 .. len /\ offset + (pos + 1) = pos + 1 + Q.offset + 1
            /\ pos + 0 + 1 = pos + 1
        <5>1. /\ offset = Q.offset + 1 /\ len = Q.len - 1 /\ Q.offset \in Nat /\ Q.len \in Nat
              /\ pos \in 0 .. Q.len - 1 - 1
          BY <1>2
        <5> QED BY ONLY <5>1
      <4> QED BY <2>2, <4>1
    <3> QED BY <3>1, <3>2 DEF Without, elasticqueue_get, r
  <2> QED BY <2>5, <2>6
<1>5. CASE ~(offset > len)
  <2>1. P = [Q EXCEPT !.offset = offset, !.len = len]
    BY <1>5 DEF elasticqueue_delete
  <2> HIDE DEF len, offset
  <2>2. /\ P.EA = Q.EA /\ P.recs = r /\ P.offset = offset /\ P.len = len
        /\ P = [EA |-> P.EA, recs |-> P.recs, offset |-> P.offset, len |-> P.len]
    BY <2>1 DEF QueueOK
  <2>3. QueueOK(P)
    <3>1. offset <= len
      BY ONLY <1>2, <1>5
    <3> QED BY <1>2, <1>3, <2>2, <3>1 DEF QueueOK
  <2>4. Without(Q, 1, P)
    <3>1. ASSUME NEW pos \in 0 .. Q.len - 1 - 1 PROVE pos + offset + 1 = pos + 1 + Q.offset + 1
      <4>1. pos \in Int /\ offset = Q.offset + 1 /\ Q.offset \in Nat
        BY <1>2
      <4> QED BY ONLY <4>1
    <3> QED BY <1>2, <2>2, <3>1 DEF Without, elasticqueue_get
  <2> QED BY <2>3, <2>4
<1> QED BY <1>4, <1>5

LEMMA LeastNat ==
  ASSUME NEW T, T \subseteq Nat, T # {}
  PROVE  \E t \in T : \A y \in T : t <= y
<1>1. PICK t \in T : \A y \in T : ~(<<y, t>> \in OpToRel(<, Nat))
  <2>1. IsWellFoundedOn(OpToRel(<, Nat), Nat)
    BY NatLessThanWellFounded
  <2> QED BY <2>1, WFMin
<1>2. \A y \in T : ~(y < t)
  BY <1>1 DEF OpToRel
<1> QED BY <1>2

LEMMA MaxBounded ==
  ASSUME NEW b \in Nat, NEW S, S \subseteq 0 .. b, S # {}
  PROVE  Max(S) \in S /\ \A y \in S : y <= Max(S)
<1> DEFINE T == {b - s : s \in S}
<1>0. PICK s0 \in S : TRUE
  OBVIOUS
<1>1. T \subseteq Nat /\ T # {}
  <2>1. b - s0 \in T
    OBVIOUS
  <2>2. \A s \in S : b - s \in Nat
    OBVIOUS
  <2> QED BY <2>1, <2>2
<1> HIDE DEF T
<1>2. PICK t \in T : \A y \in T : t <= y
  BY <1>1, LeastNat
<1>3. PICK m \in S : t = b - m
  BY <1>2 DEF T
<1>4. \A y \in S : y <= m
  <2> SUFFICES ASSUME NEW y \in S PROVE y <= m
    OBVIOUS
  <2>1. b - y \in T
    BY DEF T
  <2>2. b - m <= b - y
    BY <1>2, <1>3, <2>1
  <2> QED BY <2>2
<1> QED BY <1>4 DEF Max

(* The records that the loop of seqptrmap_delete finds deleted. *)
LEMMA LeadingNullsOK ==
  ASSUME NEW Q, Q.len \in Nat
  PROVE  /\ LeadingNulls(Q) \in 0 .. Q.len
         /\ \A pos \in 0 .. LeadingNulls(Q) - 1 : elasticqueue_get(Q, pos) = NULLPTR
         /\ LeadingNulls(Q) < Q.len => elasticqueue_get(Q, LeadingNulls(Q)) # NULLPTR
<1> DEFINE S == {k \in 0 .. Q.len : \A pos \in 0 .. k - 1 : elasticqueue_get(Q, pos) = NULLPTR}
           n == LeadingNulls(Q)
<1>1. 0 \in S /\ S \subseteq 0 .. Q.len
  OBVIOUS
<1>2. n = Max(S)
  BY DEF LeadingNulls
<1> HIDE DEF n, S
<1>3. n \in S /\ \A y \in S : y <= n
  BY <1>1, <1>2, MaxBounded
<1>4. n \in 0 .. Q.len /\ \A pos \in 0 .. n - 1 : elasticqueue_get(Q, pos) = NULLPTR
  BY <1>3 DEF S
<1>5. ASSUME n < Q.len, elasticqueue_get(Q, n) = NULLPTR PROVE FALSE
  <2>1. n + 1 \in 0 .. Q.len /\ n + 1 - 1 = n
    BY <1>4, <1>5
  <2>2. \A pos \in 0 .. n : pos \in 0 .. n - 1 \/ pos = n
    BY <1>4
  <2>3. n + 1 \in S
    BY <2>1, <2>2, <1>4, <1>5 DEF S
  <2> QED BY <1>3, <1>4, <2>3
<1> QED BY <1>4, <1>5 DEF n

(* The function that DeleteFirst recurses with. *)
IsAfter(f, Q, n) ==
  f = [k \in 0 .. n |->
         IF k = 0 THEN {Q} ELSE UNION {elasticqueue_delete(P) : P \in f[k - 1]}]

LEMMA AfterExists ==
  ASSUME NEW Q, NEW n \in Nat
  PROVE  \E f : IsAfter(f, Q, n)
<1> DEFINE T == {k \in Nat : ~ \E f : IsAfter(f, Q, k)}
<1> SUFFICES ASSUME T # {} PROVE FALSE
  OBVIOUS
<1>1. PICK t \in T : \A y \in T : t <= y
  BY LeastNat
<1>2. t \in Nat /\ ~ \E f : IsAfter(f, Q, t)
  OBVIOUS
<1>3. CASE t = 0
  <2> DEFINE f == [k \in 0 .. 0 |-> {Q}]
  <2>1. IsAfter(f, Q, 0)
    BY DEF IsAfter
  <2> QED BY <1>2, <1>3, <2>1
<1>4. CASE t # 0
  <2>1. t - 1 \in Nat /\ t - 1 \notin T
    BY <1>1, <1>2, <1>4
  <2>2. PICK g : IsAfter(g, Q, t - 1)
    BY <2>1
  <2> DEFINE f == [k \in 0 .. t |-> IF k = t THEN UNION {elasticqueue_delete(P) : P \in g[t - 1]}
                                             ELSE g[k]]
  <2>3. \A k \in 0 .. t - 1 : f[k] = g[k] /\ k \in 0 .. t
    BY <1>2
  <2>4. ASSUME NEW k \in 0 .. t
        PROVE  f[k] = IF k = 0 THEN {Q} ELSE UNION {elasticqueue_delete(P) : P \in f[k - 1]}
    <3>1. CASE k = t
      <4>1. f[k - 1] = g[t - 1]
        BY <1>2, <1>4, <2>3, <3>1
      <4> QED BY <1>4, <3>1, <4>1
    <3>2. CASE k # t
      <4>1. k \in 0 .. t - 1
        BY <1>2, <3>2
      <4>2. f[k] = g[k] /\ (k # 0 => f[k - 1] = g[k - 1])
        BY <1>2, <2>3, <4>1
      <4>3. g[k] = IF k = 0 THEN {Q} ELSE UNION {elasticqueue_delete(P) : P \in g[k - 1]}
        BY <2>2, <4>1 DEF IsAfter
      <4> HIDE DEF f
      <4> QED BY <4>2, <4>3
    <3> QED BY <3>1, <3>2
  <2>5. IsAfter(f, Q, t)
    <3>1. f = [k \in 0 .. t |-> f[k]]
      OBVIOUS
    <3> HIDE DEF f
    <3> QED BY <2>4, <3>1 DEF IsAfter
  <2> QED BY <1>2, <2>5
<1> QED BY <1>3, <1>4

(* The first n records are deleted. *)
LEMMA DeleteFirstOK ==
  ASSUME NEW Q, QueueOK(Q), NEW n \in 0 .. Q.len, NEW P \in DeleteFirst(Q, n)
  PROVE  QueueOK(P) /\ Without(Q, n, P)
<1> DEFINE after == CHOOSE f : IsAfter(f, Q, n)
<1>1. Q.len \in Nat /\ n \in Nat
  BY DEF QueueOK
<1>2. IsAfter(after, Q, n)
  BY <1>1, AfterExists
<1>3. DeleteFirst(Q, n) = after[n]
  BY DEF DeleteFirst, IsAfter
<1> HIDE DEF after
<1>4. \A k \in 0 .. n : after[k] = IF k = 0 THEN {Q}
                                   ELSE UNION {elasticqueue_delete(A) : A \in after[k - 1]}
  BY <1>2 DEF IsAfter
<1> DEFINE T == {k \in 0 .. n : ~ \A A \in after[k] : QueueOK(A) /\ Without(Q, k, A)}
<1>5. ASSUME T # {} PROVE FALSE
  <2>1. T \subseteq Nat
    BY <1>1
  <2>2. PICK t \in T : \A y \in T : t <= y
    BY <1>5, <2>1, LeastNat
  <2>3. t \in 0 .. n
    OBVIOUS
  <2>4. PICK A \in after[t] : ~(QueueOK(A) /\ Without(Q, t, A))
    OBVIOUS
  <2>5. CASE t = 0
    <3>1. A = Q
      BY <1>4, <2>3, <2>4, <2>5
    <3>2. Without(Q, 0, Q)
      BY <1>1 DEF Without
    <3> QED BY <2>4, <2>5, <3>1, <3>2
  <2>6. CASE t # 0
    <3>1. t - 1 \in 0 .. n /\ t - 1 < t /\ t \in Nat
      BY <1>1, <2>3, <2>6
    <3>2. t - 1 \notin T
      BY <2>2, <3>1
    <3>3. \A B \in after[t - 1] : QueueOK(B) /\ Without(Q, t - 1, B)
      BY <3>1, <3>2
    <3>4. PICK B \in after[t - 1] : A \in elasticqueue_delete(B)
      <4>1. after[t] = UNION {elasticqueue_delete(B) : B \in after[t - 1]}
        BY <1>4, <2>3, <2>6
      <4> QED BY <2>4, <4>1
    <3> DEFINE l == Q.len
               k == t - 1
    <3>5. l \in Nat /\ k \in Nat /\ t \in Nat /\ t = k + 1 /\ t <= l /\ B.len = l - k
      BY <1>1, <2>3, <3>1, <3>3 DEF Without
    <3>6. QueueOK(A) /\ Without(B, 1, A)
      <4>1. B.len # 0
        <5> HIDE DEF l, k
        <5> QED BY <3>5
      <4> QED BY <3>3, <3>4, <4>1, QueueDeleteOK
    <3>7. /\ \A pos \in 0 .. l - k - 1 : elasticqueue_get(B, pos) = elasticqueue_get(Q, pos + k)
          /\ A.len = B.len - 1
          /\ \A pos \in 0 .. B.len - 1 - 1 : elasticqueue_get(A, pos) = elasticqueue_get(B, pos + 1)
      BY <3>3, <3>6 DEF Without
    <3> HIDE DEF l, k
    <3>8. A.len = l - t
      BY <3>5, <3>7
    <3>9. ASSUME NEW pos \in 0 .. l - t - 1
          PROVE  elasticqueue_get(A, pos) = elasticqueue_get(Q, pos + t)
      <4>1. /\ pos \in 0 .. B.len - 1 - 1 /\ pos + 1 \in 0 .. l - k - 1
            /\ (pos + 1) + k = pos + t
        BY <3>5
      <4>2. elasticqueue_get(B, pos + 1) = elasticqueue_get(Q, (pos + 1) + k)
        BY <3>7, <4>1
      <4> QED BY <3>7, <4>1, <4>2
    <3>10. Without(Q, t, A)
      BY <3>8, <3>9 DEF Without, l
    <3> QED BY <2>4, <3>6, <3>10
  <2> QED BY <2>5, <2>6
<1>6. n \in 0 .. n /\ n \notin T
  BY <1>1, <1>5
<1>7. \A A \in after[n] : QueueOK(A) /\ Without(Q, n, A)
  BY <1>6
<1> QED BY <1>3, <1>7
----------------------------------------------------------------------------
(* The sequential pointer map. *)

MapIInv ==
  /\ QueueOK(EQ)
  /\ M \in [offset : Nat, len : Nat] /\ M.len = EQ.len
  /\ M.offset + M.len <= INT64_MAX
  /\ EQ.len # 0 => elasticqueue_get(EQ, 0) # NULLPTR

(* What integer i finds. *)
Value(Q, off, len, i) ==
  IF i >= off /\ i - off < len THEN elasticqueue_get(Q, i - off) ELSE NULLPTR

LEMMA GetIsValue ==
  /\ \A i : seqptrmap_get(i) = Value(EQ, M.offset, M.len, i)
  /\ \A i : seqptrmap_get(i)' = Value(EQ', M'.offset, M'.len, i)
BY DEF seqptrmap_get, InMap, Value

LEMMA MapInitOK == MapInit => MapIInv
<1> SUFFICES ASSUME MapInit PROVE MapIInv
  OBVIOUS
<1>1. QueueOK(EQ) /\ EQ.len = 0 /\ M.offset = 0 /\ M.len = 0 /\ M \in [offset : Nat, len : Nat]
  BY EmptyQueueOK DEF MapInit
<1> QED BY <1>1, MapAssumption DEF MapIInv

(* A pointer is added under the next integer. *)
LEMMA MapAddOK ==
  ASSUME MapIInv, NEW p \in Ptrs, seqptrmap_add(p)
  PROVE  /\ MapIInv'
         /\ \/ EQ' = EQ /\ M' = M
            \/ /\ M'.offset = M.offset /\ M'.len = M.len + 1
               /\ M.offset + M.len \in 0 .. INT64_MAX
               /\ \A j \in Int : seqptrmap_get(j)' = IF j = M.offset + M.len THEN p
                                                     ELSE seqptrmap_get(j)
<1> USE MapAssumption
<1>1. M.offset + M.len < INT64_MAX /\ EQ' \in elasticqueue_add(EQ, p)
      /\ M' = IF EQ' = EQ THEN M ELSE [M EXCEPT !.len = @ + 1]
  BY DEF seqptrmap_add
<1>2. QueueOK(EQ) /\ M \in [offset : Nat, len : Nat] /\ M.len = EQ.len /\ M.offset \in Nat
      /\ M.len \in Nat /\ p \in Pointer /\ p # NULLPTR
  BY DEF MapIInv, Pointer
<1>3. CASE EQ' = EQ
  <2>1. EQ' = EQ /\ M' = M
    BY <1>1, <1>3
  <2> QED BY <2>1 DEF MapIInv
<1>4. CASE EQ' # EQ
  <2>1. /\ QueueOK(EQ') /\ EQ'.len = EQ.len + 1
        /\ \A pos \in 0 .. EQ.len - 1 : elasticqueue_get(EQ', pos) = elasticqueue_get(EQ, pos)
        /\ elasticqueue_get(EQ', EQ.len) = p
    BY <1>1, <1>2, <1>4, QueueAddOK
  <2>2. M' \in [offset : Nat, len : Nat] /\ M'.offset = M.offset /\ M'.len = M.len + 1
    BY <1>1, <1>2, <1>4
  <2>3. elasticqueue_get(EQ', 0) # NULLPTR
    <3>1. CASE EQ.len = 0
      BY <1>2, <2>1, <3>1
    <3>2. CASE EQ.len # 0
      <4>1. 0 \in 0 .. EQ.len - 1
        BY <1>2, <3>2
      <4> QED BY <2>1, <3>2, <4>1 DEF MapIInv
    <3> QED BY <3>1, <3>2
  <2>4. M'.offset + M'.len <= INT64_MAX /\ M'.len = EQ'.len /\ M.offset + M.len \in 0 .. INT64_MAX
    BY <1>1, <1>2, <2>1, <2>2
  <2>5. MapIInv'
    <3>1. QueueOK(EQ)'
      BY <2>1 DEF QueueOK, ArrayOK
    <3>2. elasticqueue_get(EQ, 0)' # NULLPTR
      BY <2>3 DEF elasticqueue_get
    <3> QED BY <2>2, <2>4, <3>1, <3>2 DEF MapIInv
  <2>6. ASSUME NEW j \in Int
        PROVE  Value(EQ', M'.offset, M'.len, j) = IF j = M.offset + M.len THEN p
                                                  ELSE Value(EQ, M.offset, M.len, j)
    <3> DEFINE off == M.offset
               len == M.len
    <3>0. off \in Nat /\ len \in Nat /\ M'.offset = off /\ M'.len = len + 1 /\ EQ.len = len
      BY <1>2, <2>2
    <3> HIDE DEF off, len
    <3>1. CASE j = off + len
      <4>1. j >= off /\ j - off = len /\ len < len + 1
        BY <3>0, <3>1
      <4> QED BY <2>1, <3>0, <3>1, <4>1 DEF Value, off, len
    <3>2. CASE j # off + len
      <4>1. j >= off /\ j - off < len + 1 <=> j >= off /\ j - off < len
        BY <3>0, <3>2
      <4>2. j >= off /\ j - off < len => j - off \in 0 .. EQ.len - 1
        BY <3>0
      <4>3. j >= off /\ j - off < len => elasticqueue_get(EQ', j - off) = elasticqueue_get(EQ, j - off)
        BY <2>1, <4>2
      <4>4. Value(EQ', off, len + 1, j) = Value(EQ, off, len, j)
        BY <4>1, <4>3 DEF Value
      <4> QED BY <3>0, <3>2, <4>4 DEF off, len
    <3> QED BY <3>1, <3>2
  <2> QED BY <2>2, <2>4, <2>5, <2>6, GetIsValue
<1> QED BY <1>3, <1>4

(* A pointer is deleted, and with it the deleted ones that have become the  *)
(* first; no other integer finds anything else than before.                 *)
LEMMA MapDeleteOK ==
  ASSUME MapIInv, NEW i \in 0 .. INT64_MAX, seqptrmap_delete(i)
  PROVE  /\ MapIInv'
         /\ \/ EQ' = EQ /\ M' = M
            \/ /\ M'.offset + M'.len = M.offset + M.len
               /\ i <= M.offset + M.len
               /\ \A j \in Int : seqptrmap_get(j)' = IF j = i THEN NULLPTR ELSE seqptrmap_get(j)
<1> USE MapAssumption
<1>1. QueueOK(EQ) /\ M \in [offset : Nat, len : Nat] /\ M.len = EQ.len /\ M.offset \in Nat
      /\ M.len \in Nat /\ M.offset + M.len <= INT64_MAX
  BY DEF MapIInv
<1>2. CASE ~InMap(i)
  <2>1. EQ' = EQ /\ M' = M
    BY <1>2 DEF seqptrmap_delete, mapvars
  <2> QED BY <2>1 DEF MapIInv
<1>3. CASE InMap(i)
  <2> DEFINE off == M.offset
             len == M.len
             at == i - off + EQ.offset + 1
             Q == [EQ EXCEPT !.recs[at] = NULLPTR]
             n == LeadingNulls(Q)
  <2>1. EQ' \in DeleteFirst(Q, n) /\ M' = [offset |-> off + n, len |-> len - n]
    BY <1>3 DEF seqptrmap_delete
  <2>2. /\ EQ.recs \in Seq(Pointer) /\ Len(EQ.recs) \in Nat /\ EQ.offset \in Nat
        /\ EQ.offset + len = Len(EQ.recs) /\ off \in Nat /\ len \in Nat /\ EQ.len = len
        /\ i >= off /\ i - off < len /\ i \in Int
    BY <1>1, <1>3, LenProperties DEF QueueOK, InMap
  <2>3. at \in 1 .. Len(EQ.recs)
    <3> HIDE DEF off, len
    <3>1. at = i - off + EQ.offset + 1
      BY DEF off
    <3> QED BY <2>2, <3>1
  <2> DEFINE r == [EQ.recs EXCEPT ![at] = NULLPTR]
  <2>4. /\ r \in Seq(Pointer) /\ Len(r) = Len(EQ.recs)
        /\ \A k \in 1 .. Len(EQ.recs) : r[k] = IF k = at THEN NULLPTR ELSE EQ.recs[k]
    <3>1. NULLPTR \in Pointer
      BY DEF Pointer
    <3> HIDE DEF at
    <3> QED BY <2>2, <2>3, <3>1, ExceptSeq
  <2>5. Q = [EQ EXCEPT !.recs = r]
    OBVIOUS
  <2> HIDE DEF r, Q
  <2>6. /\ Q.EA = EQ.EA /\ Q.recs = r /\ Q.offset = EQ.offset /\ Q.len = EQ.len
        /\ Q = [EA |-> Q.EA, recs |-> Q.recs, offset |-> Q.offset, len |-> Q.len]
    BY <1>1, <2>5 DEF QueueOK
  <2>7. QueueOK(Q)
    BY <1>1, <2>4, <2>6 DEF QueueOK
  <2>8. ASSUME NEW pos \in 0 .. len - 1
        PROVE  elasticqueue_get(Q, pos) = IF pos = i - off THEN NULLPTR
                                          ELSE elasticqueue_get(EQ, pos)
    <3>1. at = i - off + EQ.offset + 1
      OBVIOUS
    <3> HIDE DEF at, off, len
    <3>2. pos + EQ.offset + 1 \in 1 .. Len(EQ.recs)
      BY <2>2
    <3>3. pos + EQ.offset + 1 = at <=> pos = i - off
      BY <2>2, <3>1
    <3> QED BY <2>4, <2>6, <3>2, <3>3 DEF elasticqueue_get
  <2>9. /\ n \in 0 .. len
        /\ \A pos \in 0 .. n - 1 : elasticqueue_get(Q, pos) = NULLPTR
        /\ n < len => elasticqueue_get(Q, n) # NULLPTR
    <3>1. Q.len \in Nat /\ Q.len = len
      BY <2>2, <2>6
    <3> QED BY <3>1, LeadingNullsOK
  <2> HIDE DEF n, at, off, len
  <2>10. QueueOK(EQ') /\ Without(Q, n, EQ')
    BY <2>1, <2>2, <2>6, <2>7, <2>9, DeleteFirstOK
  <2>11. /\ EQ'.len = len - n
         /\ \A pos \in 0 .. len - n - 1 : elasticqueue_get(EQ', pos) = elasticqueue_get(Q, pos + n)
    BY <2>2, <2>6, <2>10 DEF Without
  <2>12. /\ M'.offset = off + n /\ M'.len = len - n /\ n \in Nat /\ n <= len /\ len - n \in Nat
         /\ off + n \in Nat
    <3>1. M'.offset = off + n /\ M'.len = len - n
      BY <2>1
    <3>2. n \in Nat /\ n <= len /\ len - n \in Nat /\ off + n \in Nat
      BY <2>2, <2>9
    <3> QED BY <3>1, <3>2
  <2>13. M'.offset + M'.len = off + len
    BY <2>2, <2>12
  <2>14. MapIInv'
    <3>1. QueueOK(EQ)'
      BY <2>10 DEF QueueOK, ArrayOK
    <3>2. M' \in [offset : Nat, len : Nat]
      BY <2>1, <2>12
    <3>3. off + len <= INT64_MAX
      BY <1>1 DEF off, len
    <3>4. EQ'.len # 0 => elasticqueue_get(EQ', 0) # NULLPTR
      <4> SUFFICES ASSUME EQ'.len # 0 PROVE elasticqueue_get(EQ', 0) # NULLPTR
        OBVIOUS
      <4>1. 0 \in 0 .. len - n - 1 /\ 0 + n = n /\ n < len
        BY <2>2, <2>9, <2>11, <2>12
      <4> QED BY <2>9, <2>11, <4>1
    <3>5. EQ'.len # 0 => elasticqueue_get(EQ, 0)' # NULLPTR
      BY <3>4 DEF elasticqueue_get
    <3> QED BY <2>11, <2>12, <2>13, <3>1, <3>2, <3>3, <3>5 DEF MapIInv
  <2>15. ASSUME NEW j \in Int
         PROVE  Value(EQ', off + n, len - n, j) = IF j = i THEN NULLPTR
                                                  ELSE Value(EQ, off, len, j)
    <3>1. CASE j >= off + n /\ j - (off + n) < len - n
      <4>1. /\ j - (off + n) \in 0 .. len - n - 1 /\ (j - (off + n)) + n = j - off
            /\ j - off \in 0 .. len - 1 /\ j >= off /\ j - off < len
            /\ (j - off = i - off <=> j = i)
        BY <2>2, <2>12, <3>1
      <4>2. Value(EQ', off + n, len - n, j) = elasticqueue_get(Q, j - off)
        BY <2>11, <3>1, <4>1 DEF Value
      <4>3. Value(EQ, off, len, j) = elasticqueue_get(EQ, j - off)
        BY <4>1 DEF Value
      <4> QED BY <2>8, <4>1, <4>2, <4>3
    <3>2. CASE ~(j >= off + n /\ j - (off + n) < len - n)
      <4>1. Value(EQ', off + n, len - n, j) = NULLPTR
        BY <3>2 DEF Value
      <4>2. CASE j >= off /\ j - off < len
        <5>1. j - off \in 0 .. n - 1 /\ j - off \in 0 .. len - 1 /\ (j - off = i - off <=> j = i)
          BY <2>2, <2>12, <3>2, <4>2
        <5>2. elasticqueue_get(Q, j - off) = NULLPTR
          BY <2>9, <5>1
        <5>3. j # i => elasticqueue_get(EQ, j - off) = NULLPTR
          BY <2>8, <5>1, <5>2
        <5> QED BY <4>1, <4>2, <5>3 DEF Value
      <4>3. CASE ~(j >= off /\ j - off < len)
        BY <4>1, <4>3 DEF Value
      <4> QED BY <4>2, <4>3
    <3> QED BY <3>1, <3>2
  <2>16. i <= off + len
    BY <2>2
  <2>17. \A j \in Int : seqptrmap_get(j)' = IF j = i THEN NULLPTR ELSE seqptrmap_get(j)
    BY <2>12, <2>15, GetIsValue DEF off, len
  <2> QED BY <2>13, <2>14, <2>16, <2>17 DEF off, len
<1> QED BY <1>2, <1>3

LEMMA MapNextOK == MapIInv /\ [MapNext]_mapvars => MapIInv'
<1> SUFFICES ASSUME MapIInv, [MapNext]_mapvars PROVE MapIInv'
  OBVIOUS
<1>1. CASE MapNext
  BY <1>1, MapAddOK, MapDeleteOK DEF MapNext
<1>2. CASE UNCHANGED mapvars
  BY <1>2 DEF mapvars, MapIInv
<1> QED BY <1>1, <1>2

LEMMA MapIInvImplies == MapIInv /\ ElasticIInv => MapConsistent
<1> SUFFICES ASSUME MapIInv, ElasticIInv PROVE MapConsistent
  OBVIOUS
<1> USE MapAssumption
<1>1. QueueOK(EQ) /\ M \in [offset : Nat, len : Nat] /\ M.len = EQ.len /\ M.offset \in Nat
      /\ M.len \in Nat /\ M.offset + M.len <= INT64_MAX
  BY DEF MapIInv
<1>2. MapTypeOK
  BY <1>1 DEF QueueOK, ArrayOK, Pointer, MapTypeOK
<1>3. elasticarray_getsize(EQ.EA, RECLEN) = Len(EQ.recs) /\ EQ.EA.size <= EQ.EA.alloc
  <2>1. RECLEN \in Nat \ {0}
    BY QueueAssumption, ElasticAssumption
  <2> DEFINE l == Len(EQ.recs)
  <2>2. l \in Nat /\ EQ.EA.size = l * RECLEN /\ EQ.EA.size <= EQ.EA.alloc
    BY <1>1, LenProperties DEF QueueOK, ArrayOK
  <2> HIDE DEF l
  <2>3. (l * RECLEN) \div RECLEN = l
    <3> DEFINE q == (l * RECLEN) \div RECLEN
    <3>1. l * RECLEN \in Nat
      BY <2>1, <2>2
    <3>2. q \in Nat
      BY <2>1, <3>1
    <3>3. l <= q
      BY <2>1, <2>2, <3>1, MulFits
    <3>4. q * RECLEN <= l * RECLEN
      BY <2>1, <3>1, <3>2, MulFits
    <3> HIDE DEF q
    <3>5. q <= l
      BY <2>1, <2>2, <3>2, <3>4
    <3>6. q = l
      BY <2>2, <3>2, <3>3, <3>5
    <3> QED BY <3>6 DEF q
  <2> QED BY <2>2, <2>3 DEF elasticarray_getsize, l
<1>4. IF \E i \in 0 .. INT64_MAX : seqptrmap_get(i) # NULLPTR
      THEN seqptrmap_getmin = Min({i \in 0 .. INT64_MAX : seqptrmap_get(i) # NULLPTR})
      ELSE seqptrmap_getmin = -1
  <2> DEFINE S == {i \in 0 .. INT64_MAX : seqptrmap_get(i) # NULLPTR}
  <2>1. CASE EQ.len = 0
    <3>1. seqptrmap_getmin = -1
      BY <2>1 DEF seqptrmap_getmin, elasticqueue_getlen
    <3>2. \A i \in 0 .. INT64_MAX : seqptrmap_get(i) = NULLPTR
      BY <1>1, <2>1 DEF seqptrmap_get, InMap
    <3> QED BY <3>1, <3>2
  <2>2. CASE EQ.len # 0
    <3>1. seqptrmap_getmin = M.offset
      BY <2>2 DEF seqptrmap_getmin, elasticqueue_getlen
    <3>2. M.offset \in 0 .. INT64_MAX /\ M.offset - M.offset = 0 /\ InMap(M.offset)
      BY <1>1, <2>2 DEF InMap
    <3>3. seqptrmap_get(M.offset) # NULLPTR
      BY <2>2, <3>2 DEF seqptrmap_get, MapIInv
    <3>4. M.offset \in S /\ \A y \in S : M.offset <= y
      BY <1>1, <3>2, <3>3 DEF seqptrmap_get, InMap
    <3> HIDE DEF S
    <3>5. S \subseteq Int
      BY DEF S
    <3>6. Min(S) = M.offset
      <4>1. Min(S) \in S /\ \A y \in S : Min(S) <= y
        BY <3>4 DEF Min
      <4>2. Min(S) \in Int /\ M.offset \in Int /\ Min(S) <= M.offset /\ M.offset <= Min(S)
        BY <3>4, <3>5, <4>1
      <4> QED BY ONLY <4>2
    <3> QED BY <3>1, <3>2, <3>3, <3>6 DEF S
  <2> QED BY <2>1, <2>2
<1>5. /\ EQ.len = M.len /\ EQ.offset + EQ.len = Len(EQ.recs) /\ EQ.offset <= EQ.len
  BY <1>1 DEF QueueOK
<1> QED BY <1>2, <1>3, <1>4, <1>5 DEF MapConsistent, ElasticIInv

(* The data of an elastic array fits its buffer, which is never much larger *)
(* than that, for every record length and whatever wraps; the queue is a    *)
(* window of its array and the map counts the same records, however many    *)
(* are added and deleted; and seqptrmap_getmin returns the smallest integer *)
(* that has a pointer.                                                      *)
THEOREM MapCorrect == ElasticSpec /\ MapSpec => []MapConsistent
<1>1. ElasticSpec => []ElasticIInv
  BY ElasticInitOK, ElasticNextOK, PTL DEF ElasticSpec
<1>2. MapSpec => []MapIInv
  BY MapInitOK, MapNextOK, PTL DEF MapSpec
<1> QED BY <1>1, <1>2, MapIInvImplies, PTL

(* Every pointer that seqptrmap_add is given is found under the next        *)
(* integer until that is deleted, however the queue beneath is compacted    *)
(* and whichever allocations fail.                                          *)
THEOREM MapRefines == MapSpec => FindsPointers
<1> USE MapAssumption
<1>1. MapInit => AbstractMap!Init
  <2> SUFFICES ASSUME MapInit PROVE AbstractMap!Init
    OBVIOUS
  <2>1. M.offset = 0 /\ M.len = 0
    BY DEF MapInit
  <2>2. Present = {}
    BY <2>1 DEF Present, seqptrmap_get, InMap
  <2> QED BY <2>1, <2>2 DEF AbstractMap!Init
<1>2. ASSUME MapIInv, [MapNext]_mapvars
      PROVE  [AbstractMap!Next]_<<[i \in Present |-> seqptrmap_get(i)], M.offset + M.len>>
  <2> DEFINE ptr == [i \in Present |-> seqptrmap_get(i)]
             next == M.offset + M.len
  <2>1. M.offset \in Nat /\ M.len \in Nat /\ next \in Nat
    BY <1>2 DEF MapIInv
  <2>2. Present = {i \in 0 .. INT64_MAX : seqptrmap_get(i) # NULLPTR}
        /\ Present' = {i \in 0 .. INT64_MAX : seqptrmap_get(i)' # NULLPTR}
    BY DEF Present
  <2>3. ASSUME EQ' = EQ, M' = M PROVE ptr' = ptr /\ next' = next
    BY <2>3 DEF Present, seqptrmap_get, InMap
  <2>4. ASSUME NEW p \in Ptrs, seqptrmap_add(p)
        PROVE  [AbstractMap!Next]_<<ptr, next>>
    <3>1. CASE EQ' = EQ /\ M' = M
      BY <2>3, <3>1
    <3>2. CASE /\ M'.offset = M.offset /\ M'.len = M.len + 1
               /\ next \in 0 .. INT64_MAX
               /\ \A j \in Int : seqptrmap_get(j)' = IF j = next THEN p ELSE seqptrmap_get(j)
      <4>1. next' = next + 1
        BY <2>1, <3>2
      <4>2. p # NULLPTR
        OBVIOUS
      <4>3. Present' = Present \cup {next}
        BY <2>2, <3>2, <4>2
      <4>4. ptr' = [i \in Present \cup {next} |-> IF i = next THEN p ELSE ptr[i]]
        <5>1. \A i \in Present \cup {next} : i \in Int /\ (i # next => i \in Present)
          BY <2>2, <3>2
        <5>2. \A i \in Present : ptr[i] = seqptrmap_get(i)
          OBVIOUS
        <5>3. ptr' = [i \in Present' |-> seqptrmap_get(i)']
          OBVIOUS
        <5> QED BY <3>2, <4>3, <5>1, <5>2, <5>3
      <4>5. DOMAIN ptr = Present
        OBVIOUS
      <4>6. AbstractMap!Add(p)
        BY <4>1, <4>4, <4>5 DEF AbstractMap!Add
      <4> QED BY <4>6 DEF AbstractMap!Next
    <3> QED BY <1>2, <2>4, <3>1, <3>2, MapAddOK
  <2>5. ASSUME NEW i \in 0 .. INT64_MAX, seqptrmap_delete(i)
        PROVE  [AbstractMap!Next]_<<ptr, next>>
    <3>1. CASE EQ' = EQ /\ M' = M
      BY <2>3, <3>1
    <3>2. CASE /\ M'.offset + M'.len = next /\ i <= next
               /\ \A j \in Int : seqptrmap_get(j)' = IF j = i THEN NULLPTR ELSE seqptrmap_get(j)
      <4>1. next' = next
        BY <3>2
      <4>3. Present' = Present \ {i}
        BY <2>2, <3>2
      <4>4. ptr' = [j \in Present \ {i} |-> ptr[j]]
        <5>1. \A j \in Present \ {i} : j \in Int /\ j # i /\ j \in Present
          BY <2>2
        <5>2. \A j \in Present : ptr[j] = seqptrmap_get(j)
          OBVIOUS
        <5>3. ptr' = [j \in Present' |-> seqptrmap_get(j)']
          OBVIOUS
        <5> QED BY <3>2, <4>3, <5>1, <5>2, <5>3
      <4>5. DOMAIN ptr = Present
        OBVIOUS
      <4>6. AbstractMap!Delete(i)
        BY <4>1, <4>4, <4>5 DEF AbstractMap!Delete
      <4>7. i \in 0 .. next
        BY <2>1, <3>2
      <4> QED BY <4>6, <4>7 DEF AbstractMap!Next
    <3> QED BY <1>2, <2>5, <3>1, <3>2, MapDeleteOK
  <2>6. CASE UNCHANGED mapvars
    BY <2>3, <2>6 DEF mapvars
  <2> QED BY <1>2, <2>4, <2>5, <2>6 DEF MapNext
<1>3. MapInit => MapIInv
  BY MapInitOK
<1>4. MapIInv /\ [MapNext]_mapvars => MapIInv'
  BY MapNextOK
<1> QED BY <1>1, <1>2, <1>3, <1>4, PTL DEF MapSpec, FindsPointers, AbstractMap!Spec
----------------------------------------------------------------------------
(* The option parser.  Two options that fit the same word are a longer one  *)
(* and, behind it in the switch, a shorter one: the first that searchopt    *)
(* finds is the longest.                                                    *)
LEMMA SwitchFacts ==
  /\ nopts \in Nat /\ Default = nopts + 1 /\ DOMAIN Switch = 1 .. nopts
  /\ Labels \subseteq 1 .. nopts
  /\ \A i \in 1 .. nopts : Switch[i] \in OptionRec \cup {NOOPT, MISSING}
  /\ \A i \in 1 .. nopts : i \in Labels <=> Switch[i] \in OptionRec /\ Switch[i] # MISSING
<1>1. Switch \in Seq(OptionRec \cup {NOOPT, MISSING})
  BY GetoptAssumption
<1>2. /\ nopts \in Nat /\ DOMAIN Switch = 1 .. nopts
      /\ \A i \in 1 .. nopts : Switch[i] \in OptionRec \cup {NOOPT, MISSING}
  BY <1>1, LenProperties, ElementOfSeq DEF nopts
<1>3. NOOPT \notin OptionRec
  BY GetoptAssumption
<1> QED BY <1>2, <1>3 DEF Labels, Default

LEMMA LabelsAreNat == Labels \subseteq Nat
<1>1. nopts \in Nat /\ Labels \subseteq 1 .. nopts
  BY SwitchFacts
<1> QED BY ONLY <1>1

LEMMA LabelFacts ==
  ASSUME NEW i \in Labels
  PROVE  /\ i \in 1 .. nopts /\ Switch[i] \in OptionRec /\ Switch[i] # NOOPT /\ Switch[i] # MISSING
         /\ Switch[i].os \in Word /\ Switch[i].hasarg \in BOOLEAN
         /\ Len(Switch[i].os) \in Nat /\ Len(Switch[i].os) >= 2 /\ Switch[i].os[1] = "-"
         /\ Switch[i].os[2] = "-" <=> Len(Switch[i].os) > 2
<1>1. i \in 1 .. nopts /\ Switch[i] \in OptionRec /\ Switch[i] # NOOPT /\ Switch[i] # MISSING
  BY SwitchFacts DEF Labels
<1>2. Switch[i].os \in Word /\ Switch[i].hasarg \in BOOLEAN
  BY <1>1 DEF OptionRec
<1>3. Len(Switch[i].os) \in Nat
  BY <1>2, LenProperties DEF Word
<1> QED BY <1>1, <1>2, <1>3, GetoptAssumption

LEMMA FitsIs ==
  ASSUME NEW o \in Word, NEW s \in Word
  PROVE  /\ Len(o) \in Nat /\ Len(s) \in Nat
         /\ Fits(o, s) <=> /\ Len(o) <= Len(s) /\ \A x \in 1 .. Len(o) : s[x] = o[x]
                           /\ Len(s) = Len(o) \/ s[Len(o) + 1] = "="
<1>1. /\ Len(o) \in Nat /\ Len(s) \in Nat
      /\ \A x \in 1 .. Len(o) : o[x] \in Chars
      /\ \A x \in 1 .. Len(s) : s[x] \in Chars
  BY LenProperties, ElementOfSeq DEF Word
<1>2. SubSeq(o, 1, Len(o)) = o
  BY SubSeqFull DEF Word
<1>3. ASSUME Len(o) <= Len(s)
      PROVE  /\ SubSeq(s, 1, Len(o)) \in Seq(Chars) /\ Len(SubSeq(s, 1, Len(o))) = Len(o)
             /\ \A x \in 1 .. Len(o) : SubSeq(s, 1, Len(o))[x] = s[x]
  <2>1. \A x \in 1 .. Len(o) : s[x] \in Chars
    BY <1>1, <1>3
  <2> QED BY <1>1, <2>1, SubSeqProperties
<1>4. ASSUME Len(o) <= Len(s)
      PROVE  SubSeq(o, 1, Len(o)) = SubSeq(s, 1, Len(o)) <=> \A x \in 1 .. Len(o) : s[x] = o[x]
  <2>1. ASSUME \A x \in 1 .. Len(o) : s[x] = o[x] PROVE o = SubSeq(s, 1, Len(o))
    BY <1>1, <1>3, <1>4, <2>1, SeqEqual DEF Word
  <2>2. ASSUME o = SubSeq(s, 1, Len(o)) PROVE \A x \in 1 .. Len(o) : s[x] = o[x]
    BY <1>3, <1>4, <2>2
  <2> QED BY <1>2, <2>1, <2>2
<1> QED BY <1>1, <1>4 DEF Fits, IsPrefix

LEMMA LongerFirst ==
  ASSUME NEW i \in Labels, NEW j \in Labels, NEW s \in Word,
         Fits(Switch[i].os, s), Fits(Switch[j].os, s), i < j
  PROVE  Len(Switch[j].os) < Len(Switch[i].os)
<1> DEFINE o == Switch[i].os
           p == Switch[j].os
<1>1. o \in Word /\ p \in Word /\ Len(o) \in Nat /\ Len(p) \in Nat /\ Len(s) \in Nat
  BY LabelFacts, FitsIs
<1>2. ~Fits(o, p)
  BY GetoptAssumption
<1>3. /\ Len(o) <= Len(s) /\ \A x \in 1 .. Len(o) : s[x] = o[x]
      /\ Len(s) = Len(o) \/ s[Len(o) + 1] = "="
      /\ Len(p) <= Len(s) /\ \A x \in 1 .. Len(p) : s[x] = p[x]
  BY <1>1, FitsIs
<1> HIDE DEF o, p
<1> SUFFICES ASSUME Len(o) <= Len(p) PROVE FALSE
  BY <1>1 DEF o, p
<1>4. \A x \in 1 .. Len(o) : p[x] = o[x]
  BY <1>1, <1>3
<1>5. Len(p) = Len(o) \/ p[Len(o) + 1] = "="
  BY <1>1, <1>3
<1> QED BY <1>1, <1>2, <1>4, <1>5, FitsIs

(* The option of a word: that of a letter fits it exactly. *)
LEMMA LineOfIs ==
  ASSUME NEW s \in Word
  PROVE  \/ LineOf(s) = Default /\ ~ \E i \in Labels : Fits(Switch[i].os, s)
         \/ /\ LineOf(s) \in Labels /\ Fits(Switch[LineOf(s)].os, s)
            /\ \A j \in Labels : Fits(Switch[j].os, s) => LineOf(s) <= j
<1> DEFINE fits == {i \in Labels : Fits(Switch[i].os, s)}
<1>1. CASE fits = {}
  BY <1>1 DEF LineOf
<1>2. CASE fits # {}
  <2>1. fits \subseteq Nat
    BY LabelsAreNat
  <2>2. PICK i \in fits : \A j \in fits : i <= j
    BY <1>2, <2>1, LeastNat
  <2>3. \A j \in fits : Len(Switch[j].os) <= Len(Switch[i].os)
    <3> SUFFICES ASSUME NEW j \in fits PROVE Len(Switch[j].os) <= Len(Switch[i].os)
      OBVIOUS
    <3>1. i \in Nat /\ j \in Nat /\ Len(Switch[i].os) \in Nat /\ Len(Switch[j].os) \in Nat
      BY <2>1, LabelFacts
    <3>2. CASE i = j
      BY <3>1, <3>2
    <3>3. CASE i < j
      BY <3>1, <3>3, LongerFirst
    <3> QED BY <2>2, <3>1, <3>2, <3>3
  <2> DEFINE l == CHOOSE m \in fits : \A j \in fits : Len(Switch[j].os) <= Len(Switch[m].os)
  <2>4. l \in fits /\ \A j \in fits : Len(Switch[j].os) <= Len(Switch[l].os)
    BY <2>3
  <2>5. LineOf(s) = l
    BY <1>2 DEF LineOf
  <2> HIDE DEF l
  <2>6. l = i
    <3>1. i \in Nat /\ l \in Nat /\ Len(Switch[i].os) \in Nat /\ Len(Switch[l].os) \in Nat
      BY <2>1, <2>4, LabelFacts
    <3>2. ASSUME i < l PROVE FALSE
      <4>1. Len(Switch[l].os) < Len(Switch[i].os)
        BY <2>4, <3>2, LongerFirst
      <4> QED BY <2>4, <3>1, <4>1
    <3> QED BY <2>2, <2>4, <3>1, <3>2
  <2> QED BY <2>2, <2>5, <2>6
<1> QED BY <1>1, <1>2

Registered == [i \in 1 .. nopts |-> IF i \in Labels THEN Switch[i] ELSE NOOPT]

LEMMA RegisteredIs ==
  \A i \in 1 .. nopts : /\ i \in Labels <=> Registered[i] # NOOPT
                        /\ i \in Labels => Registered[i] = Switch[i]
BY SwitchFacts, LabelFacts DEF Registered

LEMMA SearchFinds ==
  ASSUME opts = Registered, NEW s \in Word
  PROVE  searchopt(s) = LineOf(s)
<1> DEFINE fits == {i \in 1 .. nopts : opts[i] # NOOPT /\ Fits(opts[i].os, s)}
<1>1. \A i : i \in fits <=> i \in Labels /\ Fits(Switch[i].os, s)
  BY RegisteredIs, SwitchFacts
<1>2. fits \subseteq Nat
  BY LabelsAreNat
<1> HIDE DEF fits
<1>3. searchopt(s) = IF fits = {} THEN Default ELSE Min(fits)
  BY DEF searchopt, fits
<1>4. CASE fits = {}
  BY <1>1, <1>3, <1>4, LineOfIs
<1>5. CASE fits # {}
  <2>1. LineOf(s) \in fits /\ \A j \in fits : LineOf(s) <= j
    <3>1. \E i \in Labels : Fits(Switch[i].os, s)
      BY <1>1, <1>5
    <3>2. /\ LineOf(s) \in Labels /\ Fits(Switch[LineOf(s)].os, s)
          /\ \A j \in Labels : Fits(Switch[j].os, s) => LineOf(s) <= j
      BY <3>1, LineOfIs
    <3> QED BY <1>1, <3>2
  <2>2. ASSUME NEW x \in fits, \A y \in fits : x <= y PROVE x = LineOf(s)
    <3>1. x \in Nat /\ LineOf(s) \in Nat
      BY <1>2, <2>1
    <3>2. x <= LineOf(s) /\ LineOf(s) <= x
      BY <2>1, <2>2
    <3> QED BY ONLY <3>1, <3>2
  <2>3. Min(fits) = LineOf(s)
    BY <1>2, <2>1, <2>2 DEF Min
  <2> QED BY <1>3, <1>5, <2>3
<1> QED BY <1>4, <1>5

LEMMA PairIs ==
  ASSUME NEW S, NEW a \in S, NEW b \in S
  PROVE  <<a, b>> \in Seq(S) /\ Len(<<a, b>>) = 2
OBVIOUS

LEMMA LetterIs ==
  ASSUME NEW w \in Word, NEW k \in 1 .. Len(w)
  PROVE  /\ <<"-", w[k]>> \in Word /\ Len(<<"-", w[k]>>) = 2
         /\ \/ Letter(w, k) = Default
            \/ /\ Letter(w, k) \in Labels /\ Len(Switch[Letter(w, k)].os) = 2
               /\ Switch[Letter(w, k)].os = <<"-", w[k]>>
<1> DEFINE s == <<"-", w[k]>>
           l == Letter(w, k)
<1>1. w[k] \in Chars
  BY ElementOfSeq DEF Word
<1>2. s \in Word /\ Len(s) = 2
  <2>1. "-" \in Chars
    BY GetoptAssumption
  <2> QED BY <1>1, <2>1, PairIs DEF Word
<1>3. l = LineOf(s)
  BY DEF Letter
<1> HIDE DEF s, l
<1>4. CASE l # Default
  <2>1. l \in Labels /\ Fits(Switch[l].os, s)
    BY <1>2, <1>3, <1>4, LineOfIs
  <2>2. Switch[l].os \in Word /\ Len(Switch[l].os) \in Nat /\ Len(Switch[l].os) >= 2
    BY <2>1, LabelFacts
  <2>3. Len(Switch[l].os) <= 2 /\ \A x \in 1 .. Len(Switch[l].os) : s[x] = Switch[l].os[x]
    BY <1>2, <2>1, <2>2, FitsIs
  <2> DEFINE n == Len(Switch[l].os)
  <2>4. n = 2
    <3>1. n \in Nat /\ n >= 2 /\ n <= 2
      BY <2>2, <2>3
    <3> HIDE DEF n
    <3> QED BY ONLY <3>1
  <2>5. Switch[l].os = s
    <3>1. Switch[l].os \in Seq(Chars) /\ s \in Seq(Chars) /\ Len(Switch[l].os) = Len(s)
      BY <1>2, <2>2, <2>4 DEF Word
    <3> QED BY ONLY <2>3, <3>1, SeqEqual
  <2> QED BY <1>2, <2>1, <2>4, <2>5 DEF s, l
<1> QED BY <1>2, <1>4 DEF s, l

(* What is read of a command line. *)
AnyJump == [line : Nat, arg : Word \cup {NOOPT}]
Means == Seq(AnyJump)
ReadTo(o, lo, hi) == o = Read(o.jumps, o.next) /\ o.jumps \in Means /\ o.next \in lo .. hi

LEMMA JumpIs ==
  ASSUME NEW line \in Nat, NEW arg \in Word \cup {NOOPT}
  PROVE  /\ Jump(line, arg) \in AnyJump /\ <<Jump(line, arg)>> \in Means
         /\ Len(<<Jump(line, arg)>>) = 1 /\ <<Jump(line, arg)>>[1] = Jump(line, arg)
<1>1. Jump(line, arg) \in AnyJump
  BY DEF Jump, AnyJump
<1> QED BY <1>1 DEF Means

LEMMA ReadIs ==
  ASSUME NEW j \in Means, NEW lo \in Int, NEW hi \in Int, NEW n \in lo .. hi
  PROVE  ReadTo(Read(j, n), lo, hi) /\ Read(j, n).jumps = j /\ Read(j, n).next = n
BY DEF ReadTo, Read

LEMMA ReadFields ==
  ASSUME NEW j, NEW n, NEW o, o = Read(j, n)
  PROVE  o.jumps = j /\ o.next = n
BY DEF Read

LEMMA CatAssociates ==
  ASSUME NEW x \in Means, NEW y \in Means, NEW z \in Means
  PROVE  (x \o y) \o z = x \o (y \o z)
BY ConcatAssociative DEF Means

LEMMA CatIs ==
  ASSUME NEW x \in Means, NEW y \in Means
  PROVE  x \o y \in Means
BY ConcatProperties DEF Means

LEMMA LinesAreNat ==
  /\ Default \in Nat /\ MissingLine \in Nat
  /\ \A s \in Word : LineOf(s) \in Nat
  /\ \A l \in Labels : l \in Nat /\ l # Default
<1>1. Default \in Nat /\ Labels \subseteq Nat /\ DOMAIN Switch \subseteq Nat
  BY SwitchFacts, LabelsAreNat
<1>2. \A l \in Labels : l \in Nat /\ l # Default
  <2>1. \A l \in 1 .. nopts : l # Default
    BY SwitchFacts
  <2> QED BY <1>1, <2>1, SwitchFacts
<1>3. \A s \in Word : LineOf(s) \in Nat
  BY <1>1, LineOfIs
<1>4. MissingLine \in Nat
  <2> DEFINE lines == {i \in DOMAIN Switch : Switch[i] = MISSING}
  <2>1. CASE lines = {}
    BY <1>1, <2>1 DEF MissingLine
  <2>2. CASE lines # {}
    <3>1. \A i \in lines : i \in Nat /\ i <= nopts
      BY SwitchFacts
    <3>2. \E m \in lines : \A i \in lines : i <= m
      <4> DEFINE T == {nopts - i : i \in lines}
      <4>1. T \subseteq Nat /\ T # {}
        BY <2>2, <3>1, SwitchFacts
      <4>2. PICK t \in T : \A y \in T : t <= y
        BY <4>1, LeastNat
      <4>3. PICK m \in lines : t = nopts - m
        OBVIOUS
      <4>4. ASSUME NEW i \in lines PROVE i <= m
        <5>1. nopts - i \in T
          OBVIOUS
        <5>2. nopts - m <= nopts - i
          BY <4>2, <4>3, <5>1
        <5>3. i \in Nat /\ m \in Nat /\ nopts \in Nat
          BY <3>1, SwitchFacts
        <5> QED BY ONLY <5>2, <5>3
      <4> QED BY <4>4
    <3>3. PICK m \in lines : \A i \in lines : i <= m
      BY <3>2
    <3>4. Max(lines) \in lines
      <4>1. \E x \in lines : \A y \in lines : x >= y
        BY <3>1, <3>3
      <4> QED BY <4>1 DEF Max
    <3> QED BY <2>2, <3>1, <3>4 DEF MissingLine
  <2> QED BY <2>1, <2>2
<1> QED BY <1>1, <1>2, <1>3, <1>4

LEMMA LetterFacts ==
  ASSUME NEW w \in Word, NEW k \in 1 .. Len(w)
  PROVE  /\ Letter(w, k) \in Nat
         /\ TakesArg(Letter(w, k)) => Letter(w, k) \in Labels /\ Letter(w, k) # Default
<1>1. <<"-", w[k]>> \in Word
  BY LetterIs
<1>2. Letter(w, k) \in Nat
  BY <1>1, LinesAreNat DEF Letter
<1> QED BY <1>2, LinesAreNat DEF TakesArg

LEMMA WordsAre ==
  ASSUME NEW words \in Seq(Word)
  PROVE  /\ Len(words) \in Nat
         /\ \A i \in 1 .. Len(words) : words[i] \in Word /\ Len(words[i]) \in Nat
<1>1. Len(words) \in Nat /\ \A i \in 1 .. Len(words) : words[i] \in Word
  BY LenProperties, ElementOfSeq
<1> QED BY <1>1, LenProperties DEF Word

LEMMA ReadArgIs ==
  ASSUME NEW words \in Seq(Word), NEW i \in 1 .. Len(words), NEW line \in Nat
  PROVE  ReadTo(ReadArg(words, i, line), i + 1, Len(words) + 1)
<1>1. Len(words) \in Nat /\ \A x \in 1 .. Len(words) : words[x] \in Word
  BY WordsAre
<1>2. CASE i < Len(words)
  <2>1. i + 2 \in i + 1 .. Len(words) + 1 /\ words[i + 1] \in Word
    BY <1>1, <1>2
  <2>2. <<Jump(line, words[i + 1])>> \in Means
    BY <2>1, JumpIs
  <2> DEFINE j == <<Jump(line, words[i + 1])>>
             n == i + 2
             lo == i + 1
             hi == Len(words) + 1
  <2>3. ReadArg(words, i, line) = Read(j, n)
    BY <1>2 DEF ReadArg
  <2>4. j \in Means /\ n \in lo .. hi /\ lo \in Int /\ hi \in Int
    BY <1>1, <2>1, <2>2
  <2> HIDE DEF j, n, lo, hi
  <2>5. ReadTo(ReadArg(words, i, line), lo, hi)
    BY <2>3, <2>4, ReadIs
  <2> QED BY <2>5 DEF lo, hi
<1>3. CASE ~(i < Len(words))
  <2>1. i + 1 \in i + 1 .. Len(words) + 1
    BY <1>1
  <2>2. <<Jump(MissingLine, NOOPT)>> \in Means
    BY JumpIs, LinesAreNat
  <2> DEFINE j == <<Jump(MissingLine, NOOPT)>>
             n == i + 1
             lo == i + 1
             hi == Len(words) + 1
  <2>3. ReadArg(words, i, line) = Read(j, n)
    BY <1>3 DEF ReadArg
  <2>4. j \in Means /\ n \in lo .. hi /\ lo \in Int /\ hi \in Int
    BY <1>1, <2>1, <2>2
  <2> HIDE DEF j, n, lo, hi
  <2>5. ReadTo(ReadArg(words, i, line), lo, hi)
    BY <2>3, <2>4, ReadIs
  <2> QED BY <2>5 DEF lo, hi
<1> QED BY <1>2, <1>3

LEMMA TakerIs ==
  ASSUME NEW w \in Word, NEW k \in 1 .. Len(w) + 1
  PROVE  /\ Taker(w, k) \in k .. Len(w) + 1
         /\ Taker(w, k) # Len(w) + 1 => TakesArg(Letter(w, Taker(w, k)))
         /\ \A j \in k .. Taker(w, k) - 1 : ~TakesArg(Letter(w, j))
<1> DEFINE T == {j \in k .. Len(w) : TakesArg(Letter(w, j))} \cup {Len(w) + 1}
<1>0. Len(w) \in Nat
  BY LenProperties DEF Word
<1>1. T \subseteq Nat /\ T # {} /\ T \subseteq k .. Len(w) + 1
  BY <1>0
<1>2. PICK t \in T : \A y \in T : t <= y
  BY <1>1, LeastNat
<1>3. Taker(w, k) \in T /\ \A y \in T : Taker(w, k) <= y
  BY <1>2 DEF Taker, Min
<1>4. ASSUME NEW j \in k .. Taker(w, k) - 1 PROVE ~TakesArg(Letter(w, j))
  <2>1. Taker(w, k) \in k .. Len(w) + 1
    BY <1>1, <1>3
  <2>2. j \in k .. Len(w) /\ ~(Taker(w, k) <= j)
    BY <1>0, <2>1
  <2>3. j \notin T
    BY <1>3, <2>2
  <2> QED BY <2>2, <2>3
<1>5. Taker(w, k) \in k .. Len(w) + 1
  BY <1>1, <1>3
<1>6. Taker(w, k) # Len(w) + 1 => TakesArg(Letter(w, Taker(w, k)))
  BY <1>3
<1> QED BY <1>4, <1>5, <1>6

LEMMA LettersAre ==
  ASSUME NEW w \in Word, NEW k \in 1 .. Len(w) + 1, NEW l \in k .. Len(w) + 1
  PROVE  /\ Letters(w, k, l) \in Means /\ Len(Letters(w, k, l)) = l - k
         /\ \A j \in 1 .. l - k : Letters(w, k, l)[j] = Jump(Letter(w, k + j - 1), NOOPT)
<1>0. Len(w) \in Nat /\ l - k \in Nat
  BY LenProperties DEF Word
<1>1. ASSUME NEW j \in 1 .. l - k PROVE Jump(Letter(w, k + j - 1), NOOPT) \in AnyJump
  <2>1. k + j - 1 \in 1 .. Len(w)
    BY <1>0
  <2> QED BY <2>1, LetterFacts, JumpIs
<1> DEFINE f == Letters(w, k, l)
<1>2. f \in [1 .. l - k -> AnyJump] /\ \A j \in 1 .. l - k : f[j] = Jump(Letter(w, k + j - 1), NOOPT)
  BY <1>1 DEF Letters
<1> HIDE DEF f
<1>3. f \in Seq(AnyJump)
  BY <1>0, <1>2
<1>4. Len(f) = l - k
  <2>1. DOMAIN f = 1 .. l - k /\ DOMAIN f = 1 .. Len(f) /\ Len(f) \in Nat
    BY <1>2, <1>3, LenProperties
  <2> QED BY <1>0, <2>1
<1> QED BY <1>2, <1>3, <1>4 DEF f, Means

LEMMA NoLetters ==
  ASSUME NEW w \in Word, NEW k \in 1 .. Len(w) + 1
  PROVE  Letters(w, k, k) = <<>>
<1>1. k \in k .. Len(w) + 1 /\ k - k = 0
  <2>1. Len(w) \in Nat
    BY LenProperties DEF Word
  <2> QED BY <2>1
<1>2. Letters(w, k, k) \in Means /\ Len(Letters(w, k, k)) = 0
  BY <1>1, LettersAre
<1> QED BY <1>2, EmptySeq DEF Means

LEMMA FirstLetter ==
  ASSUME NEW w \in Word, NEW k \in 1 .. Len(w), NEW l \in k + 1 .. Len(w) + 1
  PROVE  Letters(w, k, l) = <<Jump(Letter(w, k), NOOPT)>> \o Letters(w, k + 1, l)
<1> DEFINE f == Letters(w, k, l)
           g == Letters(w, k + 1, l)
           h == <<Jump(Letter(w, k), NOOPT)>>
<1>0. Len(w) \in Nat /\ k \in 1 .. Len(w) + 1 /\ k + 1 \in 1 .. Len(w) + 1 /\ l \in k .. Len(w) + 1
  <2>1. Len(w) \in Nat
    BY LenProperties DEF Word
  <2> QED BY <2>1
<1>1. f \in Means /\ Len(f) = l - k /\ \A j \in 1 .. l - k : f[j] = Jump(Letter(w, k + j - 1), NOOPT)
  BY <1>0, LettersAre
<1>2. /\ g \in Means /\ Len(g) = l - (k + 1)
      /\ \A j \in 1 .. l - (k + 1) : g[j] = Jump(Letter(w, k + 1 + j - 1), NOOPT)
  BY <1>0, LettersAre
<1>3. h \in Means /\ Len(h) = 1 /\ h[1] = Jump(Letter(w, k), NOOPT)
  BY LetterFacts, JumpIs
<1> HIDE DEF f, g, h
<1>4. /\ h \o g \in Means /\ Len(h \o g) = 1 + (l - (k + 1))
      /\ \A j \in 1 .. 1 + (l - (k + 1)) : (h \o g)[j] = IF j <= 1 THEN h[j] ELSE g[j - 1]
  <2>1. h \in Seq(AnyJump) /\ g \in Seq(AnyJump)
    BY <1>2, <1>3 DEF Means
  <2>2. /\ h \o g \in Seq(AnyJump) /\ Len(h \o g) = Len(h) + Len(g)
        /\ \A j \in 1 .. Len(h) + Len(g) : (h \o g)[j] = IF j <= Len(h) THEN h[j] ELSE g[j - Len(h)]
    BY ONLY <2>1, ConcatProperties
  <2> QED BY <1>2, <1>3, <2>2 DEF Means
<1>5. ASSUME NEW j \in 1 .. Len(f) PROVE f[j] = (h \o g)[j]
  <2>1. j \in 1 .. l - k /\ j \in 1 .. 1 + (l - (k + 1))
    BY <1>0, <1>1
  <2>2. CASE j = 1
    <3>1. k + j - 1 = k
      BY <1>0, <2>2
    <3> QED BY <1>1, <1>3, <1>4, <2>1, <2>2, <3>1
  <2>3. CASE j # 1
    <3>1. j - 1 \in 1 .. l - (k + 1) /\ ~(j <= 1) /\ k + 1 + (j - 1) - 1 = k + j - 1
      BY <1>0, <2>1, <2>3
    <3> QED BY <1>1, <1>2, <1>4, <2>1, <3>1
  <2> QED BY <2>2, <2>3
<1>6. Len(f) = Len(h \o g)
  BY <1>0, <1>1, <1>4
<1> QED BY <1>1, <1>4, <1>5, <1>6, SeqEqual DEF Means, f, g, h

(* What is read behind the letters, and what of one letter and the rest. *)
LetterArg(words, i, l) ==
  LET w == words[i] IN
  IF l > Len(w) THEN Read(<<>>, i + 1)
  ELSE IF l < Len(w) THEN Read(<<Jump(Letter(w, l), SubSeq(w, l + 1, Len(w)))>>, i + 1)
  ELSE ReadArg(words, i, Letter(w, l))

LEMMA LetterArgIs ==
  ASSUME NEW words \in Seq(Word), NEW i \in 1 .. Len(words), NEW l \in 1 .. Len(words[i]) + 1
  PROVE  ReadTo(LetterArg(words, i, l), i + 1, Len(words) + 1)
<1> DEFINE w == words[i]
           n == Len(words)
<1>1. w \in Word /\ n \in Nat /\ Len(w) \in Nat /\ i + 1 \in i + 1 .. n + 1
  BY WordsAre
<1>2. CASE l > Len(w)
  <2>1. <<>> \in Means
    BY EmptySeq DEF Means
  <2> QED BY <1>1, <1>2, <2>1, ReadIs DEF LetterArg
<1>3. CASE l < Len(w)
  <2>1. l \in 1 .. Len(w) /\ ~(l > Len(w))
    BY <1>1, <1>3
  <2>2. SubSeq(w, l + 1, Len(w)) \in Word
    <3>1. \A x \in l + 1 .. Len(w) : w[x] \in Chars
      <4>1. \A x \in 1 .. Len(w) : w[x] \in Chars
        BY <1>1, ElementOfSeq DEF Word
      <4> QED BY <1>1, <4>1
    <3> QED BY <1>1, <3>1, SubSeqProperties DEF Word
  <2>3. <<Jump(Letter(w, l), SubSeq(w, l + 1, Len(w)))>> \in Means
    BY <1>1, <2>1, <2>2, LetterFacts, JumpIs
  <2> QED BY <1>1, <1>3, <2>1, <2>3, ReadIs DEF LetterArg
<1>4. CASE l = Len(w)
  <2>1. l \in 1 .. Len(w) /\ ~(l > Len(w)) /\ ~(l < Len(w))
    BY <1>1, <1>4
  <2>2. Letter(w, l) \in Nat
    BY <1>1, <2>1, LetterFacts
  <2> QED BY <1>1, <2>1, <2>2, ReadArgIs DEF LetterArg
<1> QED BY <1>1, <1>2, <1>3, <1>4

LEMMA ReadLettersIs ==
  ASSUME NEW words \in Seq(Word), NEW i \in 1 .. Len(words), NEW k \in 1 .. Len(words[i]) + 1
  PROVE  ReadTo(ReadLetters(words, i, k), i + 1, Len(words) + 1)
<1> DEFINE w == words[i]
           l == Taker(w, k)
           a == LetterArg(words, i, l)
<1>1. w \in Word /\ Len(words) \in Nat /\ Len(w) \in Nat
  BY WordsAre
<1>2. l \in k .. Len(w) + 1 /\ l \in 1 .. Len(w) + 1
  <2>1. l \in k .. Len(w) + 1
    BY <1>1, TakerIs
  <2> QED BY <1>1, <2>1
<1>3. ReadTo(a, i + 1, Len(words) + 1) /\ Letters(w, k, l) \in Means
  BY <1>1, <1>2, LetterArgIs, LettersAre
<1>4. ReadLetters(words, i, k) = Read(Letters(w, k, l) \o a.jumps, a.next)
  BY DEF ReadLetters, LetterArg
<1> HIDE DEF a, l
<1>5. a.jumps \in Means /\ a.next \in i + 1 .. Len(words) + 1
  BY <1>3 DEF ReadTo
<1>6. Letters(w, k, l) \o a.jumps \in Means
  BY <1>3, <1>5, ConcatProperties DEF Means
<1> QED BY <1>1, <1>4, <1>5, <1>6, ReadIs

LEMMA ReadLettersStep ==
  ASSUME NEW words \in Seq(Word), NEW i \in 1 .. Len(words), NEW k \in 1 .. Len(words[i]) + 1
  PROVE  LET w == words[i] IN
         /\ k = Len(w) + 1 => ReadLetters(words, i, k) = Read(<<>>, i + 1)
         /\ k # Len(w) + 1 /\ TakesArg(Letter(w, k)) => ReadLetters(words, i, k) = LetterArg(words, i, k)
         /\ k # Len(w) + 1 /\ ~TakesArg(Letter(w, k)) =>
              ReadLetters(words, i, k) = Read(<<Jump(Letter(w, k), NOOPT)>> \o ReadLetters(words, i, k + 1).jumps,
                                              ReadLetters(words, i, k + 1).next)
<1> DEFINE w == words[i]
           l == Taker(w, k)
<1>1. w \in Word /\ Len(words) \in Nat /\ Len(w) \in Nat
  BY WordsAre
<1>2. /\ l \in k .. Len(w) + 1 /\ (l # Len(w) + 1 => TakesArg(Letter(w, l)))
      /\ \A j \in k .. l - 1 : ~TakesArg(Letter(w, j))
  BY <1>1, TakerIs
<1>3. \A x \in 1 .. Len(w) + 1 :
        ReadLetters(words, i, x) = Read(Letters(w, x, Taker(w, x)) \o LetterArg(words, i, Taker(w, x)).jumps,
                                        LetterArg(words, i, Taker(w, x)).next)
  BY DEF ReadLetters, LetterArg
<1>4. ASSUME l = k PROVE ReadLetters(words, i, k) = LetterArg(words, i, k)
  <2>1. Letters(w, k, k) = <<>>
    BY <1>1, NoLetters
  <2> DEFINE a == LetterArg(words, i, k)
  <2>2. ReadTo(a, i + 1, Len(words) + 1)
    BY <1>1, LetterArgIs
  <2>3. ReadLetters(words, i, k) = Read(<<>> \o a.jumps, a.next)
    BY <1>3, <1>4, <2>1
  <2> HIDE DEF a
  <2>4. a = Read(a.jumps, a.next) /\ <<>> \o a.jumps = a.jumps
    BY <2>2, ConcatEmptySeq DEF ReadTo, Means
  <2> QED BY <2>3, <2>4 DEF a
<1>5. ASSUME k = Len(w) + 1 PROVE ReadLetters(words, i, k) = Read(<<>>, i + 1)
  <2>1. l = k /\ k > Len(w)
    BY <1>1, <1>2, <1>5
  <2> QED BY <1>4, <2>1 DEF LetterArg
<1>6. ASSUME k # Len(w) + 1, TakesArg(Letter(w, k)) PROVE ReadLetters(words, i, k) = LetterArg(words, i, k)
  <2>1. ~(k \in k .. l - 1)
    BY <1>2, <1>6
  <2>2. l = k
    BY <1>1, <1>2, <2>1
  <2> QED BY <1>4, <2>2
<1>7. ASSUME k # Len(w) + 1, ~TakesArg(Letter(w, k))
      PROVE  ReadLetters(words, i, k) = Read(<<Jump(Letter(w, k), NOOPT)>> \o ReadLetters(words, i, k + 1).jumps,
                                              ReadLetters(words, i, k + 1).next)
  <2> DEFINE m == Taker(w, k + 1)
             a == LetterArg(words, i, m)
  <2>1. k \in 1 .. Len(w) /\ k + 1 \in 1 .. Len(w) + 1
    BY <1>1, <1>7
  <2>2. /\ m \in k + 1 .. Len(w) + 1 /\ (m # Len(w) + 1 => TakesArg(Letter(w, m)))
        /\ \A j \in k + 1 .. m - 1 : ~TakesArg(Letter(w, j))
    BY <1>1, <2>1, TakerIs
  <2>3. l # k
    BY <1>2, <1>7
  <2>4. l = m
    <3>1. l \in Nat /\ m \in Nat /\ l > k
      BY <1>1, <1>2, <2>2, <2>3
    <3>2. ASSUME l < m PROVE FALSE
      <4>1. l \in k + 1 .. m - 1 /\ l # Len(w) + 1
        BY <1>1, <2>2, <3>1, <3>2
      <4> QED BY <1>2, <2>2, <4>1
    <3>3. ASSUME m < l PROVE FALSE
      <4>1. m \in k .. l - 1 /\ m # Len(w) + 1
        BY <1>1, <1>2, <2>2, <3>1, <3>3
      <4> QED BY <1>2, <2>2, <4>1
    <3> QED BY <3>1, <3>2, <3>3
  <2>5. ReadLetters(words, i, k) = Read(Letters(w, k, m) \o a.jumps, a.next)
    BY <1>3, <2>4
  <2>6. ReadLetters(words, i, k + 1) = Read(Letters(w, k + 1, m) \o a.jumps, a.next)
    BY <1>3, <2>1
  <2>7. Letters(w, k, m) = <<Jump(Letter(w, k), NOOPT)>> \o Letters(w, k + 1, m)
    BY <1>1, <2>1, <2>2, FirstLetter
  <2>8. ReadTo(a, i + 1, Len(words) + 1) /\ m \in k + 1 .. Len(w) + 1
    <3>1. m \in 1 .. Len(w) + 1
      BY <1>1, <2>1, <2>2
    <3> QED BY <2>2, <3>1, LetterArgIs
  <2>9. Letters(w, k + 1, m) \in Means /\ <<Jump(Letter(w, k), NOOPT)>> \in Means
    BY <1>1, <2>1, <2>8, LettersAre, LetterFacts, JumpIs
  <2> DEFINE x == <<Jump(Letter(w, k), NOOPT)>>
             y == Letters(w, k + 1, m)
             b == ReadLetters(words, i, k + 1)
             z == y \o a.jumps
             e == a.next
  <2>10. a.jumps \in Means
    BY <2>8 DEF ReadTo
  <2>11. x \in Means /\ y \in Means
    BY <2>9
  <2>12. ReadLetters(words, i, k) = Read((x \o y) \o a.jumps, a.next)
    BY <2>5, <2>7
  <2>13. b = Read(z, e)
    BY <2>6
  <2> HIDE DEF a, m, l, x, y, b, z, e
  <2>14. (x \o y) \o a.jumps = x \o (y \o a.jumps)
    <3> DEFINE q == a.jumps
    <3>1. q \in Means
      BY <2>10
    <3> HIDE DEF q
    <3>2. (x \o y) \o q = x \o (y \o q)
      BY ONLY <2>11, <3>1, CatAssociates
    <3> QED BY <3>2 DEF q
  <2>15. b.jumps = z /\ b.next = e
    BY ONLY <2>13, ReadFields
  <2>16. x \o (y \o a.jumps) = x \o b.jumps /\ a.next = b.next
    BY <2>15 DEF z, e
  <2> QED BY <2>12, <2>14, <2>16 DEF x, b
<1> QED BY <1>5, <1>6, <1>7

LEMMA SuffixIs ==
  ASSUME NEW w \in Word, NEW m \in 1 .. Len(w) + 1
  PROVE  SubSeq(w, m, Len(w)) \in Word
<1>1. Len(w) \in Nat /\ \A x \in 1 .. Len(w) : w[x] \in Chars
  BY LenProperties, ElementOfSeq DEF Word
<1>2. \A x \in m .. Len(w) : w[x] \in Chars
  BY <1>1
<1> QED BY <1>1, <1>2, SubSeqProperties DEF Word

LEMMA LongIs ==
  ASSUME NEW w \in Word, NEW l \in Labels, l = LineOf(w), Len(Switch[l].os) < Len(w)
  PROVE  /\ Len(Switch[l].os) + 2 \in 1 .. Len(w) + 1
         /\ SubSeq(w, Len(Switch[l].os) + 2, Len(w)) \in Word
<1>1. Len(Switch[l].os) \in Nat /\ Len(w) \in Nat
  BY LabelFacts, LenProperties DEF Word
<1>2. Len(Switch[l].os) + 2 \in 1 .. Len(w) + 1
  BY <1>1
<1> QED BY <1>2, SuffixIs

LEMMA ReadLongIs ==
  ASSUME NEW words \in Seq(Word), NEW i \in 1 .. Len(words)
  PROVE  ReadTo(ReadLong(words, i), i + 1, Len(words) + 1)
<1> DEFINE w == words[i]
           line == LineOf(w)
           named == Len(Switch[line].os)
           n == Len(words)
<1>1. w \in Word /\ n \in Nat /\ i + 1 \in i + 1 .. n + 1 /\ Len(w) \in Nat
  BY WordsAre
<1>2. line \in Nat /\ (line # Default => line \in Labels) /\ Default \in Nat
  BY <1>1, LinesAreNat, LineOfIs
<1>3. CASE line = Default \/ (~TakesArg(line) /\ named < Len(w))
  <2>1. <<Jump(Default, NOOPT)>> \in Means
    BY <1>2, JumpIs
  <2> QED BY <1>1, <1>3, <2>1, ReadIs DEF ReadLong
<1>4. CASE line # Default /\ ~TakesArg(line) /\ ~(named < Len(w))
  <2>1. <<Jump(line, NOOPT)>> \in Means
    BY <1>2, JumpIs
  <2> QED BY <1>1, <1>4, <2>1, ReadIs DEF ReadLong
<1>5. CASE line # Default /\ TakesArg(line) /\ named < Len(w)
  <2>1. SubSeq(w, named + 2, Len(w)) \in Word
    BY <1>1, <1>2, <1>5, LongIs
  <2>2. <<Jump(line, SubSeq(w, named + 2, Len(w)))>> \in Means
    BY <1>2, <2>1, JumpIs
  <2> QED BY <1>1, <1>5, <2>2, ReadIs DEF ReadLong
<1>6. CASE line # Default /\ TakesArg(line) /\ ~(named < Len(w))
  <2>1. ReadTo(ReadArg(words, i, line), i + 1, n + 1)
    BY <1>2, ReadArgIs
  <2> QED BY <1>6, <2>1 DEF ReadLong
<1> QED BY <1>3, <1>4, <1>5, <1>6

LEMMA ReadWordIs ==
  ASSUME NEW words \in Seq(Word), NEW i \in 1 .. Len(words), IsOption(words[i])
  PROVE  ReadTo(ReadWord(words, i), i + 1, Len(words) + 1)
<1>1. words[i] \in Word /\ Len(words[i]) \in Nat /\ Len(words[i]) >= 2
  BY WordsAre DEF IsOption
<1>2. 2 \in 1 .. Len(words[i]) + 1
  BY <1>1
<1> QED BY <1>2, ReadLongIs, ReadLettersIs DEF ReadWord

(* The meanings are defined. *)
NoOption(words, i) == i > Len(words) \/ ~IsOption(words[i])
OfWord(f, words, i) ==
  IF i > Len(words) \/ ~IsOption(words[i])
  THEN Read(<<>>, IF i <= Len(words) /\ words[i] = Dashes THEN i + 1 ELSE i)
  ELSE LET option == ReadWord(words, i)
       IN  Read(option.jumps \o f[option.next].jumps, f[option.next].next)
IsMeanings(f, words) == f = [i \in 1 .. Len(words) + 1 |-> OfWord(f, words, i)]
MeansFrom(f, words, k) ==
  \A i \in k .. Len(words) + 1 : f[i] = OfWord(f, words, i) /\ ReadTo(f[i], i, Len(words) + 1)

LEMMA OfWordIs ==
  ASSUME NEW words \in Seq(Word), NEW i \in 1 .. Len(words) + 1, NEW f,
         \A j \in i + 1 .. Len(words) + 1 : ReadTo(f[j], j, Len(words) + 1),
         NEW g, \A j \in i + 1 .. Len(words) + 1 : g[j] = f[j]
  PROVE  ReadTo(OfWord(f, words, i), i, Len(words) + 1) /\ OfWord(g, words, i) = OfWord(f, words, i)
<1> DEFINE n == Len(words)
<1>1. n \in Nat
  BY WordsAre
<1>2. CASE NoOption(words, i)
  <2> DEFINE e == IF i <= Len(words) /\ words[i] = Dashes THEN i + 1 ELSE i
  <2>1. e \in i .. n + 1
    BY <1>1
  <2>2. OfWord(f, words, i) = Read(<<>>, e) /\ OfWord(g, words, i) = Read(<<>>, e)
    BY <1>2 DEF OfWord, NoOption
  <2>3. <<>> \in Means
    BY EmptySeq DEF Means
  <2> HIDE DEF e
  <2> QED BY <1>1, <2>1, <2>2, <2>3, ReadIs
<1>3. CASE ~NoOption(words, i)
  <2> DEFINE o == ReadWord(words, i)
             m == o.next
  <2>1. i \in 1 .. n /\ IsOption(words[i])
    BY <1>1, <1>3 DEF NoOption
  <2>2. ReadTo(o, i + 1, n + 1)
    BY <2>1, ReadWordIs
  <2>3. /\ OfWord(f, words, i) = Read(o.jumps \o f[m].jumps, f[m].next)
        /\ OfWord(g, words, i) = Read(o.jumps \o g[m].jumps, g[m].next)
    BY <1>3 DEF OfWord, NoOption
  <2> HIDE DEF o
  <2>4. o.jumps \in Means /\ m \in i + 1 .. n + 1
    BY <2>2 DEF ReadTo
  <2> HIDE DEF m
  <2>5. ReadTo(f[m], m, n + 1) /\ g[m] = f[m]
    BY <2>4
  <2>6. f[m].jumps \in Means /\ f[m].next \in i .. n + 1
    BY <1>1, <2>4, <2>5 DEF ReadTo
  <2>7. o.jumps \o f[m].jumps \in Means
    BY <2>4, <2>6, CatIs
  <2> QED BY <1>1, <2>3, <2>5, <2>6, <2>7, ReadIs
<1> QED BY <1>2, <1>3

LEMMA MeaningsExist ==
  ASSUME NEW words \in Seq(Word), NEW d \in 0 .. Len(words)
  PROVE  \E f : MeansFrom(f, words, Len(words) + 1 - d)
<1> DEFINE n == Len(words)
           T == {k \in 0 .. n : ~ \E f : MeansFrom(f, words, n + 1 - k)}
<1>1. n \in Nat /\ \A y \in 1 .. n : words[y] \in Word
  BY WordsAre
<1> SUFFICES ASSUME T # {} PROVE FALSE
  OBVIOUS
<1>2. PICK t \in T : \A y \in T : t <= y
  <2>1. T \subseteq Nat
    OBVIOUS
  <2> QED BY <2>1, LeastNat
<1> DEFINE k == n + 1 - t
<1>3. t \in 0 .. n /\ k \in 1 .. n + 1 /\ ~ \E f : MeansFrom(f, words, k)
  BY <1>1, <1>2
<1>4. PICK g : \A i \in k + 1 .. n + 1 : g[i] = OfWord(g, words, i) /\ ReadTo(g[i], i, n + 1)
  <2>1. CASE t = 0
    <3>1. k + 1 .. n + 1 = {}
      BY <1>1, <2>1
    <3> QED BY <3>1
  <2>2. CASE t # 0
    <3>1. t - 1 \in 0 .. n /\ ~(t <= t - 1) /\ n + 1 - (t - 1) = k + 1
      BY <1>1, <1>3, <2>2
    <3>2. \E f : MeansFrom(f, words, k + 1)
      BY <1>2, <3>1
    <3> QED BY <3>2 DEF MeansFrom
  <2> QED BY <2>1, <2>2
<1> HIDE DEF k
<1> DEFINE f == [i \in 1 .. n + 1 |-> IF i = k THEN OfWord(g, words, k) ELSE g[i]]
<1>5. f[k] = OfWord(g, words, k) /\ \A i \in k + 1 .. n + 1 : f[i] = g[i]
  BY <1>1, <1>3
<1> HIDE DEF f
<1>6. ReadTo(f[k], k, n + 1) /\ f[k] = OfWord(f, words, k)
  BY <1>3, <1>4, <1>5, OfWordIs
<1>7. ASSUME NEW i \in k + 1 .. n + 1 PROVE f[i] = OfWord(f, words, i) /\ ReadTo(f[i], i, n + 1)
  <2>1. i \in 1 .. n + 1 /\ \A j \in i + 1 .. n + 1 : j \in k + 1 .. n + 1
    BY <1>1, <1>3
  <2>2. OfWord(f, words, i) = OfWord(g, words, i)
    BY <1>4, <1>5, <2>1, OfWordIs
  <2> QED BY <1>4, <1>5, <2>2
<1>8. \A i \in k .. n + 1 : i = k \/ i \in k + 1 .. n + 1
  BY <1>1, <1>3
<1>9. MeansFrom(f, words, k)
  BY <1>6, <1>7, <1>8 DEF MeansFrom
<1> QED BY <1>3, <1>9

LEMMA MeaningsAre ==
  ASSUME NEW words \in Seq(Word), NEW i \in 1 .. Len(words) + 1
  PROVE  /\ Meanings(words)[i] = OfWord(Meanings(words), words, i)
         /\ ReadTo(Meanings(words)[i], i, Len(words) + 1)
<1> DEFINE n == Len(words)
           f == CHOOSE g : IsMeanings(g, words)
<1>1. n \in Nat /\ n \in 0 .. n /\ n + 1 - n = 1
  BY WordsAre
<1>2. PICK g : MeansFrom(g, words, 1)
  BY <1>1, MeaningsExist
<1> DEFINE h == [x \in 1 .. n + 1 |-> g[x]]
<1>3. \A x \in 1 .. n + 1 : h[x] = g[x] /\ g[x] = OfWord(g, words, x) /\ ReadTo(g[x], x, n + 1)
  BY <1>2 DEF MeansFrom
<1>4. ASSUME NEW x \in 1 .. n + 1 PROVE h[x] = OfWord(h, words, x)
  <2>1. \A j \in x + 1 .. n + 1 : h[j] = g[j] /\ ReadTo(g[j], j, n + 1)
    BY <1>1, <1>3
  <2> HIDE DEF h
  <2>2. OfWord(h, words, x) = OfWord(g, words, x)
    BY <2>1, OfWordIs
  <2> QED BY <1>3, <2>2
<1>5. h = [x \in 1 .. n + 1 |-> h[x]]
  OBVIOUS
<1> HIDE DEF h
<1>6. IsMeanings(h, words)
  BY <1>4, <1>5 DEF IsMeanings
<1>7. IsMeanings(f, words)
  BY <1>6
<1>8. Meanings(words) = f
  BY DEF Meanings, IsMeanings, OfWord
<1> HIDE DEF f
<1>9. \A x \in 1 .. n + 1 : f[x] = OfWord(f, words, x)
  BY <1>7 DEF IsMeanings
<1>10. ReadTo(f[i], i, n + 1)
  <2> DEFINE T == {d \in 0 .. n : ~ReadTo(f[n + 1 - d], n + 1 - d, n + 1)}
  <2>1. ASSUME T # {} PROVE FALSE
    <3>1. PICK t \in T : \A y \in T : t <= y
      <4>1. T \subseteq Nat
        OBVIOUS
      <4> QED BY <2>1, <4>1, LeastNat
    <3> DEFINE k == n + 1 - t
    <3>2. t \in 0 .. n /\ k \in 1 .. n + 1 /\ ~ReadTo(f[k], k, n + 1)
      BY <1>1, <3>1
    <3>3. ASSUME NEW j \in k + 1 .. n + 1 PROVE ReadTo(f[j], j, n + 1)
      <4>1. n + 1 - j \in 0 .. n /\ ~(t <= n + 1 - j) /\ n + 1 - (n + 1 - j) = j
        BY <1>1, <3>2
      <4>2. n + 1 - j \notin T
        BY <3>1, <4>1
      <4> QED BY <4>1, <4>2
    <3> HIDE DEF k
    <3>4. ReadTo(OfWord(f, words, k), k, n + 1)
      BY <3>2, <3>3, OfWordIs
    <3> QED BY <1>9, <3>2, <3>4
  <2>2. n + 1 - i \in 0 .. n /\ n + 1 - (n + 1 - i) = i
    BY <1>1
  <2> QED BY <2>1, <2>2
<1> QED BY <1>8, <1>9, <1>10

(* What is still to come, from word i, or from the letter k of it, on.      *)
Ahead(words, i, k) ==
  IF k = 0 THEN Meanings(words)[i]
  ELSE LET o == ReadLetters(words, i, k)
       IN  Read(o.jumps \o Meanings(words)[o.next].jumps, Meanings(words)[o.next].next)
PlaceOK(words, i, k) ==
  /\ i \in 1 .. Len(words) + 1
  /\ k # 0 => i \in 1 .. Len(words) /\ k \in 2 .. Len(words[i])

(* One option leads on to the word i2, the letter k2. *)
Leads(words, i, k, j, i2, k2) ==
  Ahead(words, i, k) = Read(<<j>> \o Ahead(words, i2, k2).jumps, Ahead(words, i2, k2).next)

LEMMA LettersAhead ==
  ASSUME NEW words \in Seq(Word), NEW i \in 1 .. Len(words), NEW k \in 2 .. Len(words[i])
  PROVE  /\ ReadTo(ReadLetters(words, i, k), i + 1, Len(words) + 1)
         /\ k \in 1 .. Len(words[i]) + 1 /\ k # 0 /\ k \in 1 .. Len(words[i])
         /\ k # Len(words[i]) + 1 /\ words[i] \in Word /\ Len(words[i]) \in Nat
         /\ i \in 1 .. Len(words) + 1 /\ i + 1 \in 1 .. Len(words) + 1
<1>1. words[i] \in Word /\ Len(words[i]) \in Nat /\ Len(words) \in Nat
  BY WordsAre
<1>2. k \in 1 .. Len(words[i]) + 1 /\ k # 0 /\ k # Len(words[i]) + 1 /\ k \in 1 .. Len(words[i])
  BY <1>1
<1>3. i \in 1 .. Len(words) + 1 /\ i + 1 \in 1 .. Len(words) + 1
  BY <1>1
<1> QED BY <1>1, <1>2, <1>3, ReadLettersIs

LEMMA AheadIs ==
  ASSUME NEW words \in Seq(Word), NEW i, NEW k, PlaceOK(words, i, k)
  PROVE  ReadTo(Ahead(words, i, k), i, Len(words) + 1)
<1>0. Len(words) \in Nat
  BY WordsAre
<1>1. CASE k = 0
  BY <1>1, MeaningsAre DEF Ahead, PlaceOK
<1>2. CASE k # 0
  <2> DEFINE o == ReadLetters(words, i, k)
             e == o.next
             m == Meanings(words)[e]
  <2>1. i \in 1 .. Len(words) /\ k \in 2 .. Len(words[i])
    BY <1>2 DEF PlaceOK
  <2>2. ReadTo(o, i + 1, Len(words) + 1)
    BY <2>1, LettersAhead
  <2>3. Ahead(words, i, k) = Read(o.jumps \o m.jumps, m.next)
    BY <1>2 DEF Ahead
  <2> HIDE DEF o
  <2>4. o.jumps \in Means /\ e \in i + 1 .. Len(words) + 1
    BY <2>2 DEF ReadTo
  <2>5. e \in 1 .. Len(words) + 1
    BY <1>0, <2>1, <2>4
  <2> HIDE DEF e
  <2>6. ReadTo(m, e, Len(words) + 1)
    BY <2>5, MeaningsAre
  <2> HIDE DEF m
  <2>7. m.jumps \in Means /\ m.next \in i .. Len(words) + 1
    BY <1>0, <2>1, <2>4, <2>6 DEF ReadTo
  <2>8. o.jumps \o m.jumps \in Means
    BY <2>4, <2>7, CatIs
  <2> QED BY <1>0, <2>1, <2>3, <2>7, <2>8, ReadIs
<1> QED BY <1>1, <1>2

(* The options there are: none, a letter without or with an argument, and a *)
(* long option.                                                             *)
LEMMA AheadNone ==
  ASSUME NEW words \in Seq(Word), NEW i \in 1 .. Len(words) + 1, NoOption(words, i)
  PROVE  Ahead(words, i, 0) = Read(<<>>, IF i <= Len(words) /\ words[i] = Dashes THEN i + 1 ELSE i)
BY MeaningsAre DEF Ahead, OfWord, NoOption

LEMMA AheadPacked ==
  ASSUME NEW words \in Seq(Word), NEW i \in 1 .. Len(words), Len(words[i]) >= 2,
         words[i][1] = "-", words[i][2] # "-"
  PROVE  Ahead(words, i, 0) = Ahead(words, i, 2) /\ 2 \in 2 .. Len(words[i])
<1>1. words[i] \in Word /\ Len(words[i]) \in Nat /\ Len(words) \in Nat
  BY WordsAre
<1>2. 2 \in 2 .. Len(words[i]) /\ i \in 1 .. Len(words) + 1 /\ ~(i > Len(words))
  BY <1>1
<1>3. words[i] # Dashes
  BY DEF Dashes
<1>4. ~NoOption(words, i) /\ ReadWord(words, i) = ReadLetters(words, i, 2)
  BY <1>2, <1>3 DEF NoOption, IsOption, ReadWord
<1> QED BY <1>2, <1>4, MeaningsAre DEF Ahead, OfWord, NoOption

LEMMA LeadsBy ==
  ASSUME NEW words \in Seq(Word), NEW i, NEW k, NEW o, NEW j, NEW e,
         o = Read(<<j>>, e),
         Ahead(words, i, k) = Read(o.jumps \o Meanings(words)[o.next].jumps, Meanings(words)[o.next].next)
  PROVE  Leads(words, i, k, j, e, 0)
<1>1. o.jumps = <<j>> /\ o.next = e
  BY ReadFields
<1>2. Ahead(words, e, 0) = Meanings(words)[e]
  BY DEF Ahead
<1> QED BY <1>1, <1>2 DEF Leads

LEMMA AheadLong ==
  ASSUME NEW words \in Seq(Word), NEW i \in 1 .. Len(words), IsOption(words[i]), words[i][2] = "-",
         NEW j, NEW e, ReadLong(words, i) = Read(<<j>>, e)
  PROVE  Leads(words, i, 0, j, e, 0)
<1>1. Len(words) \in Nat
  BY WordsAre
<1>2. i \in 1 .. Len(words) + 1 /\ ~(i > Len(words))
  BY <1>1
<1>3. ReadWord(words, i) = ReadLong(words, i)
  BY DEF ReadWord
<1> DEFINE o == ReadLong(words, i)
<1>4. Ahead(words, i, 0) = Read(o.jumps \o Meanings(words)[o.next].jumps, Meanings(words)[o.next].next)
  BY <1>2, <1>3, MeaningsAre DEF Ahead, OfWord
<1> HIDE DEF o
<1>5. o = Read(<<j>>, e)
  BY DEF o
<1> QED BY ONLY <1>4, <1>5, LeadsBy, words \in Seq(Word)

LEMMA AheadLetterArg ==
  ASSUME NEW words \in Seq(Word), NEW i \in 1 .. Len(words), NEW k \in 2 .. Len(words[i]),
         TakesArg(Letter(words[i], k)),
         NEW j, NEW e, LetterArg(words, i, k) = Read(<<j>>, e)
  PROVE  Leads(words, i, k, j, e, 0)
<1> DEFINE o == ReadLetters(words, i, k)
<1>1. k \in 1 .. Len(words[i]) + 1 /\ k # 0 /\ k # Len(words[i]) + 1
  BY LettersAhead
<1>2. o = Read(<<j>>, e)
  BY <1>1, ReadLettersStep
<1>3. Ahead(words, i, k) = Read(o.jumps \o Meanings(words)[o.next].jumps, Meanings(words)[o.next].next)
  BY <1>1 DEF Ahead
<1> HIDE DEF o
<1> QED BY ONLY <1>2, <1>3, LeadsBy, words \in Seq(Word)

LEMMA AheadLetter ==
  ASSUME NEW words \in Seq(Word), NEW i \in 1 .. Len(words), NEW k \in 2 .. Len(words[i]),
         ~TakesArg(Letter(words[i], k))
  PROVE  LET j == Jump(Letter(words[i], k), NOOPT) IN
         IF k = Len(words[i]) THEN Leads(words, i, k, j, i + 1, 0) ELSE Leads(words, i, k, j, i, k + 1)
<1> DEFINE w == words[i]
           j == Jump(Letter(w, k), NOOPT)
           o == ReadLetters(words, i, k)
           q == ReadLetters(words, i, k + 1)
<1>1. /\ k \in 1 .. Len(w) + 1 /\ k # 0 /\ k # Len(w) + 1 /\ w \in Word /\ Len(w) \in Nat
      /\ k \in 1 .. Len(w)
  BY LettersAhead
<1>2. o = Read(<<j>> \o q.jumps, q.next)
  BY <1>1, ReadLettersStep
<1>3. Ahead(words, i, k) = Read(o.jumps \o Meanings(words)[o.next].jumps, Meanings(words)[o.next].next)
  BY <1>1 DEF Ahead
<1>4. CASE k = Len(w)
  <2>1. k + 1 \in 1 .. Len(w) + 1 /\ k + 1 = Len(w) + 1
    BY <1>1, <1>4
  <2>2. q = Read(<<>>, i + 1)
    BY <2>1, ReadLettersStep
  <2>3. <<j>> \in Means
    BY <1>1, LetterFacts, JumpIs
  <2> HIDE DEF o, q, j
  <2>4. q.jumps = <<>> /\ q.next = i + 1
    BY <2>2, ReadFields
  <2>5. <<j>> \o <<>> = <<j>>
    BY <2>3, ConcatEmptySeq DEF Means
  <2>6. o = Read(<<j>>, i + 1)
    BY <1>2, <2>4, <2>5
  <2>7. Leads(words, i, k, j, i + 1, 0)
    BY ONLY <1>3, <2>6, LeadsBy, words \in Seq(Word)
  <2> QED BY <1>4, <2>7 DEF j
<1>5. CASE k # Len(w)
  <2>1. k + 1 \in 2 .. Len(w) /\ k + 1 # 0
    BY <1>1, <1>5
  <2> DEFINE e == q.next
             m == Meanings(words)[e]
             x == <<j>>
             z == x \o q.jumps
             a == Ahead(words, i, k + 1)
  <2>2. ReadTo(q, i + 1, Len(words) + 1)
    BY <2>1, LettersAhead
  <2>3. x \in Means
    BY <1>1, LetterFacts, JumpIs
  <2>4. a = Read(q.jumps \o m.jumps, m.next)
    BY <2>1 DEF Ahead
  <2>5. o = Read(z, e)
    BY <1>2
  <2> HIDE DEF o, q, j, x
  <2>6. q.jumps \in Means /\ e \in i + 1 .. Len(words) + 1 /\ Len(words) \in Nat
    BY <2>2, WordsAre DEF ReadTo
  <2>7. e \in 1 .. Len(words) + 1
    BY <2>6
  <2> HIDE DEF e, z
  <2>8. o.jumps = z /\ o.next = e
    BY ONLY <2>5, ReadFields
  <2>9. Ahead(words, i, k) = Read(z \o m.jumps, m.next)
    BY <1>3, <2>8
  <2>10. m.jumps \in Means
    BY <2>7, MeaningsAre DEF ReadTo
  <2> HIDE DEF m
  <2>11. z \o m.jumps = x \o (q.jumps \o m.jumps)
    BY <2>3, <2>6, <2>10, CatAssociates DEF z
  <2> DEFINE y == q.jumps \o m.jumps
             n == m.next
  <2>12. a.jumps = y /\ a.next = n
    <3>1. a = Read(y, n)
      BY <2>4
    <3> HIDE DEF a, y, n
    <3> QED BY ONLY <3>1, ReadFields
  <2> HIDE DEF a
  <2>13. Leads(words, i, k, j, i, k + 1)
    BY <2>9, <2>11, <2>12 DEF Leads, a, x
  <2> QED BY <1>5, <2>13 DEF j
<1> QED BY <1>4, <1>5

(* One turn of getopt.  What it takes off the command line ... *)
LEMMA TurnEnds ==
  ASSUME getopt, Taken.os = <<>>
  PROVE  /\ ch' = "done" /\ optind' = Taken.ind
         /\ UNCHANGED <<optreset, getopt_initialized, opts, opt_missing, ln, argv, jumps>>
BY DEF getopt

LEMMA TurnIs ==
  ASSUME getopt, opts = Registered, NEW t, t = Taken, t.os \in Word, t.os # <<>>,
         NEW line, line = LineOf(t.os)
  PROVE  /\ ch' = "switch"
         /\ UNCHANGED <<optreset, getopt_initialized, opts, opt_missing, ln, argv, jumps>>
         /\ line = Default =>
              /\ opt_found' = Default /\ optarg' = NOOPT
              /\ optind' = t.ind /\ packedopts' = t.packed
         /\ line # Default => os' = Switch[line].os
         /\ line # Default /\ ~Switch[line].hasarg =>
              /\ opt_found' = (IF Len(t.os) > Len(Switch[line].os) THEN Default ELSE line)
              /\ optarg' = NOOPT /\ optind' = t.ind /\ packedopts' = t.packed
         /\ line # Default /\ Switch[line].hasarg =>
              /\ packedopts' = 0
              /\ \/ /\ t.packed # 0 \/ Len(t.os) > Len(Switch[line].os)
                    /\ optarg' = (IF t.packed # 0 THEN SubSeq(argv[optind], t.packed, Len(argv[optind]))
                                  ELSE SubSeq(t.os, Len(Switch[line].os) + 2, Len(t.os)))
                    /\ optind' = (IF t.packed # 0 THEN t.ind + 1 ELSE t.ind) /\ opt_found' = line
                 \/ /\ t.packed = 0 /\ ~(Len(t.os) > Len(Switch[line].os)) /\ t.ind <= Len(argv)
                    /\ optarg' = argv[t.ind] /\ optind' = t.ind + 1 /\ opt_found' = line
                 \/ /\ t.packed = 0 /\ ~(Len(t.os) > Len(Switch[line].os)) /\ t.ind > Len(argv)
                    /\ optarg' = NOOPT /\ optind' = t.ind /\ opt_found' = opt_missing
<1>1. searchopt(t.os) = line
  BY SearchFinds
<1>2. line # Default => opts[line] = Switch[line]
  <2>1. line # Default => line \in Labels
    BY LineOfIs
  <2> QED BY <2>1, RegisteredIs, LabelFacts
<1>3. /\ ch' = "switch"
      /\ UNCHANGED <<optreset, getopt_initialized, opts, opt_missing, ln, argv, jumps>>
  BY DEF getopt
<1>4. ASSUME line = Default
      PROVE  opt_found' = Default /\ optarg' = NOOPT /\ optind' = t.ind /\ packedopts' = t.packed
  BY <1>1, <1>4 DEF getopt
<1>5. ASSUME line # Default
      PROVE  os' = Switch[line].os
  BY <1>1, <1>2, <1>5 DEF getopt
<1>6. ASSUME line # Default, ~Switch[line].hasarg
      PROVE  /\ opt_found' = (IF Len(t.os) > Len(Switch[line].os) THEN Default ELSE line)
             /\ optarg' = NOOPT /\ optind' = t.ind /\ packedopts' = t.packed
  BY <1>1, <1>2, <1>6 DEF getopt
<1>7. ASSUME line # Default, Switch[line].hasarg
      PROVE  /\ packedopts' = 0
             /\ \/ /\ t.packed # 0 \/ Len(t.os) > Len(Switch[line].os)
                   /\ optarg' = (IF t.packed # 0 THEN SubSeq(argv[optind], t.packed, Len(argv[optind]))
                                 ELSE SubSeq(t.os, Len(Switch[line].os) + 2, Len(t.os)))
                   /\ optind' = (IF t.packed # 0 THEN t.ind + 1 ELSE t.ind) /\ opt_found' = line
                \/ /\ t.packed = 0 /\ ~(Len(t.os) > Len(Switch[line].os)) /\ t.ind <= Len(argv)
                   /\ optarg' = argv[t.ind] /\ optind' = t.ind + 1 /\ opt_found' = line
                \/ /\ t.packed = 0 /\ ~(Len(t.os) > Len(Switch[line].os)) /\ t.ind > Len(argv)
                   /\ optarg' = NOOPT /\ optind' = t.ind /\ opt_found' = opt_missing
  BY <1>1, <1>2, <1>7 DEF getopt
<1> QED BY <1>3, <1>4, <1>5, <1>6, <1>7

(* ... is one option. *)
LEMMA WhenLetter ==
  ASSUME argv \in Seq(Word), PlaceOK(argv, optind, packedopts), optind <= Len(argv),
         Start(argv[optind]) # 0
  PROVE  LET w == argv[optind]
             p == Start(w)
         IN /\ optind \in 1 .. Len(argv) /\ p \in 2 .. Len(w)
            /\ Ahead(argv, optind, packedopts) = Ahead(argv, optind, p)
            /\ Taken = [os |-> <<"-", w[p]>>, ind |-> IF p = Len(w) THEN optind + 1 ELSE optind,
                        packed |-> IF p = Len(w) THEN 0 ELSE p + 1]
<1> DEFINE w == argv[optind]
           p == Start(w)
<1>1. optind \in 1 .. Len(argv) /\ Len(argv) \in Nat
  BY WordsAre DEF PlaceOK
<1>2. p \in 2 .. Len(w) /\ Ahead(argv, optind, packedopts) = Ahead(argv, optind, p)
  <2>1. CASE packedopts # 0
    BY <2>1 DEF Start, PlaceOK
  <2>2. CASE packedopts = 0
    <3>1. p = 2 /\ Len(w) >= 2 /\ w[1] = "-" /\ w[2] # "-"
      BY <2>2 DEF Start
    <3> QED BY <1>1, <2>2, <3>1, AheadPacked
  <2> QED BY <2>1, <2>2
<1>3. ~(optind > Len(argv))
  BY <1>1
<1>4. Taken = [os |-> <<"-", w[p]>>, ind |-> IF p = Len(w) THEN optind + 1 ELSE optind,
               packed |-> IF p = Len(w) THEN 0 ELSE p + 1]
  BY <1>3 DEF Taken
<1> QED BY <1>1, <1>2, <1>4

LEMMA DashesAre ==
  ASSUME NEW w \in Word
  PROVE  /\ Len(w) >= 2 /\ SubSeq(w, 1, 2) = <<"-", "-">> <=> Len(w) >= 2 /\ w[1] = "-" /\ w[2] = "-"
         /\ w = Dashes <=> Len(w) = 2 /\ w[1] = "-" /\ w[2] = "-"
<1>0. Len(w) \in Nat /\ \A x \in 1 .. Len(w) : w[x] \in Chars
  BY LenProperties, ElementOfSeq DEF Word
<1>1. "-" \in Chars /\ Dashes \in Seq(Chars) /\ Len(Dashes) = 2 /\ Dashes[1] = "-" /\ Dashes[2] = "-"
  <2>1. "-" \in Chars
    BY GetoptAssumption
  <2> QED BY <2>1, PairIs DEF Dashes
<1>2. ASSUME NEW v \in Seq(Chars), Len(v) = 2
      PROVE  v = Dashes <=> v[1] = "-" /\ v[2] = "-"
  <2>1. ASSUME v[1] = "-", v[2] = "-" PROVE v = Dashes
    <3>1. \A x \in 1 .. Len(v) : v[x] = Dashes[x]
      BY <1>1, <1>2, <2>1
    <3> QED BY <1>1, <1>2, <3>1, SeqEqual
  <2> QED BY <1>1, <2>1
<1>3. ASSUME Len(w) >= 2 PROVE SubSeq(w, 1, 2) = Dashes <=> w[1] = "-" /\ w[2] = "-"
  <2> DEFINE v == SubSeq(w, 1, 2)
  <2>1. \A x \in 1 .. 2 : w[x] \in Chars
    BY <1>0, <1>3
  <2>2. v \in Seq(Chars) /\ Len(v) = 2 /\ v[1] = w[1] /\ v[2] = w[2]
    BY <2>1, SubSeqProperties
  <2> HIDE DEF v
  <2>3. v = Dashes <=> w[1] = "-" /\ w[2] = "-"
    BY <1>2, <2>2
  <2> QED BY <2>3 DEF v
<1>4. w = Dashes <=> Len(w) = 2 /\ w[1] = "-" /\ w[2] = "-"
  <2>1. w \in Seq(Chars)
    BY DEF Word
  <2> QED BY <1>1, <1>2, <2>1
<1> QED BY <1>3, <1>4 DEF Dashes

LEMMA WhenLong ==
  ASSUME argv \in Seq(Word), PlaceOK(argv, optind, packedopts), optind <= Len(argv),
         Start(argv[optind]) = 0, NEW w, w = argv[optind]
  PROVE  /\ packedopts = 0 /\ optind \in 1 .. Len(argv) /\ w \in Word
         /\ \/ IsOption(w) /\ w[2] = "-" /\ Taken = [os |-> w, ind |-> optind + 1, packed |-> 0]
            \/ /\ NoOption(argv, optind)
               /\ Taken = [os |-> <<>>, ind |-> IF w = Dashes THEN optind + 1 ELSE optind, packed |-> 0]
<1>1. optind \in 1 .. Len(argv) /\ Len(argv) \in Nat /\ w \in Word /\ Len(w) \in Nat
  BY WordsAre DEF PlaceOK
<1>2. packedopts = 0 /\ (Len(w) >= 2 /\ w[1] = "-" => w[2] = "-")
  BY DEF Start, PlaceOK
<1>3. ~(optind > Len(argv))
  BY <1>1
<1>4. Taken = IF Len(w) >= 2 /\ SubSeq(w, 1, 2) = <<"-", "-">>
              THEN [os |-> IF Len(w) > 2 THEN w ELSE <<>>, ind |-> optind + 1, packed |-> 0]
              ELSE [os |-> <<>>, ind |-> optind, packed |-> 0]
  BY <1>3 DEF Taken
<1>5. CASE Len(w) >= 2 /\ w[1] = "-" /\ w[2] = "-"
  <2>1. Taken = [os |-> IF Len(w) > 2 THEN w ELSE <<>>, ind |-> optind + 1, packed |-> 0]
    BY <1>1, <1>4, <1>5, DashesAre
  <2>2. CASE Len(w) > 2
    <3> DEFINE n == Len(w)
    <3>1. n # 2
      <4>1. n > 2
        BY <2>2
      <4> HIDE DEF n
      <4> QED BY ONLY <4>1
    <3>2. w # Dashes
      BY <1>1, <3>1, DashesAre
    <3>3. IsOption(w)
      BY <1>5, <3>2 DEF IsOption
    <3> QED BY <1>1, <1>2, <1>5, <2>1, <2>2, <3>3
  <2>3. CASE ~(Len(w) > 2)
    <3>1. Len(w) = 2
      <4>1. Len(w) \in Nat /\ Len(w) >= 2
        BY <1>1, <1>5
      <4> QED BY ONLY <2>3, <4>1
    <3>2. w = Dashes /\ NoOption(argv, optind)
      BY <1>1, <1>5, <3>1, DashesAre DEF IsOption, NoOption
    <3> QED BY <1>1, <1>2, <2>1, <2>3, <3>2
  <2> QED BY <2>2, <2>3
<1>6. CASE ~(Len(w) >= 2 /\ w[1] = "-" /\ w[2] = "-")
  <2>1. Taken = [os |-> <<>>, ind |-> optind, packed |-> 0]
    BY <1>1, <1>4, <1>6, DashesAre
  <2>2. ~(Len(w) >= 2 /\ w[1] = "-")
    BY <1>2, <1>6
  <2>3. ~IsOption(w) /\ w # Dashes
    BY <1>1, <2>2, DashesAre DEF IsOption
  <2> QED BY <1>1, <1>2, <2>1, <2>3 DEF NoOption
<1> QED BY <1>5, <1>6

(* A turn finds the next jump. *)
FoundOK ==
  /\ opt_found \in {opt_missing, Default} \/ os = opts[opt_found].os
  /\ opt_found <= nopts /\ opt_found # opt_missing => (optarg # NOOPT) = opts[opt_found].hasarg
Ready ==
  /\ argv \in Seq(Word) /\ opts = Registered /\ opt_missing = MissingLine
  /\ PlaceOK(argv, optind, packedopts)
Turned ==
  /\ ch' = "switch" /\ FoundOK' /\ PlaceOK(argv, optind', packedopts')
  /\ UNCHANGED <<optreset, getopt_initialized, opts, opt_missing, ln, argv, jumps>>
  /\ opt_found' \in Nat /\ optarg' \in Word \cup {NOOPT}
  /\ Leads(argv, optind, packedopts, Jump(opt_found', optarg'), optind', packedopts')

LEMMA FoundLabel ==
  ASSUME opts' = Registered, NEW line \in Labels, opt_found' = line, os' = Switch[line].os,
         optarg' \in Word <=> Switch[line].hasarg, optarg' \in Word \cup {NOOPT}
  PROVE  FoundOK' /\ opt_found' \in Nat
<1>1. opts'[line] = Switch[line] /\ Switch[line].hasarg \in BOOLEAN /\ line \in Nat
  BY RegisteredIs, LabelFacts, LinesAreNat
<1>2. optarg' # NOOPT <=> optarg' \in Word
  BY GetoptAssumption
<1>3. (optarg' # NOOPT) = Switch[line].hasarg
  BY <1>1, <1>2
<1>4. os' = opts'[opt_found'].os /\ (optarg' # NOOPT) = opts'[opt_found'].hasarg /\ opt_found' \in Nat
  BY <1>1, <1>3
<1> QED BY <1>4 DEF FoundOK

LEMMA FoundNone ==
  ASSUME opt_found' = Default \/ opt_found' = opt_missing', opt_missing' = MissingLine
  PROVE  FoundOK' /\ opt_found' \in Nat
<1>1. Default \in Nat /\ MissingLine \in Nat /\ nopts \in Nat /\ Default = nopts + 1
  BY LinesAreNat, SwitchFacts
<1>2. opt_found' \in Nat
  BY <1>1
<1>3. ~(Default <= nopts)
  BY <1>1
<1>4. ~(opt_found' <= nopts /\ opt_found' # opt_missing')
  BY <1>3
<1> QED BY <1>2, <1>4 DEF FoundOK

LEMMA LetterTurn ==
  ASSUME Ready, getopt, optind <= Len(argv), Start(argv[optind]) # 0
  PROVE  Turned
<1> DEFINE i == optind
           w == argv[i]
           p == Start(w)
           s == <<"-", w[p]>>
           line == Letter(w, p)
           n == Len(argv)
           t == Taken
           keep == UNCHANGED <<optreset, getopt_initialized, opts, opt_missing, ln, argv, jumps>>
<1>1. /\ argv \in Seq(Word) /\ opts = Registered /\ opt_missing = MissingLine
      /\ PlaceOK(argv, i, packedopts)
  BY DEF Ready
<1>2. /\ i \in 1 .. n /\ p \in 2 .. Len(w) /\ Ahead(argv, i, packedopts) = Ahead(argv, i, p)
      /\ t = [os |-> s, ind |-> IF p = Len(w) THEN i + 1 ELSE i,
              packed |-> IF p = Len(w) THEN 0 ELSE p + 1]
  BY <1>1, WhenLetter
<1>3. w \in Word /\ Len(w) \in Nat /\ p \in 1 .. Len(w) /\ n \in Nat /\ p + 1 \in Nat /\ p + 1 # 0
  BY <1>1, <1>2, LettersAhead, WordsAre
<1>4. s \in Word /\ Len(s) = 2 /\ s # <<>> /\ line = LineOf(s)
  <2>1. s \in Word /\ Len(s) = 2
    BY <1>3, LetterIs
  <2>2. s # <<>>
    OBVIOUS
  <2> QED BY <2>1, <2>2 DEF Letter
<1>5. /\ line \in Nat
      /\ line # Default => line \in Labels /\ Len(Switch[line].os) = 2
      /\ TakesArg(line) <=> line # Default /\ Switch[line].hasarg
  BY <1>3, LetterIs, LetterFacts, LinesAreNat DEF TakesArg
<1>6. t.os = s /\ t.ind = (IF p = Len(w) THEN i + 1 ELSE i) /\ t.packed = (IF p = Len(w) THEN 0 ELSE p + 1)
  BY <1>2
<1> HIDE DEF t, s, line
<1>7. /\ ch' = "switch" /\ keep
      /\ line = Default =>
              /\ opt_found' = Default /\ optarg' = NOOPT
              /\ optind' = t.ind /\ packedopts' = t.packed
      /\ line # Default => os' = Switch[line].os
      /\ line # Default /\ ~Switch[line].hasarg =>
              /\ opt_found' = (IF Len(t.os) > Len(Switch[line].os) THEN Default ELSE line)
              /\ optarg' = NOOPT /\ optind' = t.ind /\ packedopts' = t.packed
      /\ line # Default /\ Switch[line].hasarg =>
              /\ packedopts' = 0
              /\ \/ /\ t.packed # 0 \/ Len(t.os) > Len(Switch[line].os)
                    /\ optarg' = (IF t.packed # 0 THEN SubSeq(w, t.packed, Len(w))
                                  ELSE SubSeq(t.os, Len(Switch[line].os) + 2, Len(t.os)))
                    /\ optind' = (IF t.packed # 0 THEN t.ind + 1 ELSE t.ind) /\ opt_found' = line
                 \/ /\ t.packed = 0 /\ ~(Len(t.os) > Len(Switch[line].os)) /\ t.ind <= Len(argv)
                    /\ optarg' = argv[t.ind] /\ optind' = t.ind + 1 /\ opt_found' = line
                 \/ /\ t.packed = 0 /\ ~(Len(t.os) > Len(Switch[line].os)) /\ t.ind > Len(argv)
                    /\ optarg' = NOOPT /\ optind' = t.ind /\ opt_found' = opt_missing
  <2>1. t = Taken /\ t.os \in Word /\ t.os # <<>> /\ line = LineOf(t.os)
    BY <1>4, <1>6 DEF t
  <2> QED BY <1>1, <2>1, TurnIs
<1>8. opts' = Registered /\ opt_missing' = MissingLine
  BY <1>1, <1>7
<1>9. CASE ~TakesArg(line)
  <2>1. line # Default => ~(Len(t.os) > Len(Switch[line].os))
    BY <1>4, <1>5, <1>6
  <2>2. opt_found' = line /\ optarg' = NOOPT /\ optind' = t.ind /\ packedopts' = t.packed
    BY <1>5, <1>7, <1>9, <2>1
  <2>3. FoundOK' /\ opt_found' \in Nat
    <3>1. CASE line = Default
      BY <1>8, <2>2, <3>1, FoundNone
    <3>2. CASE line # Default
      <4>1. line \in Labels /\ os' = Switch[line].os /\ ~Switch[line].hasarg
        BY <1>5, <1>7, <1>9, <3>2
      <4>2. optarg' \notin Word
        BY <2>2, GetoptAssumption
      <4> QED BY <1>8, <2>2, <4>1, <4>2, FoundLabel
    <3> QED BY <3>1, <3>2
  <2>4. IF p = Len(w) THEN Leads(argv, i, p, Jump(line, NOOPT), i + 1, 0)
                      ELSE Leads(argv, i, p, Jump(line, NOOPT), i, p + 1)
    BY <1>1, <1>2, <1>9, AheadLetter DEF line
  <2>5. Leads(argv, i, p, Jump(line, NOOPT), t.ind, t.packed)
    BY <1>6, <2>4
  <2>6. Leads(argv, i, packedopts, Jump(opt_found', optarg'), optind', packedopts')
    BY <1>2, <2>2, <2>5 DEF Leads
  <2>7. PlaceOK(argv, optind', packedopts')
    <3>1. CASE p = Len(w)
      <4>1. optind' = i + 1 /\ packedopts' = 0
        BY <1>6, <2>2, <3>1
      <4>2. i + 1 \in 1 .. n + 1
        BY <1>2, <1>3
      <4> QED BY <4>1, <4>2 DEF PlaceOK
    <3>2. CASE p # Len(w)
      <4>1. optind' = i /\ packedopts' = p + 1
        BY <1>6, <2>2, <3>2
      <4>2. p + 1 \in 2 .. Len(w) /\ i \in 1 .. n + 1
        BY <1>2, <1>3, <3>2
      <4> QED BY <1>2, <4>1, <4>2 DEF PlaceOK
    <3> QED BY <3>1, <3>2
  <2> QED BY <1>7, <2>2, <2>3, <2>6, <2>7 DEF Turned
<1>10. CASE TakesArg(line)
  <2>1. /\ line # Default /\ line \in Labels /\ Switch[line].hasarg
        /\ ~(Len(t.os) > Len(Switch[line].os)) /\ os' = Switch[line].os /\ packedopts' = 0
    <3>1. line # Default /\ Switch[line].hasarg /\ line \in Labels
      BY <1>5, <1>10
    <3>2. Len(t.os) = 2 /\ Len(Switch[line].os) = 2
      BY <1>4, <1>5, <1>6, <3>1
    <3> QED BY <1>7, <3>1, <3>2
  <2>2. ASSUME NEW j, NEW e \in 1 .. n + 1, LetterArg(argv, i, p) = Read(<<j>>, e),
               j = Jump(opt_found', optarg'), e = optind',
               FoundOK', opt_found' \in Nat, optarg' \in Word \cup {NOOPT}
        PROVE  Turned
    <3>1. Leads(argv, i, p, j, e, 0)
      BY <1>1, <1>2, <1>10, <2>2, AheadLetterArg DEF line
    <3>2. Leads(argv, i, packedopts, Jump(opt_found', optarg'), optind', packedopts')
      BY <1>2, <2>1, <2>2, <3>1 DEF Leads
    <3>3. PlaceOK(argv, optind', packedopts')
      BY <2>1, <2>2 DEF PlaceOK
    <3> QED BY <1>7, <2>2, <3>2, <3>3 DEF Turned
  <2>3. CASE p < Len(w)
    <3>1. p # Len(w) /\ ~(p > Len(w)) /\ p + 1 \in 1 .. Len(w) + 1
      BY <1>3, <2>3
    <3>2. t.packed = p + 1 /\ t.ind = i /\ t.packed # 0
      BY <1>3, <1>6, <3>1
    <3>3. optarg' = SubSeq(w, p + 1, Len(w)) /\ optind' = i + 1 /\ opt_found' = line
      BY <1>7, <2>1, <3>2
    <3>4. optarg' \in Word
      BY <1>3, <3>1, <3>3, SuffixIs
    <3>5. FoundOK' /\ opt_found' \in Nat
      BY <1>8, <2>1, <3>3, <3>4, FoundLabel
    <3>6. LetterArg(argv, i, p) = Read(<<Jump(line, optarg')>>, i + 1)
      BY <2>3, <3>1, <3>3 DEF LetterArg, line
    <3>7. i + 1 \in 1 .. n + 1
      BY <1>2, <1>3
    <3> QED BY <2>2, <3>3, <3>4, <3>5, <3>6, <3>7
  <2>4. CASE ~(p < Len(w))
    <3>1. p = Len(w) /\ ~(p > Len(w))
      BY <1>3, <2>4
    <3>2. t.packed = 0 /\ t.ind = i + 1
      BY <1>6, <3>1
    <3>3. LetterArg(argv, i, p) = ReadArg(argv, i, line)
      BY <2>4, <3>1 DEF LetterArg, line
    <3>4. CASE i + 1 <= n
      <4>1. ~(i + 1 > n) /\ i < n /\ i + 1 \in 1 .. n /\ i + 2 \in 1 .. n + 1 /\ i + 1 + 1 = i + 2
        BY <1>2, <1>3, <3>4
      <4>2. optarg' = argv[i + 1] /\ optind' = i + 2 /\ opt_found' = line
        BY <1>7, <2>1, <3>2, <4>1
      <4>3. optarg' \in Word
        BY <1>1, <4>1, <4>2, WordsAre
      <4>4. FoundOK' /\ opt_found' \in Nat
        BY <1>8, <2>1, <4>2, <4>3, FoundLabel
      <4>5. LetterArg(argv, i, p) = Read(<<Jump(line, optarg')>>, i + 2)
        BY <3>3, <4>1, <4>2 DEF ReadArg
      <4> QED BY <2>2, <4>1, <4>2, <4>3, <4>4, <4>5
    <3>5. CASE ~(i + 1 <= n)
      <4>1. i + 1 > n /\ ~(i < n) /\ i + 1 \in 1 .. n + 1
        BY <1>2, <1>3, <3>5
      <4>2. optarg' = NOOPT /\ optind' = i + 1 /\ opt_found' = opt_missing
        BY <1>7, <2>1, <3>2, <3>5, <4>1
      <4>3. opt_found' = MissingLine /\ opt_found' = opt_missing'
        BY <1>1, <1>8, <4>2
      <4>4. FoundOK' /\ opt_found' \in Nat
        BY <1>8, <4>3, FoundNone
      <4>5. LetterArg(argv, i, p) = Read(<<Jump(opt_found', optarg')>>, i + 1)
        BY <3>3, <4>1, <4>2, <4>3 DEF ReadArg
      <4> QED BY <2>2, <4>1, <4>2, <4>4, <4>5
    <3> QED BY <3>4, <3>5
  <2> QED BY <2>3, <2>4
<1> QED BY <1>9, <1>10

LEMMA LongTurn ==
  ASSUME Ready, getopt, optind <= Len(argv), Start(argv[optind]) = 0, NEW w, w = argv[optind],
         IsOption(w), w[2] = "-", Taken = [os |-> w, ind |-> optind + 1, packed |-> 0]
  PROVE  Turned
<1> DEFINE i == optind
           line == LineOf(w)
           n == Len(argv)
           t == Taken
           longer == Len(w) > Len(Switch[line].os)
           keep == UNCHANGED <<optreset, getopt_initialized, opts, opt_missing, ln, argv, jumps>>
<1>1. /\ argv \in Seq(Word) /\ opts = Registered /\ opt_missing = MissingLine
      /\ PlaceOK(argv, i, packedopts)
  BY DEF Ready
<1>2. packedopts = 0 /\ i \in 1 .. n /\ w \in Word
  BY <1>1, WhenLong
<1>3. n \in Nat /\ i + 1 \in 1 .. n + 1 /\ Len(w) \in Nat
  BY <1>1, <1>2, WordsAre
<1>4. w # <<>> /\ t.os = w /\ t.ind = i + 1 /\ t.packed = 0
  <2>1. w # <<>>
    <3> DEFINE m == Len(w)
    <3>1. m >= 2
      BY DEF IsOption
    <3>2. m # 0
      <4> HIDE DEF m
      <4> QED BY ONLY <3>1
    <3> QED BY <3>2, EmptySeq
  <2> QED BY <2>1
<1>5. /\ line \in Nat /\ (line # Default => line \in Labels)
      /\ TakesArg(line) <=> line # Default /\ Switch[line].hasarg
  <2>1. line \in Nat /\ (line # Default => line \in Labels)
    BY <1>2, LineOfIs, LinesAreNat
  <2> QED BY <2>1, LinesAreNat DEF TakesArg
<1>6. ReadLong(argv, i) =
        IF line = Default \/ (~TakesArg(line) /\ Len(Switch[line].os) < Len(w))
        THEN Read(<<Jump(Default, NOOPT)>>, i + 1)
        ELSE IF ~TakesArg(line) THEN Read(<<Jump(line, NOOPT)>>, i + 1)
        ELSE IF Len(Switch[line].os) < Len(w)
        THEN Read(<<Jump(line, SubSeq(w, Len(Switch[line].os) + 2, Len(w)))>>, i + 1)
        ELSE ReadArg(argv, i, line)
  BY DEF ReadLong
<1>7. longer <=> Len(Switch[line].os) < Len(w)
  OBVIOUS
<1> HIDE DEF t, line
<1>8. /\ ch' = "switch" /\ keep
      /\ line = Default =>
              /\ opt_found' = Default /\ optarg' = NOOPT
              /\ optind' = t.ind /\ packedopts' = t.packed
      /\ line # Default => os' = Switch[line].os
      /\ line # Default /\ ~Switch[line].hasarg =>
              /\ opt_found' = (IF Len(t.os) > Len(Switch[line].os) THEN Default ELSE line)
              /\ optarg' = NOOPT /\ optind' = t.ind /\ packedopts' = t.packed
      /\ line # Default /\ Switch[line].hasarg =>
              /\ packedopts' = 0
              /\ \/ /\ t.packed # 0 \/ Len(t.os) > Len(Switch[line].os)
                    /\ optarg' = (IF t.packed # 0 THEN SubSeq(argv[i], t.packed, Len(argv[i]))
                                  ELSE SubSeq(t.os, Len(Switch[line].os) + 2, Len(t.os)))
                    /\ optind' = (IF t.packed # 0 THEN t.ind + 1 ELSE t.ind) /\ opt_found' = line
                 \/ /\ t.packed = 0 /\ ~(Len(t.os) > Len(Switch[line].os)) /\ t.ind <= Len(argv)
                    /\ optarg' = argv[t.ind] /\ optind' = t.ind + 1 /\ opt_found' = line
                 \/ /\ t.packed = 0 /\ ~(Len(t.os) > Len(Switch[line].os)) /\ t.ind > Len(argv)
                    /\ optarg' = NOOPT /\ optind' = t.ind /\ opt_found' = opt_missing
  <2>1. t = Taken /\ t.os \in Word /\ t.os # <<>> /\ line = LineOf(t.os)
    BY <1>2, <1>4 DEF t, line
  <2>2. opts = Registered /\ getopt
    BY <1>1
  <2> QED BY ONLY <2>1, <2>2, TurnIs
<1>9. opts' = Registered /\ opt_missing' = MissingLine
  BY <1>1, <1>8
<1>10. ASSUME NEW j, NEW e \in 1 .. n + 1, ReadLong(argv, i) = Read(<<j>>, e), packedopts' = 0,
              j = Jump(opt_found', optarg'), e = optind',
              FoundOK', opt_found' \in Nat, optarg' \in Word \cup {NOOPT}
       PROVE  Turned
  <2>1. Leads(argv, i, 0, j, e, 0)
    BY <1>1, <1>2, <1>10, AheadLong
  <2>2. Leads(argv, i, packedopts, Jump(opt_found', optarg'), optind', packedopts')
    BY <1>2, <1>10, <2>1
  <2>3. PlaceOK(argv, optind', packedopts')
    BY <1>10 DEF PlaceOK
  <2> QED BY <1>8, <1>10, <2>2, <2>3 DEF Turned
<1>11. NOOPT \notin Word
  BY GetoptAssumption
<1>12. CASE line = Default \/ (~TakesArg(line) /\ longer)
  <2>1. opt_found' = Default /\ optarg' = NOOPT /\ optind' = i + 1 /\ packedopts' = 0
    BY <1>4, <1>5, <1>8, <1>12
  <2>2. FoundOK' /\ opt_found' \in Nat
    BY <1>9, <2>1, FoundNone
  <2>3. ReadLong(argv, i) = Read(<<Jump(Default, NOOPT)>>, i + 1)
    BY <1>6, <1>7, <1>12
  <2> QED BY <1>3, <1>10, <2>1, <2>2, <2>3
<1>13. CASE line # Default /\ ~TakesArg(line) /\ ~longer
  <2>1. opt_found' = line /\ optarg' = NOOPT /\ optind' = i + 1 /\ packedopts' = 0
    BY <1>4, <1>5, <1>8, <1>13
  <2>2. line \in Labels /\ os' = Switch[line].os /\ ~Switch[line].hasarg
    BY <1>5, <1>8, <1>13
  <2>3. FoundOK' /\ opt_found' \in Nat
    BY <1>9, <1>11, <2>1, <2>2, FoundLabel
  <2>4. ReadLong(argv, i) = Read(<<Jump(line, NOOPT)>>, i + 1)
    BY <1>6, <1>7, <1>13
  <2> QED BY <1>3, <1>10, <2>1, <2>3, <2>4
<1>14. CASE line # Default /\ TakesArg(line)
  <2>1. /\ line \in Labels /\ os' = Switch[line].os /\ Switch[line].hasarg /\ packedopts' = 0
        /\ Len(t.os) > Len(Switch[line].os) <=> longer
    BY <1>4, <1>5, <1>8, <1>14
  <2>2. CASE longer
    <3>1. optarg' = SubSeq(w, Len(Switch[line].os) + 2, Len(w)) /\ optind' = i + 1 /\ opt_found' = line
      BY <1>4, <1>5, <1>8, <1>14, <2>1, <2>2
    <3>2. optarg' \in Word
      BY <1>2, <1>7, <2>1, <2>2, <3>1, LongIs DEF line
    <3>3. FoundOK' /\ opt_found' \in Nat
      BY <1>9, <2>1, <3>1, <3>2, FoundLabel
    <3>4. ReadLong(argv, i) = Read(<<Jump(line, optarg')>>, i + 1)
      BY <1>6, <1>7, <1>14, <2>2, <3>1
    <3> QED BY <1>3, <1>10, <2>1, <3>1, <3>2, <3>3, <3>4
  <2>3. CASE ~longer
    <3>1. ReadLong(argv, i) = ReadArg(argv, i, line)
      BY <1>6, <1>7, <1>14, <2>3
    <3>2. CASE i + 1 <= n
      <4>1. ~(i + 1 > n) /\ i < n /\ i + 1 \in 1 .. n /\ i + 2 \in 1 .. n + 1 /\ i + 1 + 1 = i + 2
        BY <1>2, <1>3, <3>2
      <4>2. optarg' = argv[i + 1] /\ optind' = i + 2 /\ opt_found' = line
        BY <1>4, <1>5, <1>8, <1>14, <2>1, <2>3, <4>1
      <4>3. optarg' \in Word
        BY <1>1, <4>1, <4>2, WordsAre
      <4>4. FoundOK' /\ opt_found' \in Nat
        BY <1>9, <2>1, <4>2, <4>3, FoundLabel
      <4>5. ReadLong(argv, i) = Read(<<Jump(line, optarg')>>, i + 2)
        BY <3>1, <4>1, <4>2 DEF ReadArg
      <4> QED BY <1>10, <2>1, <4>1, <4>2, <4>3, <4>4, <4>5
    <3>3. CASE ~(i + 1 <= n)
      <4>1. i + 1 > n /\ ~(i < n)
        BY <1>2, <1>3, <3>3
      <4>2. optarg' = NOOPT /\ optind' = i + 1 /\ opt_found' = opt_missing
        BY <1>4, <1>5, <1>8, <1>14, <2>1, <2>3, <3>3, <4>1
      <4>3. opt_found' = MissingLine /\ opt_found' = opt_missing'
        BY <1>1, <1>9, <4>2
      <4>4. FoundOK' /\ opt_found' \in Nat
        BY <1>9, <4>3, FoundNone
      <4>5. ReadLong(argv, i) = Read(<<Jump(opt_found', optarg')>>, i + 1)
        BY <3>1, <4>1, <4>2, <4>3 DEF ReadArg
      <4> QED BY <1>3, <1>10, <2>1, <4>2, <4>4, <4>5
    <3> QED BY <3>2, <3>3
  <2> QED BY <2>2, <2>3
<1> QED BY <1>12, <1>13, <1>14

LEMMA GetoptTurn ==
  ASSUME Ready, getopt
  PROVE  \/ Turned
         \/ /\ ch' = "done" /\ Ahead(argv, optind, packedopts) = Read(<<>>, optind')
            /\ UNCHANGED <<optreset, getopt_initialized, opts, opt_missing, ln, argv, jumps>>
<1>1. argv \in Seq(Word) /\ PlaceOK(argv, optind, packedopts)
  BY DEF Ready
<1>2. optind \in 1 .. Len(argv) + 1 /\ Len(argv) \in Nat
  BY <1>1, WordsAre DEF PlaceOK
<1>3. CASE optind <= Len(argv) /\ Start(argv[optind]) # 0
  BY <1>3, LetterTurn
<1>4. CASE optind <= Len(argv) /\ Start(argv[optind]) = 0
  <2> DEFINE w == argv[optind]
  <2>1. packedopts = 0
    BY <1>1, <1>4, WhenLong
  <2>2. CASE IsOption(w) /\ w[2] = "-" /\ Taken = [os |-> w, ind |-> optind + 1, packed |-> 0]
    BY <1>4, <2>2, LongTurn
  <2>3. CASE /\ NoOption(argv, optind)
             /\ Taken = [os |-> <<>>, ind |-> IF w = Dashes THEN optind + 1 ELSE optind, packed |-> 0]
    <3>1. Taken.os = <<>> /\ Taken.ind = IF w = Dashes THEN optind + 1 ELSE optind
      BY <2>3
    <3>2. Ahead(argv, optind, 0) = Read(<<>>, IF w = Dashes THEN optind + 1 ELSE optind)
      BY <1>1, <1>2, <1>4, <2>3, AheadNone
    <3> QED BY <2>1, <3>1, <3>2, TurnEnds
  <2> QED BY <1>1, <1>4, <2>2, <2>3, WhenLong
<1>5. CASE ~(optind <= Len(argv))
  <2>1. optind > Len(argv) /\ packedopts = 0 /\ ~(optind <= Len(argv))
    BY <1>1, <1>2, <1>5 DEF PlaceOK
  <2>2. Taken = [os |-> <<>>, ind |-> optind, packed |-> 0]
    BY <2>1 DEF Taken
  <2>3. Ahead(argv, optind, 0) = Read(<<>>, optind)
    BY <1>1, <1>2, <2>1, AheadNone DEF NoOption
  <2>4. Taken.os = <<>> /\ Taken.ind = optind
    BY <2>2
  <2> QED BY <2>1, <2>3, <2>4, TurnEnds
<1> QED BY <1>3, <1>4, <1>5

(* The registration of the lines before line l. *)
RegisteredTo(l) == [i \in 1 .. nopts |-> IF i \in Labels /\ i < l THEN Switch[i] ELSE NOOPT]
MissingBefore(l) == {i \in DOMAIN Switch : Switch[i] = MISSING /\ i < l}
MissingTo(l) == IF MissingBefore(l) = {} THEN Default ELSE Max(MissingBefore(l))

LEMMA RegisteredSteps ==
  /\ RegisteredTo(1) = [i \in 1 .. nopts |-> NOOPT]
  /\ RegisteredTo(Default) = Registered
  /\ \A l \in 1 .. nopts : RegisteredTo(l + 1) =
       IF Switch[l] \in {NOOPT, MISSING} THEN RegisteredTo(l)
       ELSE [RegisteredTo(l) EXCEPT ![l] = Switch[l]]
<1>1. nopts \in Nat /\ Default = nopts + 1 /\ Labels \subseteq 1 .. nopts
  BY SwitchFacts
<1>2. RegisteredTo(1) = [i \in 1 .. nopts |-> NOOPT]
  <2>1. \A i \in 1 .. nopts : ~(i < 1)
    BY <1>1
  <2> QED BY <2>1 DEF RegisteredTo
<1>3. RegisteredTo(Default) = Registered
  <2>1. \A i \in 1 .. nopts : i < Default
    BY <1>1
  <2> QED BY <2>1 DEF RegisteredTo, Registered
<1>4. ASSUME NEW l \in 1 .. nopts
      PROVE  RegisteredTo(l + 1) = IF Switch[l] \in {NOOPT, MISSING} THEN RegisteredTo(l)
                                   ELSE [RegisteredTo(l) EXCEPT ![l] = Switch[l]]
  <2>1. \A i \in 1 .. nopts : /\ i < l + 1 <=> i < l \/ i = l
                              /\ ~(i < l /\ i = l)
    BY <1>1
  <2>2. l \in Labels <=> Switch[l] \notin {NOOPT, MISSING}
    BY SwitchFacts DEF Labels
  <2>3. CASE l \notin Labels
    <3>1. \A i \in 1 .. nopts : i \in Labels /\ i < l + 1 <=> i \in Labels /\ i < l
      BY <2>1, <2>3
    <3> QED BY <2>2, <2>3, <3>1 DEF RegisteredTo
  <2>4. CASE l \in Labels
    <3>1. \A i \in 1 .. nopts : i \in Labels /\ i < l + 1 <=> (i \in Labels /\ i < l) \/ i = l
      BY <2>1, <2>4
    <3>2. RegisteredTo(l + 1) = [i \in 1 .. nopts |-> IF i = l THEN Switch[l] ELSE RegisteredTo(l)[i]]
      BY <3>1 DEF RegisteredTo
    <3>3. DOMAIN RegisteredTo(l) = 1 .. nopts
      BY DEF RegisteredTo
    <3>4. [RegisteredTo(l) EXCEPT ![l] = Switch[l]] = [i \in 1 .. nopts |-> IF i = l THEN Switch[l] ELSE RegisteredTo(l)[i]]
      BY <3>3
    <3> QED BY <2>2, <2>4, <3>2, <3>4
  <2> QED BY <2>3, <2>4
<1> QED BY <1>2, <1>3, <1>4

LEMMA MissingSteps ==
  /\ MissingTo(1) = Default
  /\ MissingTo(Default) = MissingLine
  /\ \A l \in 1 .. nopts : MissingTo(l + 1) = IF Switch[l] = MISSING THEN l ELSE MissingTo(l)
<1>1. nopts \in Nat /\ Default = nopts + 1 /\ DOMAIN Switch = 1 .. nopts
  BY SwitchFacts
<1>2. MissingTo(1) = Default
  <2>1. \A i \in 1 .. nopts : ~(i < 1)
    BY <1>1
  <2>2. MissingBefore(1) = {}
    BY <1>1, <2>1 DEF MissingBefore
  <2> QED BY <2>2 DEF MissingTo
<1>3. MissingTo(Default) = MissingLine
  <2>1. \A i \in 1 .. nopts : i < Default
    BY <1>1
  <2>2. MissingBefore(Default) = {i \in DOMAIN Switch : Switch[i] = MISSING}
    BY <1>1, <2>1 DEF MissingBefore
  <2> QED BY <2>2 DEF MissingTo, MissingLine
<1>4. ASSUME NEW l \in 1 .. nopts
      PROVE  MissingTo(l + 1) = IF Switch[l] = MISSING THEN l ELSE MissingTo(l)
  <2>1. \A i \in 1 .. nopts : /\ i < l + 1 <=> i < l \/ i = l
                              /\ i < l + 1 => l >= i
                              /\ i \in Int /\ (i >= l /\ l >= i => i = l)
    BY <1>1
  <2>2. CASE Switch[l] # MISSING
    <3>1. MissingBefore(l + 1) = MissingBefore(l)
      BY <1>1, <2>1, <2>2 DEF MissingBefore
    <3> QED BY <2>2, <3>1 DEF MissingTo
  <2>3. CASE Switch[l] = MISSING
    <3> DEFINE T == MissingBefore(l + 1)
    <3>1. l \in T /\ T \subseteq 1 .. nopts
      BY <1>1, <2>1, <2>3 DEF MissingBefore
    <3>2. \A i \in T : l >= i
      BY <1>1, <2>1 DEF MissingBefore
    <3>3. \A x \in T : (\A y \in T : x >= y) => x = l
      BY <2>1, <3>1, <3>2
    <3> HIDE DEF T
    <3>4. Max(T) = l
      BY <3>1, <3>2, <3>3 DEF Max
    <3>5. T # {}
      BY <3>1
    <3> QED BY <2>3, <3>4, <3>5 DEF MissingTo, T
  <2> QED BY <2>2, <2>3
<1> QED BY <1>2, <1>3, <1>4

(* A part of a meaning is the beginning of it. *)
LEMMA PrefixIs ==
  ASSUME NEW x \in Means, NEW y \in Means
  PROVE  IsPrefix(x, x \o y)
<1>1. Len(x) \in Nat /\ Len(y) \in Nat
  BY LenProperties DEF Means
<1>2. x \o y \in Means /\ Len(x \o y) = Len(x) + Len(y)
  BY ConcatProperties DEF Means
<1>3. Len(x) <= Len(x \o y)
  BY <1>1, <1>2
<1>4. CASE Len(x) = 0
  <2>1. SubSeq(x, 1, Len(x)) = <<>> /\ SubSeq(x \o y, 1, Len(x)) = <<>>
    BY <1>2, <1>4, SubSeqEmpty DEF Means
  <2> QED BY <1>3, <2>1 DEF IsPrefix
<1>5. CASE Len(x) # 0
  <2>1. 1 \in 1 .. Len(x) /\ Len(x) \in 1 .. Len(x)
    BY <1>1, <1>5
  <2>2. SubSeq(x \o y, 1, Len(x)) = SubSeq(x, 1, Len(x))
    BY <2>1, SubSeqOfConcat1 DEF Means
  <2> QED BY <1>3, <2>2 DEF IsPrefix
<1> QED BY <1>4, <1>5

(* The loop: what it has jumped to, the option in hand, and the options     *)
(* that are still to come make up the meaning of the command line.          *)
Pending == IF ch = "switch" THEN Append(jumps, Jump(opt_found, optarg)) ELSE jumps
StillAhead == Ahead(argv, optind, packedopts)

GetoptType ==
  /\ optreset \in BOOLEAN /\ getopt_initialized \in BOOLEAN
  /\ ch \in {"get", "init", "switch", "done"}
  /\ argv \in Seq(Word) /\ jumps \in Means
Phase ==
  /\ ch = "get" => (optreset /\ jumps = <<>>) \/ (~optreset /\ getopt_initialized)
  /\ ch \in {"switch", "done"} => ~optreset /\ getopt_initialized
Registering ==
  ch = "init" =>
    /\ ~optreset /\ ~getopt_initialized /\ optind = 1 /\ packedopts = 0 /\ jumps = <<>>
    /\ ln \in 0 .. Default
    /\ ln # 0 => opts = RegisteredTo(ln) /\ opt_missing = MissingTo(ln)
Initialized == getopt_initialized => opts = Registered /\ opt_missing = MissingLine
OnTheWay ==
  ch \in {"get", "switch"} /\ ~optreset =>
    /\ PlaceOK(argv, optind, packedopts)
    /\ Read(Pending \o StillAhead.jumps, StillAhead.next) = Meaning(argv)
OptionFound == ch = "switch" => opt_found \in Nat /\ optarg \in Word \cup {NOOPT} /\ FoundOK
AtTheEnd == ch = "done" => jumps = Meaning(argv).jumps /\ optind = Meaning(argv).next

GetoptIInv ==
  GetoptType /\ Phase /\ Registering /\ Initialized /\ OnTheWay /\ OptionFound /\ AtTheEnd

LEMMA CommandsAre == Commands \subseteq Seq(Word)
BY GetoptAssumption

LEMMA MeaningIs ==
  ASSUME NEW words \in Seq(Word)
  PROVE  /\ PlaceOK(words, 1, 0) /\ Ahead(words, 1, 0) = Meaning(words)
         /\ Meaning(words) = Read(Meaning(words).jumps, Meaning(words).next)
         /\ Meaning(words).jumps \in Means
<1>1. Len(words) \in Nat /\ 1 \in 1 .. Len(words) + 1
  BY WordsAre
<1>2. Ahead(words, 1, 0) = Meaning(words)
  BY DEF Ahead, Meaning
<1>3. PlaceOK(words, 1, 0)
  BY <1>1 DEF PlaceOK
<1> QED BY <1>2, <1>3, AheadIs DEF ReadTo

LEMMA GetoptInitInv == GetoptInit => GetoptIInv
<1> SUFFICES ASSUME GetoptInit PROVE GetoptIInv
  OBVIOUS
<1>1. <<>> \in Means
  BY DEF Means
<1>2. argv \in Seq(Word)
  BY CommandsAre DEF GetoptInit
<1> QED BY <1>1, <1>2 DEF GetoptInit, GetoptIInv, GetoptType, Phase, Registering, Initialized,
     OnTheWay, OptionFound, AtTheEnd

LEMMA ResetKeeps == GetoptIInv /\ reset => GetoptIInv'
<1> SUFFICES ASSUME GetoptIInv, reset PROVE GetoptIInv'
  OBVIOUS
<1>1. GetoptType' /\ Phase'
  BY DEF GetoptIInv, GetoptType, Phase, reset
<1>2. jumps' = <<>>
  BY DEF GetoptIInv, Phase, reset
<1>3. 0 \in 0 .. Default
  BY LinesAreNat
<1>4. Registering'
  BY <1>2, <1>3 DEF Registering, reset
<1>5. Initialized' /\ OnTheWay' /\ OptionFound' /\ AtTheEnd'
  BY DEF Initialized, OnTheWay, OptionFound, AtTheEnd, reset
<1> QED BY <1>1, <1>4, <1>5 DEF GetoptIInv

LEMMA SetrangeKeeps == GetoptIInv /\ getopt_setrange => GetoptIInv'
<1> SUFFICES ASSUME GetoptIInv, getopt_setrange PROVE GetoptIInv'
  OBVIOUS
<1>1. GetoptType' /\ Phase'
  BY DEF GetoptIInv, GetoptType, Phase, getopt_setrange
<1>2. 1 \in 0 .. Default
  <2>1. nopts \in Nat /\ Default = nopts + 1
    BY SwitchFacts
  <2> QED BY <2>1
<1>3. opts' = RegisteredTo(1) /\ opt_missing' = MissingTo(1)
  BY RegisteredSteps, MissingSteps DEF getopt_setrange
<1>4. Registering'
  BY <1>2, <1>3 DEF GetoptIInv, Registering, getopt_setrange
<1>5. Initialized' /\ OnTheWay' /\ OptionFound' /\ AtTheEnd'
  BY DEF GetoptIInv, Registering, Initialized, OnTheWay, OptionFound, AtTheEnd, getopt_setrange
<1> QED BY <1>1, <1>4, <1>5 DEF GetoptIInv

LEMMA RegisterKeeps == GetoptIInv /\ getopt_register => GetoptIInv'
<1> SUFFICES ASSUME GetoptIInv, getopt_register PROVE GetoptIInv'
  OBVIOUS
<1>1. GetoptType' /\ Phase'
  BY DEF GetoptIInv, GetoptType, Phase, getopt_register
<1>2. ln \in 1 .. nopts /\ ln # 0 /\ ln + 1 \in 0 .. Default
  <2>1. nopts \in Nat /\ Default = nopts + 1
    BY SwitchFacts
  <2> QED BY <2>1 DEF getopt_register
<1>3. opts = RegisteredTo(ln) /\ opt_missing = MissingTo(ln)
  BY <1>2 DEF GetoptIInv, Registering, getopt_register
<1>4. opts' = RegisteredTo(ln + 1) /\ opt_missing' = MissingTo(ln + 1)
  BY <1>2, <1>3, RegisteredSteps, MissingSteps DEF getopt_register
<1>5. Registering'
  BY <1>2, <1>4 DEF GetoptIInv, Registering, getopt_register
<1>6. Initialized' /\ OnTheWay' /\ OptionFound' /\ AtTheEnd'
  BY DEF GetoptIInv, Registering, Initialized, OnTheWay, OptionFound, AtTheEnd, getopt_register
<1> QED BY <1>1, <1>5, <1>6 DEF GetoptIInv

LEMMA DefaultKeeps == GetoptIInv /\ GETOPT_DEFAULT => GetoptIInv'
<1> SUFFICES ASSUME GetoptIInv, GETOPT_DEFAULT PROVE GetoptIInv'
  OBVIOUS
<1>1. /\ ch = "init" /\ ch' = "get" /\ ln = Default /\ getopt_initialized' = TRUE
      /\ UNCHANGED <<optreset, opts, opt_missing, optind, packedopts, argv, jumps>>
  BY DEF GETOPT_DEFAULT
<1>2. ~optreset /\ optind = 1 /\ packedopts = 0 /\ jumps = <<>> /\ argv \in Seq(Word)
  BY <1>1 DEF GetoptIInv, Registering, GetoptType
<1>3. opts = RegisteredTo(Default) /\ opt_missing = MissingTo(Default)
  <2>1. Default # 0
    <3>1. nopts \in Nat /\ Default = nopts + 1
      BY SwitchFacts
    <3> QED BY <3>1
  <2> QED BY <1>1, <2>1 DEF GetoptIInv, Registering
<1>4. GetoptType' /\ Phase'
  BY <1>1, <1>2 DEF GetoptIInv, GetoptType, Phase
<1>5. Initialized'
  BY <1>1, <1>3, RegisteredSteps, MissingSteps DEF Initialized
<1>6. OnTheWay'
  <2> DEFINE m == Meaning(argv)
  <2>1. PlaceOK(argv, 1, 0) /\ Ahead(argv, 1, 0) = m /\ m = Read(m.jumps, m.next) /\ m.jumps \in Means
    BY <1>2, MeaningIs
  <2>2. PlaceOK(argv, optind, packedopts)' /\ StillAhead' = m /\ Pending' = <<>> /\ Meaning(argv)' = m
    BY <1>1, <1>2, <2>1 DEF StillAhead, Pending
  <2> HIDE DEF m
  <2>3. <<>> \o m.jumps = m.jumps
    BY <2>1, ConcatEmptySeq DEF Means
  <2> QED BY <2>1, <2>2, <2>3 DEF OnTheWay
<1>7. Registering' /\ OptionFound' /\ AtTheEnd'
  BY <1>1 DEF Registering, OptionFound, AtTheEnd
<1> QED BY <1>4, <1>5, <1>6, <1>7 DEF GetoptIInv

LEMMA LookupKeeps == GetoptIInv /\ getopt_lookup => GetoptIInv'
<1> SUFFICES ASSUME GetoptIInv, getopt_lookup PROVE GetoptIInv'
  OBVIOUS
<1>1. /\ ch = "switch" /\ ch' = "get" /\ ~optreset /\ jumps' = Append(jumps, Jump(opt_found, optarg))
      /\ UNCHANGED <<optreset, getopt_initialized, opts, opt_missing, optind, packedopts, argv>>
  BY DEF getopt_lookup, Jump
<1>2. getopt_initialized
  BY <1>1 DEF GetoptIInv, Phase
<1>3. jumps' \in Means
  <2>1. jumps \in Means /\ opt_found \in Nat /\ optarg \in Word \cup {NOOPT}
    BY <1>1 DEF GetoptIInv, GetoptType, OptionFound
  <2>2. Jump(opt_found, optarg) \in AnyJump
    BY <2>1, JumpIs
  <2> QED BY <1>1, <2>1, <2>2, AppendProperties DEF Means
<1>4. GetoptType' /\ Phase'
  BY <1>1, <1>2, <1>3 DEF GetoptIInv, GetoptType, Phase
<1>5. Initialized'
  BY <1>1 DEF GetoptIInv, Initialized
<1>6. OnTheWay'
  <2>1. /\ PlaceOK(argv, optind, packedopts)
        /\ Read(Pending \o StillAhead.jumps, StillAhead.next) = Meaning(argv)
    BY <1>1 DEF GetoptIInv, OnTheWay
  <2>2. /\ PlaceOK(argv, optind, packedopts)' /\ StillAhead' = StillAhead
        /\ Pending' = Pending /\ Meaning(argv)' = Meaning(argv)
    BY <1>1, <2>1 DEF StillAhead, Pending
  <2> QED BY <2>1, <2>2 DEF OnTheWay
<1>7. Registering' /\ OptionFound' /\ AtTheEnd'
  BY <1>1 DEF Registering, OptionFound, AtTheEnd
<1> QED BY <1>4, <1>5, <1>6, <1>7 DEF GetoptIInv

LEMMA SetOptresetKeeps == GetoptIInv /\ SetOptreset => GetoptIInv'
<1> SUFFICES ASSUME GetoptIInv, SetOptreset PROVE GetoptIInv'
  OBVIOUS
<1>1. /\ ch' = "get" /\ optreset' = TRUE /\ argv' \in Commands /\ jumps' = <<>>
      /\ UNCHANGED <<getopt_initialized, opts, opt_missing>>
  BY DEF SetOptreset
<1>2. <<>> \in Means
  BY DEF Means
<1>3. GetoptType' /\ Phase'
  BY <1>1, <1>2, CommandsAre DEF GetoptIInv, GetoptType, Phase
<1>4. Initialized'
  BY <1>1 DEF GetoptIInv, Initialized
<1>5. Registering' /\ OnTheWay' /\ OptionFound' /\ AtTheEnd'
  BY <1>1 DEF Registering, OnTheWay, OptionFound, AtTheEnd
<1> QED BY <1>3, <1>4, <1>5 DEF GetoptIInv

LEMMA GetoptKeeps == GetoptIInv /\ getopt => GetoptIInv'
<1> SUFFICES ASSUME GetoptIInv, getopt PROVE GetoptIInv'
  OBVIOUS
<1> DEFINE m == Meaning(argv)
           a == Ahead(argv, optind, packedopts)
<1>1. ch = "get" /\ ~optreset /\ getopt_initialized
  BY DEF getopt
<1>2. /\ argv \in Seq(Word) /\ jumps \in Means /\ opts = Registered /\ opt_missing = MissingLine
      /\ PlaceOK(argv, optind, packedopts) /\ Pending = jumps /\ Read(jumps \o a.jumps, a.next) = m
  BY <1>1 DEF GetoptIInv, GetoptType, Initialized, OnTheWay, Pending, StillAhead
<1>3. Ready
  BY <1>2 DEF Ready
<1>4. ASSUME UNCHANGED <<optreset, getopt_initialized, opts, opt_missing, ln, argv, jumps>>,
             ch' \in {"switch", "done"}
      PROVE  GetoptType' /\ Phase' /\ Registering' /\ Initialized'
  BY <1>1, <1>4 DEF GetoptIInv, GetoptType, Phase, Registering, Initialized
<1>5. ASSUME Turned
      PROVE  GetoptIInv'
  <2> DEFINE j == Jump(opt_found', optarg')
             b == Ahead(argv, optind', packedopts')
  <2>1. /\ ch' = "switch" /\ FoundOK' /\ PlaceOK(argv, optind', packedopts')
        /\ UNCHANGED <<optreset, getopt_initialized, opts, opt_missing, ln, argv, jumps>>
        /\ opt_found' \in Nat /\ optarg' \in Word \cup {NOOPT}
        /\ a = Read(<<j>> \o b.jumps, b.next)
    BY <1>5 DEF Turned, Leads
  <2>2. j \in AnyJump /\ <<j>> \in Means
    BY <2>1, JumpIs
  <2>3. b.jumps \in Means
    BY <1>2, <2>1, AheadIs DEF ReadTo
  <2>4. Meaning(argv)' = m /\ StillAhead' = b /\ Pending' = Append(jumps, j)
        /\ PlaceOK(argv, optind, packedopts)'
    BY <2>1 DEF StillAhead, Pending
  <2> HIDE DEF m, a, b, j
  <2>5. a.jumps = <<j>> \o b.jumps /\ a.next = b.next
    <3> DEFINE x == <<j>> \o b.jumps
               n == b.next
    <3>1. a = Read(x, n)
      BY <2>1
    <3> HIDE DEF x, n
    <3>2. a.jumps = x /\ a.next = n
      BY ONLY <3>1, ReadFields
    <3> QED BY <3>2 DEF x, n
  <2>6. Append(jumps, j) \o b.jumps = jumps \o a.jumps
    <3>1. Append(jumps, j) = jumps \o <<j>>
      BY <1>2, <2>2, AppendIsConcat DEF Means
    <3>2. (jumps \o <<j>>) \o b.jumps = jumps \o (<<j>> \o b.jumps)
      BY <1>2, <2>2, <2>3, CatAssociates
    <3> QED BY <2>5, <3>1, <3>2
  <2>7. OnTheWay'
    BY <1>2, <2>4, <2>5, <2>6 DEF OnTheWay
  <2>8. OptionFound' /\ AtTheEnd'
    BY <2>1 DEF OptionFound, AtTheEnd
  <2> QED BY <1>4, <2>1, <2>7, <2>8 DEF GetoptIInv
<1>6. ASSUME ch' = "done", a = Read(<<>>, optind'),
             UNCHANGED <<optreset, getopt_initialized, opts, opt_missing, ln, argv, jumps>>
      PROVE  GetoptIInv'
  <2>1. Meaning(argv)' = m /\ jumps' = jumps
    BY <1>6
  <2> HIDE DEF m, a
  <2>2. a.jumps = <<>> /\ a.next = optind'
    BY <1>6, ReadFields
  <2>3. jumps \o <<>> = jumps
    BY <1>2, ConcatEmptySeq DEF Means
  <2>4. m.jumps = jumps /\ m.next = optind'
    BY <1>2, <2>2, <2>3, ReadFields
  <2>5. AtTheEnd'
    BY <2>1, <2>4 DEF AtTheEnd
  <2>6. OnTheWay' /\ OptionFound'
    BY <1>6 DEF OnTheWay, OptionFound
  <2> QED BY <1>4, <1>6, <2>5, <2>6 DEF GetoptIInv
<1> QED BY <1>3, <1>5, <1>6, GetoptTurn

LEMMA GetoptNextInv == GetoptIInv /\ [GetoptNext]_getoptvars => GetoptIInv'
<1>1. ASSUME GetoptIInv, UNCHANGED getoptvars PROVE GetoptIInv'
  BY <1>1 DEF getoptvars, GetoptIInv, GetoptType, Phase, Registering, Initialized, OnTheWay,
     OptionFound, AtTheEnd, FoundOK, Pending, StillAhead
<1> QED BY <1>1, ResetKeeps, SetrangeKeeps, RegisterKeeps, DefaultKeeps, GetoptKeeps, LookupKeeps,
     SetOptresetKeeps DEF GetoptNext

LEMMA OptionsSafe == GetoptIInv => OptionsRight
<1> SUFFICES ASSUME GetoptIInv PROVE OptionsRight
  OBVIOUS
<1> DEFINE m == Meaning(argv)
           a == StillAhead
<1>1. argv \in Seq(Word) /\ jumps \in Means /\ ch \in {"get", "init", "switch", "done"}
  BY DEF GetoptIInv, GetoptType
<1>2. m.jumps \in Means
  BY <1>1, MeaningIs
<1>3. ASSUME ch \in {"get", "switch"}, ~optreset
      PROVE  Pending \o a.jumps = m.jumps /\ a.jumps \in Means
  <2>1. PlaceOK(argv, optind, packedopts) /\ Read(Pending \o a.jumps, a.next) = m
    BY <1>3 DEF GetoptIInv, OnTheWay
  <2>2. a.jumps \in Means
    BY <1>1, <2>1, AheadIs DEF ReadTo, StillAhead
  <2> DEFINE x == Pending \o a.jumps
             n == a.next
  <2>3. m = Read(x, n)
    BY <2>1
  <2> HIDE DEF a, m, x, n
  <2>4. m.jumps = x
    BY ONLY <2>3, ReadFields
  <2> QED BY <2>2, <2>4 DEF x
<1>4. ASSUME ~optreset, getopt_initialized
      PROVE  IsPrefix(jumps, m.jumps)
  <2>1. CASE ch = "init"
    BY <1>4, <2>1 DEF GetoptIInv, Registering
  <2>2. CASE ch = "get"
    <3>1. jumps \o a.jumps = m.jumps /\ a.jumps \in Means
      BY <1>3, <1>4, <2>2 DEF Pending
    <3> HIDE DEF a, m
    <3> QED BY <1>1, <3>1, PrefixIs
  <2>3. CASE ch = "switch"
    <3> DEFINE j == Jump(opt_found, optarg)
    <3>1. Append(jumps, j) \o a.jumps = m.jumps /\ a.jumps \in Means
      BY <1>3, <1>4, <2>3 DEF Pending
    <3>2. j \in AnyJump /\ <<j>> \in Means
      BY <2>3, JumpIs DEF GetoptIInv, OptionFound
    <3> HIDE DEF a, m, j
    <3>3. Append(jumps, j) = jumps \o <<j>>
      BY <1>1, <3>2, AppendIsConcat DEF Means
    <3> DEFINE y == <<j>> \o a.jumps
    <3>4. m.jumps = jumps \o y /\ y \in Means
      <4> DEFINE x == <<j>>
                 z == a.jumps
      <4>1. x \in Means /\ z \in Means
        BY <3>1, <3>2
      <4>2. m.jumps = (jumps \o x) \o z
        BY <3>1, <3>3
      <4>3. y = x \o z
        OBVIOUS
      <4> HIDE DEF x, y, z
      <4>4. (jumps \o x) \o z = jumps \o (x \o z) /\ x \o z \in Means
        BY <1>1, <4>1, CatAssociates, CatIs
      <4> QED BY ONLY <4>2, <4>3, <4>4
    <3> HIDE DEF y
    <3> QED BY <1>1, <3>4, PrefixIs
  <2>4. CASE ch = "done"
    <3>1. jumps = m.jumps
      BY <2>4 DEF GetoptIInv, AtTheEnd
    <3>2. jumps \o <<>> = jumps /\ <<>> \in Means
      BY <1>1, ConcatEmptySeq DEF Means
    <3> HIDE DEF m
    <3>3. IsPrefix(jumps, jumps \o <<>>)
      BY <1>1, <3>2, PrefixIs
    <3> QED BY <3>1, <3>2, <3>3
  <2> QED BY <1>1, <2>1, <2>2, <2>3, <2>4
<1>5. ch = "done" => jumps = m.jumps /\ optind = m.next
  BY DEF GetoptIInv, AtTheEnd
<1>6. ch = "switch" => FoundOK
  BY DEF GetoptIInv, OptionFound
<1> QED BY <1>4, <1>5, <1>6 DEF OptionsRight, FoundOK

(* The loop jumps to the lines of the options that the command line means,  *)
(* in order and with their arguments, whatever the switch has for options   *)
(* and whatever words the command line is made of; optind is then the first *)
(* word that is not an option.                                              *)
THEOREM OptionsCorrect == GetoptSpec => []OptionsRight
<1>1. GetoptInit => GetoptIInv
  BY GetoptInitInv
<1>2. GetoptIInv /\ [GetoptNext]_getoptvars => GetoptIInv'
  BY GetoptNextInv
<1>3. GetoptIInv => OptionsRight
  BY OptionsSafe
<1> QED BY <1>1, <1>2, <1>3, PTL DEF GetoptSpec
===============================================================================
