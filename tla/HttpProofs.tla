----------------------------- MODULE HttpProofs -----------------------------
(***************************************************************************)
(* Proofs about the HTTP client: however the bytes of a response are cut   *)
(* up, the answer is what the response means.                              *)
(***************************************************************************)
EXTENDS Http, FiniteSetTheorems, SequenceTheorems, NaturalsInduction,
        WellFoundedInduction, TLAPS

----------------------------------------------------------------------------
(* Sequences of whatever it may be. *)
IsSeq(s) == \E B : s \in Seq(B)

LEMMA LeastNat ==
  ASSUME NEW T, T \subseteq Nat, T # {}
  PROVE  \E t \in T : \A y \in T : t <= y
<1>1. PICK t \in T : \A y \in T : ~(<<y, t>> \in OpToRel(<, Nat))
  <2>1. IsWellFoundedOn(OpToRel(<, Nat), Nat)
    BY NatLessThanWellFounded
  <2> QED BY <2>1, WFMin
<1>2. \A y \in T : ~(y < t)
  BY <1>1 DEF OpToRel
<1> QED BY <1>2

LEMMA FunIsSeq ==
  ASSUME NEW n \in Nat, NEW f, f = [i \in 1 .. n |-> f[i]]
  PROVE  IsSeq(f) /\ Len(f) = n
<1> DEFINE B == {f[i] : i \in 1 .. n}
<1>1. f \in [1 .. n -> B]
  OBVIOUS
<1>2. f \in Seq(B)
  BY <1>1
<1>3. Len(f) = n
  <2>1. DOMAIN f = 1 .. n /\ DOMAIN f = 1 .. Len(f) /\ Len(f) \in Nat
    BY <1>1, <1>2, LenProperties
  <2> QED BY <2>1
<1> QED BY <1>2, <1>3 DEF IsSeq

LEMMA SeqLen ==
  ASSUME NEW s, IsSeq(s)
  PROVE  Len(s) \in Nat /\ s = [i \in 1 .. Len(s) |-> s[i]]
<1>1. PICK B : s \in Seq(B)
  BY DEF IsSeq
<1>2. Len(s) \in Nat /\ s \in [1 .. Len(s) -> B]
  BY <1>1, LenProperties
<1> QED BY <1>2

LEMMA SeqEq ==
  ASSUME NEW s, NEW t, IsSeq(s), IsSeq(t), Len(s) = Len(t),
         \A i \in 1 .. Len(s) : s[i] = t[i]
  PROVE  s = t
<1> DEFINE n == Len(s)
<1>1. s = [i \in 1 .. n |-> s[i]] /\ t = [i \in 1 .. n |-> t[i]]
  BY SeqLen
<1>2. \A i \in 1 .. n : s[i] = t[i]
  OBVIOUS
<1> HIDE DEF n
<1>3. [i \in 1 .. n |-> s[i]] = [i \in 1 .. n |-> t[i]]
  BY ONLY <1>2
<1> QED BY ONLY <1>1, <1>3

LEMMA SeqCat ==
  ASSUME NEW s, NEW t, IsSeq(s), IsSeq(t)
  PROVE  /\ IsSeq(s \o t) /\ Len(s \o t) = Len(s) + Len(t)
         /\ \A i \in 1 .. Len(s) : (s \o t)[i] = s[i]
         /\ \A i \in 1 .. Len(t) : (s \o t)[Len(s) + i] = t[i]
<1>1. PICK B : s \in Seq(B)
  BY DEF IsSeq
<1>2. PICK D : t \in Seq(D)
  BY DEF IsSeq
<1> DEFINE E == B \cup D
<1>3. s \in Seq(E) /\ t \in Seq(E)
  BY <1>1, <1>2
<1> HIDE DEF E
<1>4. s \o t \in Seq(E) /\ Len(s \o t) = Len(s) + Len(t) /\ Len(s) \in Nat /\ Len(t) \in Nat
  BY <1>3
<1>5. \A i \in 1 .. Len(s) : (s \o t)[i] = s[i]
  BY <1>3, <1>4
<1>6. \A i \in 1 .. Len(t) : (s \o t)[Len(s) + i] = t[i]
  BY <1>3, <1>4
<1> QED BY <1>4, <1>5, <1>6 DEF IsSeq

LEMMA SeqSub ==
  ASSUME NEW s, IsSeq(s), NEW a \in Nat, NEW b \in Nat, a <= b, b <= Len(s)
  PROVE  /\ IsSeq(SubSeq(s, a + 1, b)) /\ Len(SubSeq(s, a + 1, b)) = b - a
         /\ \A i \in 1 .. b - a : SubSeq(s, a + 1, b)[i] = s[a + i]
<1>1. PICK B : s \in Seq(B)
  BY DEF IsSeq
<1> DEFINE u == SubSeq(s, a + 1, b)
<1>2. Len(s) \in Nat
  BY <1>1
<1>3. u = [i \in 1 .. b - a |-> s[a + i]]
  <2>1. u = [i \in 1 .. (b - (a + 1) + 1) |-> s[i + (a + 1) - 1]]
    BY <1>1, SubSeqProperties
  <2>2. b - (a + 1) + 1 = b - a /\ \A i \in 1 .. b - a : i + (a + 1) - 1 = a + i
    OBVIOUS
  <2> HIDE DEF u
  <2> QED BY <2>1, <2>2
<1> HIDE DEF u
<1>4. u = [i \in 1 .. b - a |-> u[i]] /\ b - a \in Nat
  BY <1>3
<1>5. IsSeq(u) /\ Len(u) = b - a
  <2> DEFINE n == b - a
  <2>1. n \in Nat /\ u = [i \in 1 .. n |-> u[i]]
    BY <1>4
  <2> HIDE DEF n
  <2>2. IsSeq(u) /\ Len(u) = n
    BY ONLY <2>1, FunIsSeq
  <2> QED BY <2>2 DEF n
<1>6. \A i \in 1 .. b - a : u[i] = s[a + i]
  BY <1>3
<1> QED BY <1>5, <1>6 DEF u

IsFlatten(f, s, n) == f = [i \in 1 .. n |-> IF i = 1 THEN s[i] ELSE f[i - 1] \o s[i]]

LEMMA FlattenExists ==
  ASSUME NEW s, NEW n \in Nat
  PROVE  \E f : IsFlatten(f, s, n)
<1> DEFINE T == {k \in Nat : ~ \E f : IsFlatten(f, s, k)}
<1> SUFFICES ASSUME T # {} PROVE FALSE
  OBVIOUS
<1>1. PICK t \in T : \A y \in T : t <= y
  BY LeastNat
<1>2. t \in Nat /\ ~ \E f : IsFlatten(f, s, t)
  OBVIOUS
<1>3. CASE t = 0
  <2> DEFINE f == [k \in 1 .. 0 |-> s]
  <2>1. IsFlatten(f, s, 0)
    BY DEF IsFlatten
  <2> QED BY <1>2, <1>3, <2>1
<1>4. CASE t # 0
  <2>1. t - 1 \in Nat /\ t - 1 \notin T
    BY <1>1, <1>2, <1>4
  <2>2. PICK g : IsFlatten(g, s, t - 1)
    BY <2>1
  <2> DEFINE f == [k \in 1 .. t |-> IF k = t THEN (IF t = 1 THEN s[t] ELSE g[t - 1] \o s[t]) ELSE g[k]]
  <2>3. \A k \in 1 .. t - 1 : f[k] = g[k] /\ k \in 1 .. t
    BY <1>2
  <2>4. ASSUME NEW k \in 1 .. t
        PROVE  f[k] = IF k = 1 THEN s[k] ELSE f[k - 1] \o s[k]
    <3>1. CASE k = t
      <4>1. t # 1 => f[k - 1] = g[t - 1]
        BY <1>2, <1>4, <2>3, <3>1
      <4>2. f[k] = IF t = 1 THEN s[t] ELSE g[t - 1] \o s[t]
        BY <3>1
      <4> HIDE DEF f
      <4> QED BY <3>1, <4>1, <4>2
    <3>2. CASE k # t
      <4>1. k \in 1 .. t - 1
        BY <1>2, <3>2
      <4>2. f[k] = g[k] /\ (k # 1 => f[k - 1] = g[k - 1])
        BY <1>2, <2>3, <4>1
      <4>3. g[k] = IF k = 1 THEN s[k] ELSE g[k - 1] \o s[k]
        BY <2>2, <4>1 DEF IsFlatten
      <4> HIDE DEF f
      <4> QED BY <4>2, <4>3
    <3> QED BY <3>1, <3>2
  <2>5. IsFlatten(f, s, t)
    <3>1. f = [k \in 1 .. t |-> f[k]]
      OBVIOUS
    <3> HIDE DEF f
    <3> QED BY <2>4, <3>1 DEF IsFlatten
  <2> QED BY <1>2, <2>5
<1> QED BY <1>3, <1>4

(* g is the first k sequences of s, of which number i ends at off[i]. *)
Flat(g, s, off, k) ==
  /\ IsSeq(g) /\ Len(g) = off[k]
  /\ \A i \in 1 .. k : \A j \in 1 .. Len(s[i]) : g[off[i - 1] + j] = s[i][j]
Ends(s, off, n) ==
  /\ off[0] = 0
  /\ \A i \in 0 .. n : off[i] \in Nat
  /\ \A i \in 1 .. n : IsSeq(s[i]) /\ off[i] = off[i - 1] + Len(s[i])

LEMMA EndsGrow ==
  ASSUME NEW s, NEW off, NEW n \in Nat, Ends(s, off, n)
  PROVE  \A i \in 0 .. n, j \in 0 .. n : i <= j => off[i] <= off[j]
<1> SUFFICES ASSUME NEW i \in 0 .. n PROVE \A j \in 0 .. n : i <= j => off[i] <= off[j]
  OBVIOUS
<1> DEFINE T == {j \in 0 .. n : i <= j /\ ~(off[i] <= off[j])}
<1> SUFFICES ASSUME T # {} PROVE FALSE
  OBVIOUS
<1>1. PICK t \in T : \A y \in T : t <= y
  <2>1. T \subseteq Nat
    OBVIOUS
  <2> QED BY <2>1, LeastNat
<1>2. t \in 0 .. n /\ i <= t /\ ~(off[i] <= off[t]) /\ off[i] \in Nat
  BY DEF Ends
<1>3. t # i
  BY <1>2
<1>4. t - 1 \in 0 .. n /\ i <= t - 1 /\ t \in 1 .. n /\ ~(t <= t - 1)
  BY <1>2, <1>3
<1>5. off[i] <= off[t - 1]
  BY <1>1, <1>4
<1>6. off[t] = off[t - 1] + Len(s[t]) /\ IsSeq(s[t]) /\ off[t - 1] \in Nat /\ off[t] \in Nat
  BY <1>4, <1>2 DEF Ends
<1>7. Len(s[t]) \in Nat
  BY <1>6, SeqLen
<1> QED BY <1>2, <1>5, <1>6, <1>7

LEMMA FlattenAt ==
  ASSUME NEW s, IsSeq(s), NEW off, NEW n, n = Len(s), Ends(s, off, n)
  PROVE  Flat(FlattenSeq(s), s, off, n)
<1>0. n \in Nat
  BY SeqLen
<1>1. CASE n = 0
  <2>1. FlattenSeq(s) = s
    BY <1>1 DEF FlattenSeq
  <2>2. \A i \in 1 .. n : FALSE
    BY <1>1
  <2> QED BY <1>1, <2>1, <2>2 DEF Flat, Ends
<1>2. CASE n # 0
  <2> DEFINE f == CHOOSE g : IsFlatten(g, s, n)
             T == {k \in 1 .. n : ~Flat(f[k], s, off, k)}
  <2>1. IsFlatten(f, s, n)
    BY <1>0, FlattenExists
  <2>2. FlattenSeq(s) = f[n]
    BY <1>2 DEF FlattenSeq, IsFlatten
  <2> HIDE DEF f
  <2>3. \A i \in 1 .. n : f[i] = IF i = 1 THEN s[i] ELSE f[i - 1] \o s[i]
    BY <2>1 DEF IsFlatten
  <2>4. ASSUME T # {} PROVE FALSE
    <3>1. PICK t \in T : \A y \in T : t <= y
      <4>1. T \subseteq Nat
        OBVIOUS
      <4> QED BY <2>4, <4>1, LeastNat
    <3>2. t \in 1 .. n /\ ~Flat(f[t], s, off, t)
      OBVIOUS
    <3>3. IsSeq(s[t]) /\ off[t] = off[t - 1] + Len(s[t]) /\ off[0] = 0 /\ Len(s[t]) \in Nat
      <4>1. IsSeq(s[t]) /\ off[t] = off[t - 1] + Len(s[t]) /\ off[0] = 0
        BY <3>2 DEF Ends
      <4> QED BY <4>1, SeqLen
    <3>4. CASE t = 1
      <4>1. f[t] = s[1] /\ t - 1 = 0
        BY <2>3, <3>2, <3>4
      <4>2. \A i \in 1 .. t : i = 1
        BY <3>4
      <4>3. off[1] = Len(s[1]) /\ \A j \in 1 .. Len(s[1]) : off[1 - 1] + j = j
        <5>1. \A j \in 1 .. Len(s[1]) : j \in Int
          OBVIOUS
        <5>2. 1 - 1 = 0
          OBVIOUS
        <5> QED BY <3>3, <3>4, <5>1, <5>2
      <4>4. Flat(s[1], s, off, 1)
        BY <3>3, <3>4, <4>2, <4>3 DEF Flat
      <4> QED BY <3>2, <3>4, <4>1, <4>4
    <3>5. CASE t # 1
      <4> DEFINE u == t - 1
      <4>1. u \in 1 .. n /\ ~(t <= u) /\ t = u + 1
        BY <3>2, <3>5
      <4>2. Flat(f[u], s, off, u)
        <5> HIDE DEF u
        <5> QED BY <3>1, <4>1
      <4>3. f[t] = f[u] \o s[t]
        BY <2>3, <3>2, <3>5
      <4> HIDE DEF u
      <4> DEFINE d == f[u] \o s[t]
      <4>4. IsSeq(f[u]) /\ Len(f[u]) = off[u] /\ off[u] \in Nat
        <5>1. u \in 0 .. n
          BY <1>0, <4>1
        <5> QED BY <4>2, <5>1 DEF Flat, Ends
      <4>5. /\ IsSeq(d) /\ Len(d) = off[u] + Len(s[t])
            /\ \A i \in 1 .. off[u] : d[i] = f[u][i]
            /\ \A i \in 1 .. Len(s[t]) : d[off[u] + i] = s[t][i]
        <5> DEFINE a == f[u]
                   b == s[t]
        <5>1. IsSeq(a) /\ IsSeq(b) /\ Len(a) = off[u]
          BY <3>3, <4>4
        <5> HIDE DEF a, b
        <5>2. /\ IsSeq(a \o b) /\ Len(a \o b) = Len(a) + Len(b)
              /\ \A i \in 1 .. Len(a) : (a \o b)[i] = a[i]
              /\ \A i \in 1 .. Len(b) : (a \o b)[Len(a) + i] = b[i]
          BY ONLY <5>1, SeqCat, SMTT(30)
        <5>3. d = a \o b
          BY DEF a, b
        <5> HIDE DEF d
        <5> QED BY ONLY <5>1, <5>2, <5>3 DEF a, b
      <4> HIDE DEF d
      <4>6. ASSUME NEW i \in 1 .. t, NEW j \in 1 .. Len(s[i]) PROVE d[off[i - 1] + j] = s[i][j]
        <5>1. CASE i = t
          <6>1. i - 1 = u
            BY <4>1, <5>1
          <6> QED BY <4>5, <5>1, <6>1
        <5>2. CASE i # t
          <6>1. i \in 1 .. u /\ i \in 1 .. n /\ i \in 0 .. n /\ u \in 0 .. n /\ i <= u /\ i - 1 \in 0 .. n
            BY <1>0, <4>1, <5>2, <3>2
          <6>2. off[i] <= off[u] /\ off[i] = off[i - 1] + Len(s[i]) /\ off[i - 1] \in Nat /\ off[i] \in Nat
            BY <1>0, <6>1, EndsGrow DEF Ends
          <6>3. Len(s[i]) \in Nat
            <7>1. IsSeq(s[i])
              BY <6>1 DEF Ends
            <7> QED BY <7>1, SeqLen
          <6>4. off[i - 1] + j \in 1 .. off[u]
            <7>1. off[u] \in Nat /\ j \in 1 .. Len(s[i])
              BY <4>4, <6>1
            <7> QED BY ONLY <6>2, <6>3, <7>1
          <6>5. f[u][off[i - 1] + j] = s[i][j]
            BY <4>2, <6>1 DEF Flat
          <6> QED BY <4>5, <6>4, <6>5
        <5> QED BY <5>1, <5>2
      <4>7. Len(d) = off[t]
        <5>1. off[t - 1] = off[u]
          BY <4>1
        <5> QED BY <3>3, <4>5, <5>1
      <4>8. Flat(d, s, off, t)
        BY <4>5, <4>6, <4>7 DEF Flat
      <4> QED BY <3>2, <4>3, <4>8 DEF d
    <3> QED BY <3>4, <3>5
  <2>5. n \in 1 .. n
    BY <1>0, <1>2
  <2> QED BY <2>2, <2>4, <2>5
<1> QED BY <1>1, <1>2


(* The sums of the beginnings of a sequence of numbers. *)
IsUpto(f, s, n) == f = [i \in 0 .. n |-> IF i = 0 THEN 0 ELSE f[i - 1] + s[i]]

LEMMA UptoExists ==
  ASSUME NEW s, NEW n \in Nat
  PROVE  \E f : IsUpto(f, s, n)
<1> DEFINE T == {k \in Nat : ~ \E f : IsUpto(f, s, k)}
<1> SUFFICES ASSUME T # {} PROVE FALSE
  OBVIOUS
<1>1. PICK t \in T : \A y \in T : t <= y
  BY LeastNat
<1>2. t \in Nat /\ ~ \E f : IsUpto(f, s, t)
  OBVIOUS
<1>3. CASE t = 0
  <2> DEFINE f == [k \in 0 .. 0 |-> 0]
  <2>1. IsUpto(f, s, 0)
    BY DEF IsUpto
  <2> QED BY <1>2, <1>3, <2>1
<1>4. CASE t # 0
  <2>1. t - 1 \in Nat /\ t - 1 \notin T
    BY <1>1, <1>2, <1>4
  <2>2. PICK g : IsUpto(g, s, t - 1)
    BY <2>1
  <2> DEFINE f == [k \in 0 .. t |-> IF k = t THEN g[t - 1] + s[t] ELSE g[k]]
  <2>3. \A k \in 0 .. t - 1 : f[k] = g[k]
    BY <1>2
  <2>4. ASSUME NEW k \in 0 .. t PROVE f[k] = IF k = 0 THEN 0 ELSE f[k - 1] + s[k]
    <3>1. CASE k = t
      <4>1. f[k - 1] = g[t - 1]
        BY <1>2, <1>4, <2>3, <3>1
      <4>2. f[k] = g[t - 1] + s[t]
        BY <3>1
      <4> HIDE DEF f
      <4> QED BY <1>4, <3>1, <4>1, <4>2
    <3>2. CASE k # t
      <4>1. k \in 0 .. t - 1
        BY <1>2, <3>2
      <4>2. f[k] = g[k] /\ (k # 0 => f[k - 1] = g[k - 1])
        BY <1>2, <2>3, <4>1
      <4>3. g[k] = IF k = 0 THEN 0 ELSE g[k - 1] + s[k]
        BY <2>2, <4>1 DEF IsUpto
      <4> HIDE DEF f
      <4> QED BY <4>2, <4>3
    <3> QED BY <3>1, <3>2
  <2>5. IsUpto(f, s, t)
    <3>1. f = [k \in 0 .. t |-> f[k]]
      OBVIOUS
    <3> HIDE DEF f
    <3> QED BY <2>4, <3>1 DEF IsUpto
  <2> QED BY <1>2, <2>5
<1> QED BY <1>3, <1>4

LEMMA UptoFacts ==
  ASSUME NEW s \in Seq(Nat \ {0})
  PROVE  /\ Len(s) \in Nat /\ Upto(s)[0] = 0
         /\ \A i \in 1 .. Len(s) : s[i] \in Nat /\ s[i] > 0 /\ Upto(s)[i] = Upto(s)[i - 1] + s[i]
         /\ \A i \in 0 .. Len(s) : Upto(s)[i] \in Nat
<1> DEFINE n == Len(s)
           f == CHOOSE g : IsUpto(g, s, n)
           T == {k \in 0 .. n : f[k] \notin Nat}
<1>0. n \in Nat /\ \A i \in 1 .. n : s[i] \in Nat /\ s[i] > 0
  BY LenProperties, ElementOfSeq
<1>1. IsUpto(f, s, n)
  BY <1>0, UptoExists
<1>2. Upto(s) = f
  BY DEF Upto, IsUpto
<1> HIDE DEF f, n
<1>3. \A i \in 0 .. n : f[i] = IF i = 0 THEN 0 ELSE f[i - 1] + s[i]
  BY <1>1 DEF IsUpto
<1>4. f[0] = 0 /\ \A i \in 1 .. n : f[i] = f[i - 1] + s[i]
  BY <1>0, <1>3
<1>5. ASSUME T # {} PROVE FALSE
  <2>1. PICK t \in T : \A y \in T : t <= y
    <3>1. T \subseteq Nat
      OBVIOUS
    <3> QED BY <1>5, <3>1, LeastNat
  <2>2. t \in 0 .. n /\ f[t] \notin Nat
    OBVIOUS
  <2>3. t # 0
    BY <1>4, <2>2
  <2>4. t - 1 \in 0 .. n /\ ~(t <= t - 1) /\ t \in 1 .. n
    BY <1>0, <2>2, <2>3
  <2>5. f[t - 1] \in Nat
    BY <2>1, <2>4
  <2>6. f[t] = f[t - 1] + s[t] /\ s[t] \in Nat
    BY <1>0, <1>4, <2>4
  <2> QED BY ONLY <2>2, <2>5, <2>6
<1>6. \A i \in 0 .. n : f[i] \in Nat
  BY <1>5
<1> QED BY <1>0, <1>2, <1>4, <1>6 DEF n

LEMMA UptoGrows ==
  ASSUME NEW s \in Seq(Nat \ {0})
  PROVE  \A i \in 0 .. Len(s), j \in 0 .. Len(s) : i <= j => Upto(s)[i] <= Upto(s)[j]
<1> DEFINE n == Len(s)
           f == Upto(s)
<1>0. n \in Nat /\ (\A i \in 1 .. n : s[i] \in Nat /\ f[i] = f[i - 1] + s[i]) /\ \A i \in 0 .. n : f[i] \in Nat
  BY UptoFacts
<1> HIDE DEF n, f
<1> SUFFICES ASSUME NEW i \in 0 .. n PROVE \A j \in 0 .. n : i <= j => f[i] <= f[j]
  BY DEF n, f
<1> DEFINE T == {j \in 0 .. n : i <= j /\ ~(f[i] <= f[j])}
<1> SUFFICES ASSUME T # {} PROVE FALSE
  OBVIOUS
<1>1. PICK t \in T : \A y \in T : t <= y
  <2>1. T \subseteq Nat
    OBVIOUS
  <2> QED BY <2>1, LeastNat
<1>2. t \in 0 .. n /\ i <= t /\ ~(f[i] <= f[t]) /\ f[i] \in Nat
  BY <1>0
<1>3. t # i
  BY <1>2
<1>4. t - 1 \in 0 .. n /\ i <= t - 1 /\ t \in 1 .. n /\ ~(t <= t - 1)
  BY <1>0, <1>2, <1>3
<1>5. f[i] <= f[t - 1]
  BY <1>1, <1>4
<1>6. f[t] = f[t - 1] + s[t] /\ s[t] \in Nat /\ f[t - 1] \in Nat
  BY <1>0, <1>4
<1> QED BY ONLY <1>2, <1>5, <1>6
----------------------------------------------------------------------------
(* The HTTP client.  Where its parts are in a response.  An interim response *)
(* takes 6 units and a head 5; a chunk takes 5 besides its data, 3 of them   *)
(* before the data.                                                         *)
HeadAt(k) == 6 * k
BodyAt(r) == 6 * r.interim + 5
ChunkAt(r, i) == BodyAt(r) + Upto(r.parts)[i - 1] + 5 * (i - 1)
Chunky == {"chunked", "badchunk", "longline"}

(* How many units of a head are before the empty line that ends it. *)
EndAt(r, k) == IF k < r.interim THEN 2 ELSE 1
NoEnd(r, k) == k = r.interim /\ r.enc = "longhdr"

(* s is the first n units of data. *)
IsData(s, n) == IsSeq(s) /\ Len(s) = n /\ \A x \in 1 .. n : s[x] = Unit("data", x)

(* The parts i have sizes that callback_chunkedheader lets pass. *)
SmallTo(r, n) == \A j \in 1 .. n : r.parts[j] <= HTTP_SIZE_MAX - 2

Bare(H) == H.body = <<>> /\ ~H.chunked
ReadingHead(r, p, H, k) ==
  /\ Bare(H) /\ p = HeadAt(k)
  /\ H.hepos <= EndAt(r, k) \/ NoEnd(r, k)
HeadRead(r, g, p, H, k) ==
  /\ Bare(H) /\ p = HeadAt(k)
  /\ H.hepos = EndAt(r, k) /\ ~NoEnd(r, k) /\ p + H.hepos + 4 <= g
ToEof(r, p, H) ==
  r.enc = "toeof" /\ ~H.ishead /\ IsData(H.body, p - BodyAt(r))
AtChunk(r, p, H, i) ==
  /\ r.enc \in Chunky /\ ~H.ishead /\ H.chunked
  /\ p = ChunkAt(r, i) /\ IsData(H.body, Upto(r.parts)[i - 1]) /\ SmallTo(r, i - 1)
InBody(r, p, H) ==
  /\ r.enc = "clen" /\ ~H.ishead /\ ~H.chunked
  /\ IsData(H.body, p - BodyAt(r)) /\ Total(r.parts) <= H.max
  /\ H.readlen = Total(r.parts) - (p - BodyAt(r))
(* d units of chunk i and the line end behind it were read. *)
InChunk(r, p, H, i, d) ==
  /\ r.enc \in Chunky /\ ~H.ishead /\ H.chunked
  /\ p = ChunkAt(r, i) + 3 + d /\ H.readlen = r.parts[i] + 2 - d /\ SmallTo(r, i)
  /\ Len(H.body) = Upto(r.parts)[i - 1] + d
  /\ \A x \in 1 .. Len(H.body) : x <= Upto(r.parts)[i] => H.body[x] = Unit("data", x)

(* What is known when function f is to run. *)
At(f, r, g, p, H) ==
  /\ f = "callback_read_header" => \E k \in 0 .. r.interim : ReadingHead(r, p, H, k)
  /\ f = "gotheaders" => \E k \in 0 .. r.interim : HeadRead(r, g, p, H, k)
  /\ f = "callback_read_toeof" => ToEof(r, p, H)
  /\ f = "callback_chunkedheader" => \E i \in 1 .. Len(r.parts) + 1 : AtChunk(r, p, H, i)
  /\ f = "callback_readdata" =>
       InBody(r, p, H) \/ \E i \in 1 .. Len(r.parts) : \E d \in 0 .. r.parts[i] + 2 : InChunk(r, p, H, i, d)

CookieFields == {"has", "max", "ishead", "usessl", "hepos", "head", "chunked", "readlen", "body", "alloc"}
CookieOK(H) ==
  /\ H = [f \in CookieFields |-> H[f]]
  /\ H.has \subseteq Handles /\ H.max \in MaxRLens /\ H.ishead \in BOOLEAN /\ H.usessl \in BOOLEAN
  /\ H.hepos \in Nat /\ H.chunked \in BOOLEAN /\ H.readlen \in Nat /\ H.alloc \in Nat
  /\ IsSeq(H.body) /\ Len(H.body) <= H.alloc /\ H.alloc <= H.max

Fresh(p, H) == p = 0 /\ H.hepos = 0 /\ Bare(H)

(* What the request is doing. *)
Waiting(r, g, p, H, w) ==
  \/ H.has = {"connect_cookie"} /\ w = NULL /\ Fresh(p, H)
  \/ /\ "R" \in H.has /\ "connect_cookie" \notin H.has
     /\ At(w.cb, r, g, p, H) /\ (w.cb = "callback_read_toeof" => w.len = 1)
Parsing(f, st, r, g, p, H) ==
  /\ "R" \in H.has /\ "connect_cookie" \notin H.has
  /\ At(f, r, g, p, H) /\ st # -1
  /\ st = 1 => f = "callback_read_toeof" /\ p = Len(Bytes(r))
Interrupted(f, st, flt) ==
  flt /\ f \in Waits /\ (st = -1 \/ (st = 1 /\ f # "callback_read_toeof"))
AnswerOK(a, r, H, flt) ==
  a # NULL => a = Meaning(r, H.max, H.ishead) \/ (a.kind = "fail" /\ flt)

HttpIInv ==
  /\ HttpTypeOK /\ stream = Bytes(resp)
  /\ AnswerOK(answer, resp, h0, fault)
  /\ hpc = "none" => answer = NULL /\ pos = 0
  /\ hpc \in {"none", "over"} => h = NULL /\ handles = {} /\ wait = NULL
  /\ hpc \notin {"none", "over"} =>
       /\ CookieOK(h) /\ h0.max = h.max /\ h0.ishead = h.ishead
       /\ "R" \notin h.has => wait = NULL
       /\ hpc # "callback_connected" => handles = h.has
  /\ hpc = "callback_connected" =>
       /\ h.has = {} /\ Fresh(pos, h) /\ handles = (IF hstatus = 0 THEN {"s"} ELSE {})
       /\ hstatus = -1 => fault
  /\ hpc = "loop" => Waiting(resp, got, pos, h, wait)
  /\ hpc \in Parser \ {"callback_connected"} =>
       \/ Interrupted(hpc, hstatus, fault)
       \/ Parsing(hpc, hstatus, resp, got, pos, h)

LEMMA Literals ==
  ASSUME NEW a, NEW b, NEW c, NEW d, NEW e, NEW f
  PROVE  /\ IsSeq(<<a, b>>) /\ Len(<<a, b>>) = 2
         /\ IsSeq(<<a, b, c>>) /\ Len(<<a, b, c>>) = 3
         /\ IsSeq(<<a, b, c, d, e>>) /\ Len(<<a, b, c, d, e>>) = 5
         /\ IsSeq(<<a, b, c, d, e, f>>) /\ Len(<<a, b, c, d, e, f>>) = 6
<1> DEFINE B == {a, b, c, d, e, f}
<1>1. <<a, b>> \in Seq(B) /\ <<a, b, c>> \in Seq(B)
  OBVIOUS
<1>2. <<a, b, c, d, e>> \in Seq(B) /\ <<a, b, c, d, e, f>> \in Seq(B)
  OBVIOUS
<1> QED BY <1>1, <1>2 DEF IsSeq

LEMMA CatThree ==
  ASSUME NEW u, NEW v, NEW w, IsSeq(u), IsSeq(v), IsSeq(w)
  PROVE  /\ IsSeq(u \o v \o w) /\ Len(u \o v \o w) = Len(u) + Len(v) + Len(w)
         /\ \A i \in 1 .. Len(u) : (u \o v \o w)[i] = u[i]
         /\ \A i \in 1 .. Len(v) : (u \o v \o w)[Len(u) + i] = v[i]
         /\ \A i \in 1 .. Len(w) : (u \o v \o w)[Len(u) + Len(v) + i] = w[i]
<1> DEFINE x == u \o v
           y == x \o w
           a == Len(u)
           b == Len(v)
           c == Len(w)
<1>0. a \in Nat /\ b \in Nat /\ c \in Nat
  BY SeqLen
<1>1. /\ IsSeq(x) /\ Len(x) = a + b
      /\ \A i \in 1 .. a : x[i] = u[i]
      /\ \A i \in 1 .. b : x[a + i] = v[i]
  BY SeqCat
<1> HIDE DEF x
<1>2. /\ IsSeq(y) /\ Len(y) = Len(x) + c
      /\ \A i \in 1 .. Len(x) : y[i] = x[i]
      /\ \A i \in 1 .. c : y[Len(x) + i] = w[i]
  <2>1. IsSeq(x) /\ IsSeq(w)
    BY <1>1
  <2> QED BY ONLY <2>1, SeqCat
<1> HIDE DEF y, a, b, c
<1>3. \A i \in 1 .. a : y[i] = u[i]
  BY ONLY <1>0, <1>1, <1>2
<1>4. \A i \in 1 .. b : y[a + i] = v[i]
  <2>1. \A i \in 1 .. b : a + i \in 1 .. a + b
    BY ONLY <1>0
  <2> QED BY ONLY <1>1, <1>2, <2>1
<1>5. \A i \in 1 .. c : y[a + b + i] = w[i]
  BY ONLY <1>1, <1>2
<1>6. Len(y) = a + b + c
  BY ONLY <1>1, <1>2
<1> QED BY <1>2, <1>3, <1>4, <1>5, <1>6 DEF a, b, c, x, y

(* How much of a sequence there is, and what it has, from a position on. *)
Has2(s, p, a, b) == p + 2 <= Len(s) /\ s[p + 1] = a /\ s[p + 2] = b
Has3(s, p, a, b, c) == p + 3 <= Len(s) /\ s[p + 1] = a /\ s[p + 2] = b /\ s[p + 3] = c
HasData(s, p, lo, n) ==
  p + n <= Len(s) /\ \A j \in 1 .. n : s[p + j] = Unit("data", lo + j)

LEMMA DataIs ==
  ASSUME NEW lo \in Nat, NEW n \in Nat
  PROVE  /\ IsSeq(Data(lo, n)) /\ Len(Data(lo, n)) = n
         /\ \A j \in 1 .. n : Data(lo, n)[j] = Unit("data", lo + j)
<1> DEFINE f == Data(lo, n)
<1>1. f = [i \in 1 .. n |-> f[i]] /\ \A j \in 1 .. n : f[j] = Unit("data", lo + j)
  BY DEF Data
<1> HIDE DEF f
<1>2. IsSeq(f) /\ Len(f) = n
  BY ONLY <1>1, n \in Nat, FunIsSeq
<1> QED BY <1>1, <1>2 DEF f

(* The interim responses. *)
Interims(k) == FlattenSeq([i \in 1 .. k |-> Interim])

LEMMA InterimsAre ==
  ASSUME NEW n \in Nat
  PROVE  /\ IsSeq(Interims(n)) /\ Len(Interims(n)) = HeadAt(n)
         /\ \A k \in 0 .. n - 1 : \A j \in 1 .. 6 : Interims(n)[HeadAt(k) + j] = Interim[j]
<1> DEFINE s == [i \in 1 .. n |-> Interim]
           off == [i \in 0 .. n |-> HeadAt(i)]
           x == Interims(n)
<1>1. IsSeq(s) /\ Len(s) = n
  <2>1. s = [i \in 1 .. n |-> s[i]]
    OBVIOUS
  <2> HIDE DEF s
  <2> QED BY <2>1, FunIsSeq
<1>2. \A i \in 1 .. n : s[i] = Interim
  OBVIOUS
<1>3. IsSeq(Interim) /\ Len(Interim) = 6
  BY Literals DEF Interim
<1>4. \A i \in 0 .. n : off[i] = 6 * i
  BY DEF HeadAt
<1>5. x = FlattenSeq(s)
  BY DEF Interims
<1> HIDE DEF s, off, x
<1>6. Ends(s, off, n)
  <2>1. off[0] = 0 /\ \A i \in 0 .. n : off[i] \in Nat
    BY <1>4
  <2>2. ASSUME NEW i \in 1 .. n PROVE IsSeq(s[i]) /\ off[i] = off[i - 1] + Len(s[i])
    <3>1. i \in 0 .. n /\ i - 1 \in 0 .. n
      OBVIOUS
    <3>2. off[i] = 6 * i /\ off[i - 1] = 6 * (i - 1)
      BY <1>4, <3>1
    <3>3. IsSeq(s[i]) /\ Len(s[i]) = 6
      BY <1>2, <1>3
    <3>4. i \in Int
      OBVIOUS
    <3> QED BY ONLY <3>2, <3>3, <3>4
  <2> QED BY <2>1, <2>2 DEF Ends
<1>7. Flat(x, s, off, n)
  BY <1>1, <1>5, <1>6, FlattenAt
<1>8. n \in 0 .. n
  OBVIOUS
<1>9. ASSUME NEW k \in 0 .. n - 1, NEW j \in 1 .. 6 PROVE x[HeadAt(k) + j] = Interim[j]
  <2>1. k + 1 \in 1 .. n /\ k + 1 - 1 = k /\ k \in 0 .. n
    OBVIOUS
  <2>2. s[k + 1] = Interim /\ off[k] = HeadAt(k)
    BY <1>2, <1>4, <2>1 DEF HeadAt
  <2>3. j \in 1 .. Len(s[k + 1])
    BY <1>3, <2>2
  <2>4. x[off[k + 1 - 1] + j] = s[k + 1][j]
    BY <1>7, <2>1, <2>3 DEF Flat
  <2> QED BY <2>1, <2>2, <2>4
<1> QED BY <1>4, <1>7, <1>8, <1>9 DEF Flat, HeadAt, x

(* The chunks of a body. *)
ChunkOf(parts, i) ==
  <<Unit("chunk", parts[i]), CR, LF>> \o Data(Upto(parts)[i - 1], parts[i]) \o <<CR, LF>>
ChunkEnd(parts, i) == Upto(parts)[i] + 5 * i

LEMMA ChunkOfIs ==
  ASSUME NEW parts \in Seq(Nat \ {0}), NEW i \in 1 .. Len(parts)
  PROVE  /\ IsSeq(ChunkOf(parts, i)) /\ Len(ChunkOf(parts, i)) = parts[i] + 5
         /\ Has3(ChunkOf(parts, i), 0, Unit("chunk", parts[i]), CR, LF)
         /\ HasData(ChunkOf(parts, i), 3, Upto(parts)[i - 1], parts[i])
<1> DEFINE n == parts[i]
           lo == Upto(parts)[i - 1]
           u == <<Unit("chunk", n), CR, LF>>
           v == Data(lo, n)
           w == <<CR, LF>>
           x == u \o v \o w
<1>1. n \in Nat /\ lo \in Nat
  <2>1. i \in 1 .. Len(parts) /\ i - 1 \in 0 .. Len(parts)
    BY UptoFacts
  <2> QED BY <2>1, UptoFacts
<1>2. IsSeq(u) /\ Len(u) = 3 /\ IsSeq(w) /\ Len(w) = 2
  BY Literals
<1>3. u[1] = Unit("chunk", n) /\ u[2] = CR /\ u[3] = LF
  OBVIOUS
<1>4. x = ChunkOf(parts, i)
  BY DEF ChunkOf
<1> HIDE DEF n, lo
<1>5. IsSeq(v) /\ Len(v) = n /\ \A j \in 1 .. n : v[j] = Unit("data", lo + j)
  BY <1>1, DataIs
<1> HIDE DEF u, v, w
<1>6. /\ IsSeq(x) /\ Len(x) = 3 + n + 2
      /\ \A j \in 1 .. 3 : x[j] = u[j]
      /\ \A j \in 1 .. n : x[3 + j] = v[j]
  <2>1. /\ IsSeq(x) /\ Len(x) = Len(u) + Len(v) + Len(w)
        /\ \A j \in 1 .. Len(u) : x[j] = u[j]
        /\ \A j \in 1 .. Len(v) : x[Len(u) + j] = v[j]
    <3>1. IsSeq(u) /\ IsSeq(v) /\ IsSeq(w)
      BY <1>2, <1>5
    <3> QED BY ONLY <3>1, CatThree
  <2> HIDE DEF x
  <2> QED BY ONLY <1>2, <1>5, <2>1
<1> HIDE DEF x
<1>7. Has3(x, 0, Unit("chunk", n), CR, LF)
  <2>1. 0 + 1 = 1 /\ 0 + 2 = 2 /\ 0 + 3 = 3 /\ 1 \in 1 .. 3 /\ 2 \in 1 .. 3 /\ 3 \in 1 .. 3
    OBVIOUS
  <2>2. 3 <= Len(x)
    BY <1>1, <1>6
  <2> QED BY ONLY <1>3, <1>6, <2>1, <2>2 DEF Has3
<1>8. HasData(x, 3, lo, n)
  <2>1. 3 + n <= Len(x)
    BY <1>1, <1>6
  <2> QED BY ONLY <1>5, <1>6, <2>1 DEF HasData
<1>9. Len(x) = n + 5
  BY ONLY <1>1, <1>6
<1> QED BY <1>4, <1>6, <1>7, <1>8, <1>9 DEF n, lo

LEMMA ChunksAre ==
  ASSUME NEW parts \in Seq(Nat \ {0})
  PROVE  /\ IsSeq(Chunks(parts)) /\ Len(Chunks(parts)) = ChunkEnd(parts, Len(parts))
         /\ \A i \in 1 .. Len(parts) :
              \A j \in 1 .. parts[i] + 5 : Chunks(parts)[ChunkEnd(parts, i - 1) + j] = ChunkOf(parts, i)[j]
<1> DEFINE n == Len(parts)
           s == [i \in DOMAIN parts |-> ChunkOf(parts, i)]
           off == [i \in 0 .. n |-> ChunkEnd(parts, i)]
           x == Chunks(parts)
<1>0. n \in Nat /\ DOMAIN parts = 1 .. n
  BY LenProperties
<1>1. IsSeq(s) /\ Len(s) = n
  <2>1. s = [i \in 1 .. n |-> s[i]]
    BY <1>0
  <2> HIDE DEF s, n
  <2> QED BY ONLY <1>0, <2>1, FunIsSeq
<1>2. \A i \in 1 .. n : s[i] = ChunkOf(parts, i) /\ IsSeq(s[i]) /\ Len(s[i]) = parts[i] + 5
  BY <1>0, ChunkOfIs
<1>3. \A i \in 0 .. n : off[i] = ChunkEnd(parts, i)
  OBVIOUS
<1>4. x = FlattenSeq(s)
  BY DEF Chunks, ChunkOf
<1> HIDE DEF s, off, x
<1>5. Ends(s, off, n)
  <2>1. off[0] = 0
    <3>1. 0 \in 0 .. n /\ Upto(parts)[0] = 0
      BY <1>0, UptoFacts
    <3> QED BY <1>3, <3>1 DEF ChunkEnd
  <2>2. \A i \in 0 .. n : off[i] \in Nat
    <3>1. \A i \in 0 .. n : Upto(parts)[i] \in Nat
      BY UptoFacts
    <3> QED BY <1>3, <3>1 DEF ChunkEnd
  <2>3. ASSUME NEW i \in 1 .. n PROVE IsSeq(s[i]) /\ off[i] = off[i - 1] + Len(s[i])
    <3>1. i \in 0 .. n /\ i - 1 \in 0 .. n
      BY <1>0
    <3> DEFINE a == Upto(parts)[i]
               b == Upto(parts)[i - 1]
               c == parts[i]
    <3>2. a \in Nat /\ b \in Nat /\ c \in Nat /\ a = b + c
      BY <3>1, UptoFacts
    <3>3. off[i] = a + 5 * i /\ off[i - 1] = b + 5 * (i - 1) /\ Len(s[i]) = c + 5
      BY <1>2, <1>3, <3>1 DEF ChunkEnd
    <3> HIDE DEF a, b, c
    <3>4. off[i] = off[i - 1] + Len(s[i])
      BY ONLY <3>1, <3>2, <3>3, <1>0
    <3> QED BY <1>2, <3>4
  <2> QED BY <2>1, <2>2, <2>3 DEF Ends
<1>6. Flat(x, s, off, n)
  BY <1>1, <1>4, <1>5, FlattenAt
<1>7. n \in 0 .. n
  BY <1>0
<1>8. ASSUME NEW i \in 1 .. n, NEW j \in 1 .. parts[i] + 5
      PROVE  x[ChunkEnd(parts, i - 1) + j] = ChunkOf(parts, i)[j]
  <2>1. i - 1 \in 0 .. n
    BY <1>0
  <2>2. s[i] = ChunkOf(parts, i) /\ off[i - 1] = ChunkEnd(parts, i - 1) /\ j \in 1 .. Len(s[i])
    BY <1>2, <1>3, <2>1
  <2>3. x[off[i - 1] + j] = s[i][j]
    BY <1>6, <2>2 DEF Flat
  <2> QED BY <2>2, <2>3
<1> QED BY <1>3, <1>6, <1>7, <1>8 DEF Flat, x

(* w is the part of x behind position o. *)
Within(x, o, w) ==
  /\ IsSeq(x) /\ IsSeq(w) /\ o \in Nat /\ o + Len(w) <= Len(x)
  /\ \A i \in 1 .. Len(w) : x[o + i] = w[i]

LEMMA WithinWithin ==
  ASSUME NEW x, NEW o, NEW y, NEW p, NEW w, Within(x, o, y), Within(y, p, w)
  PROVE  Within(x, o + p, w)
<1> DEFINE n == Len(w)
           m == Len(y)
           l == Len(x)
<1>1. n \in Nat /\ m \in Nat /\ l \in Nat
  BY SeqLen DEF Within
<1>2. /\ o \in Nat /\ p \in Nat /\ o + m <= l /\ p + n <= m /\ IsSeq(x) /\ IsSeq(w)
      /\ \A i \in 1 .. m : x[o + i] = y[i]
      /\ \A i \in 1 .. n : y[p + i] = w[i]
  BY DEF Within
<1> HIDE DEF n, m, l
<1>3. \A i \in 1 .. n : x[o + p + i] = w[i]
  <2>1. \A i \in 1 .. n : p + i \in 1 .. m /\ o + (p + i) = o + p + i
    BY ONLY <1>1, <1>2
  <2> QED BY ONLY <1>2, <2>1
<1>4. o + p \in Nat /\ o + p + n <= l
  BY ONLY <1>1, <1>2
<1> QED BY <1>2, <1>3, <1>4 DEF Within, n, l

LEMMA WithinHas ==
  ASSUME NEW x, NEW o, NEW w, Within(x, o, w), NEW p \in Nat
  PROVE  /\ \A a, b : Has2(w, p, a, b) => Has2(x, o + p, a, b)
         /\ \A a, b, c : Has3(w, p, a, b, c) => Has3(x, o + p, a, b, c)
         /\ \A lo, n \in Nat : HasData(w, p, lo, n) => HasData(x, o + p, lo, n)
<1> DEFINE m == Len(w)
           l == Len(x)
<1>1. m \in Nat /\ l \in Nat
  BY SeqLen DEF Within
<1>2. o \in Nat /\ o + m <= l /\ \A i \in 1 .. m : x[o + i] = w[i]
  BY DEF Within
<1> HIDE DEF m, l
<1>3. \A i \in Nat : p + i <= m /\ i >= 1 => x[o + p + i] = w[p + i]
  <2>1. \A i \in Nat : p + i <= m /\ i >= 1 => p + i \in 1 .. m /\ o + (p + i) = o + p + i
    BY ONLY <1>1, <1>2, p \in Nat
  <2> QED BY ONLY <1>2, <2>1
<1>4. \A i \in Nat : p + i <= m => o + p + i <= l
  BY ONLY <1>1, <1>2, p \in Nat
<1>5. ASSUME NEW a, NEW b, Has2(w, p, a, b) PROVE Has2(x, o + p, a, b)
  <2>1. p + 2 <= m /\ w[p + 1] = a /\ w[p + 2] = b
    BY <1>5 DEF Has2, m
  <2>2. p + 1 <= m /\ 1 \in Nat /\ 2 \in Nat
    BY ONLY <2>1, <1>1, p \in Nat
  <2> QED BY ONLY <1>3, <1>4, <2>1, <2>2 DEF Has2, l
<1>6. ASSUME NEW a, NEW b, NEW c, Has3(w, p, a, b, c) PROVE Has3(x, o + p, a, b, c)
  <2>1. p + 3 <= m /\ w[p + 1] = a /\ w[p + 2] = b /\ w[p + 3] = c
    BY <1>6 DEF Has3, m
  <2>2. p + 1 <= m /\ p + 2 <= m /\ 1 \in Nat /\ 2 \in Nat /\ 3 \in Nat
    BY ONLY <2>1, <1>1, p \in Nat
  <2> QED BY ONLY <1>3, <1>4, <2>1, <2>2 DEF Has3, l
<1>7. ASSUME NEW lo, NEW n \in Nat, HasData(w, p, lo, n) PROVE HasData(x, o + p, lo, n)
  <2>1. p + n <= m /\ \A j \in 1 .. n : w[p + j] = Unit("data", lo + j)
    BY <1>7 DEF HasData, m
  <2>2. \A j \in 1 .. n : j \in Nat /\ j >= 1 /\ p + j <= m
    BY ONLY <2>1, <1>1, p \in Nat, n \in Nat
  <2>3. \A j \in 1 .. n : x[o + p + j] = Unit("data", lo + j)
    BY ONLY <1>3, <2>1, <2>2
  <2>4. o + p + n <= l
    BY ONLY <1>4, <2>1, n \in Nat
  <2> QED BY <2>3, <2>4 DEF HasData, l
<1> QED BY <1>5, <1>6, <1>7

LEMMA WithinCat ==
  ASSUME NEW u, NEW v, IsSeq(u), IsSeq(v)
  PROVE  Within(u \o v, 0, u) /\ Within(u \o v, Len(u), v)
<1> DEFINE x == u \o v
           a == Len(u)
           b == Len(v)
<1>1. a \in Nat /\ b \in Nat
  BY SeqLen
<1>2. IsSeq(x) /\ Len(x) = a + b /\ (\A i \in 1 .. a : x[i] = u[i]) /\ \A i \in 1 .. b : x[a + i] = v[i]
  BY SeqCat
<1> HIDE DEF x, a, b
<1>3. (\A i \in 1 .. a : 0 + i = i) /\ 0 + a <= a + b /\ 0 \in Nat
  BY ONLY <1>1
<1> QED BY <1>1, <1>2, <1>3 DEF Within, a, b, x

LEMMA WithinCatThree ==
  ASSUME NEW u, NEW v, NEW w, IsSeq(u), IsSeq(v), IsSeq(w)
  PROVE  /\ Within(u \o v \o w, 0, u) /\ Within(u \o v \o w, Len(u), v)
         /\ Within(u \o v \o w, Len(u) + Len(v), w)
<1> DEFINE x == u \o v \o w
           a == Len(u)
           b == Len(v)
           c == Len(w)
<1>1. a \in Nat /\ b \in Nat /\ c \in Nat
  BY SeqLen
<1>2. /\ IsSeq(x) /\ Len(x) = a + b + c
      /\ \A i \in 1 .. a : x[i] = u[i]
      /\ \A i \in 1 .. b : x[a + i] = v[i]
      /\ \A i \in 1 .. c : x[a + b + i] = w[i]
  BY ONLY IsSeq(u), IsSeq(v), IsSeq(w), CatThree
<1> HIDE DEF x, a, b, c
<1>3. /\ \A i \in 1 .. a : 0 + i = i
      /\ 0 + a <= a + b + c /\ a + b <= a + b + c /\ 0 \in Nat /\ a + b \in Nat
  BY ONLY <1>1
<1> QED BY <1>1, <1>2, <1>3 DEF Within, a, b, c, x
----------------------------------------------------------------------------
(* Where things are in a response. *)
HeadType(r) == IF r.enc \in {"badchunk", "longline"} THEN "chunked" ELSE r.enc
LastChunk(r) == Len(r.parts) + 1

LaidOut(r, s) ==
  /\ IsSeq(s)
  /\ \A k \in 0 .. r.interim - 1 :
       Has3(s, HeadAt(k), Unit("1xx", 0), Unit("data", 0), CR) /\ Has3(s, HeadAt(k) + 3, LF, CR, LF)
  /\ r.enc = "longhdr" =>
       Len(s) = HeadAt(r.interim) + MAXHDR + 1 /\ HasData(s, HeadAt(r.interim), 0, MAXHDR + 1)
  /\ r.enc # "longhdr" =>
       /\ Has3(s, HeadAt(r.interim), Unit(HeadType(r), Total(r.parts)), CR, LF)
       /\ Has2(s, HeadAt(r.interim) + 3, CR, LF)
  /\ r.enc \in {"clen", "toeof"} =>
       Len(s) = BodyAt(r) + Total(r.parts) /\ HasData(s, BodyAt(r), 0, Total(r.parts))
  /\ r.enc \in Chunky =>
       \A i \in 1 .. Len(r.parts) :
         /\ Has3(s, ChunkAt(r, i), Unit("chunk", r.parts[i]), CR, LF)
         /\ HasData(s, ChunkAt(r, i) + 3, Upto(r.parts)[i - 1], r.parts[i])
  /\ r.enc = "chunked" => Has3(s, ChunkAt(r, LastChunk(r)), Unit("chunk", 0), CR, LF)
  /\ r.enc = "badchunk" => Has3(s, ChunkAt(r, LastChunk(r)), Unit("data", 0), CR, LF)
  /\ r.enc = "longline" =>
       /\ Len(s) = ChunkAt(r, LastChunk(r)) + MAXCHLEN
       /\ HasData(s, ChunkAt(r, LastChunk(r)), 0, MAXCHLEN)

LEMMA HttpConsts ==
  /\ MAXHDR \in Nat /\ MAXHDR > 4 /\ MAXCHLEN \in Nat /\ MAXCHLEN > 2
  /\ READMAX \in Nat /\ READMAX > 0 /\ HTTP_SIZE_MAX \in Nat
  /\ \A n \in MaxRLens : n \in Nat /\ n <= HTTP_SIZE_MAX
<1>1. {MAXHDR, MAXCHLEN, READMAX, HTTP_SIZE_MAX} \cup MaxRLens \subseteq Nat
  BY HttpAssumption
<1>2. READMAX > 0 /\ MAXHDR > 4 /\ MAXCHLEN > 2 /\ \A n \in MaxRLens : n <= HTTP_SIZE_MAX
  BY HttpAssumption
<1> QED BY ONLY <1>1, <1>2

Encs == {"clen", "toeof", "chunked", "badchunk", "longline", "bad", "badclen", "204", "longhdr"}

LEMMA ResponseFacts ==
  ASSUME NEW r \in Responses
  PROVE  /\ r.interim \in Nat /\ r.parts \in Seq(Nat \ {0}) /\ Len(r.parts) \in Nat
         /\ r.enc \in Encs /\ Total(r.parts) \in Nat
         /\ r.enc \in {"bad", "badclen", "204", "longhdr"} => r.parts = <<>>
         /\ BodyAt(r) \in Nat /\ HeadAt(r.interim) + 5 = BodyAt(r)
<1>1. /\ r.interim \in Nat /\ r.parts \in Seq(Nat \ {0})
      /\ r.enc \in Encs
      /\ r.enc \in {"bad", "badclen", "204", "longhdr"} => r.parts = <<>>
  BY HttpAssumption DEF Encs
<1>2. Len(r.parts) \in Nat /\ Total(r.parts) \in Nat
  <2> DEFINE s == r.parts
  <2>1. s \in Seq(Nat \ {0})
    BY <1>1
  <2> HIDE DEF s
  <2>2. Len(s) \in Nat /\ \A i \in 0 .. Len(s) : Upto(s)[i] \in Nat
    BY <2>1, UptoFacts
  <2>3. Len(s) \in 0 .. Len(s)
    BY <2>2
  <2> QED BY <2>2, <2>3 DEF Total, s
<1>3. BodyAt(r) \in Nat /\ HeadAt(r.interim) + 5 = BodyAt(r)
  BY <1>1 DEF BodyAt, HeadAt
<1> QED BY <1>1, <1>2, <1>3

Header(r) ==
  IF r.enc = "longhdr" THEN Data(0, MAXHDR + 1) ELSE HeadOf(HeadType(r), Total(r.parts))

LEMMA HeaderIs ==
  ASSUME NEW r \in Responses
  PROVE  /\ IsSeq(Header(r))
         /\ r.enc = "longhdr" => Len(Header(r)) = MAXHDR + 1 /\ HasData(Header(r), 0, 0, MAXHDR + 1)
         /\ r.enc # "longhdr" =>
              /\ Len(Header(r)) = 5
              /\ Has3(Header(r), 0, Unit(HeadType(r), Total(r.parts)), CR, LF)
              /\ Has2(Header(r), 3, CR, LF)
<1> DEFINE x == Header(r)
<1>1. CASE r.enc = "longhdr"
  <2> DEFINE n == MAXHDR + 1
  <2>1. n \in Nat /\ x = Data(0, n) /\ 0 \in Nat
    BY <1>1, HttpConsts DEF Header
  <2> HIDE DEF x, n
  <2>2. IsSeq(x) /\ Len(x) = n /\ \A j \in 1 .. n : x[j] = Unit("data", 0 + j)
    BY <2>1, DataIs
  <2>3. HasData(x, 0, 0, n)
    BY <2>1, <2>2 DEF HasData
  <2> QED BY <1>1, <2>2, <2>3 DEF x, n
<1>2. CASE r.enc # "longhdr"
  <2> DEFINE u == Unit(HeadType(r), Total(r.parts))
  <2>1. x = <<u, CR, LF, CR, LF>>
    BY <1>2 DEF Header, HeadOf
  <2> HIDE DEF x, u
  <2>2. IsSeq(x) /\ Len(x) = 5
    BY <2>1, Literals
  <2>3. x[1] = u /\ x[2] = CR /\ x[3] = LF /\ x[4] = CR /\ x[5] = LF
    BY <2>1
  <2>4. Has3(x, 0, u, CR, LF) /\ Has2(x, 3, CR, LF)
    BY <2>2, <2>3 DEF Has3, Has2
  <2> QED BY <1>2, <2>2, <2>4 DEF x, u
<1> QED BY <1>1, <1>2

(* What follows the chunks. *)
Trailer(r) ==
  CASE r.enc = "chunked" -> <<Unit("chunk", 0), CR, LF, CR, LF>>
    [] r.enc = "badchunk" -> <<Unit("data", 0), CR, LF>>
    [] OTHER -> Data(0, MAXCHLEN)

LEMMA TrailerIs ==
  ASSUME NEW r \in Responses, r.enc \in Chunky
  PROVE  /\ IsSeq(Trailer(r))
         /\ r.enc = "chunked" => Has3(Trailer(r), 0, Unit("chunk", 0), CR, LF)
         /\ r.enc = "badchunk" => Has3(Trailer(r), 0, Unit("data", 0), CR, LF)
         /\ r.enc = "longline" => Len(Trailer(r)) = MAXCHLEN /\ HasData(Trailer(r), 0, 0, MAXCHLEN)
<1> DEFINE x == Trailer(r)
<1>1. CASE r.enc = "chunked"
  <2> DEFINE u == Unit("chunk", 0)
  <2>1. x = <<u, CR, LF, CR, LF>>
    BY <1>1 DEF Trailer
  <2> HIDE DEF x, u
  <2>2. IsSeq(x) /\ Len(x) = 5
    BY <2>1, Literals
  <2>3. x[1] = u /\ x[2] = CR /\ x[3] = LF
    BY <2>1
  <2>4. Has3(x, 0, u, CR, LF)
    BY <2>2, <2>3 DEF Has3
  <2> QED BY <1>1, <2>2, <2>4 DEF x, u
<1>2. CASE r.enc = "badchunk"
  <2> DEFINE u == Unit("data", 0)
  <2>1. x = <<u, CR, LF>>
    BY <1>2 DEF Trailer
  <2> HIDE DEF x, u
  <2>2. IsSeq(x) /\ Len(x) = 3
    BY <2>1, Literals
  <2>3. x[1] = u /\ x[2] = CR /\ x[3] = LF
    BY <2>1
  <2>4. Has3(x, 0, u, CR, LF)
    BY <2>2, <2>3 DEF Has3
  <2> QED BY <1>2, <2>2, <2>4 DEF x, u
<1>3. CASE r.enc = "longline"
  <2>1. MAXCHLEN \in Nat /\ x = Data(0, MAXCHLEN) /\ 0 \in Nat
    BY <1>3, HttpConsts DEF Trailer
  <2> HIDE DEF x
  <2>2. IsSeq(x) /\ Len(x) = MAXCHLEN /\ \A j \in 1 .. MAXCHLEN : x[j] = Unit("data", 0 + j)
    BY <2>1, DataIs
  <2>3. HasData(x, 0, 0, MAXCHLEN)
    BY <2>1, <2>2 DEF HasData
  <2> QED BY <1>3, <2>2, <2>3 DEF x
<1> QED BY <1>1, <1>2, <1>3 DEF Chunky

LEMMA BodyIs ==
  ASSUME NEW r \in Responses
  PROVE  /\ IsSeq(Body(r))
         /\ r.enc \in {"clen", "toeof"} => Body(r) = Data(0, Total(r.parts))
         /\ r.enc \in Chunky => Body(r) = Chunks(r.parts) \o Trailer(r)
         /\ r.enc = "longhdr" => Len(Body(r)) = 0
<1>0. /\ r.enc \in Encs /\ Total(r.parts) \in Nat /\ r.parts \in Seq(Nat \ {0})
  BY ResponseFacts
<1>1. CASE r.enc \in {"clen", "toeof"}
  <2>1. Body(r) = Data(0, Total(r.parts))
    BY <1>1 DEF Body
  <2>2. r.enc \notin Chunky /\ r.enc # "longhdr"
    BY <1>1 DEF Chunky
  <2> QED BY <1>0, <2>1, <2>2, DataIs
<1>2. CASE r.enc \in Chunky
  <2>1. Body(r) = Chunks(r.parts) \o Trailer(r)
    <3>1. CASE r.enc = "chunked"
      BY <3>1 DEF Body, Trailer
    <3>2. CASE r.enc = "badchunk"
      BY <3>2 DEF Body, Trailer
    <3>3. CASE r.enc = "longline"
      BY <3>3 DEF Body, Trailer
    <3> QED BY <1>2, <3>1, <3>2, <3>3 DEF Chunky
  <2>2. IsSeq(Chunks(r.parts)) /\ IsSeq(Trailer(r))
    BY <1>0, <1>2, ChunksAre, TrailerIs
  <2>3. IsSeq(Body(r))
    BY <2>1, <2>2, SeqCat
  <2>4. r.enc \notin {"clen", "toeof"} /\ r.enc # "longhdr"
    BY <1>2 DEF Chunky
  <2> QED BY <2>1, <2>3, <2>4
<1>3. CASE r.enc \notin {"clen", "toeof"} /\ r.enc \notin Chunky
  <2>1. Body(r) = <<>>
    BY <1>3 DEF Body, Chunky
  <2>2. <<>> \in Seq({})
    OBVIOUS
  <2> QED BY <1>3, <2>1, <2>2 DEF IsSeq
<1> QED BY <1>1, <1>2, <1>3

LEMMA LaidOutOK ==
  ASSUME NEW r \in Responses
  PROVE  LaidOut(r, Bytes(r))
<1> DEFINE s == Bytes(r)
           u == Interims(r.interim)
           v == Header(r)
           w == Body(r)
           n == r.interim
<1>0. /\ n \in Nat /\ r.parts \in Seq(Nat \ {0}) /\ Len(r.parts) \in Nat
      /\ r.enc \in Encs /\ Total(r.parts) \in Nat
      /\ BodyAt(r) \in Nat /\ HeadAt(n) + 5 = BodyAt(r)
  BY ResponseFacts
<1>1. s = u \o v \o w
  BY DEF Bytes, Interims, Header, HeadType
<1>2. /\ IsSeq(u) /\ Len(u) = HeadAt(n) /\ HeadAt(n) \in Nat
      /\ \A k \in 0 .. n - 1 : \A j \in 1 .. 6 : u[HeadAt(k) + j] = Interim[j]
  <2>1. HeadAt(n) \in Nat
    BY <1>0 DEF HeadAt
  <2> QED BY <1>0, <2>1, InterimsAre
<1>3. IsSeq(v) /\ IsSeq(w)
  BY HeaderIs, BodyIs
<1> HIDE DEF s, u, v, w
<1>4. /\ IsSeq(s) /\ Within(s, 0, u) /\ Within(s, HeadAt(n), v) /\ Within(s, HeadAt(n) + Len(v), w)
      /\ Len(s) = HeadAt(n) + Len(v) + Len(w)
  <2>1. /\ Within(u \o v \o w, 0, u) /\ Within(u \o v \o w, Len(u), v)
        /\ Within(u \o v \o w, Len(u) + Len(v), w)
    BY <1>2, <1>3, WithinCatThree
  <2>2. IsSeq(u \o v \o w) /\ Len(u \o v \o w) = Len(u) + Len(v) + Len(w)
    <3>1. IsSeq(u) /\ IsSeq(v) /\ IsSeq(w)
      BY <1>2, <1>3
    <3> QED BY ONLY <3>1, CatThree
  <2> QED BY <1>1, <1>2, <2>1, <2>2
<1>5. ASSUME NEW k \in 0 .. n - 1
      PROVE  Has3(s, HeadAt(k), Unit("1xx", 0), Unit("data", 0), CR) /\ Has3(s, HeadAt(k) + 3, LF, CR, LF)
  <2> DEFINE p == HeadAt(k)
             a == Unit("1xx", 0)
             b == Unit("data", 0)
  <2>1. p \in Nat /\ p + 3 \in Nat /\ p + 6 <= Len(u)
    <3>1. p = 6 * k /\ Len(u) = 6 * n
      BY <1>2 DEF HeadAt
    <3> HIDE DEF p
    <3> QED BY <1>0, <3>1
  <2>2. \A j \in 1 .. 6 : u[p + j] = Interim[j]
    BY <1>2
  <2> HIDE DEF p
  <2>3. Interim[1] = a /\ Interim[2] = b /\ Interim[3] = CR /\ Interim[4] = LF /\ Interim[5] = CR /\ Interim[6] = LF
    BY DEF Interim
  <2> HIDE DEF a, b
  <2>4. u[p + 1] = a /\ u[p + 2] = b /\ u[p + 3] = CR /\ u[p + 4] = LF /\ u[p + 5] = CR /\ u[p + 6] = LF
    BY <2>2, <2>3
  <2>5. p + 3 + 1 = p + 4 /\ p + 3 + 2 = p + 5 /\ p + 3 + 3 = p + 6 /\ p + 3 <= Len(u)
    BY <1>2, <2>1
  <2>6. Has3(u, p, a, b, CR) /\ Has3(u, p + 3, LF, CR, LF)
    BY <2>1, <2>4, <2>5 DEF Has3
  <2>7. Has3(s, 0 + p, a, b, CR) /\ Has3(s, 0 + (p + 3), LF, CR, LF)
    BY ONLY <1>4, <2>1, <2>6, WithinHas
  <2>8. 0 + p = p /\ 0 + (p + 3) = p + 3
    BY <2>1
  <2> QED BY <2>7, <2>8 DEF a, b, p
<1>6. ASSUME r.enc = "longhdr"
      PROVE  Len(s) = HeadAt(n) + MAXHDR + 1 /\ HasData(s, HeadAt(n), 0, MAXHDR + 1)
  <2> DEFINE l == MAXHDR + 1
  <2>1. Len(v) = l /\ HasData(v, 0, 0, l) /\ Len(w) = 0 /\ l \in Nat /\ MAXHDR \in Nat
    BY <1>6, HeaderIs, BodyIs, HttpConsts DEF v, w
  <2> HIDE DEF l
  <2>2. HasData(s, HeadAt(n) + 0, 0, l)
    <3>1. 0 \in Nat
      OBVIOUS
    <3> QED BY ONLY <1>4, <2>1, <3>1, WithinHas
  <2>3. HeadAt(n) + 0 = HeadAt(n) /\ Len(s) = HeadAt(n) + l
    BY <1>2, <1>4, <2>1
  <2>4. HeadAt(n) + l = HeadAt(n) + MAXHDR + 1
    BY <1>2, <2>1 DEF l
  <2> QED BY <2>2, <2>3, <2>4 DEF l
<1>7. ASSUME r.enc # "longhdr"
      PROVE  /\ Has3(s, HeadAt(n), Unit(HeadType(r), Total(r.parts)), CR, LF)
             /\ Has2(s, HeadAt(n) + 3, CR, LF)
             /\ Within(s, BodyAt(r), w) /\ Len(s) = BodyAt(r) + Len(w)
  <2> DEFINE a == Unit(HeadType(r), Total(r.parts))
  <2>1. Len(v) = 5 /\ Has3(v, 0, a, CR, LF) /\ Has2(v, 3, CR, LF)
    BY <1>7, HeaderIs DEF v
  <2> HIDE DEF a
  <2>2. Has3(s, HeadAt(n) + 0, a, CR, LF) /\ Has2(s, HeadAt(n) + 3, CR, LF)
    <3>1. 0 \in Nat /\ 3 \in Nat
      OBVIOUS
    <3> QED BY ONLY <1>4, <2>1, <3>1, WithinHas
  <2>3. HeadAt(n) + 0 = HeadAt(n)
    BY <1>2
  <2>4. Within(s, BodyAt(r), w) /\ Len(s) = BodyAt(r) + Len(w)
    BY <1>0, <1>4, <2>1
  <2> QED BY <2>2, <2>3, <2>4 DEF a
<1>8. ASSUME r.enc \in {"clen", "toeof"}
      PROVE  Len(s) = BodyAt(r) + Total(r.parts) /\ HasData(s, BodyAt(r), 0, Total(r.parts))
  <2> DEFINE l == Total(r.parts)
  <2>1. w = Data(0, l) /\ r.enc # "longhdr" /\ l \in Nat /\ 0 \in Nat
    BY <1>0, <1>8, BodyIs DEF w
  <2> HIDE DEF l
  <2>2. Len(w) = l /\ \A j \in 1 .. l : w[j] = Unit("data", 0 + j)
    BY <2>1, DataIs
  <2>3. HasData(w, 0, 0, l)
    BY <2>1, <2>2 DEF HasData
  <2>4. HasData(s, BodyAt(r) + 0, 0, l)
    BY ONLY <1>7, <2>1, <2>3, WithinHas
  <2>5. BodyAt(r) + 0 = BodyAt(r)
    BY <1>0
  <2> QED BY <1>7, <2>1, <2>2, <2>4, <2>5 DEF l
<1>9. ASSUME r.enc \in Chunky
      PROVE  /\ \A i \in 1 .. Len(r.parts) :
                  /\ Has3(s, ChunkAt(r, i), Unit("chunk", r.parts[i]), CR, LF)
                  /\ HasData(s, ChunkAt(r, i) + 3, Upto(r.parts)[i - 1], r.parts[i])
             /\ Within(s, ChunkAt(r, LastChunk(r)), Trailer(r))
             /\ Len(s) = ChunkAt(r, LastChunk(r)) + Len(Trailer(r))
  <2> DEFINE parts == r.parts
             m == Len(parts)
             c == Chunks(parts)
             t == Trailer(r)
  <2>1. w = c \o t /\ r.enc # "longhdr"
    BY <1>9, BodyIs DEF w, Chunky
  <2>2. IsSeq(c) /\ IsSeq(t) /\ Len(c) = ChunkEnd(parts, m)
    BY <1>0, <1>9, ChunksAre, TrailerIs
  <2>3. Within(s, BodyAt(r), w) /\ Len(s) = BodyAt(r) + Len(w)
    BY <1>7, <2>1
  <2>4. \A i \in 1 .. m + 1 : i - 1 \in 0 .. m
    BY <1>0
  <2>5. \A i \in 1 .. m + 1 : /\ ChunkEnd(parts, i - 1) \in Nat
                              /\ ChunkAt(r, i) = BodyAt(r) + ChunkEnd(parts, i - 1)
    <3>1. ASSUME NEW i \in 1 .. m + 1
          PROVE  /\ ChunkEnd(parts, i - 1) \in Nat
                 /\ ChunkAt(r, i) = BodyAt(r) + ChunkEnd(parts, i - 1)
      <4> DEFINE a == Upto(parts)[i - 1]
      <4>1. a \in Nat /\ i - 1 \in Nat
        BY <1>0, <2>4, UptoFacts
      <4>2. ChunkEnd(parts, i - 1) = a + 5 * (i - 1) /\ ChunkAt(r, i) = BodyAt(r) + a + 5 * (i - 1)
        BY DEF ChunkEnd, ChunkAt
      <4> HIDE DEF a
      <4> QED BY <1>0, <4>1, <4>2
    <3> QED BY <3>1
  <2>6. ChunkAt(r, LastChunk(r)) = BodyAt(r) + Len(c)
    <3>1. m + 1 \in 1 .. m + 1 /\ m + 1 - 1 = m
      BY <1>0
    <3> QED BY <2>2, <2>5, <3>1 DEF LastChunk
  <2> HIDE DEF c, t
  <2>7. Within(w, 0, c) /\ Within(w, Len(c), t) /\ Len(w) = Len(c) + Len(t)
    BY <2>1, <2>2, WithinCat, SeqCat
  <2>8. Within(s, BodyAt(r) + 0, c) /\ Within(s, BodyAt(r) + Len(c), t)
    BY ONLY <2>3, <2>7, WithinWithin
  <2>9. Len(s) = ChunkAt(r, LastChunk(r)) + Len(t)
    <3>1. Len(c) \in Nat /\ Len(t) \in Nat
      BY <2>2, SeqLen
    <3> QED BY <1>0, <2>3, <2>6, <2>7, <3>1
  <2>10. ASSUME NEW i \in 1 .. m
         PROVE  /\ Has3(s, ChunkAt(r, i), Unit("chunk", parts[i]), CR, LF)
                /\ HasData(s, ChunkAt(r, i) + 3, Upto(parts)[i - 1], parts[i])
    <3> DEFINE z == ChunkOf(parts, i)
               e == ChunkEnd(parts, i - 1)
               l == parts[i]
               lo == Upto(parts)[i - 1]
    <3>1. l \in Nat /\ IsSeq(z) /\ Len(z) = l + 5 /\ Has3(z, 0, Unit("chunk", l), CR, LF) /\ HasData(z, 3, lo, l)
      BY <1>0, ChunkOfIs, UptoFacts
    <3>2. \A j \in 1 .. l + 5 : c[e + j] = z[j]
      BY <1>0, ChunksAre DEF c
    <3>3. i \in 1 .. m + 1 /\ i \in 0 .. m /\ i - 1 \in 0 .. m
      BY <1>0
    <3>4. e \in Nat /\ ChunkAt(r, i) = BodyAt(r) + e
      BY <2>5, <3>3
    <3>5. e + Len(z) <= Len(c)
      <4> DEFINE a == Upto(parts)[i]
                 b == Upto(parts)[m]
      <4>1. a = lo + l /\ lo \in Nat /\ a \in Nat
        BY <1>0, <3>3, UptoFacts
      <4>2. a <= b /\ b \in Nat
        <5>1. m \in 0 .. m /\ i <= m
          BY <1>0
        <5> QED BY <1>0, <3>3, <5>1, UptoFacts, UptoGrows
      <4>3. e = lo + 5 * (i - 1) /\ Len(c) = b + 5 * m
        BY <2>2 DEF ChunkEnd
      <4> HIDE DEF a, b, e, lo, l, m
      <4>4. i \in Int /\ i <= m /\ m \in Nat
        BY <1>0 DEF m
      <4> QED BY ONLY <3>1, <4>1, <4>2, <4>3, <4>4
    <3> HIDE DEF z, e, l, lo
    <3>6. Within(c, e, z)
      BY <2>2, <3>1, <3>2, <3>4, <3>5 DEF Within
    <3>7. Within(s, BodyAt(r) + 0 + e, z)
      BY ONLY <2>8, <3>6, WithinWithin
    <3>8. BodyAt(r) + 0 + e = ChunkAt(r, i) /\ ChunkAt(r, i) \in Nat
      BY <1>0, <3>4
    <3>9. Within(s, ChunkAt(r, i), z)
      BY <3>7, <3>8
    <3>10. Has3(s, ChunkAt(r, i) + 0, Unit("chunk", l), CR, LF) /\ HasData(s, ChunkAt(r, i) + 3, lo, l)
      <4>1. 0 \in Nat /\ 3 \in Nat /\ lo \in Nat
        BY <1>0, <3>3, UptoFacts DEF lo
      <4> QED BY ONLY <3>1, <3>9, <4>1, WithinHas
    <3>11. ChunkAt(r, i) + 0 = ChunkAt(r, i)
      BY <3>8
    <3> QED BY <3>10, <3>11 DEF l, lo
  <2> QED BY <2>6, <2>8, <2>9, <2>10 DEF t
<1>10. /\ r.enc = "chunked" => Has3(s, ChunkAt(r, LastChunk(r)), Unit("chunk", 0), CR, LF)
       /\ r.enc = "badchunk" => Has3(s, ChunkAt(r, LastChunk(r)), Unit("data", 0), CR, LF)
       /\ r.enc = "longline" => /\ Len(s) = ChunkAt(r, LastChunk(r)) + MAXCHLEN
                                /\ HasData(s, ChunkAt(r, LastChunk(r)), 0, MAXCHLEN)
  <2> SUFFICES ASSUME r.enc \in Chunky
      PROVE  /\ r.enc = "chunked" => Has3(s, ChunkAt(r, LastChunk(r)), Unit("chunk", 0), CR, LF)
             /\ r.enc = "badchunk" => Has3(s, ChunkAt(r, LastChunk(r)), Unit("data", 0), CR, LF)
             /\ r.enc = "longline" => /\ Len(s) = ChunkAt(r, LastChunk(r)) + MAXCHLEN
                                      /\ HasData(s, ChunkAt(r, LastChunk(r)), 0, MAXCHLEN)
    BY DEF Chunky
  <2> DEFINE p == ChunkAt(r, LastChunk(r))
             t == Trailer(r)
  <2>1. Within(s, p, t) /\ Len(s) = p + Len(t)
    BY <1>9
  <2>2. /\ r.enc = "chunked" => Has3(t, 0, Unit("chunk", 0), CR, LF)
        /\ r.enc = "badchunk" => Has3(t, 0, Unit("data", 0), CR, LF)
        /\ r.enc = "longline" => Len(t) = MAXCHLEN /\ HasData(t, 0, 0, MAXCHLEN)
    BY TrailerIs
  <2> HIDE DEF p, t
  <2>3. 0 \in Nat /\ MAXCHLEN \in Nat /\ p + 0 = p
    BY <2>1, HttpConsts DEF Within
  <2>4. /\ \A a, b, c : Has3(t, 0, a, b, c) => Has3(s, p + 0, a, b, c)
        /\ HasData(t, 0, 0, MAXCHLEN) => HasData(s, p + 0, 0, MAXCHLEN)
    BY ONLY <2>1, <2>3, WithinHas
  <2> QED BY <2>1, <2>2, <2>3, <2>4 DEF p
<1> QED BY <1>4, <1>5, <1>6, <1>7, <1>8, <1>9, <1>10 DEF LaidOut, s
----------------------------------------------------------------------------
(* Looking for the end of a line, or of a head, in what was read. *)
LEMMA MinIs ==
  ASSUME NEW S, S \subseteq Int, NEW m \in S, \A y \in S : m <= y
  PROVE  Min(S) = m
<1>1. \A x \in S : (\A y \in S : x <= y) => x = m
  OBVIOUS
<1> QED BY <1>1 DEF Min

LEMMA MinOfTwo ==
  ASSUME NEW a \in Int, NEW b \in Int
  PROVE  Min({a, b}) = IF a <= b THEN a ELSE b
<1> DEFINE m == IF a <= b THEN a ELSE b
<1>1. {a, b} \subseteq Int /\ m \in {a, b} /\ \A y \in {a, b} : m <= y
  OBVIOUS
<1> HIDE DEF m
<1>2. Min({a, b}) = m
  BY <1>1, MinIs
<1> QED BY <1>2 DEF m

LEMMA MaxOfTwo ==
  ASSUME NEW a \in Int, NEW b \in Int
  PROVE  Max({a, b}) = IF a >= b THEN a ELSE b
<1> DEFINE m == IF a >= b THEN a ELSE b
<1>1. m \in {a, b} /\ \A y \in {a, b} : m >= y
  OBVIOUS
<1>2. \A x \in {a, b} : (\A y \in {a, b} : x >= y) => x = m
  OBVIOUS
<1> QED BY <1>1, <1>2 DEF Max

OneLineEnd(s, p, g, i) ==
  OccursAt(SubSeq(s, p + 1, g), <<CR, LF>>, i)
    <=> i + 1 <= g - p /\ s[p + i] = CR /\ s[p + i + 1] = LF
LEMMA OccursTwo ==
  ASSUME NEW s, IsSeq(s), NEW p \in Nat, NEW g \in Nat, p <= g, g <= Len(s), NEW i \in Nat, i >= 1
  PROVE  OneLineEnd(s, p, g, i)
<1> DEFINE B == SubSeq(s, p + 1, g)
           q == <<CR, LF>>
           u == SubSeq(B, i, i + 1)
<1>1. IsSeq(B) /\ Len(B) = g - p /\ \A j \in 1 .. g - p : B[j] = s[p + j]
  BY SeqSub
<1>2. IsSeq(q) /\ Len(q) = 2 /\ q[1] = CR /\ q[2] = LF
  BY Literals
<1> HIDE DEF B, q
<1>3. OccursAt(B, q, i) <=> i + 1 <= g - p /\ u = q
  <2>1. i + 2 - 1 = i + 1
    OBVIOUS
  <2> QED BY ONLY <1>1, <1>2, <2>1 DEF OccursAt
<1>4. ASSUME i + 1 <= g - p
      PROVE  u = q <=> s[p + i] = CR /\ s[p + i + 1] = LF
  <2>0. PICK a \in Nat, b \in Nat : a = i - 1 /\ b = i + 1
    OBVIOUS
  <2>1. i - 1 + 1 = i /\ a + 1 = i /\ a <= b /\ b - a = 2
    BY <2>0
  <2>2. IsSeq(SubSeq(B, a + 1, b)) /\ Len(SubSeq(B, a + 1, b)) = b - a
        /\ \A j \in 1 .. b - a : SubSeq(B, a + 1, b)[j] = B[a + j]
    <3>1. IsSeq(B) /\ b <= Len(B)
      BY <1>1, <1>4, <2>0
    <3> QED BY ONLY <3>1, <2>1, a \in Nat, b \in Nat, SeqSub
  <2>3. IsSeq(u) /\ Len(u) = 2 /\ \A j \in 1 .. 2 : u[j] = B[i - 1 + j]
    BY ONLY <2>0, <2>1, <2>2
  <2> HIDE DEF u
  <2>4. u[1] = B[i] /\ u[2] = B[i + 1]
    <3>1. 1 \in 1 .. 2 /\ 2 \in 1 .. 2 /\ i - 1 + 2 = i + 1
      OBVIOUS
    <3> QED BY ONLY <2>1, <2>3, <3>1
  <2>5. B[i] = s[p + i] /\ B[i + 1] = s[p + i + 1]
    <3>1. i \in 1 .. g - p /\ i + 1 \in 1 .. g - p /\ p + (i + 1) = p + i + 1
      BY <1>4
    <3> QED BY ONLY <1>1, <3>1
  <2>6. u = q => s[p + i] = CR /\ s[p + i + 1] = LF
    BY ONLY <1>2, <2>4, <2>5
  <2>7. s[p + i] = CR /\ s[p + i + 1] = LF => u = q
    <3>1. \A j \in 1 .. 2 : j = 1 \/ j = 2
      OBVIOUS
    <3>2. s[p + i] = CR /\ s[p + i + 1] = LF => \A j \in 1 .. Len(u) : u[j] = q[j]
      BY ONLY <1>2, <2>3, <2>4, <2>5, <3>1
    <3> QED BY <1>2, <2>3, <3>2, SeqEq
  <2> QED BY <2>6, <2>7
<1>5. OccursAt(B, q, i) <=> i + 1 <= g - p /\ s[p + i] = CR /\ s[p + i + 1] = LF
  BY <1>3, <1>4
<1> QED BY <1>5 DEF OneLineEnd, B, q

EmptyLineAt(s, p, i) ==
  s[p + i + 1] = CR /\ s[p + i + 2] = LF /\ s[p + i + 3] = CR /\ s[p + i + 4] = LF
TwoLineEnds(s, p, g, i) ==
  OccursAt(SubSeq(s, p + 1, g), <<CR, LF, CR, LF>>, i + 1) <=> i + 4 <= g - p /\ EmptyLineAt(s, p, i)
LEMMA OccursFour ==
  ASSUME NEW s, IsSeq(s), NEW p \in Nat, NEW g \in Nat, p <= g, g <= Len(s), NEW i \in Nat
  PROVE  TwoLineEnds(s, p, g, i)
<1> DEFINE B == SubSeq(s, p + 1, g)
           q == <<CR, LF, CR, LF>>
           u == SubSeq(B, i + 1, i + 4)
<1>1. IsSeq(B) /\ Len(B) = g - p /\ \A j \in 1 .. g - p : B[j] = s[p + j]
  BY SeqSub
<1>2. IsSeq(q) /\ Len(q) = 4 /\ q[1] = CR /\ q[2] = LF /\ q[3] = CR /\ q[4] = LF
  <2>1. q \in Seq({CR, LF})
    OBVIOUS
  <2> QED BY <2>1 DEF IsSeq
<1> HIDE DEF B, q
<1>3. OccursAt(B, q, i + 1) <=> i + 4 <= g - p /\ u = q
  <2>1. i + 1 + 4 - 1 = i + 4
    OBVIOUS
  <2> QED BY ONLY <1>1, <1>2, <2>1 DEF OccursAt
<1>4. ASSUME i + 4 <= g - p
      PROVE  u = q <=> s[p + i + 1] = CR /\ s[p + i + 2] = LF /\ s[p + i + 3] = CR /\ s[p + i + 4] = LF
  <2>0. PICK b \in Nat : b = i + 4
    OBVIOUS
  <2>1. i <= b /\ b - i = 4
    BY <2>0
  <2>2. IsSeq(SubSeq(B, i + 1, b)) /\ Len(SubSeq(B, i + 1, b)) = b - i
        /\ \A j \in 1 .. b - i : SubSeq(B, i + 1, b)[j] = B[i + j]
    <3>1. IsSeq(B) /\ b <= Len(B)
      BY <1>1, <1>4, <2>0
    <3> QED BY ONLY <3>1, <2>1, i \in Nat, b \in Nat, SeqSub
  <2>3. IsSeq(u) /\ Len(u) = 4 /\ \A j \in 1 .. 4 : u[j] = B[i + j]
    BY ONLY <2>0, <2>1, <2>2
  <2> HIDE DEF u
  <2>5. \A j \in 1 .. 4 : u[j] = s[p + i + j]
    <3>1. \A j \in 1 .. 4 : i + j \in 1 .. g - p /\ p + (i + j) = p + i + j
      BY <1>4
    <3> QED BY ONLY <1>1, <2>3, <3>1
  <2>4. u[1] = s[p + i + 1] /\ u[2] = s[p + i + 2] /\ u[3] = s[p + i + 3] /\ u[4] = s[p + i + 4]
    <3>1. 1 \in 1 .. 4 /\ 2 \in 1 .. 4 /\ 3 \in 1 .. 4 /\ 4 \in 1 .. 4
      OBVIOUS
    <3> QED BY ONLY <2>5, <3>1
  <2>6. u = q => s[p + i + 1] = CR /\ s[p + i + 2] = LF /\ s[p + i + 3] = CR /\ s[p + i + 4] = LF
    BY ONLY <1>2, <2>4
  <2>7. s[p + i + 1] = CR /\ s[p + i + 2] = LF /\ s[p + i + 3] = CR /\ s[p + i + 4] = LF => u = q
    <3>1. \A j \in 1 .. 4 : j = 1 \/ j = 2 \/ j = 3 \/ j = 4
      OBVIOUS
    <3>2. s[p + i + 1] = CR /\ s[p + i + 2] = LF /\ s[p + i + 3] = CR /\ s[p + i + 4] = LF
          => \A j \in 1 .. Len(u) : u[j] = q[j]
      BY ONLY <1>2, <2>3, <2>4, <3>1
    <3> QED BY <1>2, <2>3, <3>2, SeqEq
  <2> QED BY <2>6, <2>7
<1>5. OccursAt(B, q, i + 1) <=> i + 4 <= g - p /\ EmptyLineAt(s, p, i)
  BY <1>3, <1>4 DEF EmptyLineAt
<1> QED BY <1>5 DEF TwoLineEnds, B, q

LEMMA UnitsDiffer ==
  /\ \A t, n : Unit(t, n).t = t /\ Unit(t, n).n = n
  /\ CR.t = "cr" /\ LF.t = "lf"
BY DEF Unit, CR, LF

(* What callback_read_header finds. *)
HeadsEnd(ends, s, p, g, he) ==
  ends = {i \in he .. g - p - 4 : OccursAt(SubSeq(s, p + 1, g), <<CR, LF, CR, LF>>, i + 1)}
LEMMA HeadEnds ==
  ASSUME NEW r \in Responses, NEW s, LaidOut(r, s), NEW k \in 0 .. r.interim, NEW p, p = HeadAt(k),
         NEW g \in Nat, p <= g, g <= Len(s), NEW he \in Nat, he <= EndAt(r, k) \/ NoEnd(r, k),
         NEW ends, HeadsEnd(ends, s, p, g, he)
  PROVE  /\ ends # {} => ~NoEnd(r, k) /\ Min(ends) = EndAt(r, k) /\ p + EndAt(r, k) + 4 <= g
         /\ ends = {} => NoEnd(r, k) \/ g - p < EndAt(r, k) + 4
<1> DEFINE E == EndAt(r, k)
           Here(i) == EmptyLineAt(s, p, i)
<1>0. /\ r.interim \in Nat /\ p \in Nat /\ IsSeq(s) /\ E \in Nat /\ E >= 1 /\ k \in Nat
      /\ g - p \in Nat
  <2>1. r.interim \in Nat /\ IsSeq(s)
    BY ResponseFacts DEF LaidOut
  <2>2. p \in Nat
    BY <2>1 DEF HeadAt
  <2>3. E \in Nat /\ E >= 1
    BY DEF EndAt
  <2> HIDE DEF E
  <2> QED BY <2>1, <2>2, <2>3
<1>1. \A i \in Nat : OccursAt(SubSeq(s, p + 1, g), <<CR, LF, CR, LF>>, i + 1) <=> i + 4 <= g - p /\ Here(i)
  <2>1. IsSeq(s) /\ p \in Nat /\ p <= g /\ g <= Len(s)
    BY <1>0
  <2> HIDE DEF E
  <2>2. \A i \in Nat : TwoLineEnds(s, p, g, i)
    BY ONLY <2>1, g \in Nat, OccursFour
  <2> QED BY ONLY <2>2 DEF TwoLineEnds
<1>2. \A i : i \in ends <=> i \in Nat /\ he <= i /\ i + 4 <= g - p /\ Here(i)
  <2>1. \A i : i \in ends <=> i \in he .. g - p - 4 /\ OccursAt(SubSeq(s, p + 1, g), <<CR, LF, CR, LF>>, i + 1)
    BY DEF HeadsEnd
  <2>2. \A i \in he .. g - p - 4 : i \in Nat
    BY <1>0
  <2>3. \A i \in Nat : i \in he .. g - p - 4 <=> he <= i /\ i + 4 <= g - p
    BY ONLY <1>0, he \in Nat
  <2> HIDE DEF Here
  <2> QED BY ONLY <1>1, <2>1, <2>2, <2>3
<1>3. CASE NoEnd(r, k)
  <2>1. /\ p = HeadAt(r.interim) /\ Len(s) = HeadAt(r.interim) + MAXHDR + 1
        /\ HasData(s, HeadAt(r.interim), 0, MAXHDR + 1)
    BY <1>3 DEF NoEnd, LaidOut
  <2>2. \A i \in Nat : i + 4 <= g - p => s[p + i + 1] = Unit("data", 0 + (i + 1))
    <3>1. \A j \in 1 .. MAXHDR + 1 : s[p + j] = Unit("data", 0 + j)
      BY <2>1 DEF HasData
    <3>2. \A i \in Nat : i + 4 <= g - p => i + 1 \in 1 .. MAXHDR + 1 /\ p + (i + 1) = p + i + 1
      <4>1. MAXHDR \in Nat /\ g <= p + MAXHDR + 1 /\ p \in Nat /\ g \in Nat
        BY <2>1, HttpConsts, <1>0
      <4> QED BY ONLY <4>1
    <3> QED BY <3>1, <3>2
  <2>3. \A i \in Nat : i + 4 <= g - p => s[p + i + 1].t = "data"
    BY <2>2, UnitsDiffer
  <2>4. \A i \in Nat : i + 4 <= g - p => ~Here(i)
    BY <2>3, UnitsDiffer DEF EmptyLineAt
  <2>5. ends = {}
    <3> HIDE DEF Here
    <3> QED BY <1>2, <2>4
  <2> QED BY <1>3, <2>5
<1>4. CASE ~NoEnd(r, k)
  <2>1. /\ \A i \in Nat : i < E => s[p + i + 1].t # "cr"
        /\ E + 4 <= g - p => Here(E)
    <3>1. CASE k < r.interim
      <4>1. E = 2 /\ k \in 0 .. r.interim - 1
        BY <1>0, <3>1 DEF EndAt
      <4>2. Has3(s, p, Unit("1xx", 0), Unit("data", 0), CR) /\ Has3(s, p + 3, LF, CR, LF)
        BY <4>1 DEF LaidOut
      <4>3. /\ s[p + 1] = Unit("1xx", 0) /\ s[p + 2] = Unit("data", 0) /\ s[p + 3] = CR
            /\ s[p + 3 + 1] = LF /\ s[p + 3 + 2] = CR /\ s[p + 3 + 3] = LF
        BY <4>2 DEF Has3
      <4>4. s[p + 1].t = "1xx" /\ s[p + 2].t = "data"
        BY <4>3, UnitsDiffer
      <4>5. /\ p + 2 + 1 = p + 3 /\ p + 2 + 2 = p + 3 + 1 /\ p + 2 + 3 = p + 3 + 2 /\ p + 2 + 4 = p + 3 + 3
            /\ p + 0 + 1 = p + 1 /\ p + 1 + 1 = p + 2
        <5>1. p \in Nat
          BY <1>0
        <5> QED BY ONLY <5>1
      <4>6. Here(2)
        BY ONLY <4>3, <4>5 DEF EmptyLineAt
      <4>7. \A i \in Nat : i < 2 => i = 0 \/ i = 1
        OBVIOUS
      <4>8. \A i \in Nat : i < 2 => s[p + i + 1].t # "cr"
        BY ONLY <4>4, <4>5, <4>7
      <4> HIDE DEF E, Here
      <4> QED BY <4>1, <4>6, <4>8
    <3>2. CASE ~(k < r.interim)
      <4>1. E = 1 /\ k = r.interim /\ r.enc # "longhdr"
        BY <1>0, <1>4, <3>2 DEF EndAt, NoEnd
      <4> DEFINE a == Unit(HeadType(r), Total(r.parts))
      <4>2. Has3(s, p, a, CR, LF) /\ Has2(s, p + 3, CR, LF)
        BY <4>1 DEF LaidOut
      <4>3. a.t # "cr"
        <5>1. a.t = HeadType(r)
          BY UnitsDiffer
        <5>2. HeadType(r) \in Encs
          BY ResponseFacts DEF HeadType, Encs
        <5> QED BY <5>1, <5>2 DEF Encs
      <4> HIDE DEF a
      <4>4. /\ s[p + 1] = a /\ s[p + 2] = CR /\ s[p + 3] = LF /\ s[p + 3 + 1] = CR /\ s[p + 3 + 2] = LF
        BY <4>2 DEF Has3, Has2
      <4>5. /\ p + 1 + 1 = p + 2 /\ p + 1 + 2 = p + 3 /\ p + 1 + 3 = p + 3 + 1 /\ p + 1 + 4 = p + 3 + 2
            /\ p + 0 + 1 = p + 1
        <5>1. p \in Nat
          BY <1>0
        <5> QED BY ONLY <5>1
      <4>6. Here(1)
        BY ONLY <4>4, <4>5 DEF EmptyLineAt
      <4>7. \A i \in Nat : i < 1 => i = 0
        OBVIOUS
      <4>8. \A i \in Nat : i < 1 => s[p + i + 1].t # "cr"
        BY ONLY <4>3, <4>4, <4>5, <4>7
      <4> HIDE DEF E, Here
      <4> QED BY <4>1, <4>6, <4>8
    <3> QED BY <3>1, <3>2
  <2>2. \A i \in ends : i \in Nat /\ E <= i /\ i + 4 <= g - p
    <3>1. \A i \in ends : i \in Nat /\ i + 4 <= g - p /\ s[p + i + 1] = CR
      BY <1>2 DEF EmptyLineAt
    <3>2. \A i \in ends : ~(i < E)
      BY <2>1, <3>1, UnitsDiffer
    <3>3. E \in Nat
      BY <1>0
    <3> HIDE DEF E
    <3> QED BY ONLY <3>1, <3>2, <3>3
  <2>3. he <= E
    BY <1>4
  <2>4. E + 4 <= g - p => E \in ends
    <3>1. E \in Nat
      BY <1>0
    <3> HIDE DEF Here, E
    <3> QED BY ONLY <3>1, <1>2, <2>1, <2>3
  <2>0. E \in Nat /\ g - p \in Nat /\ p \in Nat
    BY <1>0
  <2> HIDE DEF E
  <2>5. ends = {} => g - p < E + 4
    BY ONLY <2>0, <2>4
  <2>6. ASSUME ends # {} PROVE E + 4 <= g - p
    <3>1. PICK i \in ends : TRUE
      BY <2>6
    <3> QED BY ONLY <2>0, <2>2, <3>1
  <2>7. ends # {} => Min(ends) = E /\ p + E + 4 <= g
    <3>1. ends \subseteq Int
      BY <2>2
    <3>2. p + E + 4 <= g <=> E + 4 <= g - p
      BY ONLY <2>0, g \in Nat
    <3> QED BY <2>2, <2>4, <2>6, <3>1, <3>2, MinIs
  <2> QED BY <1>4, <2>5, <2>7 DEF E
<1> QED BY <1>3, <1>4

(* What callback_chunkedheader finds where a line of one unit is. *)
LinesEnd(eols, s, p, g) == eols = {i \in 1 .. g - p - 1 : OccursAt(SubSeq(s, p + 1, g), <<CR, LF>>, i)}
LEMMA LineEnds ==
  ASSUME NEW s, IsSeq(s), NEW p \in Nat, NEW g \in Nat, p <= g, g <= Len(s),
         NEW a, a.t # "cr", Has3(s, p, a, CR, LF),
         NEW eols, LinesEnd(eols, s, p, g)
  PROVE  /\ eols # {} => Min(eols) = 2 /\ p + 3 <= g /\ s[p + 1] = a
         /\ eols = {} => g - p < 3
<1>1. \A i \in Nat : i >= 1 => (OccursAt(SubSeq(s, p + 1, g), <<CR, LF>>, i)
           <=> i + 1 <= g - p /\ s[p + i] = CR /\ s[p + i + 1] = LF)
  <2>1. \A i \in Nat : i >= 1 => OneLineEnd(s, p, g, i)
    BY OccursTwo
  <2> QED BY ONLY <2>1 DEF OneLineEnd
<1>0. eols = {i \in 1 .. g - p - 1 : OccursAt(SubSeq(s, p + 1, g), <<CR, LF>>, i)}
  BY DEF LinesEnd
<1>2. s[p + 1] = a /\ s[p + 2] = CR /\ s[p + 3] = LF /\ p + 2 + 1 = p + 3
  BY DEF Has3
<1>3. CR # a
  BY UnitsDiffer
<1>4. \A i \in eols : i \in Int /\ 2 <= i /\ i + 1 <= g - p
  <2>1. \A i \in eols : i \in Nat /\ i >= 1 /\ i + 1 <= g - p /\ s[p + i] = CR
    BY <1>0, <1>1, SMTT(30)
  <2>2. 1 \notin eols
    BY <1>2, <1>3, <2>1
  <2> QED BY <2>1, <2>2
<1>5. 3 <= g - p => 2 \in eols
  <2>1. 3 <= g - p => 2 \in 1 .. g - p - 1 /\ 2 \in Nat /\ 2 >= 1 /\ 2 + 1 <= g - p
    OBVIOUS
  <2>2. 3 <= g - p => OccursAt(SubSeq(s, p + 1, g), <<CR, LF>>, 2)
    BY ONLY <1>1, <1>2, <2>1
  <2> QED BY <1>0, <2>1, <2>2
<1>6. ASSUME eols # {} PROVE Min(eols) = 2 /\ p + 3 <= g
  <2>1. PICK i \in eols : TRUE
    BY <1>6
  <2>2. 3 <= g - p
    BY <1>4, <2>1
  <2>3. 2 \in eols /\ eols \subseteq Int /\ \A y \in eols : 2 <= y
    BY <1>4, <1>5, <2>2
  <2>4. Min(eols) = 2
    BY ONLY <2>3, MinIs
  <2> QED BY <2>2, <2>4
<1>7. eols = {} => g - p < 3
  BY <1>5
<1> QED BY <1>2, <1>6, <1>7

----------------------------------------------------------------------------
(* What a change of one field of a cookie leaves. *)
IsCookie(H) == H = [x \in CookieFields |-> H[x]]
IsPut(G, H, f, v) == G = [H EXCEPT ![f] = v]
LEMMA PutField ==
  ASSUME NEW H, IsCookie(H), NEW f \in CookieFields, NEW v, NEW G, IsPut(G, H, f, v)
  PROVE  IsCookie(G) /\ G[f] = v /\ \A x \in CookieFields : x # f => G[x] = H[x]
<1>1. DOMAIN H = CookieFields
  BY DEF IsCookie
<1>2. G = [H EXCEPT ![f] = v]
  BY DEF IsPut
<1>3. DOMAIN G = CookieFields /\ G[f] = v /\ \A x \in CookieFields : x # f => G[x] = H[x]
  BY <1>1, <1>2
<1>4. G = [x \in CookieFields |-> G[x]]
  BY <1>1, <1>2, <1>3
<1> QED BY <1>3, <1>4 DEF IsCookie

SameRequest(G, H) == G.max = H.max /\ G.ishead = H.ishead /\ G.usessl = H.usessl
LEMMA CookieIs ==
  ASSUME NEW H, CookieOK(H), NEW G, IsCookie(G), SameRequest(G, H), G.has \subseteq Handles,
         G.hepos \in Nat, G.chunked \in BOOLEAN, G.readlen \in Nat, G.alloc \in Nat,
         IsSeq(G.body), Len(G.body) <= G.alloc, G.alloc <= G.max
  PROVE  CookieOK(G)
<1>1. G.max \in MaxRLens /\ G.ishead \in BOOLEAN /\ G.usessl \in BOOLEAN
  BY DEF CookieOK, SameRequest
<1>2. G = [f \in CookieFields |-> G[f]]
  BY DEF IsCookie
<1> QED BY ONLY <1>1, <1>2, G.has \subseteq Handles,
         G.hepos \in Nat, G.chunked \in BOOLEAN, G.readlen \in Nat, G.alloc \in Nat,
         IsSeq(G.body), Len(G.body) <= G.alloc, G.alloc <= G.max DEF CookieOK

LEMMA CookieFacts ==
  ASSUME NEW H, CookieOK(H)
  PROVE  /\ IsCookie(H) /\ H.has \subseteq Handles /\ H.max \in MaxRLens /\ H.max \in Nat
         /\ H.hepos \in Nat /\ H.chunked \in BOOLEAN /\ H.readlen \in Nat /\ H.alloc \in Nat
         /\ IsSeq(H.body) /\ Len(H.body) \in Nat /\ Len(H.body) <= H.alloc /\ H.alloc <= H.max
         /\ Len(H.body) <= H.max
<1>1. /\ IsCookie(H) /\ H.has \subseteq Handles /\ H.max \in MaxRLens
      /\ H.hepos \in Nat /\ H.chunked \in BOOLEAN /\ H.readlen \in Nat /\ H.alloc \in Nat
      /\ IsSeq(H.body) /\ Len(H.body) <= H.alloc /\ H.alloc <= H.max
  BY DEF CookieOK, IsCookie
<1>2. H.max \in Nat
  BY <1>1, HttpConsts
<1>3. Len(H.body) \in Nat
  BY ONLY <1>1, SeqLen
<1>4. Len(H.body) <= H.max
  BY ONLY <1>1, <1>2, <1>3
<1> QED BY <1>1, <1>2, <1>3, <1>4

LEMMA SetHas ==
  ASSUME NEW H, CookieOK(H), NEW v \in SUBSET Handles, NEW G, IsPut(G, H, "has", v)
  PROVE  /\ CookieOK(G) /\ SameRequest(G, H) /\ G.has = v
         /\ G.hepos = H.hepos /\ G.chunked = H.chunked /\ G.readlen = H.readlen /\ G.body = H.body /\ G.alloc = H.alloc
<1>1. IsCookie(G) /\ G["has"] = v /\ \A x \in CookieFields : x # "has" => G[x] = H[x]
  <2>1. IsCookie(H) /\ "has" \in CookieFields /\ IsPut(G, H, "has", v)
    BY CookieFacts DEF CookieFields, IsPut
  <2> QED BY ONLY <2>1, PutField
<1>2. /\ G.max = H.max /\ G.ishead = H.ishead /\ G.usessl = H.usessl
      /\ G.hepos = H.hepos /\ G.chunked = H.chunked /\ G.readlen = H.readlen /\ G.body = H.body /\ G.alloc = H.alloc
  BY ONLY <1>1 DEF CookieFields
<1>3. CookieOK(G)
  BY <1>1, <1>2, CookieFacts, CookieIs DEF SameRequest
<1> QED BY <1>1, <1>2, <1>3 DEF SameRequest

LEMMA SetHepos ==
  ASSUME NEW H, CookieOK(H), NEW v \in Nat, NEW G, IsPut(G, H, "hepos", v)
  PROVE  /\ CookieOK(G) /\ SameRequest(G, H) /\ G.hepos = v
         /\ G.has = H.has /\ G.chunked = H.chunked /\ G.readlen = H.readlen /\ G.body = H.body /\ G.alloc = H.alloc
<1>1. IsCookie(G) /\ G["hepos"] = v /\ \A x \in CookieFields : x # "hepos" => G[x] = H[x]
  <2>1. IsCookie(H) /\ "hepos" \in CookieFields /\ IsPut(G, H, "hepos", v)
    BY CookieFacts DEF CookieFields, IsPut
  <2> QED BY ONLY <2>1, PutField
<1>2. /\ G.max = H.max /\ G.ishead = H.ishead /\ G.usessl = H.usessl
      /\ G.has = H.has /\ G.chunked = H.chunked /\ G.readlen = H.readlen /\ G.body = H.body /\ G.alloc = H.alloc
  BY ONLY <1>1 DEF CookieFields
<1>3. CookieOK(G)
  BY <1>1, <1>2, CookieFacts, CookieIs DEF SameRequest
<1> QED BY <1>1, <1>2, <1>3 DEF SameRequest

LEMMA SetChunked ==
  ASSUME NEW H, CookieOK(H), NEW v \in BOOLEAN, NEW G, IsPut(G, H, "chunked", v)
  PROVE  /\ CookieOK(G) /\ SameRequest(G, H) /\ G.chunked = v
         /\ G.has = H.has /\ G.hepos = H.hepos /\ G.readlen = H.readlen /\ G.body = H.body /\ G.alloc = H.alloc
<1>1. IsCookie(G) /\ G["chunked"] = v /\ \A x \in CookieFields : x # "chunked" => G[x] = H[x]
  <2>1. IsCookie(H) /\ "chunked" \in CookieFields /\ IsPut(G, H, "chunked", v)
    BY CookieFacts DEF CookieFields, IsPut
  <2> QED BY ONLY <2>1, PutField
<1>2. /\ G.max = H.max /\ G.ishead = H.ishead /\ G.usessl = H.usessl
      /\ G.has = H.has /\ G.hepos = H.hepos /\ G.readlen = H.readlen /\ G.body = H.body /\ G.alloc = H.alloc
  BY ONLY <1>1 DEF CookieFields
<1>3. CookieOK(G)
  BY <1>1, <1>2, CookieFacts, CookieIs DEF SameRequest
<1> QED BY <1>1, <1>2, <1>3 DEF SameRequest

LEMMA SetReadlen ==
  ASSUME NEW H, CookieOK(H), NEW v \in Nat, NEW G, IsPut(G, H, "readlen", v)
  PROVE  /\ CookieOK(G) /\ SameRequest(G, H) /\ G.readlen = v
         /\ G.has = H.has /\ G.hepos = H.hepos /\ G.chunked = H.chunked /\ G.body = H.body /\ G.alloc = H.alloc
<1>1. IsCookie(G) /\ G["readlen"] = v /\ \A x \in CookieFields : x # "readlen" => G[x] = H[x]
  <2>1. IsCookie(H) /\ "readlen" \in CookieFields /\ IsPut(G, H, "readlen", v)
    BY CookieFacts DEF CookieFields, IsPut
  <2> QED BY ONLY <2>1, PutField
<1>2. /\ G.max = H.max /\ G.ishead = H.ishead /\ G.usessl = H.usessl
      /\ G.has = H.has /\ G.hepos = H.hepos /\ G.chunked = H.chunked /\ G.body = H.body /\ G.alloc = H.alloc
  BY ONLY <1>1 DEF CookieFields
<1>3. CookieOK(G)
  BY <1>1, <1>2, CookieFacts, CookieIs DEF SameRequest
<1> QED BY <1>1, <1>2, <1>3 DEF SameRequest

LEMMA SetBody ==
  ASSUME NEW H, CookieOK(H), NEW b, IsSeq(b), Len(b) <= H.alloc, NEW G, IsPut(G, H, "body", b)
  PROVE  /\ CookieOK(G) /\ SameRequest(G, H) /\ G.body = b
         /\ G.has = H.has /\ G.hepos = H.hepos /\ G.chunked = H.chunked /\ G.readlen = H.readlen /\ G.alloc = H.alloc
<1>1. IsCookie(G) /\ G["body"] = b /\ \A x \in CookieFields : x # "body" => G[x] = H[x]
  <2>1. IsCookie(H) /\ "body" \in CookieFields /\ IsPut(G, H, "body", b)
    BY CookieFacts DEF CookieFields, IsPut
  <2> QED BY ONLY <2>1, PutField
<1>2. /\ G.max = H.max /\ G.ishead = H.ishead /\ G.usessl = H.usessl
      /\ G.has = H.has /\ G.hepos = H.hepos /\ G.chunked = H.chunked /\ G.readlen = H.readlen /\ G.alloc = H.alloc
  BY ONLY <1>1 DEF CookieFields
<1>3. CookieOK(G)
  BY <1>1, <1>2, CookieFacts, CookieIs DEF SameRequest
<1> QED BY <1>1, <1>2, <1>3 DEF SameRequest

(* addbody: the body grows and stays in its buffer, and the buffer within   *)
(* its limit.                                                               *)
Added(G, H, b) ==
  G = [H EXCEPT !.body = @ \o b, !.alloc = NewAlloc(@, Len(H.body \o b), H.max)]
LEMMA AddBody ==
  ASSUME NEW H, CookieOK(H), NEW b, IsSeq(b), Len(H.body) + Len(b) <= H.max,
         NEW G, Added(G, H, b)
  PROVE  /\ CookieOK(G) /\ SameRequest(G, H) /\ G.body = H.body \o b
         /\ G.has = H.has /\ G.hepos = H.hepos /\ G.chunked = H.chunked /\ G.readlen = H.readlen
<1> DEFINE x == H.body \o b
           n == Len(x)
           a == NewAlloc(H.alloc, n, H.max)
           F == [H EXCEPT !.body = x]
<1>1. IsSeq(x) /\ n = Len(H.body) + Len(b) /\ n \in Nat /\ n <= H.max
  <2>1. IsSeq(H.body) /\ IsSeq(b)
    BY CookieFacts
  <2>2. IsSeq(x) /\ n = Len(H.body) + Len(b)
    BY ONLY <2>1, SeqCat
  <2> QED BY <2>2, SeqLen
<1> HIDE DEF x, n
<1>2. a \in Nat /\ n <= a /\ a <= H.max
  <2>1. H.alloc \in Nat /\ H.max \in Nat /\ H.alloc <= H.max
    BY CookieFacts
  <2> DEFINE y == Max({2 * H.alloc, n})
  <2>2. y = IF 2 * H.alloc >= n THEN 2 * H.alloc ELSE n
    <3>1. 2 * H.alloc \in Int /\ n \in Int
      BY <1>1, <2>1
    <3> QED BY ONLY <3>1, MaxOfTwo
  <2>3. y \in Nat /\ n <= y
    BY <1>1, <2>1, <2>2
  <2> HIDE DEF y
  <2>4. Min({y, H.max}) = IF y <= H.max THEN y ELSE H.max
    BY <2>1, <2>3, MinOfTwo
  <2>5. a = IF n <= H.alloc THEN H.alloc ELSE Min({y, H.max})
    BY DEF NewAlloc, y
  <2> QED BY <1>1, <2>1, <2>3, <2>4, <2>5
<1> HIDE DEF a
<1>3. IsCookie(F) /\ F["body"] = x /\ \A f \in CookieFields : f # "body" => F[f] = H[f]
  <2>1. IsCookie(H) /\ "body" \in CookieFields /\ IsPut(F, H, "body", x)
    BY CookieFacts DEF CookieFields, IsPut, F
  <2> QED BY ONLY <2>1, PutField
<1>4. G = [F EXCEPT !["alloc"] = a]
  BY CookieFacts DEF x, n, a, F, Added, IsCookie, CookieFields
<1> HIDE DEF F
<1>5. IsCookie(G) /\ G["alloc"] = a /\ \A f \in CookieFields : f # "alloc" => G[f] = F[f]
  <2>1. IsCookie(F) /\ "alloc" \in CookieFields /\ IsPut(G, F, "alloc", a)
    BY <1>3, <1>4 DEF CookieFields, IsPut
  <2> QED BY ONLY <2>1, PutField
<1>6. /\ G.max = H.max /\ G.ishead = H.ishead /\ G.usessl = H.usessl
      /\ G.has = H.has /\ G.hepos = H.hepos /\ G.chunked = H.chunked /\ G.readlen = H.readlen /\ G.body = x
  <2>1. /\ F.max = H.max /\ F.ishead = H.ishead /\ F.usessl = H.usessl
        /\ F.has = H.has /\ F.hepos = H.hepos /\ F.chunked = H.chunked /\ F.readlen = H.readlen /\ F.body = x
    BY ONLY <1>3 DEF CookieFields
  <2>2. /\ G.max = F.max /\ G.ishead = F.ishead /\ G.usessl = F.usessl
        /\ G.has = F.has /\ G.hepos = F.hepos /\ G.chunked = F.chunked /\ G.readlen = F.readlen /\ G.body = F.body
    BY ONLY <1>5 DEF CookieFields
  <2> QED BY ONLY <2>1, <2>2
<1>7. CookieOK(G)
  <2>1. IsCookie(G) /\ G.alloc = a
    BY <1>5
  <2>2. /\ SameRequest(G, H) /\ G.has \subseteq Handles /\ G.hepos \in Nat
        /\ G.chunked \in BOOLEAN /\ G.readlen \in Nat
    BY <1>6, CookieFacts DEF SameRequest
  <2>3. G.alloc \in Nat /\ IsSeq(G.body) /\ Len(G.body) <= G.alloc /\ G.alloc <= G.max
    BY <1>1, <1>2, <1>6, <2>1 DEF n
  <2> QED BY <2>1, <2>2, <2>3, CookieIs
<1> QED BY <1>6, <1>7 DEF SameRequest, x
----------------------------------------------------------------------------
(* What the functions of the parser and the events leave alone, and what    *)
(* they keep of the cookie.                                                 *)
Stays == resp' = resp /\ stream' = stream /\ got' = got /\ h0' = h0
KeepsCookie ==
  /\ hpc \notin {"none", "over"} /\ Stays /\ pos' \in 0 .. got
  /\ CookieOK(h') /\ SameRequest(h', h) /\ handles' = h'.has
  /\ "R" \notin h'.has => wait = NULL

LEMMA Steps ==
  ASSUME HttpIInv, KeepsCookie, answer' = answer \/ AnswerOK(answer', resp, h0, fault'),
         fault' \in BOOLEAN, fault => fault', hopen' \in BOOLEAN, hstatus' \in -1 .. 1,
         wait' = NULL \/ (wait'.cb \in Waits /\ wait'.len \in Nat), "R" \notin h'.has => wait' = NULL,
         hpc' \in {"loop", "callback", "die", "abort"} \cup (Parser \ {"callback_connected"}),
         hpc' = "loop" => Waiting(resp, got, pos', h', wait'),
         hpc' \in Parser => Parsing(hpc', hstatus', resp, got, pos', h')
  PROVE  HttpIInv'
<1>1. HttpTypeOK'
  <2>1. resp' \in Responses /\ pos' \in 0 .. got' /\ got' \in 0 .. Len(stream')
    BY DEF HttpIInv, HttpTypeOK, KeepsCookie, Stays
  <2>2. h'.has \subseteq Handles /\ h'.max \in MaxRLens /\ handles' \subseteq Handles
    BY DEF KeepsCookie, CookieOK
  <2>3. hpc' \in {"none", "loop", "callback", "die", "over", "abort"} \cup Parser
    OBVIOUS
  <2> QED BY <2>1, <2>2, <2>3 DEF HttpTypeOK
<1>2. stream' = Bytes(resp')
  BY DEF HttpIInv, KeepsCookie, Stays
<1>3. AnswerOK(answer', resp', h0', fault')
  <2>1. resp' = resp /\ h0' = h0
    BY DEF KeepsCookie, Stays
  <2>2. AnswerOK(answer, resp, h0, fault)
    BY DEF HttpIInv
  <2> QED BY <2>1, <2>2 DEF AnswerOK
<1>4. CookieOK(h') /\ h0'.max = h'.max /\ h0'.ishead = h'.ishead
  <2>1. h0.max = h.max /\ h0.ishead = h.ishead
    BY DEF HttpIInv, KeepsCookie
  <2> QED BY <2>1 DEF KeepsCookie, Stays, SameRequest
<1>5. hpc' \notin {"none", "over", "callback_connected"}
  BY DEF Parser
<1>6. handles' = h'.has
  BY DEF KeepsCookie
<1>7. hpc' = "loop" => Waiting(resp', got', pos', h', wait')
  BY DEF KeepsCookie, Stays
<1>8. hpc' \in Parser => Parsing(hpc', hstatus', resp', got', pos', h')
  BY DEF KeepsCookie, Stays
<1> QED BY <1>1, <1>2, <1>3, <1>4, <1>5, <1>6, <1>7, <1>8 DEF HttpIInv

LEMMA ToCallback ==
  ASSUME HttpIInv, KeepsCookie, NEW a, Callback(a), AnswerOK(a, resp, h0, fault'),
         fault' \in BOOLEAN, fault => fault'
  PROVE  HttpIInv'
<1>1. /\ answer' = a /\ hpc' = "callback" /\ hopen' = FALSE /\ hstatus' = hstatus /\ wait' = wait
  BY DEF Callback
<1>2. hstatus' \in -1 .. 1 /\ (wait' = NULL \/ (wait'.cb \in Waits /\ wait'.len \in Nat))
  BY <1>1 DEF HttpIInv, HttpTypeOK
<1>3. "R" \notin h'.has => wait' = NULL
  BY <1>1 DEF KeepsCookie
<1>4. hpc' \in {"loop", "callback", "die", "abort"} /\ hpc' # "loop" /\ hpc' \notin Parser
  BY <1>1 DEF Parser
<1> QED BY <1>1, <1>2, <1>3, <1>4, Steps

LEMMA ToStop ==
  ASSUME HttpIInv, KeepsCookie, NEW f \in {"die", "abort"}, GoOn(f, h'), fault' = fault
  PROVE  HttpIInv'
<1>1. /\ answer' = answer /\ hpc' = f /\ hopen' = hopen /\ hstatus' = 0 /\ wait' = wait
  BY DEF GoOn
<1>2. /\ hstatus' \in -1 .. 1 /\ (wait' = NULL \/ (wait'.cb \in Waits /\ wait'.len \in Nat))
      /\ hopen' \in BOOLEAN /\ fault' \in BOOLEAN
  BY <1>1 DEF HttpIInv, HttpTypeOK
<1>3. "R" \notin h'.has => wait' = NULL
  BY <1>1 DEF KeepsCookie
<1>4. hpc' \in {"loop", "callback", "die", "abort"} /\ hpc' # "loop" /\ hpc' \notin Parser
  BY <1>1 DEF Parser
<1> QED BY <1>1, <1>2, <1>3, <1>4, Steps

LEMMA ToParser ==
  ASSUME HttpIInv, KeepsCookie, NEW f \in Parser, f # "callback_connected", GoOn(f, h'), fault' = fault,
         "R" \in h'.has, "connect_cookie" \notin h'.has, At(f, resp, got, pos', h')
  PROVE  HttpIInv'
<1>1. /\ answer' = answer /\ hpc' = f /\ hopen' = hopen /\ hstatus' = 0 /\ wait' = wait
  BY DEF GoOn
<1>2. /\ hstatus' \in -1 .. 1 /\ (wait' = NULL \/ (wait'.cb \in Waits /\ wait'.len \in Nat))
      /\ hopen' \in BOOLEAN /\ fault' \in BOOLEAN
  BY <1>1 DEF HttpIInv, HttpTypeOK
<1>4. hpc' # "loop" /\ hpc' \in {"loop", "callback", "die", "abort"} \cup (Parser \ {"callback_connected"})
  BY <1>1 DEF Parser
<1>5. Parsing(hpc', hstatus', resp, got, pos', h')
  BY <1>1 DEF Parsing
<1> QED BY <1>1, <1>2, <1>4, <1>5, Steps

LEMMA ToAwait ==
  ASSUME HttpIInv, KeepsCookie, NEW f \in Waits, NEW n \in Nat, Await(n, f, h'), fault' = fault,
         "R" \in h'.has, "connect_cookie" \notin h'.has, At(f, resp, got, pos', h'),
         f = "callback_read_toeof" => n = 1
  PROVE  HttpIInv'
<1>1. answer' = answer /\ hopen' = hopen /\ hstatus' = hstatus
  BY DEF Await
<1>2. hstatus' \in -1 .. 1 /\ hopen' \in BOOLEAN /\ fault' \in BOOLEAN
  BY <1>1 DEF HttpIInv, HttpTypeOK
<1>3. CASE wait' = [len |-> n, cb |-> f] /\ hpc' = "loop"
  <2>1. wait'.cb = f /\ wait'.len = n
    BY <1>3
  <2>2. Waiting(resp, got, pos', h', wait')
    BY <2>1 DEF Waiting
  <2>3. "loop" \notin Parser
    BY DEF Parser
  <2> QED BY <1>1, <1>2, <1>3, <2>1, <2>2, <2>3, Steps
<1>4. CASE hpc' = "die" /\ wait' = wait
  <2>1. wait' = NULL \/ (wait'.cb \in Waits /\ wait'.len \in Nat)
    BY <1>4 DEF HttpIInv, HttpTypeOK
  <2>2. "die" \notin Parser
    BY DEF Parser
  <2> QED BY <1>1, <1>2, <1>4, <2>1, <2>2, Steps
<1> QED BY <1>3, <1>4 DEF Await
----------------------------------------------------------------------------
(* The actions. *)
LEMMA StreamIs ==
  ASSUME HttpIInv
  PROVE  LaidOut(resp, stream) /\ IsSeq(stream) /\ Len(stream) \in Nat
         /\ got \in Nat /\ pos \in Nat /\ pos <= got /\ got <= Len(stream)
<1>1. resp \in Responses /\ stream = Bytes(resp)
  BY DEF HttpIInv, HttpTypeOK
<1>2. LaidOut(resp, stream)
  BY <1>1, LaidOutOK
<1>3. IsSeq(stream)
  BY <1>2 DEF LaidOut
<1>4. Len(stream) \in Nat
  BY <1>3, SeqLen
<1>5. got \in 0 .. Len(stream) /\ pos \in 0 .. got
  BY DEF HttpIInv, HttpTypeOK
<1> QED BY <1>2, <1>3, <1>4, <1>5

LEMMA HttpInitOK == HttpInit => HttpIInv
<1> SUFFICES ASSUME HttpInit PROVE HttpIInv
  OBVIOUS
<1>1. resp \in Responses /\ stream = Bytes(resp)
  BY DEF HttpInit
<1>2. Len(stream) \in Nat
  <2>1. IsSeq(stream)
    BY <1>1, LaidOutOK DEF LaidOut
  <2> QED BY <2>1, SeqLen
<1>3. HttpTypeOK
  <2>1. /\ got = 0 /\ pos = 0 /\ wait = NULL /\ h = NULL /\ hpc = "none" /\ hstatus = 0
        /\ handles = {} /\ hopen = FALSE /\ fault = FALSE
    BY DEF HttpInit
  <2>2. got \in 0 .. Len(stream) /\ pos \in 0 .. got /\ hstatus \in -1 .. 1
    BY ONLY <1>2, <2>1
  <2> QED BY ONLY <1>1, <2>1, <2>2 DEF HttpTypeOK
<1> QED BY <1>1, <1>3 DEF HttpInit, HttpIInv, AnswerOK, Parser

LEMMA RequestOK ==
  ASSUME HttpIInv, NEW max \in MaxRLens, NEW ishead \in BOOLEAN, NEW ssl \in BOOLEAN,
         http_request2(max, ishead, ssl)
  PROVE  HttpIInv'
<1>1. /\ hpc = "none" /\ h0' = h' /\ resp' = resp /\ stream' = stream /\ got' = got /\ pos' = pos
      /\ wait' = wait /\ hstatus' = hstatus /\ answer' = answer /\ fault' = fault
  BY DEF http_request2
<1>2. wait = NULL /\ answer = NULL /\ pos = 0 /\ h = NULL /\ handles = {}
  BY <1>1 DEF HttpIInv
<1>3. /\ resp' \in Responses /\ pos' \in 0 .. got' /\ got' \in 0 .. Len(stream')
      /\ hstatus' \in -1 .. 1 /\ fault' \in BOOLEAN /\ hopen \in BOOLEAN
  BY <1>1 DEF HttpIInv, HttpTypeOK
<1>4. stream' = Bytes(resp') /\ AnswerOK(answer', resp', h0', fault')
  BY <1>1, <1>2 DEF HttpIInv, AnswerOK
<1>5. CASE /\ h' = [has |-> {"connect_cookie"}, max |-> max, ishead |-> ishead, usessl |-> ssl,
                    hepos |-> 0, head |-> NULL, chunked |-> FALSE, readlen |-> 0,
                    body |-> <<>>, alloc |-> 0]
           /\ handles' = {"connect_cookie"} /\ hpc' = "loop" /\ hopen' = TRUE
  <2>1. IsCookie(h')
    BY <1>5 DEF IsCookie, CookieFields
  <2>2. /\ h'.has = {"connect_cookie"} /\ h'.max = max /\ h'.ishead = ishead /\ h'.usessl = ssl
        /\ h'.hepos = 0 /\ h'.chunked = FALSE /\ h'.readlen = 0 /\ h'.body = <<>> /\ h'.alloc = 0
    BY <1>5
  <2>3. IsSeq(<<>>) /\ Len(<<>>) = 0
    <3>1. <<>> \in Seq(Nat) /\ Len(<<>>) = 0
      OBVIOUS
    <3> QED BY <3>1 DEF IsSeq
  <2>4. CookieOK(h')
    <3>1. h' = [f \in CookieFields |-> h'[f]]
      BY <2>1 DEF IsCookie
    <3>2. h'.has \subseteq Handles /\ h'.max \in MaxRLens /\ h'.max \in Nat
      BY <2>2, HttpConsts DEF Handles
    <3>3. h'.ishead \in BOOLEAN /\ h'.usessl \in BOOLEAN /\ h'.chunked \in BOOLEAN
      BY <2>2
    <3>4. h'.hepos \in Nat /\ h'.readlen \in Nat /\ h'.alloc \in Nat /\ h'.alloc <= h'.max
      BY <2>2, <3>2
    <3>5. IsSeq(h'.body) /\ Len(h'.body) <= h'.alloc
      BY <2>2, <2>3
    <3> QED BY ONLY <3>1, <3>2, <3>3, <3>4, <3>5 DEF CookieOK
  <2>5. Waiting(resp', got', pos', h', wait')
    <3>1. Fresh(pos', h')
      BY <1>1, <1>2, <2>2 DEF Fresh, Bare
    <3> QED BY <1>1, <1>2, <2>2, <3>1 DEF Waiting
  <2>6. hpc' = "loop" /\ handles' = h'.has /\ hopen' \in BOOLEAN /\ handles' \subseteq Handles
    BY <1>5, <2>2 DEF Handles
  <2>7. HttpTypeOK'
    BY <1>1, <1>2, <1>3, <2>2, <2>4, <2>6 DEF HttpTypeOK, CookieOK
  <2> QED BY <1>1, <1>2, <1>4, <2>4, <2>5, <2>6, <2>7 DEF HttpIInv, Parser
<1>6. CASE hpc' = "over" /\ h' = h /\ handles' = handles /\ hopen' = hopen
  <2>1. HttpTypeOK'
    BY <1>1, <1>2, <1>3, <1>6 DEF HttpTypeOK
  <2> QED BY <1>1, <1>2, <1>4, <1>6, <2>1 DEF HttpIInv, Parser
<1> QED BY <1>5, <1>6 DEF http_request2

(* What releases the cookie. *)
LEMMA CancelOK ==
  ASSUME HttpIInv, hpc \notin {"none", "over", "callback_connected"}, http_request_cancel,
         Stays, pos' = pos, hstatus' = hstatus, answer' = answer, hopen' \in BOOLEAN,
         fault' \in BOOLEAN, fault => fault'
  PROVE  HttpIInv'
<1>1. handles = h.has /\ ("R" \notin h.has => wait = NULL)
  BY DEF HttpIInv
<1>2. handles' = {} /\ wait' = NULL /\ h' = NULL /\ hpc' = "over"
  BY <1>1 DEF http_request_cancel
<1>3. HttpTypeOK'
  BY <1>2 DEF HttpIInv, HttpTypeOK, Stays
<1>4. stream' = Bytes(resp') /\ AnswerOK(answer', resp', h0', fault')
  <2>1. AnswerOK(answer, resp, h0, fault)
    BY DEF HttpIInv
  <2> QED BY <2>1 DEF HttpIInv, AnswerOK, Stays
<1> QED BY <1>2, <1>3, <1>4 DEF HttpIInv, Parser

LEMMA CancelsOK ==
  ASSUME HttpIInv, HttpCancel \/ HttpCallbackReturns \/ die
  PROVE  HttpIInv'
<1>1. hopen \in BOOLEAN /\ fault \in BOOLEAN
  BY DEF HttpIInv, HttpTypeOK
<1>2. CASE HttpCancel
  BY <1>1, <1>2, CancelOK DEF HttpCancel, Stays
<1>3. CASE HttpCallbackReturns
  BY <1>1, <1>3, CancelOK DEF HttpCallbackReturns, Stays
<1>4. CASE die
  BY <1>1, <1>4, CancelOK DEF die, Stays
<1> QED BY <1>2, <1>3, <1>4

(* The events. *)
LEMMA ConnectsOK ==
  ASSUME HttpIInv, NEW ok \in BOOLEAN, Connects(ok)
  PROVE  HttpIInv'
<1>1. /\ hpc = "loop" /\ "connect_cookie" \in h.has /\ h' = [h EXCEPT !.has = {}]
      /\ handles' = (IF ok THEN {"s"} ELSE {})
      /\ hpc' = "callback_connected" /\ hstatus' = (IF ok THEN 0 ELSE -1) /\ fault' = (fault \/ ~ok)
      /\ resp' = resp /\ stream' = stream /\ h0' = h0 /\ got' = got /\ pos' = pos /\ wait' = wait
      /\ answer' = answer /\ hopen' = hopen
  BY DEF Connects
<1>2. CookieOK(h) /\ h0.max = h.max /\ h0.ishead = h.ishead
  BY <1>1 DEF HttpIInv
<1>3. wait = NULL /\ Fresh(pos, h)
  BY <1>1 DEF HttpIInv, Waiting
<1>4. /\ CookieOK(h') /\ SameRequest(h', h) /\ h'.has = {} /\ h'.hepos = h.hepos
      /\ h'.chunked = h.chunked /\ h'.body = h.body
  <2>1. {} \in SUBSET Handles /\ IsPut(h', h, "has", {})
    BY <1>1 DEF IsPut
  <2> QED BY ONLY <1>2, <2>1, SetHas
<1>5. Fresh(pos', h')
  BY <1>1, <1>3, <1>4 DEF Fresh, Bare
<1>6. HttpTypeOK'
  <2>1. /\ resp' \in Responses /\ pos' \in 0 .. got' /\ got' \in 0 .. Len(stream')
        /\ hopen' \in BOOLEAN /\ fault' \in BOOLEAN /\ hstatus' \in -1 .. 1
    BY <1>1 DEF HttpIInv, HttpTypeOK
  <2>2. h'.has \subseteq Handles /\ h'.max \in MaxRLens /\ handles' \subseteq Handles
    BY <1>1, <1>4 DEF CookieOK, Handles
  <2>3. hpc' \in Parser /\ wait' = NULL
    BY <1>1, <1>3 DEF Parser
  <2> QED BY <2>1, <2>2, <2>3 DEF HttpTypeOK
<1>7. stream' = Bytes(resp') /\ AnswerOK(answer', resp', h0', fault')
  <2>1. stream = Bytes(resp) /\ AnswerOK(answer, resp, h0, fault)
    BY DEF HttpIInv
  <2> QED BY <1>1, <2>1 DEF AnswerOK
<1>8. handles' = (IF hstatus' = 0 THEN {"s"} ELSE {}) /\ (hstatus' = -1 => fault')
  <2>1. CASE ok
    BY <1>1, <2>1
  <2>2. CASE ~ok
    <3>1. fault' /\ hstatus' = -1 /\ handles' = {}
      BY <1>1, <2>2
    <3> QED BY <3>1
  <2> QED BY <2>1, <2>2
<1>9. h0'.max = h'.max /\ h0'.ishead = h'.ishead
  BY <1>1, <1>2, <1>4 DEF SameRequest
<1> QED BY <1>1, <1>3, <1>4, <1>5, <1>6, <1>7, <1>8, <1>9 DEF HttpIInv

LEMMA WriteFailsOK ==
  ASSUME HttpIInv, WriteFails
  PROVE  HttpIInv'
<1>1. hpc = "loop" /\ Callback(Answer("fail", <<>>)) /\ h' = h /\ fault' = TRUE
      /\ resp' = resp /\ stream' = stream /\ h0' = h0 /\ got' = got /\ pos' = pos /\ handles' = handles
  BY DEF WriteFails, fail
<1>2. KeepsCookie
  BY <1>1 DEF KeepsCookie, Stays, HttpIInv, HttpTypeOK, SameRequest
<1>3. AnswerOK(Answer("fail", <<>>), resp, h0, fault')
  BY <1>1 DEF AnswerOK, Answer
<1>4. fault' \in BOOLEAN
  BY <1>1
<1> QED BY <1>1, <1>2, <1>3, <1>4, ToCallback

LEMMA MoreGot ==
  ASSUME NEW f \in Waits, NEW r, NEW g, NEW n, NEW p, NEW H, At(f, r, g, p, H)
  PROVE  At(f, r, n, p, H)
<1>1. f # "gotheaders"
  BY DEF Waits
<1> QED BY <1>1 DEF At

(* What answers a wait. *)
LEMMA AnswersOK ==
  ASSUME HttpIInv, NEW st \in -1 .. 1, NEW n \in got .. Len(stream), ReaderAnswers(st, n),
         fault' \in BOOLEAN, fault => fault',
         \/ st = 0
         \/ fault' /\ (st = -1 \/ wait.cb # "callback_read_toeof")
         \/ st = 1 /\ wait.cb = "callback_read_toeof" /\ Len(stream) - pos < wait.len
  PROVE  HttpIInv'
<1>1. /\ hpc = "loop" /\ wait # NULL /\ hpc' = wait.cb /\ wait' = NULL /\ hstatus' = st /\ got' = n
      /\ resp' = resp /\ stream' = stream /\ h0' = h0 /\ pos' = pos /\ h' = h /\ handles' = handles
      /\ answer' = answer /\ hopen' = hopen
  BY DEF ReaderAnswers
<1>2. CookieOK(h) /\ h0.max = h.max /\ h0.ishead = h.ishead /\ handles = h.has
  BY <1>1 DEF HttpIInv
<1>3. wait.cb \in Waits
  BY <1>1 DEF HttpIInv, HttpTypeOK
<1>4. /\ "R" \in h.has /\ "connect_cookie" \notin h.has /\ At(wait.cb, resp, got, pos, h)
      /\ wait.cb = "callback_read_toeof" => wait.len = 1
  <2>1. Waiting(resp, got, pos, h, wait)
    BY <1>1 DEF HttpIInv
  <2> QED BY <1>1, <2>1 DEF Waiting
<1>5. At(wait.cb, resp, n, pos, h)
  BY ONLY <1>3, <1>4, MoreGot
<1>6. Interrupted(wait.cb, st, fault') \/ Parsing(wait.cb, st, resp, n, pos, h)
  <2>1. CASE st = 0
    BY <1>4, <1>5, <2>1 DEF Parsing
  <2>2. CASE fault' /\ (st = -1 \/ (st = 1 /\ wait.cb # "callback_read_toeof"))
    BY <1>3, <2>2 DEF Interrupted
  <2>3. CASE st = 1 /\ wait.cb = "callback_read_toeof" /\ Len(stream) - pos < wait.len
    <3>1. wait.len = 1 /\ stream = Bytes(resp)
      BY <1>4, <2>3 DEF HttpIInv
    <3>2. pos = Len(stream)
      BY <2>3, <3>1, StreamIs
    <3> QED BY <1>4, <1>5, <2>3, <3>1, <3>2 DEF Parsing
  <2> QED BY <2>1, <2>2, <2>3
<1>7. HttpTypeOK'
  <2>1. pos' \in 0 .. got' /\ got' \in 0 .. Len(stream')
    BY <1>1, StreamIs
  <2>2. hpc' \in Parser
    BY <1>1, <1>3 DEF Parser, Waits
  <2> QED BY <1>1, <2>1, <2>2 DEF HttpIInv, HttpTypeOK
<1>8. stream' = Bytes(resp') /\ AnswerOK(answer', resp', h0', fault')
  <2>1. stream = Bytes(resp) /\ AnswerOK(answer, resp, h0, fault)
    BY DEF HttpIInv
  <2> QED BY <1>1, <2>1 DEF AnswerOK
<1>9. hpc' \notin {"none", "over", "loop", "callback_connected"}
  BY <1>1, <1>3 DEF Waits
<1> QED BY <1>1, <1>2, <1>6, <1>7, <1>8, <1>9 DEF HttpIInv

LEMMA ReaderOK ==
  ASSUME HttpIInv, DataComes \/ StreamEnds \/ ReadFails
  PROVE  HttpIInv'
<1>1. fault \in BOOLEAN /\ got \in got .. Len(stream)
  BY StreamIs DEF HttpIInv, HttpTypeOK
<1>2. CASE DataComes
  <2>1. PICK n \in got .. Len(stream) : ReaderAnswers(0, n)
    BY <1>2 DEF DataComes
  <2>2. fault' = fault /\ 0 \in -1 .. 1
    BY <1>2 DEF DataComes
  <2> QED BY <1>1, <2>1, <2>2, AnswersOK
<1>3. CASE StreamEnds
  <2>1. ReaderAnswers(1, got) /\ Len(stream) - pos < wait.len /\ 1 \in -1 .. 1
    BY <1>3 DEF StreamEnds
  <2>2. fault' = (fault \/ wait.cb # "callback_read_toeof")
    BY <1>3 DEF StreamEnds
  <2> QED BY <1>1, <2>1, <2>2, AnswersOK
<1>4. CASE ReadFails
  <2>1. ReaderAnswers(-1, got) /\ fault' = TRUE /\ -1 \in -1 .. 1
    BY <1>4 DEF ReadFails
  <2> QED BY <1>1, <2>1, AnswersOK
<1> QED BY <1>2, <1>3, <1>4

(* The functions of the parser. *)
LEMMA WhenParsing ==
  ASSUME HttpIInv, hpc \in Parser, hpc # "callback_connected"
  PROVE  /\ resp \in Responses /\ CookieOK(h) /\ h0.max = h.max /\ h0.ishead = h.ishead
         /\ handles = h.has /\ ("R" \notin h.has => wait = NULL) /\ hstatus \in -1 .. 1
         /\ fault \in BOOLEAN /\ stream = Bytes(resp)
         /\ Interrupted(hpc, hstatus, fault) \/ Parsing(hpc, hstatus, resp, got, pos, h)
         /\ hstatus = 0 => Parsing(hpc, hstatus, resp, got, pos, h)
<1>1. hpc \notin {"none", "over", "loop"}
  BY DEF Parser
<1>2. Interrupted(hpc, hstatus, fault) => hstatus # 0
  BY DEF Interrupted
<1> QED BY <1>1, <1>2 DEF HttpIInv, HttpTypeOK

(* A function that was given a failure, or the end of the stream too early. *)
LEMMA FailsOK ==
  ASSUME HttpIInv, hpc \in Waits, fail, parservars' = parservars, pos' = pos,
         hstatus # 0, hpc # "callback_read_toeof" \/ hstatus = -1
  PROVE  HttpIInv'
<1>1. hpc \in Parser /\ hpc \notin {"none", "over", "callback_connected"}
  BY DEF Parser, Waits
<1>2. fault
  BY <1>1, WhenParsing DEF Interrupted, Parsing
<1>3. h' = h /\ Callback(Answer("fail", <<>>)) /\ Stays /\ fault' = fault /\ handles' = handles
  BY DEF fail, parservars, Stays
<1>4. KeepsCookie
  BY <1>1, <1>3, WhenParsing, StreamIs DEF KeepsCookie, SameRequest
<1>5. AnswerOK(Answer("fail", <<>>), resp, h0, fault')
  BY <1>2, <1>3 DEF AnswerOK, Answer
<1>6. fault \in BOOLEAN
  BY <1>1, WhenParsing
<1> QED BY <1>3, <1>4, <1>5, <1>6, ToCallback

(* A function that changes the cookie and goes on. *)
LEMMA Keeps ==
  ASSUME HttpIInv, hpc \in Parser, hpc # "callback_connected", parservars' = parservars,
         pos' \in 0 .. got, CookieOK(h'), SameRequest(h', h), h'.has = h.has
  PROVE  KeepsCookie /\ fault' = fault /\ fault' \in BOOLEAN /\ ("R" \in h.has => "R" \in h'.has)
<1>1. hpc \notin {"none", "over"}
  BY DEF Parser
<1>2. Stays /\ handles' = handles /\ fault' = fault
  BY DEF parservars, Stays
<1> QED BY <1>1, <1>2, WhenParsing DEF KeepsCookie

(* The request is answered as the response means. *)
LEMMA AnswersAsMeant ==
  ASSUME HttpIInv, hpc \in Parser, hpc # "callback_connected", parservars' = parservars,
         pos' \in 0 .. got, CookieOK(h'), SameRequest(h', h), h'.has = h.has,
         NEW a, Callback(a), a = Meaning(resp, h.max, h.ishead)
  PROVE  HttpIInv'
<1>1. KeepsCookie /\ fault' = fault /\ fault' \in BOOLEAN
  BY Keeps
<1>2. AnswerOK(a, resp, h0, fault')
  BY WhenParsing DEF AnswerOK
<1> QED BY <1>1, <1>2, ToCallback

LEMMA StopsOK ==
  ASSUME HttpIInv, hpc \in Parser, hpc # "callback_connected", parservars' = parservars,
         pos' \in 0 .. got, CookieOK(h'), SameRequest(h', h), h'.has = h.has,
         NEW f \in {"die", "abort"}, GoOn(f, h')
  PROVE  HttpIInv'
BY Keeps, ToStop

LEMMA ParsesOn ==
  ASSUME HttpIInv, hpc \in Parser, hpc # "callback_connected", parservars' = parservars,
         pos' \in 0 .. got, CookieOK(h'), SameRequest(h', h), h'.has = h.has, hstatus = 0,
         NEW f \in Parser, f # "callback_connected", GoOn(f, h'), At(f, resp, got, pos', h')
  PROVE  HttpIInv'
<1>1. KeepsCookie /\ fault' = fault
  BY Keeps
<1>2. "R" \in h'.has /\ "connect_cookie" \notin h'.has
  BY WhenParsing DEF Parsing
<1> QED BY <1>1, <1>2, ToParser

LEMMA AwaitsMore ==
  ASSUME HttpIInv, hpc \in Parser, hpc # "callback_connected", parservars' = parservars,
         pos' \in 0 .. got, CookieOK(h'), SameRequest(h', h), h'.has = h.has, hstatus = 0,
         NEW f \in Waits, NEW n \in Nat, Await(n, f, h'), At(f, resp, got, pos', h'),
         f = "callback_read_toeof" => n = 1
  PROVE  HttpIInv'
<1>1. KeepsCookie /\ fault' = fault
  BY Keeps
<1>2. "R" \in h'.has /\ "connect_cookie" \notin h'.has
  BY WhenParsing DEF Parsing
<1> QED BY <1>1, <1>2, ToAwait

LEMMA ConnectedOK ==
  ASSUME HttpIInv, callback_connected
  PROVE  HttpIInv'
<1>1. /\ hpc = "callback_connected" /\ Stays /\ pos' = pos /\ fault' = fault
  BY DEF callback_connected, Stays
<1>2. /\ CookieOK(h) /\ h.has = {} /\ Fresh(pos, h) /\ wait = NULL /\ (hstatus = -1 => fault)
      /\ handles = (IF hstatus = 0 THEN {"s"} ELSE {}) /\ fault \in BOOLEAN /\ resp \in Responses
  BY <1>1 DEF HttpIInv, HttpTypeOK
<1>3. pos' \in 0 .. got
  BY <1>1, StreamIs
<1>4. CASE hstatus = -1
  <2>1. h' = h /\ Callback(Answer("fail", <<>>)) /\ handles' = handles
    BY <1>1, <1>4 DEF callback_connected, fail
  <2>2. KeepsCookie
    BY <1>1, <1>2, <1>3, <1>4, <2>1 DEF KeepsCookie, SameRequest
  <2>3. AnswerOK(Answer("fail", <<>>), resp, h0, fault')
    BY <1>1, <1>2, <1>4 DEF AnswerOK, Answer
  <2> QED BY <1>1, <1>2, <2>1, <2>2, <2>3, ToCallback
<1>5. CASE hstatus # -1
  <2>1. PICK n \in 0 .. Len(Opens) :
          /\ handles' = handles \cup ({"s"} \cup {Opens[i] : i \in 1 .. n})
          /\ \/ GoOn("die", [h EXCEPT !.has = {"s"} \cup {Opens[i] : i \in 1 .. n}])
             \/ /\ n = Len(Opens)
                /\ GoOn("callback_read_header", [h EXCEPT !.has = {"s"} \cup {Opens[i] : i \in 1 .. n}])
    BY <1>1, <1>5 DEF callback_connected
  <2> DEFINE has == {"s"} \cup {Opens[i] : i \in 1 .. n}
  <2>2. /\ has \subseteq Handles /\ "connect_cookie" \notin has /\ handles' = has
        /\ (n = Len(Opens) => "R" \in has)
    <3>1. \A i \in 1 .. Len(Opens) : Opens[i] \in {"ssl", "R", "W"}
      BY DEF Opens
    <3>2. \E i \in 1 .. Len(Opens) : Opens[i] = "R"
      <4>1. CASE h.usessl
        <5>1. 2 \in 1 .. Len(Opens) /\ Opens[2] = "R"
          BY <4>1 DEF Opens
        <5> QED BY <5>1
      <4>2. CASE ~h.usessl
        <5>1. 1 \in 1 .. Len(Opens) /\ Opens[1] = "R"
          BY <4>2 DEF Opens
        <5> QED BY <5>1
      <4> QED BY <4>1, <4>2
    <3>3. Len(Opens) \in Nat
      BY DEF Opens
    <3>4. \A i \in 1 .. n : i \in 1 .. Len(Opens)
      BY <3>3
    <3>5. has \subseteq Handles /\ "connect_cookie" \notin has
      BY <3>1, <3>4 DEF Handles
    <3>6. handles \subseteq {"s"}
      BY <1>2
    <3>7. handles' = has
      BY <2>1, <3>6
    <3> QED BY <3>2, <3>5, <3>7
  <2> HIDE DEF has
  <2>3. h' = [h EXCEPT !.has = has]
    BY <2>1 DEF GoOn, has
  <2>4. /\ CookieOK(h') /\ SameRequest(h', h) /\ h'.has = has /\ h'.hepos = h.hepos
        /\ h'.chunked = h.chunked /\ h'.body = h.body
    <3>1. has \in SUBSET Handles /\ IsPut(h', h, "has", has)
      BY <2>2, <2>3 DEF IsPut
    <3> QED BY ONLY <1>2, <3>1, SetHas
  <2>5. KeepsCookie
    BY <1>1, <1>2, <1>3, <2>2, <2>4 DEF KeepsCookie
  <2>6. CASE GoOn("die", h')
    <3>1. "die" \in {"die", "abort"} /\ fault' = fault
      BY <1>1
    <3> QED BY <2>5, <2>6, <3>1, ToStop
  <2>7. CASE n = Len(Opens) /\ GoOn("callback_read_header", h')
    <3>1. At("callback_read_header", resp, got, pos', h')
      <4>1. Bare(h') /\ pos' = 0 /\ h'.hepos = 0
        BY <1>1, <1>2, <2>4 DEF Fresh, Bare
      <4>2. ReadingHead(resp, pos', h', 0)
        BY <4>1 DEF ReadingHead, HeadAt, EndAt
      <4>3. 0 \in 0 .. resp.interim
        BY <1>2, ResponseFacts
      <4> QED BY <4>2, <4>3 DEF At
    <3>2. "callback_read_header" \in Parser /\ "R" \in h'.has /\ "connect_cookie" \notin h'.has
      BY <2>2, <2>4, <2>7 DEF Parser
    <3> QED BY <1>1, <2>5, <2>7, <3>1, <3>2, ToParser
  <2> QED BY <2>1, <2>3, <2>6, <2>7 DEF has
<1> QED BY <1>4, <1>5

(* The client's function is called with the body, which is taken from the   *)
(* cookie.                                                                  *)
LEMMA CallsBack ==
  ASSUME HttpIInv, hpc \in Parser, hpc # "callback_connected", parservars' = parservars,
         pos' \in 0 .. got, NEW H, CookieOK(H), SameRequest(H, h), H.has = h.has,
         \/ http_docallback(H) /\ Answer("ok", H.body) = Meaning(resp, h.max, h.ishead)
         \/ toobig(H) /\ Answer("toobig", <<>>) = Meaning(resp, h.max, h.ishead)
  PROVE  HttpIInv'
<1>1. IsPut(h', H, "body", <<>>)
  BY DEF http_docallback, toobig, IsPut
<1>2. IsSeq(<<>>) /\ Len(<<>>) = 0
  <2>1. <<>> \in Seq(Nat) /\ Len(<<>>) = 0
    OBVIOUS
  <2> QED BY <2>1 DEF IsSeq
<1>3. Len(<<>>) <= H.alloc
  BY <1>2, CookieFacts
<1>4. CookieOK(h') /\ SameRequest(h', H) /\ h'.has = H.has
  BY ONLY <1>1, <1>2, <1>3, CookieOK(H), SetBody
<1>5. SameRequest(h', h) /\ h'.has = h.has
  BY <1>4 DEF SameRequest
<1> DEFINE a == Meaning(resp, h.max, h.ishead)
<1>6. Callback(a)
  BY DEF http_docallback, toobig
<1> QED BY <1>4, <1>5, <1>6, AnswersAsMeant

(* What the callback is to be given. *)
LEMMA WholeBody ==
  ASSUME NEW s, NEW n \in Nat, IsData(s, n)
  PROVE  s = Data(0, n)
<1>1. IsSeq(s) /\ Len(s) = n /\ \A x \in 1 .. n : s[x] = Unit("data", x)
  BY DEF IsData
<1>2. IsSeq(Data(0, n)) /\ Len(Data(0, n)) = n /\ \A x \in 1 .. n : Data(0, n)[x] = Unit("data", 0 + x)
  BY DataIs
<1>3. \A x \in 1 .. n : 0 + x = x
  OBVIOUS
<1>4. \A x \in 1 .. Len(s) : s[x] = Data(0, n)[x]
  BY <1>1, <1>2, <1>3
<1> QED BY <1>1, <1>2, <1>4, SeqEq

LEMMA MeaningIs ==
  ASSUME NEW r \in Responses, NEW max \in Nat, NEW ishead \in BOOLEAN
  PROVE  /\ r.enc \in {"bad", "longhdr"} => Meaning(r, max, ishead) = Answer("fail", <<>>)
         /\ r.enc \notin {"bad", "longhdr"} /\ (ishead \/ r.enc = "204") =>
              Meaning(r, max, ishead) = Answer("ok", <<>>)
         /\ ~ishead /\ r.enc = "badclen" => Meaning(r, max, ishead) = Answer("fail", <<>>)
         /\ ~ishead /\ r.enc \in {"clen", "toeof"} =>
              Meaning(r, max, ishead) = IF Total(r.parts) > max THEN Answer("toobig", <<>>)
                                        ELSE Answer("ok", Data(0, Total(r.parts)))
         /\ ~ishead /\ r.enc \in Chunky =>
              /\ Total(r.parts) > max => Meaning(r, max, ishead) = Answer("toobig", <<>>)
              /\ \A i \in 1 .. Len(r.parts) : r.parts[i] > HTTP_SIZE_MAX - 2 =>
                   Meaning(r, max, ishead) = Answer("toobig", <<>>)
              /\ Total(r.parts) <= max /\ SmallTo(r, Len(r.parts)) =>
                   Meaning(r, max, ishead) = IF r.enc = "chunked" THEN Answer("ok", Data(0, Total(r.parts)))
                                             ELSE Answer("fail", <<>>)
<1> DEFINE T == Total(r.parts)
           M == Meaning(r, max, ishead)
           Big == \E i \in DOMAIN r.parts : r.parts[i] > HTTP_SIZE_MAX - 2
           D == Answer("ok", Data(0, T))
           F == Answer("fail", <<>>)
           B == Answer("toobig", <<>>)
           O == Answer("ok", <<>>)
           e == r.enc
<1>1. M = IF e \in {"bad", "longhdr"} THEN F ELSE IF ishead \/ e = "204" THEN O
          ELSE IF T > max \/ (e \notin {"clen", "toeof"} /\ Big) THEN B
          ELSE IF e \in {"badclen", "badchunk", "longline"} THEN F ELSE D
  BY DEF Meaning
<1>2. T \in Nat /\ e \in Encs /\ DOMAIN r.parts = 1 .. Len(r.parts)
      /\ (e = "badclen" => r.parts = <<>>)
  <2>1. r.parts \in Seq(Nat \ {0})
    BY ResponseFacts
  <2>2. DOMAIN r.parts = 1 .. Len(r.parts)
    BY ONLY <2>1, LenProperties
  <2> QED BY <2>2, ResponseFacts
<1>3. e = "badclen" => T = 0 /\ ~Big
  <2>1. ASSUME r.parts = <<>> PROVE T = 0 /\ ~Big
    <3>1. <<>> \in Seq(Nat \ {0}) /\ Len(<<>>) = 0
      OBVIOUS
    <3>2. Upto(<<>>)[0] = 0
      BY ONLY <3>1, UptoFacts
    <3>3. T = 0
      BY ONLY <2>1, <3>1, <3>2 DEF Total
    <3>4. DOMAIN r.parts = {}
      BY <2>1
    <3> QED BY <3>3, <3>4
  <2> QED BY <1>2, <2>1
<1>4. /\ \A i \in 1 .. Len(r.parts) : r.parts[i] > HTTP_SIZE_MAX - 2 => Big
      /\ SmallTo(r, Len(r.parts)) => ~Big
  <2>1. \A i \in 1 .. Len(r.parts) : r.parts[i] \in Nat
    BY ResponseFacts, UptoFacts
  <2> QED BY <1>2, <2>1, HttpConsts DEF SmallTo
<1>5. /\ e \in {"bad", "longhdr"} => M = F
      /\ e \notin {"bad", "longhdr"} /\ (ishead \/ e = "204") => M = O
  <2> HIDE DEF M, F, O, B, D, T, Big, e
  <2> QED BY ONLY <1>1
<1>6. ~ishead /\ e = "badclen" => M = F
  <2> HIDE DEF M, F, O, B, D, T, Big, e
  <2> QED BY ONLY <1>1, <1>2, <1>3, max \in Nat
<1>7. ~ishead /\ e \in {"clen", "toeof"} => M = IF T > max THEN B ELSE D
  <2> HIDE DEF M, F, O, B, D, T, Big, e
  <2> QED BY ONLY <1>1
<1>8. ASSUME ~ishead, e \in Chunky
      PROVE  (T > max \/ Big => M = B) /\ (T <= max /\ ~Big => M = IF e = "chunked" THEN D ELSE F)
  <2> HIDE DEF M, F, O, B, D, T, Big, e
  <2> QED BY ONLY <1>1, <1>2, <1>8, max \in Nat DEF Chunky
<1> HIDE DEF Big
<1>9. ASSUME ~ishead, e \in Chunky
      PROVE /\ T > max => M = B
            /\ \A i \in 1 .. Len(r.parts) : r.parts[i] > HTTP_SIZE_MAX - 2 => M = B
            /\ T <= max /\ SmallTo(r, Len(r.parts)) => M = IF e = "chunked" THEN D ELSE F
  <2> HIDE DEF M, F, O, B, D, T, e
  <2> QED BY <1>4, <1>8, <1>9
<1> QED BY <1>5, <1>6, <1>7, <1>9

LEMMA ReadHeaderOK ==
  ASSUME HttpIInv, callback_read_header
  PROVE  HttpIInv'
<1> DEFINE f == "callback_read_header"
           ends == {i \in h.hepos .. avail - 4 : OccursAt(Buf, <<CR, LF, CR, LF>>, i + 1)}
           v == IF ends # {} THEN Min(ends) ELSE Max({h.hepos, avail - 3})
           H == [h EXCEPT !.hepos = v]
<1>1. hpc = f /\ parservars' = parservars /\ pos' = pos
  BY DEF callback_read_header
<1>2. /\ hpc \in Parser /\ hpc \in Waits /\ hpc # "callback_connected" /\ "gotheaders" \in Parser
      /\ "gotheaders" # "callback_connected" /\ f # "callback_read_toeof"
  BY <1>1 DEF Parser, Waits
<1>3. pos' \in 0 .. got
  BY <1>1, StreamIs
<1>4. IF hstatus # 0 THEN fail
      ELSE IF ends # {} THEN GoOn("gotheaders", H)
      ELSE IF avail > MAXHDR THEN fail
      ELSE Await(avail + 1, f, H)
  BY DEF callback_read_header
<1>5. CASE hstatus # 0
  BY <1>1, <1>2, <1>4, <1>5, FailsOK
<1>6. CASE hstatus = 0
  <2>1. resp \in Responses /\ CookieOK(h) /\ h.hepos \in Nat /\ h.max \in Nat /\ h.ishead \in BOOLEAN
    BY <1>2, WhenParsing, CookieFacts DEF CookieOK
  <2>2. PICK k \in 0 .. resp.interim : ReadingHead(resp, pos, h, k)
    BY <1>1, <1>2, <1>6, WhenParsing DEF Parsing, At
  <2> DEFINE E == EndAt(resp, k)
             no == NoEnd(resp, k)
  <2>3. Bare(h) /\ pos = HeadAt(k) /\ (h.hepos <= E \/ no)
    BY <2>2 DEF ReadingHead
  <2>4. E \in {1, 2}
    BY DEF EndAt
  <2>5. /\ LaidOut(resp, stream) /\ Len(stream) \in Nat /\ got \in Nat /\ pos \in Nat
        /\ pos <= got /\ got <= Len(stream)
    BY StreamIs
  <2> DEFINE he == h.hepos
  <2>6. HeadsEnd(ends, stream, pos, got, he)
    BY DEF HeadsEnd, avail, Buf
  <2> HIDE DEF ends, E, no
  <2>7. /\ ends # {} => ~no /\ Min(ends) = E /\ pos + E + 4 <= got
        /\ ends = {} => no \/ got - pos < E + 4
    <3>1. he <= EndAt(resp, k) \/ NoEnd(resp, k)
      BY <2>3 DEF E, no
    <3>2. he \in Nat
      BY <2>1
    <3> HIDE DEF he
    <3>3. /\ ends # {} => ~NoEnd(resp, k) /\ Min(ends) = EndAt(resp, k) /\ pos + EndAt(resp, k) + 4 <= got
          /\ ends = {} => NoEnd(resp, k) \/ got - pos < EndAt(resp, k) + 4
      BY ONLY <2>1, <2>3, <2>5, <2>6, <3>1, <3>2, k \in 0 .. resp.interim, HeadEnds
    <3> QED BY <3>3 DEF E, no
  <2>8. v \in Nat /\ (ends # {} => v = E) /\ (ends = {} => no \/ v <= E)
    <3>1. CASE ends # {}
      BY <2>4, <2>7, <3>1
    <3>2. CASE ends = {}
      <4>1. he \in Nat /\ avail = got - pos /\ avail - 3 \in Int
        BY <2>1, <2>5 DEF avail
      <4>2. v = IF he >= avail - 3 THEN he ELSE avail - 3
        BY <3>2, <4>1, MaxOfTwo
      <4>3. v \in Nat /\ (no \/ v <= E)
        <5> HIDE DEF v, he
        <5> QED BY <2>3, <2>4, <2>5, <2>7, <3>2, <4>1, <4>2 DEF he
      <4> QED BY <3>2, <4>3
    <3> QED BY <3>1, <3>2
  <2> HIDE DEF v
  <2>9. /\ CookieOK(H) /\ SameRequest(H, h) /\ H.hepos = v /\ H.has = h.has
        /\ H.chunked = h.chunked /\ H.body = h.body
    <3>1. IsPut(H, h, "hepos", v) /\ v \in Nat
      BY <2>8 DEF IsPut
    <3> QED BY ONLY <2>1, <3>1, SetHepos
  <2> HIDE DEF H
  <2>10. Bare(H)
    BY <2>3, <2>9 DEF Bare
  <2>11. CASE ends # {}
    <3>1. GoOn("gotheaders", H) /\ h' = H
      BY <1>4, <1>6, <2>11 DEF GoOn
    <3>2. HeadRead(resp, got, pos', H, k)
      BY <1>1, <2>3, <2>7, <2>8, <2>9, <2>10, <2>11 DEF HeadRead, E, no
    <3>3. At("gotheaders", resp, got, pos', h')
      BY <3>1, <3>2 DEF At
    <3> QED BY <1>1, <1>2, <1>3, <1>6, <2>9, <3>1, <3>3, ParsesOn
  <2>12. CASE ends = {} /\ avail > MAXHDR
    <3>1. fail
      BY <1>4, <1>6, <2>12
    <3>2. no
      <4>1. avail = got - pos
        BY DEF avail
      <4> QED BY <2>4, <2>5, <2>7, <2>12, <4>1, HttpConsts
    <3>3. Answer("fail", <<>>) = Meaning(resp, h.max, h.ishead)
      <4>1. resp.enc = "longhdr"
        BY <3>2 DEF no, NoEnd
      <4> QED BY <2>1, <4>1, MeaningIs
    <3>4. h' = h /\ Callback(Answer("fail", <<>>)) /\ SameRequest(h', h)
      BY <3>1 DEF fail, SameRequest
    <3> QED BY <1>1, <1>2, <1>3, <2>1, <3>3, <3>4, AnswersAsMeant
  <2>13. CASE ends = {} /\ ~(avail > MAXHDR)
    <3>1. Await(avail + 1, f, H) /\ h' = H
      BY <1>4, <1>6, <2>13 DEF Await
    <3>2. ReadingHead(resp, pos', H, k)
      BY <1>1, <2>3, <2>8, <2>9, <2>10, <2>13 DEF ReadingHead, E, no
    <3>3. At(f, resp, got, pos', h')
      BY <3>1, <3>2 DEF At
    <3>4. avail + 1 \in Nat
      BY <2>5 DEF avail
    <3>5. f \in Waits
      BY DEF Waits
    <3> DEFINE n == avail + 1
    <3> HIDE DEF n
    <3> QED BY <1>1, <1>2, <1>3, <1>6, <2>9, <3>1, <3>3, <3>4, <3>5, AwaitsMore
  <2> QED BY <2>11, <2>12, <2>13
<1> QED BY <1>5, <1>6, WhenParsing, <1>2

(* The head of a response and its type. *)
LEMMA HeadIs ==
  ASSUME NEW r \in Responses, NEW s, LaidOut(r, s), NEW k \in 0 .. r.interim, ~NoEnd(r, k)
  PROVE  /\ k < r.interim => s[HeadAt(k) + 1] = Unit("1xx", 0)
         /\ k = r.interim => r.enc # "longhdr" /\ s[HeadAt(k) + 1] = Unit(HeadType(r), Total(r.parts))
<1>1. r.interim \in Nat /\ k \in Nat
  BY ResponseFacts
<1>2. ASSUME k < r.interim PROVE s[HeadAt(k) + 1] = Unit("1xx", 0)
  <2>1. k \in 0 .. r.interim - 1
    BY <1>1, <1>2
  <2>2. Has3(s, HeadAt(k), Unit("1xx", 0), Unit("data", 0), CR)
    BY <2>1 DEF LaidOut
  <2> QED BY <2>2 DEF Has3
<1>3. ASSUME k = r.interim
      PROVE  r.enc # "longhdr" /\ s[HeadAt(k) + 1] = Unit(HeadType(r), Total(r.parts))
  <2>1. r.enc # "longhdr"
    BY <1>3 DEF NoEnd
  <2>2. Has3(s, HeadAt(k), Unit(HeadType(r), Total(r.parts)), CR, LF)
    BY <1>3, <2>1 DEF LaidOut
  <2> QED BY <2>1, <2>2 DEF Has3
<1> QED BY <1>2, <1>3

LEMMA EmptyData ==
  ASSUME NEW s, s = <<>>
  PROVE  IsData(s, 0)
<1>1. <<>> \in Seq(Nat) /\ Len(<<>>) = 0
  OBVIOUS
<1>2. IsSeq(s) /\ Len(s) = 0
  BY <1>1 DEF IsSeq
<1> QED BY <1>2 DEF IsData

LEMMA GotHeadersOK ==
  ASSUME HttpIInv, gotheaders
  PROVE  HttpIInv'
<1> DEFINE head == stream[pos + 1]
           H == HeadersTaken
<1>1. hpc = "gotheaders" /\ parservars' = parservars /\ pos' = pos + h.hepos + 4
  BY DEF gotheaders
<1>2. hpc \in Parser /\ hpc # "callback_connected" /\ hpc \notin Waits
  BY <1>1 DEF Parser, Waits
<1>3. /\ resp \in Responses /\ CookieOK(h) /\ h.hepos \in Nat /\ h.max \in Nat /\ h.ishead \in BOOLEAN
      /\ resp.interim \in Nat /\ BodyAt(resp) \in Nat /\ HeadAt(resp.interim) + 5 = BodyAt(resp)
  BY <1>2, WhenParsing, CookieFacts, ResponseFacts DEF CookieOK
<1>4. Parsing(hpc, hstatus, resp, got, pos, h)
  BY <1>2, WhenParsing DEF Interrupted
<1>5. PICK k \in 0 .. resp.interim : HeadRead(resp, got, pos, h, k)
  BY <1>1, <1>4 DEF Parsing, At
<1>6. /\ Bare(h) /\ pos = HeadAt(k) /\ h.hepos = EndAt(resp, k) /\ ~NoEnd(resp, k)
      /\ pos + h.hepos + 4 <= got
  BY <1>5 DEF HeadRead
<1>7. hstatus = 0
  BY <1>1, <1>2, <1>4, WhenParsing DEF Parsing
<1>8. pos' \in 0 .. got
  BY <1>1, <1>3, <1>6, StreamIs
<1>9. /\ k < resp.interim => head = Unit("1xx", 0)
      /\ k = resp.interim => resp.enc # "longhdr" /\ head = Unit(HeadType(resp), Total(resp.parts))
  <2>1. LaidOut(resp, stream)
    BY StreamIs
  <2> QED BY ONLY <1>3, <1>6, <2>1, k \in 0 .. resp.interim, HeadIs
<1>10. k < resp.interim \/ k = resp.interim
  BY <1>3
<1>11. /\ CookieOK(H) /\ SameRequest(H, h) /\ H.hepos = 0 /\ H.has = h.has
       /\ H.chunked = h.chunked /\ H.body = h.body
  <2>1. IsPut(H, h, "hepos", 0) /\ 0 \in Nat
    BY DEF IsPut, HeadersTaken
  <2> QED BY ONLY <1>3, <2>1, SetHepos
<1> HIDE DEF H, head
<1>12. Bare(H) /\ H.body = <<>> /\ h.body = <<>>
  BY <1>6, <1>11 DEF Bare
<1>13. \/ GoOn("die", H)
       \/ head.t = "bad" /\ fail
       \/ head.t = "1xx" /\ GoOn("callback_read_header", H)
       \/ head.t \notin {"bad", "1xx"} /\ (h.ishead \/ head.t = "204") /\ http_docallback(H)
       \/ /\ head.t \notin {"bad", "1xx", "204"} /\ ~h.ishead
          /\ \/ head.t = "chunked" /\ GoOn("callback_chunkedheader", [H EXCEPT !.chunked = TRUE])
             \/ head.t = "clen" /\ get_body_gotclen(H, head.n)
             \/ head.t = "badclen" /\ fail
             \/ head.t \notin {"chunked", "clen", "badclen"} /\ GoOn("callback_read_toeof", H)
  BY DEF gotheaders, H, head
<1>14. CASE GoOn("die", H)
  <2>1. h' = H /\ "die" \in {"die", "abort"}
    BY <1>14 DEF GoOn
  <2> QED BY <1>1, <1>2, <1>8, <1>11, <1>14, <2>1, StopsOK
<1>15. CASE k < resp.interim /\ ~GoOn("die", H)
  <2>1. head.t = "1xx"
    BY <1>9, <1>15, UnitsDiffer
  <2>2. GoOn("callback_read_header", H) /\ h' = H
    BY <1>13, <1>15, <2>1 DEF GoOn
  <2>3. k + 1 \in 0 .. resp.interim /\ pos' = HeadAt(k + 1)
    <3>1. EndAt(resp, k) = 2
      BY <1>15 DEF EndAt
    <3> QED BY <1>1, <1>3, <1>6, <1>15, <3>1 DEF HeadAt
  <2>4. ReadingHead(resp, pos', h', k + 1)
    <3>1. 0 <= EndAt(resp, k + 1)
      BY DEF EndAt
    <3> QED BY <1>11, <1>12, <2>2, <2>3, <3>1 DEF ReadingHead
  <2>5. At("callback_read_header", resp, got, pos', h')
    BY <2>3, <2>4 DEF At
  <2>6. "callback_read_header" \in Parser
    BY DEF Parser
  <2> QED BY <1>1, <1>2, <1>7, <1>8, <1>11, <2>2, <2>5, <2>6, ParsesOn
<1>16. CASE k = resp.interim /\ ~GoOn("die", H)
  <2> DEFINE e == resp.enc
             T == Total(resp.parts)
  <2>1. head.t = HeadType(resp) /\ head.n = T /\ e # "longhdr" /\ e \in Encs /\ T \in Nat
    BY <1>3, <1>9, <1>16, UnitsDiffer, ResponseFacts
  <2>2. head.t = (IF e \in {"badchunk", "longline"} THEN "chunked" ELSE e)
    BY <2>1 DEF HeadType
  <2>3. pos' = BodyAt(resp)
    <3>1. EndAt(resp, k) = 1
      BY <1>3, <1>16 DEF EndAt
    <3>2. HeadAt(k) \in Nat
      BY <1>3, <1>16 DEF HeadAt
    <3> QED BY <1>1, <1>3, <1>6, <1>16, <3>1, <3>2
  <2>4. CASE e = "bad"
    <3>1. fail
      BY <1>13, <1>16, <2>2, <2>4
    <3>2. Answer("fail", <<>>) = Meaning(resp, h.max, h.ishead)
      BY <1>3, <2>4, MeaningIs
    <3>3. h' = h /\ Callback(Answer("fail", <<>>)) /\ SameRequest(h', h)
      BY <3>1 DEF fail, SameRequest
    <3> QED BY <1>1, <1>2, <1>3, <1>8, <3>2, <3>3, AnswersAsMeant
  <2>5. CASE e # "bad" /\ (h.ishead \/ e = "204")
    <3>1. http_docallback(H)
      BY <1>13, <1>16, <2>1, <2>2, <2>5 DEF Encs
    <3>2. Answer("ok", H.body) = Meaning(resp, h.max, h.ishead)
      BY <1>3, <1>12, <2>1, <2>5, MeaningIs
    <3> QED BY <1>1, <1>2, <1>8, <1>11, <3>1, <3>2, CallsBack
  <2>6. CASE e = "badclen" /\ ~h.ishead
    <3>1. fail
      BY <1>13, <1>16, <2>2, <2>6
    <3>2. Answer("fail", <<>>) = Meaning(resp, h.max, h.ishead)
      BY <1>3, <2>6, MeaningIs
    <3>3. h' = h /\ Callback(Answer("fail", <<>>)) /\ SameRequest(h', h)
      BY <3>1 DEF fail, SameRequest
    <3> QED BY <1>1, <1>2, <1>3, <1>8, <3>2, <3>3, AnswersAsMeant
  <2>7. CASE e \in Chunky /\ ~h.ishead
    <3> DEFINE G == [H EXCEPT !.chunked = TRUE]
    <3>1. GoOn("callback_chunkedheader", G) /\ h' = G
      BY <1>13, <1>16, <2>1, <2>2, <2>7 DEF GoOn, Encs, Chunky
    <3>2. CookieOK(G) /\ SameRequest(G, H) /\ G.chunked = TRUE /\ G.has = H.has /\ G.body = H.body
      <4>1. IsPut(G, H, "chunked", TRUE) /\ TRUE \in BOOLEAN
        BY DEF IsPut
      <4>2. CookieOK(H)
        BY <1>11
      <4> HIDE DEF G
      <4> QED BY ONLY <4>1, <4>2, SetChunked
    <3> HIDE DEF G
    <3>3. SameRequest(G, h) /\ G.has = h.has /\ G.ishead = h.ishead
      BY <1>11, <3>2 DEF SameRequest
    <3>4. AtChunk(resp, pos', G, 1)
      <4>1. resp.parts \in Seq(Nat \ {0})
        BY <1>3, ResponseFacts
      <4>2. Upto(resp.parts)[0] = 0
        BY ONLY <4>1, UptoFacts
      <4>3. IsData(G.body, Upto(resp.parts)[1 - 1])
        BY <1>12, <3>2, <4>2, EmptyData
      <4>4. ChunkAt(resp, 1) = BodyAt(resp)
        BY <1>3, <4>2 DEF ChunkAt
      <4>5. SmallTo(resp, 1 - 1)
        BY DEF SmallTo
      <4> QED BY <2>3, <2>7, <3>2, <3>3, <4>3, <4>4, <4>5 DEF AtChunk
    <3>5. At("callback_chunkedheader", resp, got, pos', h')
      <4>1. 1 \in 1 .. Len(resp.parts) + 1
        BY <1>3, ResponseFacts
      <4> QED BY <3>1, <3>4, <4>1 DEF At
    <3>6. "callback_chunkedheader" \in Parser
      BY DEF Parser
    <3> QED BY <1>1, <1>2, <1>7, <1>8, <3>1, <3>2, <3>3, <3>5, <3>6, ParsesOn
  <2>8. CASE e = "toeof" /\ ~h.ishead
    <3>1. GoOn("callback_read_toeof", H) /\ h' = H
      BY <1>13, <1>16, <2>2, <2>8 DEF GoOn
    <3>2. ToEof(resp, pos', H)
      <4>1. IsData(H.body, pos' - BodyAt(resp))
        <5>1. pos' - BodyAt(resp) = 0
          BY <1>3, <2>3
        <5> QED BY <1>12, <5>1, EmptyData
      <4>2. H.ishead = h.ishead
        BY <1>11 DEF SameRequest
      <4> QED BY <2>8, <4>1, <4>2 DEF ToEof
    <3>3. At("callback_read_toeof", resp, got, pos', h')
      BY <3>1, <3>2 DEF At
    <3>4. "callback_read_toeof" \in Parser
      BY DEF Parser
    <3> QED BY <1>1, <1>2, <1>7, <1>8, <1>11, <3>1, <3>3, <3>4, ParsesOn
  <2>9. CASE e = "clen" /\ ~h.ishead
    <3>1. get_body_gotclen(H, T)
      BY <1>13, <1>16, <2>1, <2>2, <2>9
    <3>2. H.max = h.max /\ H.ishead = h.ishead
      BY <1>11 DEF SameRequest
    <3>3. CASE T > H.max
      <4>1. toobig(H)
        BY <3>1, <3>3 DEF get_body_gotclen
      <4>2. Answer("toobig", <<>>) = Meaning(resp, h.max, h.ishead)
        BY <1>3, <2>9, <3>2, <3>3, MeaningIs
      <4> QED BY <1>1, <1>2, <1>8, <1>11, <4>1, <4>2, CallsBack
    <3>4. CASE ~(T > H.max)
      <4> DEFINE F == [H EXCEPT !.readlen = T]
                 G == [F EXCEPT !.chunked = FALSE]
      <4>1. GoOn("callback_readdata", G) /\ h' = G
        <5>1. GoOn("callback_readdata", [H EXCEPT !.readlen = T, !.chunked = FALSE])
          BY <3>1, <3>4 DEF get_body_gotclen
        <5>2. [H EXCEPT !.readlen = T, !.chunked = FALSE] = G
          OBVIOUS
        <5> QED BY <5>1, <5>2 DEF GoOn
      <4>2. CookieOK(F) /\ SameRequest(F, H) /\ F.readlen = T /\ F.has = H.has /\ F.body = H.body
        <5>1. IsPut(F, H, "readlen", T) /\ T \in Nat
          BY <2>1 DEF IsPut
        <5> HIDE DEF T
        <5> QED BY ONLY <1>11, <5>1, SetReadlen
      <4>3. /\ CookieOK(G) /\ SameRequest(G, F) /\ G.chunked = FALSE /\ G.has = F.has /\ G.body = F.body
            /\ G.readlen = F.readlen
        <5>1. IsPut(G, F, "chunked", FALSE) /\ FALSE \in BOOLEAN
          BY DEF IsPut
        <5> HIDE DEF F
        <5> QED BY ONLY <4>2, <5>1, SetChunked
      <4> HIDE DEF F, G
      <4>4. SameRequest(G, h) /\ G.has = h.has /\ G.ishead = h.ishead /\ G.max = h.max
        BY <1>11, <4>2, <4>3 DEF SameRequest
      <4>5. InBody(resp, pos', G)
        <5>1. pos' - BodyAt(resp) = 0
          BY <1>3, <2>3
        <5>2. IsData(G.body, pos' - BodyAt(resp))
          BY <1>12, <4>2, <4>3, <5>1, EmptyData
        <5>3. T <= G.max /\ G.readlen = T - 0
          BY <1>3, <2>1, <3>2, <3>4, <4>2, <4>3, <4>4
        <5> QED BY <2>9, <4>3, <4>4, <5>1, <5>2, <5>3 DEF InBody
      <4>6. At("callback_readdata", resp, got, pos', h')
        BY <4>1, <4>5 DEF At
      <4>7. "callback_readdata" \in Parser
        BY DEF Parser
      <4> QED BY <1>1, <1>2, <1>7, <1>8, <4>1, <4>3, <4>4, <4>6, <4>7, ParsesOn
    <3> QED BY <3>3, <3>4
  <2> QED BY <2>1, <2>4, <2>5, <2>6, <2>7, <2>8, <2>9 DEF Encs, Chunky
<1> QED BY <1>10, <1>14, <1>15, <1>16

(* What callback_chunkedheader finds where a chunk may be. *)
LEMMA ChunkLine ==
  ASSUME NEW r \in Responses, NEW s, LaidOut(r, s), r.enc \in Chunky, NEW i \in 1 .. LastChunk(r),
         NEW p \in Nat, p = ChunkAt(r, i), NEW g \in Nat, p <= g, g <= Len(s),
         NEW eols, LinesEnd(eols, s, p, g)
  PROVE  /\ eols # {} =>
              /\ Min(eols) = 2 /\ p + 3 <= g
              /\ \/ i <= Len(r.parts) /\ s[p + 1] = Unit("chunk", r.parts[i])
                 \/ i = LastChunk(r) /\ r.enc = "chunked" /\ s[p + 1] = Unit("chunk", 0)
                 \/ i = LastChunk(r) /\ r.enc = "badchunk" /\ s[p + 1] = Unit("data", 0)
         /\ eols = {} => g - p < 3 \/ (i = LastChunk(r) /\ r.enc = "longline")
<1>1. IsSeq(s) /\ Len(r.parts) \in Nat
  BY ResponseFacts DEF LaidOut
<1>2. i \in 1 .. Len(r.parts) \/ i = LastChunk(r)
  BY <1>1 DEF LastChunk
<1>3. ASSUME NEW a, a.t # "cr", Has3(s, p, a, CR, LF)
      PROVE  /\ eols # {} => Min(eols) = 2 /\ p + 3 <= g /\ s[p + 1] = a
             /\ eols = {} => g - p < 3
  BY <1>1, <1>3, LineEnds
<1>4. CASE i \in 1 .. Len(r.parts)
  <2> DEFINE a == Unit("chunk", r.parts[i])
  <2>1. Has3(s, p, a, CR, LF)
    BY <1>4 DEF LaidOut
  <2>2. a.t # "cr"
    BY UnitsDiffer
  <2> HIDE DEF a
  <2>3. /\ eols # {} => Min(eols) = 2 /\ p + 3 <= g /\ s[p + 1] = a
        /\ eols = {} => g - p < 3
    BY ONLY <2>1, <2>2, <1>3
  <2> QED BY <1>4, <2>3 DEF a
<1>5. CASE i = LastChunk(r) /\ r.enc = "chunked"
  <2> DEFINE a == Unit("chunk", 0)
  <2>1. Has3(s, p, a, CR, LF)
    BY <1>5 DEF LaidOut
  <2>2. a.t # "cr"
    BY UnitsDiffer
  <2> HIDE DEF a
  <2>3. /\ eols # {} => Min(eols) = 2 /\ p + 3 <= g /\ s[p + 1] = a
        /\ eols = {} => g - p < 3
    BY ONLY <2>1, <2>2, <1>3
  <2> QED BY <1>5, <2>3 DEF a
<1>6. CASE i = LastChunk(r) /\ r.enc = "badchunk"
  <2> DEFINE a == Unit("data", 0)
  <2>1. Has3(s, p, a, CR, LF)
    BY <1>6 DEF LaidOut
  <2>2. a.t # "cr"
    BY UnitsDiffer
  <2> HIDE DEF a
  <2>3. /\ eols # {} => Min(eols) = 2 /\ p + 3 <= g /\ s[p + 1] = a
        /\ eols = {} => g - p < 3
    BY ONLY <2>1, <2>2, <1>3
  <2> QED BY <1>6, <2>3 DEF a
<1>7. CASE i = LastChunk(r) /\ r.enc = "longline"
  <2>0. \A j \in Nat : j >= 1 => OneLineEnd(s, p, g, j)
    BY <1>1, OccursTwo
  <2>1. Len(s) = p + MAXCHLEN /\ \A j \in 1 .. MAXCHLEN : s[p + j] = Unit("data", 0 + j)
    BY <1>7 DEF LaidOut, HasData
  <2>2. eols = {j \in 1 .. g - p - 1 : OccursAt(SubSeq(s, p + 1, g), <<CR, LF>>, j)}
    BY DEF LinesEnd
  <2>3. \A j \in 1 .. g - p - 1 : ~OccursAt(SubSeq(s, p + 1, g), <<CR, LF>>, j)
    <3> SUFFICES ASSUME NEW j \in 1 .. g - p - 1, OccursAt(SubSeq(s, p + 1, g), <<CR, LF>>, j)
                 PROVE  FALSE
      OBVIOUS
    <3>1. j \in Nat /\ j >= 1 /\ g - p - 1 \in Int
      OBVIOUS
    <3>2. s[p + j] = CR
      BY <2>0, <3>1 DEF OneLineEnd
    <3>3. j \in 1 .. MAXCHLEN
      BY <2>1, HttpConsts
    <3> QED BY <2>1, <3>2, <3>3, UnitsDiffer
  <2>4. eols = {}
    BY <2>2, <2>3
  <2> QED BY <1>7, <2>4
<1> QED BY <1>2, <1>4, <1>5, <1>6, <1>7 DEF Chunky

LEMMA ChunkedHeaderOK ==
  ASSUME HttpIInv, callback_chunkedheader
  PROVE  HttpIInv'
<1> DEFINE f == "callback_chunkedheader"
           eols == {i \in 1 .. avail - 1 : OccursAt(Buf, <<CR, LF>>, i)}
           u == stream[pos + 1]
           clen == u.n
           fl == Answer("fail", <<>>)
           M == Meaning(resp, h.max, h.ishead)
<1>1. hpc = f /\ parservars' = parservars
  BY DEF callback_chunkedheader
<1>2. hpc \in Parser /\ hpc \in Waits /\ hpc # "callback_connected" /\ f # "callback_read_toeof"
  BY <1>1 DEF Parser, Waits
<1>3. \/ hstatus # 0 /\ fail /\ pos' = pos
      \/ hstatus = 0 /\ eols # {} /\ u.t # "chunk" /\ fail /\ pos' = pos
      \/ /\ hstatus = 0 /\ eols # {} /\ u.t = "chunk"
         /\ pos' = pos + Min(eols) + 1
         /\ IF clen = 0 THEN http_docallback(h)
            ELSE IF clen > h.max - Len(h.body) \/ clen > HTTP_SIZE_MAX - 2 THEN toobig(h)
            ELSE GoOn("callback_readdata", [h EXCEPT !.readlen = clen + 2])
      \/ /\ hstatus = 0 /\ eols = {} /\ pos' = pos
         /\ IF avail >= MAXCHLEN THEN fail ELSE Await(avail + 1, f, h)
  BY DEF callback_chunkedheader
<1>4. CASE hstatus # 0
  BY <1>1, <1>2, <1>3, <1>4, FailsOK
<1>5. CASE hstatus = 0
  <2>1. /\ resp \in Responses /\ CookieOK(h) /\ h.max \in Nat /\ h.ishead \in BOOLEAN
        /\ IsSeq(h.body) /\ Len(h.body) \in Nat /\ Len(h.body) <= h.max
    BY <1>2, WhenParsing, CookieFacts DEF CookieOK
  <2> DEFINE N == Len(resp.parts)
             U == Upto(resp.parts)
             T == Total(resp.parts)
  <2>2. PICK i \in 1 .. N + 1 : AtChunk(resp, pos, h, i)
    BY <1>1, <1>2, <1>5, WhenParsing DEF Parsing, At
  <2>3. /\ resp.enc \in Chunky /\ ~h.ishead /\ h.chunked
        /\ pos = ChunkAt(resp, i) /\ IsData(h.body, U[i - 1]) /\ SmallTo(resp, i - 1)
    BY <2>2 DEF AtChunk
  <2>4. /\ LaidOut(resp, stream) /\ Len(stream) \in Nat /\ got \in Nat /\ pos \in Nat
        /\ pos <= got /\ got <= Len(stream)
    BY StreamIs
  <2>5. resp.parts \in Seq(Nat \ {0}) /\ N \in Nat /\ T \in Nat
    BY <2>1, ResponseFacts
  <2>6. /\ \A j \in 1 .. N : resp.parts[j] \in Nat /\ resp.parts[j] > 0 /\ U[j] = U[j - 1] + resp.parts[j]
        /\ \A j \in 0 .. N : U[j] \in Nat
        /\ \A j \in 0 .. N : U[j] <= T
    <3>1. \A j \in 0 .. N, l \in 0 .. N : j <= l => U[j] <= U[l]
      BY <2>5, UptoGrows
    <3>2. \A j \in 0 .. N : U[j] <= T
      BY <2>5, <3>1 DEF Total
    <3> QED BY <2>5, <3>2, UptoFacts
  <2>7. Len(h.body) = U[i - 1] /\ i - 1 \in 0 .. N
    BY <2>3, <2>5 DEF IsData
  <2> HIDE DEF eols
  <2>8. /\ eols # {} =>
              /\ Min(eols) = 2 /\ pos + 3 <= got
              /\ \/ i <= N /\ u = Unit("chunk", resp.parts[i])
                 \/ i = N + 1 /\ resp.enc = "chunked" /\ u = Unit("chunk", 0)
                 \/ i = N + 1 /\ resp.enc = "badchunk" /\ u = Unit("data", 0)
        /\ eols = {} => got - pos < 3 \/ (i = N + 1 /\ resp.enc = "longline")
    <3>1. LinesEnd(eols, stream, pos, got)
      BY DEF LinesEnd, eols, avail, Buf
    <3>2. i \in 1 .. LastChunk(resp)
      BY DEF LastChunk
    <3>3. LastChunk(resp) = N + 1
      BY DEF LastChunk
    <3> HIDE DEF N, u
    <3> QED BY <2>1, <2>3, <2>4, <3>1, <3>2, <3>3, ChunkLine, SMTT(30) DEF N, u
  <2> HIDE DEF u, N, U, T
  (* All chunks have come. *)
  <2>9. ASSUME i = N + 1
        PROVE  M = IF resp.enc = "chunked" THEN Answer("ok", h.body) ELSE fl
    <3>1. U[i - 1] = T /\ i - 1 = N
      BY <2>5, <2>9 DEF U, T, N, Total
    <3>2. T <= h.max /\ SmallTo(resp, N)
      BY <2>1, <2>3, <2>7, <3>1
    <3>3. h.body = Data(0, T)
      BY <2>3, <2>5, <3>1, WholeBody
    <3> QED BY <2>1, <2>3, <3>2, <3>3, MeaningIs DEF T, N
  <2>10. SameRequest(h, h) /\ pos \in 0 .. got
    BY <2>4 DEF SameRequest
  <2>11. CASE eols # {} /\ u.t # "chunk"
    <3>1. fail /\ pos' = pos
      BY <1>3, <1>5, <2>11
    <3>2. h' = h /\ Callback(fl)
      BY <3>1 DEF fail
    <3>3. i = N + 1 /\ resp.enc = "badchunk"
      BY <2>8, <2>11, UnitsDiffer
    <3>4. fl = M
      BY <2>9, <3>3
    <3> QED BY <1>1, <1>2, <2>1, <2>10, <3>1, <3>2, <3>4, AnswersAsMeant
  <2>12. CASE eols # {} /\ u.t = "chunk"
    <3>1. /\ pos' = pos + Min(eols) + 1
          /\ IF clen = 0 THEN http_docallback(h)
             ELSE IF clen > h.max - Len(h.body) \/ clen > HTTP_SIZE_MAX - 2 THEN toobig(h)
             ELSE GoOn("callback_readdata", [h EXCEPT !.readlen = clen + 2])
      BY <1>3, <1>5, <2>12
    <3>2. pos' = pos + 3 /\ pos' \in 0 .. got
      BY <2>4, <2>8, <2>12, <3>1
    <3>3. \/ i \in 1 .. N /\ clen = resp.parts[i] /\ clen \in Nat /\ clen > 0
          \/ i = N + 1 /\ resp.enc = "chunked" /\ clen = 0
      BY <2>5, <2>6, <2>8, <2>12, UnitsDiffer
    <3>4. CASE clen = 0
      <4>1. http_docallback(h) /\ Answer("ok", h.body) = M
        BY <2>9, <3>1, <3>3, <3>4
      <4> QED BY <1>1, <1>2, <2>1, <2>10, <3>2, <4>1, CallsBack
    <3>5. CASE clen # 0 /\ (clen > h.max - Len(h.body) \/ clen > HTTP_SIZE_MAX - 2)
      <4>1. toobig(h) /\ i \in 1 .. N /\ clen = resp.parts[i] /\ clen \in Nat
        BY <3>1, <3>3, <3>5
      <4>2. U[i] = U[i - 1] + clen /\ U[i] <= T
        BY <2>5, <2>6, <4>1
      <4>3. U[i - 1] \in Nat
        BY <2>6, <2>7
      <4>4. T > h.max \/ resp.parts[i] > HTTP_SIZE_MAX - 2
        BY <2>1, <2>5, <2>7, <3>5, <4>1, <4>2, <4>3
      <4>5. Answer("toobig", <<>>) = M
        BY <2>1, <2>3, <4>1, <4>4, MeaningIs DEF N, T
      <4> QED BY <1>1, <1>2, <2>1, <2>10, <3>2, <4>1, <4>5, CallsBack
    <3>6. CASE clen # 0 /\ ~(clen > h.max - Len(h.body) \/ clen > HTTP_SIZE_MAX - 2)
      <4> DEFINE v == clen + 2
                 G == [h EXCEPT !.readlen = v]
      <4>1. GoOn("callback_readdata", G) /\ i \in 1 .. N /\ clen = resp.parts[i] /\ clen \in Nat
        BY <3>1, <3>3, <3>6
      <4>2. /\ CookieOK(G) /\ SameRequest(G, h) /\ G.readlen = v /\ G.has = h.has /\ G.body = h.body
            /\ G.chunked = h.chunked
        <5>1. IsPut(G, h, "readlen", v) /\ v \in Nat
          BY <4>1 DEF IsPut
        <5> HIDE DEF v
        <5> QED BY ONLY <2>1, <5>1, SetReadlen
      <4>3. h' = G
        BY <4>1 DEF GoOn
      <4> HIDE DEF G
      <4>4. SmallTo(resp, i)
        <5>1. clen <= HTTP_SIZE_MAX - 2
          BY <3>6, <4>1, HttpConsts
        <5>2. \A j \in 1 .. i : j \in 1 .. i - 1 \/ j = i
          BY <2>5
        <5> QED BY <2>3, <4>1, <5>1, <5>2 DEF SmallTo
      <4>5. InChunk(resp, pos', G, i, 0)
        <5>1. pos' = ChunkAt(resp, i) + 3 + 0 /\ G.readlen = resp.parts[i] + 2 - 0
          BY <2>3, <2>4, <3>2, <4>1, <4>2
        <5>2. Len(G.body) = Upto(resp.parts)[i - 1] + 0
          BY <2>1, <2>7, <4>2 DEF U
        <5>3. \A x \in 1 .. Len(G.body) : x <= Upto(resp.parts)[i] => G.body[x] = Unit("data", x)
          BY <2>3, <2>7, <4>2 DEF IsData
        <5>4. G.ishead = h.ishead
          BY <4>2 DEF SameRequest
        <5> QED BY <2>3, <4>2, <4>4, <5>1, <5>2, <5>3, <5>4 DEF InChunk
      <4>6. 0 \in 0 .. resp.parts[i] + 2
        BY <4>1
      <4>7. At("callback_readdata", resp, got, pos', h')
        BY <4>1, <4>3, <4>5, <4>6 DEF At, N
      <4>8. "callback_readdata" \in Parser
        BY DEF Parser
      <4> QED BY <1>1, <1>2, <1>5, <3>2, <4>1, <4>2, <4>3, <4>7, <4>8, ParsesOn
    <3> QED BY <3>4, <3>5, <3>6
  <2>13. CASE eols = {} /\ avail >= MAXCHLEN
    <3>1. fail /\ pos' = pos
      BY <1>3, <1>5, <2>13
    <3>2. h' = h /\ Callback(fl)
      BY <3>1 DEF fail
    <3>3. i = N + 1 /\ resp.enc = "longline"
      BY <2>4, <2>8, <2>13, HttpConsts DEF avail
    <3>4. fl = M
      BY <2>9, <3>3
    <3> QED BY <1>1, <1>2, <2>1, <2>10, <3>1, <3>2, <3>4, AnswersAsMeant
  <2>14. CASE eols = {} /\ ~(avail >= MAXCHLEN)
    <3>1. pos' = pos /\ Await(avail + 1, f, h) /\ h' = h
      BY <1>3, <1>5, <2>14 DEF Await
    <3>2. At(f, resp, got, pos', h')
      BY <2>2, <3>1 DEF At, N
    <3>3. avail + 1 \in Nat /\ f \in Waits
      BY <2>4 DEF avail, Waits
    <3> DEFINE n == avail + 1
    <3> HIDE DEF n
    <3> QED BY <1>1, <1>2, <1>5, <2>1, <2>10, <3>1, <3>2, <3>3, AwaitsMore
  <2> QED BY <2>11, <2>12, <2>13, <2>14
<1> QED BY <1>4, <1>5

(* What the reader has, as far as it is taken, and the body with it.        *)
Takes(b, s, p, g, n) == b = SubSeq(SubSeq(s, p + 1, g), 1, n)
LEMMA Taken ==
  ASSUME NEW s, IsSeq(s), NEW p \in Nat, NEW g \in Nat, NEW n \in Nat, p + n <= g, g <= Len(s),
         NEW b, Takes(b, s, p, g, n)
  PROVE  IsSeq(b) /\ Len(b) = n /\ \A j \in 1 .. n : b[j] = s[p + j]
<1> DEFINE B == SubSeq(s, p + 1, g)
           m == g - p
<1>1. p <= g /\ m \in Nat /\ n <= m
  OBVIOUS
<1>2. IsSeq(B) /\ Len(B) = m /\ \A j \in 1 .. m : B[j] = s[p + j]
  BY <1>1, SeqSub
<1>3. 0 + 1 = 1 /\ 0 \in Nat /\ n - 0 = n /\ 0 <= n /\ \A j \in 1 .. n : 0 + j = j /\ j \in 1 .. m
  BY <1>1
<1> HIDE DEF B, m
<1>4. IsSeq(SubSeq(B, 0 + 1, n)) /\ Len(SubSeq(B, 0 + 1, n)) = n - 0
      /\ \A j \in 1 .. n - 0 : SubSeq(B, 0 + 1, n)[j] = B[0 + j]
  <2>1. n <= Len(B)
    BY <1>1, <1>2
  <2> QED BY ONLY <1>2, <1>3, <2>1, n \in Nat, SeqSub
<1>5. b = SubSeq(B, 0 + 1, n)
  BY <1>3 DEF B, Takes
<1>6. IsSeq(b) /\ Len(b) = n /\ \A j \in 1 .. n : b[j] = B[j]
  BY ONLY <1>3, <1>4, <1>5
<1> QED BY ONLY <1>2, <1>3, <1>6

(* s has the data, as far as lim. *)
DataTo(s, lim) == \A x \in 1 .. Len(s) : x <= lim => s[x] = Unit("data", x)
LEMMA BodyGrows ==
  ASSUME NEW s, IsSeq(s), NEW b, IsSeq(b), NEW lim \in Nat, DataTo(s, lim),
         \A j \in 1 .. Len(b) : Len(s) + j <= lim => b[j] = Unit("data", Len(s) + j)
  PROVE  IsSeq(s \o b) /\ Len(s \o b) = Len(s) + Len(b) /\ DataTo(s \o b, lim)
<1> DEFINE x == s \o b
           l == Len(s)
           n == Len(b)
<1>1. l \in Nat /\ n \in Nat
  BY SeqLen
<1>2. /\ IsSeq(x) /\ Len(x) = l + n /\ \A i \in 1 .. l : x[i] = s[i]
      /\ \A i \in 1 .. n : x[l + i] = b[i]
  BY SeqCat
<1>3. \A i \in 1 .. l : i <= lim => s[i] = Unit("data", i)
  BY DEF DataTo
<1> HIDE DEF x, l, n
<1>4. ASSUME NEW i \in 1 .. Len(x), i <= lim PROVE x[i] = Unit("data", i)
  <2>1. i \in 1 .. l \/ (i - l \in 1 .. n /\ l + (i - l) = i)
    BY <1>1, <1>2
  <2>2. CASE i \in 1 .. l
    BY <1>2, <1>3, <1>4, <2>2
  <2>3. CASE i - l \in 1 .. n /\ l + (i - l) = i
    <3> DEFINE j == i - l
    <3>1. x[l + j] = b[j] /\ (l + j <= lim => b[j] = Unit("data", l + j))
      BY <1>2, <2>3 DEF l, n
    <3> QED BY <1>4, <2>3, <3>1
  <2> QED BY <2>1, <2>2, <2>3
<1> QED BY <1>2, <1>4 DEF DataTo, x, l, n

LEMMA IsDataTo ==
  ASSUME NEW s, NEW n \in Nat
  PROVE  IsData(s, n) <=> IsSeq(s) /\ Len(s) = n /\ DataTo(s, n)
<1>1. \A x \in 1 .. n : x <= n
  OBVIOUS
<1> QED BY <1>1 DEF IsData, DataTo

LEMMA StrippedIs ==
  ASSUME NEW s, IsSeq(s), NEW n \in Nat, Len(s) = n + 2, DataTo(s, n)
  PROVE  IsData(Stripped(s), n)
<1> DEFINE b == SubSeq(s, 1, n)
<1>1. 0 + 1 = 1 /\ 0 \in Nat /\ n - 0 = n /\ 0 <= n /\ n <= Len(s) /\ Len(s) - 2 = n
      /\ \A j \in 1 .. n : 0 + j = j /\ j \in 1 .. Len(s) /\ j <= n
  OBVIOUS
<1>2. IsSeq(SubSeq(s, 0 + 1, n)) /\ Len(SubSeq(s, 0 + 1, n)) = n - 0
      /\ \A j \in 1 .. n - 0 : SubSeq(s, 0 + 1, n)[j] = s[0 + j]
  BY ONLY IsSeq(s), <1>1, n \in Nat, SeqSub, SMTT(30)
<1>3. IsSeq(b) /\ Len(b) = n /\ \A j \in 1 .. n : b[j] = s[j]
  BY ONLY <1>1, <1>2
<1>4. \A j \in 1 .. n : s[j] = Unit("data", j)
  BY ONLY DataTo(s, n), <1>1 DEF DataTo
<1>5. Stripped(s) = b
  BY <1>1 DEF Stripped
<1> QED BY <1>3, <1>4, <1>5 DEF IsData

----------------------------------------------------------------------------
(* What addbody and the count of what is left make of the cookie. *)
WithBody(G, b, v) == G = [addbody(b) EXCEPT !.readlen = v]
LEMMA TakesData ==
  ASSUME CookieOK(h), NEW b, IsSeq(b), Len(h.body) + Len(b) <= h.max,
         NEW v \in Nat, NEW G, WithBody(G, b, v)
  PROVE  /\ CookieOK(G) /\ SameRequest(G, h) /\ G.has = h.has /\ G.chunked = h.chunked
         /\ G.readlen = v /\ G.body = h.body \o b
<1> DEFINE A == addbody(b)
<1>1. Added(A, h, b)
  BY DEF Added, addbody
<1> HIDE DEF A
<1>2. /\ CookieOK(A) /\ SameRequest(A, h) /\ A.body = h.body \o b
      /\ A.has = h.has /\ A.chunked = h.chunked
  BY ONLY <1>1, CookieOK(h), IsSeq(b), Len(h.body) + Len(b) <= h.max, AddBody
<1>3. IsPut(G, A, "readlen", v)
  BY DEF IsPut, A, WithBody
<1>4. /\ CookieOK(G) /\ SameRequest(G, A) /\ G.readlen = v
      /\ G.has = A.has /\ G.chunked = A.chunked /\ G.body = A.body
  BY ONLY <1>2, <1>3, v \in Nat, SetReadlen
<1> QED BY <1>2, <1>4 DEF SameRequest

LEMMA ReadDataOK ==
  ASSUME HttpIInv, callback_readdata
  PROVE  HttpIInv'
<1> DEFINE f == "callback_readdata"
           n == Min({avail, h.readlen})
           b == SubSeq(Buf, 1, n)
           left == h.readlen - n
           H == [addbody(b) EXCEPT !.readlen = left]
           G == [H EXCEPT !.body = Stripped(H.body)]
           M == Meaning(resp, h.max, h.ishead)
<1>1. hpc = f /\ parservars' = parservars
  BY DEF callback_readdata
<1>2. hpc \in Parser /\ hpc \in Waits /\ hpc # "callback_connected" /\ f # "callback_read_toeof"
      /\ f # "callback_connected" /\ "callback_chunkedheader" \in Parser
  BY <1>1 DEF Parser, Waits
<1>3. \/ hstatus # 0 /\ fail /\ pos' = pos
      \/ hstatus = 0 /\ AddbodyAborts(n) /\ GoOn("abort", h) /\ pos' = pos
      \/ hstatus = 0 /\ ~AddbodyAborts(n) /\ GoOn("die", h) /\ pos' = pos
      \/ /\ hstatus = 0 /\ ~AddbodyAborts(n) /\ pos' = pos + n
         /\ IF H.readlen > 0 THEN Await(Min({H.readlen, READMAX}), f, H)
            ELSE IF H.chunked THEN GoOn("callback_chunkedheader", G)
            ELSE http_docallback(H)
  <2>1. [addbody(b) EXCEPT !.readlen = @ - n] = H
    BY DEF addbody
  <2>2. [H EXCEPT !.body = Stripped(@)] = G
    OBVIOUS
  <2> QED BY <2>1, <2>2 DEF callback_readdata
<1>4. /\ resp \in Responses /\ CookieOK(h) /\ h.max \in Nat /\ h.ishead \in BOOLEAN /\ h.readlen \in Nat
      /\ IsSeq(h.body) /\ Len(h.body) \in Nat /\ Len(h.body) <= h.max /\ SameRequest(h, h)
  BY <1>2, WhenParsing, CookieFacts DEF CookieOK, SameRequest
<1>5. /\ LaidOut(resp, stream) /\ IsSeq(stream) /\ Len(stream) \in Nat /\ got \in Nat /\ pos \in Nat
      /\ pos <= got /\ got <= Len(stream) /\ pos \in 0 .. got
  BY StreamIs
<1>6. CASE hstatus # 0
  BY <1>1, <1>2, <1>3, <1>6, FailsOK
<1>7. CASE hstatus = 0 /\ (GoOn("abort", h) \/ GoOn("die", h)) /\ pos' = pos
  <2>1. h' = h /\ "abort" \in {"die", "abort"} /\ "die" \in {"die", "abort"}
    BY <1>7 DEF GoOn
  <2> QED BY <1>1, <1>2, <1>4, <1>5, <1>7, <2>1, StopsOK
<1>8. CASE /\ hstatus = 0 /\ ~AddbodyAborts(n) /\ pos' = pos + n
           /\ IF H.readlen > 0 THEN Await(Min({H.readlen, READMAX}), f, H)
              ELSE IF H.chunked THEN GoOn("callback_chunkedheader", G)
              ELSE http_docallback(H)
  <2>0. pos' = pos + n
    BY <1>8
  <2>1. n \in Nat /\ n <= h.readlen /\ pos + n <= got /\ left \in Nat /\ Len(h.body) + n <= h.max
    <3>1. avail \in Nat /\ avail = got - pos
      BY <1>5 DEF avail
    <3>2. n = IF avail <= h.readlen THEN avail ELSE h.readlen
      BY <1>4, <3>1, MinOfTwo
    <3>3. ~(Len(h.body) + n > h.max)
      BY <1>8 DEF AddbodyAborts
    <3>4. left = h.readlen - n
      OBVIOUS
    <3> HIDE DEF n, left
    <3> QED BY ONLY <1>4, <1>5, <3>1, <3>2, <3>3, <3>4
  <2>2. IsSeq(b) /\ Len(b) = n /\ \A j \in 1 .. n : b[j] = stream[pos + j]
    <3>1. Takes(b, stream, pos, got, n)
      BY DEF Buf, Takes
    <3> HIDE DEF n, b
    <3> QED BY ONLY <1>5, <2>1, <3>1, Taken
  <2> HIDE DEF n, b, left
  <2>3. /\ CookieOK(H) /\ SameRequest(H, h) /\ H.has = h.has /\ H.chunked = h.chunked
        /\ H.readlen = left /\ H.body = h.body \o b
    <3>1. Len(h.body) + Len(b) <= h.max
      BY <2>1, <2>2
    <3>2. WithBody(H, b, left)
      BY DEF WithBody
    <3>3. CookieOK(h) /\ IsSeq(b) /\ left \in Nat
      BY <1>4, <2>1, <2>2
    <3> HIDE DEF H
    <3> QED BY ONLY <3>1, <3>2, <3>3, TakesData
  <2> HIDE DEF H
  <2>4. pos' \in 0 .. got
    BY <1>5, <1>8, <2>1
  <2>5. H.ishead = h.ishead /\ H.max = h.max
    BY <2>3 DEF SameRequest
  <2>6. ASSUME left > 0, At(f, resp, got, pos', H) PROVE HttpIInv'
    <3> DEFINE m == Min({H.readlen, READMAX})
    <3>1. m \in Nat
      <4>1. READMAX \in Nat /\ READMAX \in Int /\ left \in Int
        BY <2>1, HttpConsts
      <4>2. m = IF left <= READMAX THEN left ELSE READMAX
        BY <2>3, <4>1, MinOfTwo
      <4> QED BY <2>1, <4>1, <4>2
    <3>2. Await(m, f, H)
      BY <1>8, <2>3, <2>6
    <3>3. h' = H /\ f \in Waits
      BY <3>2 DEF Await, Waits
    <3> HIDE DEF m
    <3> QED BY <1>1, <1>2, <1>8, <2>3, <2>4, <2>6, <3>1, <3>2, <3>3, AwaitsMore
  <2>7. At(f, resp, got, pos, h)
    BY <1>1, <1>2, <1>8, WhenParsing DEF Parsing
  <2>8. CASE InBody(resp, pos, h)
    <3> DEFINE B == BodyAt(resp)
               T == Total(resp.parts)
               l == Len(h.body)
    <3>1. /\ resp.enc = "clen" /\ ~h.ishead /\ ~h.chunked /\ IsData(h.body, pos - B)
          /\ T <= h.max /\ h.readlen = T - (pos - B)
      BY <2>8 DEF InBody
    <3>2. B \in Nat /\ T \in Nat
      BY <1>4, ResponseFacts
    <3>3. l = pos - B /\ l \in Nat
      BY <1>4, <3>1 DEF IsData
    <3>4. \A j \in 1 .. T : stream[B + j] = Unit("data", 0 + j)
      BY <1>5, <3>1 DEF LaidOut, HasData
    <3> HIDE DEF B, T
    <3>5. l + n \in Nat /\ left = T - (l + n) /\ l + n = pos' - B /\ l + n <= T
      <4>1. left = h.readlen - n /\ pos \in Nat /\ n \in Nat /\ n <= h.readlen
        BY <1>5, <2>1 DEF left
      <4> QED BY ONLY <2>0, <3>1, <3>2, <3>3, <4>1
    <3>6. IsData(H.body, l + n)
      <4>1. \A j \in 1 .. n : b[j] = Unit("data", l + j)
        <5> SUFFICES ASSUME NEW j \in 1 .. n PROVE b[j] = Unit("data", l + j)
          OBVIOUS
        <5>1. l + j \in 1 .. T /\ pos + j = B + (l + j) /\ 0 + (l + j) = l + j
          BY <1>5, <2>1, <3>2, <3>3, <3>5
        <5>2. b[j] = stream[B + (l + j)]
          BY <2>2, <5>1
        <5> QED BY <3>4, <5>1, <5>2
      <4>2. DataTo(h.body, l + n)
        BY <3>1, <3>3 DEF IsData, DataTo
      <4>3. IsSeq(h.body \o b) /\ Len(h.body \o b) = l + n /\ DataTo(h.body \o b, l + n)
        <5>1. \A j \in 1 .. Len(b) : Len(h.body) + j <= l + n => b[j] = Unit("data", Len(h.body) + j)
          BY <2>2, <4>1
        <5> DEFINE lim == l + n
        <5> HIDE DEF lim
        <5>2. IsSeq(h.body \o b) /\ Len(h.body \o b) = Len(h.body) + Len(b) /\ DataTo(h.body \o b, lim)
          <6>1. IsSeq(h.body) /\ IsSeq(b) /\ lim \in Nat /\ DataTo(h.body, lim)
            BY <1>4, <2>2, <3>5, <4>2 DEF lim
          <6>2. \A j \in 1 .. Len(b) : Len(h.body) + j <= lim => b[j] = Unit("data", Len(h.body) + j)
            BY <5>1 DEF lim
          <6> QED BY ONLY <6>1, <6>2, BodyGrows
        <5> QED BY <2>2, <5>2 DEF lim
      <4>4. l + n \in Nat /\ H.body = h.body \o b
        BY <2>3, <3>5
      <4> HIDE DEF l
      <4> QED BY ONLY <4>3, <4>4, IsDataTo
    <3>7. CASE left > 0
      <4>1. InBody(resp, pos', H)
        <5>1. H.readlen = T - (pos' - B) /\ T <= H.max /\ IsData(H.body, pos' - B) /\ ~H.chunked
          BY <2>3, <2>5, <3>1, <3>5, <3>6
        <5> QED BY <2>5, <3>1, <5>1 DEF InBody, B, T
      <4>2. At(f, resp, got, pos', H)
        BY <4>1 DEF At
      <4> QED BY <2>6, <3>7, <4>2
    <3>8. CASE ~(left > 0)
      <4>1. http_docallback(H)
        BY <1>8, <2>3, <3>1, <3>8
      <4>2. H.body = Data(0, T)
        <5>1. l + n = T
          BY <2>1, <3>2, <3>5, <3>8
        <5> QED BY <3>2, <3>6, <5>1, WholeBody
      <4>3. Answer("ok", H.body) = M
        BY <1>4, <3>1, <3>2, <4>2, MeaningIs DEF T
      <4> QED BY <1>1, <1>2, <2>3, <2>4, <4>1, <4>3, CallsBack
    <3> QED BY <3>7, <3>8
  <2>9. CASE \E i \in 1 .. Len(resp.parts) : \E d \in 0 .. resp.parts[i] + 2 : InChunk(resp, pos, h, i, d)
    <3>1. PICK i \in 1 .. Len(resp.parts) : \E d \in 0 .. resp.parts[i] + 2 : InChunk(resp, pos, h, i, d)
      BY <2>9
    <3> DEFINE c == ChunkAt(resp, i)
               q == resp.parts[i]
               lo == Upto(resp.parts)[i - 1]
               lim == Upto(resp.parts)[i]
               l == Len(h.body)
    <3>2. PICK d \in 0 .. q + 2 : InChunk(resp, pos, h, i, d)
      BY <3>1
    <3>3. /\ resp.enc \in Chunky /\ ~h.ishead /\ h.chunked
          /\ pos = c + 3 + d /\ h.readlen = q + 2 - d /\ SmallTo(resp, i)
          /\ l = lo + d /\ DataTo(h.body, lim)
      BY <3>2 DEF InChunk, DataTo
    <3>4. q \in Nat /\ q > 0 /\ lo \in Nat /\ lim = lo + q /\ Len(resp.parts) \in Nat /\ i \in Nat
          /\ i - 1 \in Nat /\ c \in Nat /\ ChunkAt(resp, i + 1) = c + q + 5
      <4>1. resp.parts \in Seq(Nat \ {0}) /\ Len(resp.parts) \in Nat /\ BodyAt(resp) \in Nat
        BY <1>4, ResponseFacts
      <4>2. q \in Nat /\ q > 0 /\ lo \in Nat /\ lim = lo + q
        <5>1. i - 1 \in 0 .. Len(resp.parts)
          BY <4>1
        <5> QED BY <4>1, <5>1, UptoFacts
      <4>3. c = BodyAt(resp) + lo + 5 * (i - 1) /\ ChunkAt(resp, i + 1) = BodyAt(resp) + lim + 5 * i
        <5>1. i + 1 - 1 = i
          OBVIOUS
        <5> QED BY <5>1 DEF ChunkAt
      <4> HIDE DEF c, q, lo, lim
      <4> QED BY <4>1, <4>2, <4>3, SMTT(30)
    <3>5. \A j \in 1 .. q : stream[c + 3 + j] = Unit("data", lo + j)
      BY <1>5, <3>3 DEF LaidOut, HasData
    <3> HIDE DEF c, q, lo, lim
    <3>6. l + n = lo + (d + n) /\ d + n \in 0 .. q + 2 /\ left = q + 2 - (d + n) /\ lim \in Nat
          /\ pos' = c + 3 + (d + n) /\ d \in Nat
      <4>1. left = h.readlen - n /\ pos \in Nat /\ n \in Nat /\ n <= h.readlen
        BY <1>5, <2>1 DEF left
      <4> QED BY ONLY <2>0, <3>3, <3>4, <4>1, d \in 0 .. q + 2
    <3>7. /\ IsSeq(H.body) /\ Len(H.body) = l + n /\ DataTo(H.body, lim)
      <4>1. \A j \in 1 .. Len(b) : Len(h.body) + j <= lim => b[j] = Unit("data", Len(h.body) + j)
        <5> SUFFICES ASSUME NEW j \in 1 .. Len(b), Len(h.body) + j <= lim
                     PROVE  b[j] = Unit("data", Len(h.body) + j)
          OBVIOUS
        <5>1. j \in 1 .. n /\ d + j \in 1 .. q /\ pos + j = c + 3 + (d + j) /\ lo + (d + j) = Len(h.body) + j
          BY <2>1, <2>2, <3>3, <3>4, <3>6
        <5>2. b[j] = stream[c + 3 + (d + j)]
          BY <2>2, <5>1
        <5>3. stream[c + 3 + (d + j)] = Unit("data", lo + (d + j))
          BY <3>5, <5>1
        <5> QED BY <5>1, <5>2, <5>3
      <4>2. IsSeq(h.body \o b) /\ Len(h.body \o b) = Len(h.body) + Len(b) /\ DataTo(h.body \o b, lim)
        BY <1>4, <2>2, <3>3, <3>6, <4>1, BodyGrows
      <4> QED BY <2>2, <2>3, <4>2
    <3>8. CASE left > 0
      <4> DEFINE e == d + n
      <4>1. InChunk(resp, pos', H, i, e)
        <5>1. /\ pos' = c + 3 + e /\ H.readlen = q + 2 - e /\ Len(H.body) = lo + e /\ H.chunked /\ ~H.ishead
          BY <2>3, <2>5, <3>3, <3>6, <3>7
        <5>2. \A x \in 1 .. Len(H.body) : x <= lim => H.body[x] = Unit("data", x)
          BY <3>7 DEF DataTo
        <5> HIDE DEF e
        <5> QED BY <3>3, <5>1, <5>2 DEF InChunk, c, q, lo, lim
      <4>2. e \in 0 .. resp.parts[i] + 2
        BY <3>6 DEF q
      <4> HIDE DEF e
      <4>3. At(f, resp, got, pos', H)
        BY <4>1, <4>2 DEF At
      <4> QED BY <2>6, <3>8, <4>3
    <3>9. CASE ~(left > 0)
      <4>1. GoOn("callback_chunkedheader", G) /\ h' = G
        BY <1>8, <2>3, <3>3, <3>9 DEF GoOn
      <4>2. d + n = q + 2 /\ Len(H.body) = lim + 2
        BY <2>1, <3>4, <3>6, <3>7, <3>9
      <4> DEFINE st == Stripped(H.body)
      <4>3. IsData(st, lim)
        BY <3>6, <3>7, <4>2, StrippedIs
      <4> HIDE DEF st
      <4>4. /\ CookieOK(G) /\ SameRequest(G, H) /\ G.body = st /\ G.has = H.has /\ G.chunked = H.chunked
        <5>1. IsSeq(st) /\ Len(st) = lim
          BY <4>3 DEF IsData
        <5>2. Len(H.body) <= H.alloc /\ H.alloc \in Nat
          BY <2>3, CookieFacts
        <5>3. Len(st) <= H.alloc
          BY <3>6, <4>2, <5>1, <5>2
        <5>4. IsPut(G, H, "body", st)
          BY DEF IsPut, st
        <5>5. CookieOK(H) /\ IsSeq(st)
          BY <2>3, <5>1
        <5> HIDE DEF G
        <5> QED BY ONLY <5>3, <5>4, <5>5, SetBody
      <4> HIDE DEF G
      <4>5. SameRequest(G, h) /\ G.has = h.has /\ G.ishead = h.ishead
        BY <2>3, <2>5, <4>4 DEF SameRequest
      <4>6. AtChunk(resp, pos', G, i + 1)
        <5>1. pos' = ChunkAt(resp, i + 1)
          BY <3>4, <3>6, <4>2
        <5>2. i + 1 - 1 = i
          BY <3>4
        <5> QED BY <2>3, <3>3, <4>3, <4>4, <4>5, <5>1, <5>2 DEF AtChunk, lim
      <4>7. At("callback_chunkedheader", resp, got, pos', h')
        <5>1. i + 1 \in 1 .. Len(resp.parts) + 1
          BY <3>4
        <5> QED BY <4>1, <4>6, <5>1 DEF At
      <4> QED BY <1>1, <1>2, <1>8, <2>4, <4>1, <4>4, <4>5, <4>7, ParsesOn
    <3> QED BY <3>8, <3>9
  <2> QED BY <2>7, <2>8, <2>9 DEF At
<1> QED BY <1>3, <1>6, <1>7, <1>8

LEMMA ReadToEofOK ==
  ASSUME HttpIInv, callback_read_toeof
  PROVE  HttpIInv'
<1> DEFINE f == "callback_read_toeof"
           H == addbody(Buf)
           M == Meaning(resp, h.max, h.ishead)
           B == BodyAt(resp)
           T == Total(resp.parts)
           l == Len(h.body)
<1>1. hpc = f /\ parservars' = parservars
  BY DEF callback_read_toeof
<1>2. hpc \in Parser /\ hpc \in Waits /\ hpc # "callback_connected" /\ f \in Waits
  BY <1>1 DEF Parser, Waits
<1>3. \/ hstatus = -1 /\ fail /\ pos' = pos
      \/ hstatus = 1 /\ http_docallback(h) /\ pos' = pos
      \/ hstatus = 0 /\ avail > h.max - l /\ toobig(h) /\ pos' = pos
      \/ hstatus = 0 /\ avail <= h.max - l /\ GoOn("die", h) /\ pos' = pos
      \/ hstatus = 0 /\ avail <= h.max - l /\ pos' = got /\ Await(1, f, H)
  BY DEF callback_read_toeof
<1>4. /\ resp \in Responses /\ CookieOK(h) /\ h.max \in Nat /\ h.ishead \in BOOLEAN
      /\ IsSeq(h.body) /\ l \in Nat /\ l <= h.max /\ SameRequest(h, h)
  BY <1>2, WhenParsing, CookieFacts DEF CookieOK, SameRequest
<1>5. /\ LaidOut(resp, stream) /\ IsSeq(stream) /\ Len(stream) \in Nat /\ got \in Nat /\ pos \in Nat
      /\ pos <= got /\ got <= Len(stream) /\ pos \in 0 .. got /\ got \in 0 .. got /\ avail = got - pos
  BY StreamIs DEF avail
<1>6. B \in Nat /\ T \in Nat
  BY <1>4, ResponseFacts
<1>7. CASE hstatus = -1
  BY <1>1, <1>2, <1>3, <1>7, FailsOK
<1>8. CASE hstatus \in {0, 1}
  <2>1. Parsing(hpc, hstatus, resp, got, pos, h)
    BY <1>1, <1>2, <1>8, WhenParsing DEF Interrupted
  <2>2. resp.enc = "toeof" /\ ~h.ishead /\ IsData(h.body, pos - B)
    BY <1>1, <2>1 DEF Parsing, At, ToEof
  <2>3. l = pos - B
    BY <2>2 DEF IsData
  <2>4. Len(stream) = B + T /\ \A j \in 1 .. T : stream[B + j] = Unit("data", 0 + j)
    BY <1>5, <2>2 DEF LaidOut, HasData
  <2>5. M = IF T > h.max THEN Answer("toobig", <<>>) ELSE Answer("ok", Data(0, T))
    BY <1>4, <2>2, MeaningIs
  <2> HIDE DEF B, T, l, M
  <2>6. CASE hstatus = 1
    <3>1. http_docallback(h) /\ pos' = pos
      BY <1>3, <2>6
    <3>2. pos = Len(stream)
      BY <1>1, <1>2, <2>1, <2>6, WhenParsing DEF Parsing
    <3>3. l = T
      BY <1>6, <2>3, <2>4, <3>2
    <3>4. h.body = Data(0, T)
      BY <1>6, <2>2, <2>3, <3>3, WholeBody
    <3>5. Answer("ok", h.body) = M
      BY <1>4, <1>6, <2>5, <3>3, <3>4
    <3> QED BY <1>1, <1>2, <1>4, <1>5, <3>1, <3>5, CallsBack DEF M
  <2>7. CASE hstatus = 0 /\ avail > h.max - l /\ toobig(h) /\ pos' = pos
    <3>1. T > h.max
      BY <1>4, <1>5, <1>6, <2>3, <2>4, <2>7
    <3>2. Answer("toobig", <<>>) = M
      BY <2>5, <3>1
    <3> QED BY <1>1, <1>2, <1>4, <1>5, <2>7, <3>2, CallsBack DEF M
  <2>8. CASE GoOn("die", h) /\ pos' = pos
    <3>1. h' = h /\ "die" \in {"die", "abort"}
      BY <2>8 DEF GoOn
    <3> QED BY <1>1, <1>2, <1>4, <1>5, <2>8, <3>1, StopsOK
  <2>9. CASE hstatus = 0 /\ avail <= h.max - l /\ pos' = got /\ Await(1, f, H)
    <3> DEFINE n == got - pos
    <3>1. n \in Nat /\ l + n <= h.max /\ pos + n <= got /\ l + n = got - B /\ l + n \in Nat
          /\ l + n <= T
      BY <1>4, <1>5, <1>6, <2>3, <2>4, <2>9
    <3>2. IsSeq(Buf) /\ Len(Buf) = n /\ \A j \in 1 .. n : Buf[j] = stream[pos + j]
      BY <1>5, SeqSub DEF Buf
    <3> HIDE DEF n
    <3>3. CookieOK(H) /\ SameRequest(H, h) /\ H.has = h.has /\ H.body = h.body \o Buf
      <4>1. Added(H, h, Buf)
        BY DEF Added, addbody
      <4>2. Len(h.body) + Len(Buf) <= h.max
        BY <3>1, <3>2 DEF l
      <4>3. IsSeq(Buf) /\ CookieOK(h)
        BY <1>4, <3>2
      <4> HIDE DEF H
      <4> QED BY ONLY <4>1, <4>2, <4>3, AddBody
    <3>4. h' = H
      BY <2>9 DEF Await
    <3> HIDE DEF H
    <3>5. IsData(H.body, l + n)
      <4>1. \A j \in 1 .. n : Buf[j] = Unit("data", l + j)
        <5> SUFFICES ASSUME NEW j \in 1 .. n PROVE Buf[j] = Unit("data", l + j)
          OBVIOUS
        <5>1. l + j \in 1 .. T /\ pos + j = B + (l + j) /\ 0 + (l + j) = l + j
          BY <1>4, <1>5, <1>6, <2>3, <3>1
        <5>2. Buf[j] = stream[B + (l + j)]
          BY <3>2, <5>1
        <5> QED BY <2>4, <5>1, <5>2
      <4>2. DataTo(h.body, l + n)
        BY <2>2, <2>3 DEF IsData, DataTo, l
      <4>3. \A j \in 1 .. Len(Buf) : Len(h.body) + j <= l + n => Buf[j] = Unit("data", Len(h.body) + j)
        BY <3>2, <4>1 DEF l
      <4> DEFINE lim == l + n
      <4> HIDE DEF lim
      <4>4. /\ IsSeq(h.body \o Buf) /\ Len(h.body \o Buf) = Len(h.body) + Len(Buf)
            /\ DataTo(h.body \o Buf, lim)
        BY <1>4, <3>1, <3>2, <4>2, <4>3, BodyGrows DEF lim
      <4>5. Len(H.body) = lim
        BY <3>2, <3>3, <4>4 DEF lim, l
      <4> QED BY <3>1, <3>3, <4>4, <4>5, IsDataTo DEF lim
    <3>6. ToEof(resp, pos', H)
      <4>1. H.ishead = h.ishead
        BY <3>3 DEF SameRequest
      <4> QED BY <2>2, <2>9, <3>1, <3>5, <4>1 DEF ToEof, B
    <3>7. At(f, resp, got, pos', h')
      BY <3>4, <3>6 DEF At
    <3>8. 1 \in Nat
      OBVIOUS
    <3> QED BY <1>1, <1>2, <1>5, <2>9, <3>3, <3>4, <3>7, <3>8, AwaitsMore
  <2> QED BY <1>3, <1>8, <2>6, <2>7, <2>8, <2>9 DEF l
<1>9. hstatus \in -1 .. 1
  BY <1>2, WhenParsing
<1> QED BY <1>7, <1>8, <1>9
----------------------------------------------------------------------------
LEMMA HttpNextOK == HttpIInv /\ [HttpNext]_httpvars => HttpIInv'
<1> SUFFICES ASSUME HttpIInv, [HttpNext]_httpvars PROVE HttpIInv'
  OBVIOUS
<1>1. ASSUME NEW max \in MaxRLens, NEW ishead \in BOOLEAN, NEW ssl \in BOOLEAN,
             http_request2(max, ishead, ssl)
      PROVE  HttpIInv'
  BY <1>1, RequestOK
<1>2. CASE HttpCancel \/ HttpCallbackReturns \/ die
  BY <1>2, CancelsOK
<1>3. CASE callback_connected
  BY <1>3, ConnectedOK
<1>4. CASE callback_read_header
  BY <1>4, ReadHeaderOK
<1>5. CASE gotheaders
  BY <1>5, GotHeadersOK
<1>6. CASE callback_chunkedheader
  BY <1>6, ChunkedHeaderOK
<1>7. CASE callback_readdata
  BY <1>7, ReadDataOK
<1>8. CASE callback_read_toeof
  BY <1>8, ReadToEofOK
<1>9. ASSUME NEW ok \in BOOLEAN, Connects(ok) PROVE HttpIInv'
  BY <1>9, ConnectsOK
<1>10. CASE DataComes \/ StreamEnds \/ ReadFails
  BY <1>10, ReaderOK
<1>11. CASE WriteFails
  BY <1>11, WriteFailsOK
<1>12. CASE UNCHANGED httpvars
  BY <1>12 DEF HttpIInv, HttpTypeOK, httpvars
<1> QED BY <1>1, <1>2, <1>3, <1>4, <1>5, <1>6, <1>7, <1>8, <1>9, <1>10, <1>11, <1>12
        DEF HttpNext, HttpStep

LEMMA HttpImplies == HttpIInv => ResponseRight
<1> SUFFICES ASSUME HttpIInv PROVE ResponseRight
  OBVIOUS
<1>1. HttpTypeOK /\ HttpReleases
  BY DEF HttpIInv, HttpReleases
<1>2. ASSUME answer # NULL
      PROVE  LET right == Meaning(resp, h0.max, h0.ishead) IN
             answer = right \/ (answer.kind = "fail" /\ fault)
  BY <1>2 DEF HttpIInv, AnswerOK
<1>3. ASSUME h # NULL PROVE Len(h.body) <= h.alloc /\ h.alloc <= h.max
  BY <1>3 DEF HttpIInv, CookieOK
<1> QED BY <1>1, <1>2, <1>3 DEF ResponseRight

(* The whole response and nothing else, however it was cut up (http.c).     *)
THEOREM ResponseCorrect == HttpSpec => []ResponseRight
<1>1. HttpSpec => []HttpIInv
  BY HttpInitOK, HttpNextOK, PTL DEF HttpSpec
<1> QED BY <1>1, HttpImplies, PTL
=============================================================================
