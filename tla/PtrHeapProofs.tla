---------------------------- MODULE PtrHeapProofs ----------------------------
(***************************************************************************)
(* Proofs about PtrHeap, for any set of elements and any range of values.  *)
(* The order of the heap is stated over explicit arguments: an array e, a  *)
(* number n of live positions, and values v.                               *)
(***************************************************************************)
EXTENDS PtrHeap, WellFoundedInduction, TLAPS

(* Arrays of at least n elements, and values. *)
Arr(e, n, v) ==
  /\ n \in Nat
  /\ v \in [Elems -> Keys]
  /\ \A j \in 0 .. (n - 1) : e[j] \in Elems

(* The element at position j is not smaller than the one at position k. *)
Above(e, v, k, j) == v[e[k]] <= v[e[j]]
Edge(e, v, j) == Above(e, v, Parent(j), j)

Ordered(e, n, v) == \A j \in 1 .. (n - 1) : Edge(e, v, j)

(* Every child of position p is in order with the parent of p. *)
Bridged(e, n, v, p) ==
  \A j \in 1 .. (n - 1) : Parent(j) = p => Above(e, v, Parent(p), j)

(* heapifyup is at p: only the edge above p may be out of order. *)
OrderedUp(e, n, v, p) ==
  /\ \A j \in 1 .. (n - 1) : j # p => Edge(e, v, j)
  /\ p # 0 => Bridged(e, n, v, p)

(* heapify is at p: only the edges below p may be out of order, among the   *)
(* ones that start at position l or beyond.                                 *)
OrderedDown(e, n, v, p, l) ==
  /\ \A j \in 1 .. (n - 1) : l <= Parent(j) /\ Parent(j) # p => Edge(e, v, j)
  /\ p # 0 /\ l <= Parent(p) => Bridged(e, n, v, p)

Pointers(e, n) == {e[j] : j \in 0 .. (n - 1)}
Distinct(e, n) == \A j, k \in 0 .. (n - 1) : e[j] = e[k] => j = k
(* f is e with the elements at a and b exchanged. *)
Exchanged(e, f, n, a, b) ==
  /\ f[a] = e[b] /\ f[b] = e[a]
  /\ \A j \in 0 .. (n - 1) : j # a /\ j # b => f[j] = e[j]

Told(e, n, c) == \A j \in 0 .. (n - 1) : c[e[j]] = j

(* The state of the control. *)
Control ==
  /\ pc = "idle" => after = "return"
  /\ pc # "idle" => i < Size
  /\ pc = "down" => N = Size
  /\ after = "shrink" => nelems > 1
  /\ after = "create" => pc = "down" /\ ci < nelems /\ ci <= i
  /\ ~H => pc = "idle" /\ nelems = 0

Order ==
  /\ pc = "idle" => Ordered(elems, Size, val)
  /\ pc = "up" => OrderedUp(elems, Size, val, i)
  /\ pc = "down" => OrderedDown(elems, Size, val, i, IF after = "create" THEN ci ELSE 0)

IInv ==
  /\ HeapTypeOK
  /\ Control
  /\ Order
  /\ Distinct(elems, Size)
  /\ after # "create" => Told(elems, Size, rc)
----------------------------------------------------------------------------
(* The parent of a position is above it, and a position has two children. *)
LEMMA ParentFacts ==
  /\ \A j \in Nat : j # 0 => /\ Parent(j) \in Nat
                             /\ Parent(j) < j
                             /\ j = 2 * Parent(j) + 1 \/ j = 2 * Parent(j) + 2
  /\ \A p \in Nat : Parent(2 * p + 1) = p /\ Parent(2 * p + 2) = p
BY DEF Parent

LEMMA ParentBelow ==
  ASSUME NEW n \in Nat, NEW j \in 1 .. n
  PROVE  Parent(j) \in Nat /\ Parent(j) < n
BY ParentFacts

LEMMA ParentIn ==
  ASSUME NEW n \in Nat, NEW j \in 0 .. (n - 1), j # 0
  PROVE  /\ j \in 1 .. (n - 1) /\ j \in Nat /\ n > 0
         /\ Parent(j) \in 0 .. (n - 1) /\ Parent(j) \in Nat
         /\ Parent(j) < j /\ Parent(j) # j
BY ParentFacts

(* An element that is smaller than its parent moves up one level. *)
LEMMA SwapUp ==
  ASSUME NEW e, NEW n, NEW v, NEW p, NEW f,
         Arr(e, n, v), p \in 1 .. (n - 1),
         v[e[p]] < v[e[Parent(p)]],
         OrderedUp(e, n, v, p),
         f[p] = e[Parent(p)], f[Parent(p)] = e[p],
         \A j \in 0 .. (n - 1) : j # p /\ j # Parent(p) => f[j] = e[j]
  PROVE  OrderedUp(f, n, v, Parent(p))
<1> DEFINE q == Parent(p)
<1>0. /\ q \in Nat /\ q < p /\ n \in Nat /\ p \in Nat /\ p # 0
      /\ \A j \in 1 .. (n - 1) : Parent(j) \in 0 .. (n - 1) /\ Parent(j) < j
  <2>1. n \in Nat
    BY DEF Arr
  <2>2. \A j \in 1 .. (n - 1) : j \in 0 .. (n - 1) /\ j # 0 /\ j \in Nat
    BY <2>1
  <2> QED  BY <2>1, <2>2, ParentIn
<1>1. \A j \in 0 .. (n - 1) : v[e[j]] \in Int
  BY DEF Arr, Keys
<1> HIDE DEF q
<1>f. f[p] = e[q] /\ f[q] = e[p] /\ (\A j \in 0 .. (n - 1) : j # p /\ j # q => f[j] = e[j])
      /\ Parent(p) = q
  BY DEF q
<1>2. ASSUME NEW j \in 1 .. (n - 1), j # q PROVE Edge(f, v, j)
  <2>1. CASE j = p
    BY <2>1, <1>0, <1>1, <1>f DEF Edge, Above
  <2>2. CASE j # p /\ Parent(j) = q
    <3>1. Edge(e, v, j)
      BY <2>2 DEF OrderedUp
    <3> QED  BY <3>1, <2>2, <1>2, <1>0, <1>1, <1>f DEF Edge, Above
  <2>3. CASE j # p /\ Parent(j) = p
    <3>1. Above(e, v, q, j)
      BY <2>3, <1>0, <1>f DEF OrderedUp, Bridged
    <3> QED  BY <3>1, <2>3, <1>2, <1>0, <1>1, <1>f DEF Edge, Above
  <2>4. CASE j # p /\ Parent(j) # p /\ Parent(j) # q
    <3>1. Edge(e, v, j)
      BY <2>4 DEF OrderedUp
    <3> QED  BY <3>1, <2>4, <1>2, <1>0, <1>1, <1>f DEF Edge, Above
  <2> QED  BY <2>1, <2>2, <2>3, <2>4
<1>3. ASSUME q # 0, NEW j \in 1 .. (n - 1), Parent(j) = q PROVE Above(f, v, Parent(q), j)
  <2>0. q \in 1 .. (n - 1) /\ Parent(q) < q /\ Parent(q) \in 0 .. (n - 1)
    BY <1>0, <1>3
  <2>1. Edge(e, v, q)
    BY <2>0, <1>0 DEF OrderedUp
  <2>2. j # p => Edge(e, v, j)
    BY DEF OrderedUp
  <2>3. j # q
    BY <1>0, <1>3
  <2> QED  BY <2>0, <2>1, <2>2, <2>3, <1>3, <1>0, <1>1, <1>f DEF Edge, Above
<1> QED  BY <1>2, <1>3, <1>f DEF OrderedUp, Bridged

(* An element that is larger than its least child moves down one level. *)
LEMMA SwapDown ==
  ASSUME NEW e, NEW n, NEW v, NEW p, NEW m, NEW l, NEW f,
         Arr(e, n, v), m \in 1 .. (n - 1), Parent(m) = p,
         l \in Nat, l <= p,
         v[e[m]] < v[e[p]],
         \A j \in 1 .. (n - 1) : Parent(j) = p => v[e[m]] <= v[e[j]],
         OrderedDown(e, n, v, p, l),
         f[p] = e[m], f[m] = e[p],
         \A j \in 0 .. (n - 1) : j # p /\ j # m => f[j] = e[j]
  PROVE  OrderedDown(f, n, v, m, l)
<1>0. /\ p \in 0 .. (n - 1) /\ p < m /\ n \in Nat /\ p \in Nat /\ m # 0 /\ m \in Nat
      /\ \A j \in 1 .. (n - 1) : Parent(j) \in 0 .. (n - 1) /\ Parent(j) < j
  <2>1. n \in Nat
    BY DEF Arr
  <2>2. \A j \in 1 .. (n - 1) : j \in 0 .. (n - 1) /\ j # 0 /\ j \in Nat
    BY <2>1
  <2> QED  BY <2>1, <2>2, ParentIn
<1>1. \A j \in 0 .. (n - 1) : v[e[j]] \in Int
  BY DEF Arr, Keys
<1>2. ASSUME NEW j \in 1 .. (n - 1), l <= Parent(j), Parent(j) # m PROVE Edge(f, v, j)
  <2>1. CASE j = m
    BY <2>1, <1>0, <1>1 DEF Edge, Above
  <2>2. CASE j # m /\ Parent(j) = p
    BY <2>2, <1>2, <1>0, <1>1 DEF Edge, Above
  <2>3. CASE j = p
    <3>1. Above(e, v, Parent(p), m)
      BY <2>3, <1>2, <1>0 DEF OrderedDown, Bridged
    <3> QED  BY <3>1, <2>3, <1>2, <1>0, <1>1 DEF Edge, Above
  <2>4. CASE j # m /\ j # p /\ Parent(j) # p
    <3>1. Edge(e, v, j)
      BY <2>4, <1>2 DEF OrderedDown
    <3> QED  BY <3>1, <2>4, <1>2, <1>0, <1>1 DEF Edge, Above
  <2> QED  BY <2>1, <2>2, <2>3, <2>4
<1>3. ASSUME NEW j \in 1 .. (n - 1), Parent(j) = m PROVE Above(f, v, p, j)
  <2>1. Edge(e, v, j)
    BY <1>3, <1>0 DEF OrderedDown
  <2> QED  BY <2>1, <1>3, <1>0, <1>1 DEF Edge, Above
<1> QED  BY <1>2, <1>3 DEF OrderedDown, Bridged

(* Where heapify and heapifyup stop, the order is restored. *)
LEMMA DoneUp ==
  ASSUME NEW e, NEW n, NEW v, NEW p \in Nat,
         Arr(e, n, v), OrderedUp(e, n, v, p), p < n,
         p # 0 => ~(v[e[p]] < v[e[Parent(p)]])
  PROVE  Ordered(e, n, v)
<1>1. \A j \in 0 .. (n - 1) : v[e[j]] \in Int
  BY DEF Arr, Keys
<1>2. p # 0 => Parent(p) \in 0 .. (n - 1) /\ p \in 0 .. (n - 1)
  BY ParentFacts DEF Arr
<1> QED  BY <1>1, <1>2 DEF OrderedUp, Ordered, Edge, Above, Arr

LEMMA DoneDown ==
  ASSUME NEW e, NEW n, NEW v, NEW p \in Nat, NEW l \in Nat,
         Arr(e, n, v), OrderedDown(e, n, v, p, l), p < n,
         \A j \in 1 .. (n - 1) : Parent(j) = p => v[e[p]] <= v[e[j]]
  PROVE  /\ \A j \in 1 .. (n - 1) : l <= Parent(j) => Edge(e, v, j)
         /\ l = 0 => Ordered(e, n, v)
<1>1. \A j \in 1 .. (n - 1) : Parent(j) \in Nat
  <2> TAKE j \in 1 .. (n - 1)
  <2>1. n \in Nat
    BY DEF Arr
  <2>2. j \in Nat /\ j # 0
    BY ONLY <2>1, j \in 1 .. (n - 1)
  <2> QED  BY ONLY <2>2, ParentFacts
<1>2. ASSUME NEW j \in 1 .. (n - 1), l <= Parent(j) PROVE Edge(e, v, j)
  <2>1. CASE Parent(j) = p
    BY <2>1 DEF Edge, Above
  <2>2. CASE Parent(j) # p
    BY <2>2, <1>2 DEF OrderedDown
  <2> QED  BY <2>1, <2>2
<1>3. ASSUME l = 0 PROVE Ordered(e, n, v)
  BY <1>1, <1>2, <1>3 DEF Ordered
<1> QED  BY <1>2, <1>3

(* In an ordered heap the least element is at the root. *)
LEMMA RootIsLeast ==
  ASSUME NEW e, NEW n, NEW v, Arr(e, n, v), Ordered(e, n, v)
  PROVE  \A j \in 0 .. (n - 1) : v[e[0]] <= v[e[j]]
<1> DEFINE T == {j \in 0 .. (n - 1) : ~(v[e[0]] <= v[e[j]])}
<1> SUFFICES ASSUME T # {} PROVE FALSE
  OBVIOUS
<1>1. T \subseteq Nat /\ n \in Nat
  BY DEF Arr
<1>2. PICK t \in T : \A y \in T : ~(<<y, t>> \in OpToRel(<, Nat))
  <2>1. IsWellFoundedOn(OpToRel(<, Nat), Nat)
    BY NatLessThanWellFounded
  <2> HIDE DEF T
  <2> QED  BY <2>1, <1>1, WFMin
<1>3. \A y \in T : ~(y < t)
  BY <1>1, <1>2 DEF OpToRel
<1>4. \A j \in 0 .. (n - 1) : v[e[j]] \in Int
  BY DEF Arr, Keys
<1>5. t # 0
  BY <1>1, <1>4
<1>6. Parent(t) \in 0 .. (n - 1) /\ Parent(t) < t /\ t \in 1 .. (n - 1)
  BY <1>1, <1>5, ParentFacts
<1>7. Parent(t) \notin T
  BY <1>3, <1>6
<1>8. v[e[Parent(t)]] <= v[e[t]]
  BY <1>6 DEF Ordered, Edge, Above
<1>9. 0 \in 0 .. (n - 1)
  BY <1>1, <1>6
<1> QED  BY <1>4, <1>6, <1>7, <1>8, <1>9

(* The order depends on the values of the live positions only. *)
LEMMA SameOrder ==
  ASSUME NEW e, NEW f, NEW n \in Nat, NEW v, NEW w,
         \A j \in 0 .. (n - 1) : w[f[j]] = v[e[j]]
  PROVE  /\ Ordered(e, n, v) => Ordered(f, n, w)
         /\ \A p \in 0 .. (n - 1) : OrderedUp(e, n, v, p) => OrderedUp(f, n, w, p)
         /\ \A p \in 0 .. (n - 1), l \in Nat :
              OrderedDown(e, n, v, p, l) => OrderedDown(f, n, w, p, l)
<1>1. \A j \in 1 .. (n - 1) : Parent(j) \in 0 .. (n - 1) /\ j \in 0 .. (n - 1)
  BY ParentIn
<1>2. \A j, k \in 0 .. (n - 1) : Above(e, v, j, k) => Above(f, w, j, k)
  BY DEF Above
<1>3. \A j \in 1 .. (n - 1) : Edge(e, v, j) => Edge(f, w, j)
  BY <1>1, <1>2 DEF Edge
<1>4. \A p \in 0 .. (n - 1) : p # 0 /\ Bridged(e, n, v, p) => Bridged(f, n, w, p)
  <2> SUFFICES ASSUME NEW p \in 0 .. (n - 1), p # 0, Bridged(e, n, v, p),
                      NEW j \in 1 .. (n - 1), Parent(j) = p
               PROVE  Above(f, w, Parent(p), j)
    BY DEF Bridged
  <2>1. Parent(p) \in 0 .. (n - 1)
    BY ParentIn
  <2>2. Above(e, v, Parent(p), j)
    BY DEF Bridged
  <2> QED  BY <2>1, <2>2, <1>1, <1>2
<1>5. Ordered(e, n, v) => Ordered(f, n, w)
  BY <1>3 DEF Ordered
<1>6. \A p \in 0 .. (n - 1) : OrderedUp(e, n, v, p) => OrderedUp(f, n, w, p)
  BY <1>3, <1>4 DEF OrderedUp
<1>7. \A p \in 0 .. (n - 1), l \in Nat :
        OrderedDown(e, n, v, p, l) => OrderedDown(f, n, w, p, l)
  BY <1>3, <1>4 DEF OrderedDown
<1> QED  BY <1>5, <1>6, <1>7

(* The last element takes the place of the one that is deleted at p: it may *)
(* be too small or too large for it, never both.                            *)
LEMMA ReplaceOrder ==
  ASSUME NEW e, NEW f, NEW n \in Nat, NEW v, NEW p \in 0 .. (n - 1),
         Arr(e, n + 1, v), Ordered(e, n + 1, v),
         f[p] = e[n],
         \A j \in 0 .. (n - 1) : j # p => f[j] = e[j]
  PROVE  /\ p > 0 /\ v[e[n]] < v[e[Parent(p)]] => OrderedUp(f, n, v, p)
         /\ ~(p > 0 /\ v[e[n]] < v[e[Parent(p)]]) => OrderedDown(f, n, v, p, 0)
<1>1. /\ \A j \in 1 .. (n - 1) : /\ Parent(j) \in 0 .. (n - 1) /\ Parent(j) < j
                                 /\ j \in 0 .. (n - 1) /\ j \in Int /\ Edge(e, v, j)
      /\ \A j \in 0 .. (n - 1) : v[e[j]] \in Int
      /\ v[e[n]] \in Int
      /\ p # 0 => p \in 1 .. (n - 1)
  <2>1. \A j \in 1 .. (n - 1) : j \in 0 .. (n - 1) /\ j # 0 /\ j \in 1 .. ((n + 1) - 1)
    OBVIOUS
  <2>2. \A j \in 0 .. ((n + 1) - 1) : v[e[j]] \in Int
    BY DEF Arr, Keys
  <2>3. \A j \in 0 .. (n - 1) : j \in 0 .. ((n + 1) - 1)
    OBVIOUS
  <2>4. n \in 0 .. ((n + 1) - 1)
    OBVIOUS
  <2> QED  BY <2>1, <2>2, <2>3, <2>4, ParentIn DEF Ordered
<1>2. ASSUME p # 0 PROVE Bridged(f, n, v, p)
  <2> SUFFICES ASSUME NEW j \in 1 .. (n - 1), Parent(j) = p PROVE Above(f, v, Parent(p), j)
    BY DEF Bridged
  <2>1. Above(e, v, p, j) /\ Above(e, v, Parent(p), p)
    BY <1>1, <1>2 DEF Edge
  <2>2. Parent(p) # p /\ j # p /\ Parent(p) \in 0 .. (n - 1)
    BY <1>1, <1>2
  <2> QED  BY <2>1, <2>2, <1>1 DEF Above
<1>3. ASSUME NEW j \in 1 .. (n - 1), j # p, Parent(j) # p PROVE Edge(f, v, j)
  BY <1>1, <1>3 DEF Edge, Above
<1>4. ASSUME p > 0, v[e[n]] < v[e[Parent(p)]],
             NEW j \in 1 .. (n - 1), Parent(j) = p
      PROVE  Edge(f, v, j)
  <2>1. Above(e, v, p, j) /\ Above(e, v, Parent(p), p)
    BY <1>1, <1>4 DEF Edge
  <2>2. Parent(p) # p /\ j # p /\ Parent(p) \in 0 .. (n - 1)
    BY <1>1, <1>4
  <2> QED  BY <2>1, <2>2, <1>1, <1>4 DEF Edge, Above
<1>5. ASSUME ~(p > 0 /\ v[e[n]] < v[e[Parent(p)]]), p # 0 PROVE Edge(f, v, p)
  BY <1>1, <1>5 DEF Edge, Above
<1>6. p > 0 <=> p # 0
  OBVIOUS
<1>7. p > 0 /\ v[e[n]] < v[e[Parent(p)]] => OrderedUp(f, n, v, p)
  BY <1>2, <1>3, <1>4, <1>6 DEF OrderedUp
<1>8. ~(p > 0 /\ v[e[n]] < v[e[Parent(p)]]) => OrderedDown(f, n, v, p, 0)
  BY <1>2, <1>3, <1>5, <1>6 DEF OrderedDown
<1> QED  BY <1>7, <1>8

(* The value of one element changes. *)
LEMMA RekeyOrder ==
  ASSUME NEW e, NEW n \in Nat, NEW v, NEW w, NEW p \in 0 .. (n - 1),
         Arr(e, n, v), Arr(e, n, w), Ordered(e, n, v),
         \A j \in 0 .. (n - 1) : j # p => w[e[j]] = v[e[j]]
  PROVE  /\ w[e[p]] <= v[e[p]] => OrderedUp(e, n, w, p)
         /\ v[e[p]] <= w[e[p]] => OrderedDown(e, n, w, p, 0)
<1>1. /\ \A j \in 1 .. (n - 1) : /\ Parent(j) \in 0 .. (n - 1) /\ Parent(j) < j
                                 /\ j \in 0 .. (n - 1) /\ j \in Int /\ Edge(e, v, j)
      /\ \A j \in 0 .. (n - 1) : v[e[j]] \in Int /\ w[e[j]] \in Int
      /\ p # 0 => p \in 1 .. (n - 1)
  <2>1. \A j \in 1 .. (n - 1) : j \in 0 .. (n - 1) /\ j # 0
    OBVIOUS
  <2>2. \A j \in 0 .. (n - 1) : v[e[j]] \in Int /\ w[e[j]] \in Int
    BY DEF Arr, Keys
  <2> QED  BY <2>1, <2>2, ParentIn DEF Ordered
<1>2. ASSUME p # 0 PROVE Bridged(e, n, w, p)
  <2> SUFFICES ASSUME NEW j \in 1 .. (n - 1), Parent(j) = p PROVE Above(e, w, Parent(p), j)
    BY DEF Bridged
  <2>1. Above(e, v, p, j) /\ Above(e, v, Parent(p), p)
    BY <1>1, <1>2 DEF Edge
  <2>2. Parent(p) # p /\ j # p /\ Parent(p) \in 0 .. (n - 1)
    BY <1>1, <1>2
  <2> QED  BY <2>1, <2>2, <1>1 DEF Above
<1>3. ASSUME w[e[p]] <= v[e[p]], NEW j \in 1 .. (n - 1), j # p PROVE Edge(e, w, j)
  BY <1>1, <1>3 DEF Edge, Above
<1>4. ASSUME v[e[p]] <= w[e[p]], NEW j \in 1 .. (n - 1), Parent(j) # p PROVE Edge(e, w, j)
  BY <1>1, <1>4 DEF Edge, Above
<1> QED  BY <1>2, <1>3, <1>4 DEF OrderedUp, OrderedDown

(* Exchanging two elements keeps the pointers, and the cookies current. *)
LEMMA ExchangeKeeps ==
  ASSUME NEW e, NEW f, NEW n, NEW a, NEW b,
         a \in 0 .. (n - 1), b \in 0 .. (n - 1), a # b,
         Distinct(e, n), Exchanged(e, f, n, a, b)
  PROVE  Distinct(f, n) /\ Pointers(f, n) = Pointers(e, n)
<1>1. Distinct(f, n)
  BY DEF Distinct, Exchanged
<1>2. ASSUME NEW x \in Pointers(f, n) PROVE x \in Pointers(e, n)
  <2>1. PICK j \in 0 .. (n - 1) : x = f[j]
    BY Zenon DEF Pointers
  <2>2. \E h \in 0 .. (n - 1) : x = e[h]
    BY <2>1 DEF Exchanged
  <2> QED  BY <2>2, Zenon DEF Pointers
<1>3. ASSUME NEW x \in Pointers(e, n) PROVE x \in Pointers(f, n)
  <2>1. PICK j \in 0 .. (n - 1) : x = e[j]
    BY Zenon DEF Pointers
  <2>2. \E h \in 0 .. (n - 1) : x = f[h]
    BY <2>1 DEF Exchanged
  <2> QED  BY <2>2, Zenon DEF Pointers
<1>4. Pointers(f, n) = Pointers(e, n)
  BY <1>2, <1>3, Zenon
<1> QED  BY <1>1, <1>4

LEMMA ExchangeTells ==
  ASSUME NEW e, NEW f, NEW n, NEW a, NEW b, NEW c,
         a \in 0 .. (n - 1), b \in 0 .. (n - 1), a # b, n \in Nat,
         \A j \in 0 .. (n - 1) : e[j] \in Elems,
         Distinct(e, n), Exchanged(e, f, n, a, b),
         c \in [Elems -> Nat], Told(e, n, c)
  PROVE  Told(f, n, [c EXCEPT ![e[b]] = a, ![e[a]] = b])
<1> DEFINE d == [c EXCEPT ![e[b]] = a, ![e[a]] = b]
<1>1. e[a] \in Elems /\ e[b] \in Elems /\ e[a] # e[b]
  BY DEF Distinct
<1>2. d[e[b]] = a /\ d[e[a]] = b /\ \A x \in Elems : x # e[a] /\ x # e[b] => d[x] = c[x]
  BY <1>1
<1>3. \A j \in 0 .. (n - 1) : j # a /\ j # b => e[j] # e[a] /\ e[j] # e[b]
  BY DEF Distinct
<1> HIDE DEF d
<1>4. Told(f, n, d)
  BY <1>1, <1>2, <1>3 DEF Told, Exchanged
<1> QED  BY <1>4 DEF d
----------------------------------------------------------------------------
(* What the invariant says of the live part of the array. *)
LEMMA LiveFacts ==
  ASSUME IInv
  PROVE  /\ Arr(elems, Size, val)
         /\ Size \in Nat /\ Size <= nelems
         /\ pc # "idle" => Size > 0 /\ i \in 0 .. (Size - 1)
         /\ pc = "idle" => Size = nelems
         /\ after # "shrink" => Size = nelems
<1> USE DEF IInv, HeapTypeOK, Control
<1>1. Size \in Nat /\ Size <= nelems /\ (pc = "idle" => Size = nelems)
      /\ (after # "shrink" => Size = nelems)
  BY DEF Size
<1>2. pc # "idle" => Size > 0 /\ i \in 0 .. (Size - 1)
  BY <1>1
<1>3. Arr(elems, Size, val)
  BY <1>1 DEF Arr
<1> QED  BY <1>1, <1>2, <1>3

LEMMA InitOK == HeapInit => IInv
<1> SUFFICES ASSUME HeapInit PROVE IInv
  OBVIOUS
<1> USE HeapAssumption DEF HeapInit
<1>1. HeapTypeOK
  <2>1. 0 .. (0 - 1) = {}
    OBVIOUS
  <2>2. elems \in [0 .. (nelems - 1) -> Elems]
    BY <2>1 DEF Empty
  <2>3. val \in [Elems -> Keys] /\ rc \in [Elems -> Nat]
    BY DEF Keys
  <2>4. H \in BOOLEAN
    BY Zenon
  <2> QED  BY <2>2, <2>3, <2>4 DEF HeapTypeOK
<1>2. Size = 0
  BY DEF Size
<1> QED  BY <1>1, <1>2 DEF IInv, Control, Order, Ordered, Distinct, Told

(* One iteration of heapifyup. *)
LEMMA UpStep == IInv /\ heapifyup_swap => IInv' /\ Live' = Live
<1> SUFFICES ASSUME IInv, heapifyup_swap PROVE IInv' /\ Live' = Live
  OBVIOUS
<1> DEFINE n == Size
           q == Parent(i)
<1>1. /\ n \in Nat /\ n <= nelems /\ i \in 0 .. (n - 1) /\ i # 0 /\ Arr(elems, n, val)
      /\ nelems \in Nat /\ elems \in [0 .. (nelems - 1) -> Elems] /\ rc \in [Elems -> Nat]
      /\ Distinct(elems, n) /\ pc = "up" /\ after # "create" /\ Told(elems, n, rc)
  BY LiveFacts DEF heapifyup_swap, IInv, HeapTypeOK, Control
<1>2. q \in 0 .. (n - 1) /\ q < i /\ q \in Nat /\ q # i /\ i \in 1 .. (n - 1)
  BY <1>1, ParentIn
<1>3. /\ Size' = n /\ nelems' = nelems /\ val' = val /\ i' = q /\ pc' = "up" /\ after' = after
      /\ H' = H /\ N' = N /\ ci' = ci
      /\ elems' = [elems EXCEPT ![i] = elems[q], ![q] = elems[i]]
      /\ rc' = [rc EXCEPT ![elems[q]] = i, ![elems[i]] = q]
  BY <1>1 DEF heapifyup_swap, swap, Size
<1>4. val[elems[i]] < val[elems[q]]
  BY DEF heapifyup_swap, Less
<1> HIDE DEF n, q
<1>5. elems' \in [0 .. (nelems - 1) -> Elems] /\ Exchanged(elems, elems', n, i, q)
  BY <1>1, <1>2, <1>3 DEF Exchanged
<1>d. Distinct(elems', n) /\ Pointers(elems', n) = Pointers(elems, n)
  <2>1. i \in 0 .. (n - 1) /\ q \in 0 .. (n - 1) /\ i # q /\ Distinct(elems, n)
        /\ Exchanged(elems, elems', n, i, q)
    BY <1>1, <1>2, <1>5
  <2> QED  BY ONLY <2>1, ExchangeKeeps, SMTT(30)
<1>t. rc' \in [Elems -> Nat] /\ Told(elems', n, rc')
  <2>1. rc' \in [Elems -> Nat]
    BY <1>1, <1>2, <1>3
  <2>2. \A j \in 0 .. (n - 1) : elems[j] \in Elems
    BY <1>1
  <2> QED  BY <2>1, <2>2, <1>1, <1>2, <1>3, <1>5, ExchangeTells
<1>6. OrderedUp(elems', n, val, q)
  <2>1. OrderedUp(elems, n, val, i)
    BY <1>1 DEF IInv, Order, n
  <2> QED  BY <2>1, <1>1, <1>2, <1>4, <1>5, SwapUp DEF q, Exchanged
<1>7. HeapTypeOK'
  <2>1. i' \in Nat
    BY <1>1, <1>2, <1>3
  <2> QED  BY <2>1, <1>3, <1>5, <1>t DEF IInv, HeapTypeOK
<1>9. Control'
  BY <1>1, <1>2, <1>3 DEF IInv, HeapTypeOK, Control, n
<1>8. Live' = Live
  BY <1>3, <1>d DEF Live, Pointers, n
<1> QED  BY <1>1, <1>3, <1>d, <1>t, <1>6, <1>7, <1>8, <1>9 DEF IInv, Order

(* The position heapify goes to. *)
LEMMA MinFacts ==
  ASSUME IInv, pc = "down"
  PROVE  /\ heapify_min # i =>
              /\ heapify_min \in 1 .. (Size - 1) /\ Parent(heapify_min) = i
              /\ val[elems[heapify_min]] < val[elems[i]]
         /\ \A j \in 1 .. (Size - 1) : Parent(j) = i => val[elems[heapify_min]] <= val[elems[j]]
<1> DEFINE n == Size
           a == 2 * i + 1
           b == 2 * i + 2
           m == heapify_min
<1>1. n \in Nat /\ N = n /\ i \in 0 .. (n - 1) /\ i \in Nat
      /\ \A j \in 0 .. (n - 1) : val[elems[j]] \in Int
  BY LiveFacts DEF IInv, Control, Arr, Keys
<1>2. Parent(a) = i /\ Parent(b) = i /\ a \in Nat /\ b \in Nat /\ a > i /\ b > a
      /\ \A j \in 1 .. (n - 1) : Parent(j) = i => j = a \/ j = b
  BY <1>1, ParentFacts
<1>3. m = MinOf(MinOf(i, a), b)
  BY DEF heapify_min
<1> HIDE DEF n, a, b, m
<1>4. MinOf(i, a) = IF a < n /\ val[elems[a]] < val[elems[i]] THEN a ELSE i
  BY <1>1 DEF MinOf, Less
<1>5. \/ MinOf(i, a) = a /\ a < n /\ val[elems[a]] < val[elems[i]]
      \/ MinOf(i, a) = i /\ (a < n => val[elems[i]] <= val[elems[a]])
  BY <1>1, <1>2, <1>4
<1>6. m = IF b < n /\ val[elems[b]] < val[elems[MinOf(i, a)]] THEN b ELSE MinOf(i, a)
  BY <1>1, <1>3 DEF MinOf, Less
<1>7. /\ m # i => m \in 1 .. (n - 1) /\ Parent(m) = i /\ val[elems[m]] < val[elems[i]]
      /\ a < n => val[elems[m]] <= val[elems[a]]
      /\ b < n => val[elems[m]] <= val[elems[b]]
  BY <1>1, <1>2, <1>5, <1>6
<1>8. \A j \in 1 .. (n - 1) : Parent(j) = i => val[elems[m]] <= val[elems[j]]
  BY <1>1, <1>2, <1>7
<1> QED  BY <1>7, <1>8 DEF n, m

(* One iteration of heapify. *)
LEMMA DownStep == IInv /\ heapify_swap => IInv' /\ Live' = Live
<1> SUFFICES ASSUME IInv, heapify_swap PROVE IInv' /\ Live' = Live
  OBVIOUS
<1> DEFINE n == Size
           m == heapify_min
           l == IF after = "create" THEN ci ELSE 0
<1>1. /\ n \in Nat /\ n <= nelems /\ i \in 0 .. (n - 1) /\ Arr(elems, n, val)
      /\ nelems \in Nat /\ elems \in [0 .. (nelems - 1) -> Elems] /\ rc \in [Elems -> Nat]
      /\ Distinct(elems, n) /\ pc = "down" /\ (after # "create" => Told(elems, n, rc))
      /\ l \in Nat /\ l <= i
  BY LiveFacts DEF heapify_swap, IInv, HeapTypeOK, Control
<1>2. /\ m # i /\ m \in 1 .. (n - 1) /\ Parent(m) = i /\ val[elems[m]] < val[elems[i]]
      /\ \A j \in 1 .. (n - 1) : Parent(j) = i => val[elems[m]] <= val[elems[j]]
      /\ m \in 0 .. (n - 1) /\ m > i
  <2>1. m # i
    BY DEF heapify_swap
  <2>2. /\ m \in 1 .. (n - 1) /\ Parent(m) = i /\ val[elems[m]] < val[elems[i]]
        /\ \A j \in 1 .. (n - 1) : Parent(j) = i => val[elems[m]] <= val[elems[j]]
    BY <2>1, <1>1, MinFacts
  <2>3. m \in 0 .. (n - 1) /\ m # 0
    BY <2>2, <1>1
  <2>4. m > i
    BY <2>2, <2>3, <1>1, ParentIn
  <2> QED  BY <2>1, <2>2, <2>3, <2>4
<1>3. /\ Size' = n /\ nelems' = nelems /\ val' = val /\ i' = m /\ pc' = "down" /\ after' = after
      /\ H' = H /\ N' = N /\ ci' = ci
      /\ elems' = [elems EXCEPT ![m] = elems[i], ![i] = elems[m]]
      /\ rc' = IF after = "create" THEN rc ELSE [rc EXCEPT ![elems[i]] = m, ![elems[m]] = i]
  BY <1>1 DEF heapify_swap, swap, Size
<1> HIDE DEF n, m, l
<1>5. elems' \in [0 .. (nelems - 1) -> Elems] /\ Exchanged(elems, elems', n, m, i)
  BY <1>1, <1>2, <1>3 DEF Exchanged
<1>d. Distinct(elems', n) /\ Pointers(elems', n) = Pointers(elems, n)
  <2>1. m \in 0 .. (n - 1) /\ i \in 0 .. (n - 1) /\ m # i /\ Distinct(elems, n)
        /\ Exchanged(elems, elems', n, m, i)
    BY <1>1, <1>2, <1>5
  <2> QED  BY ONLY <2>1, ExchangeKeeps, SMTT(30)
<1>t. rc' \in [Elems -> Nat] /\ (after # "create" => Told(elems', n, rc'))
  <2>1. rc' \in [Elems -> Nat]
    BY <1>1, <1>2, <1>3
  <2>2. \A j \in 0 .. (n - 1) : elems[j] \in Elems
    BY <1>1
  <2> QED  BY <2>1, <2>2, <1>1, <1>2, <1>3, <1>5, ExchangeTells
<1>6. OrderedDown(elems', n, val, m, l)
  <2>1. OrderedDown(elems, n, val, i, l)
    BY <1>1 DEF IInv, Order, n, l
  <2> QED  BY <2>1, <1>1, <1>2, <1>5, SwapDown DEF Exchanged
<1>7. HeapTypeOK'
  <2>1. i' \in Nat
    BY <1>1, <1>2, <1>3
  <2> QED  BY <2>1, <1>3, <1>5, <1>t DEF IInv, HeapTypeOK
<1>9. Control'
  BY <1>1, <1>2, <1>3 DEF IInv, HeapTypeOK, Control, n
<1>8. Live' = Live
  BY <1>3, <1>d DEF Live, Pointers, n
<1> QED  BY <1>1, <1>3, <1>d, <1>t, <1>6, <1>7, <1>8, <1>9 DEF IInv, Order, l

(* An array cut to its live part. *)
LEMMA SamePrefix ==
  ASSUME NEW e, NEW f, NEW n, NEW c,
         \A j \in 0 .. (n - 1) : f[j] = e[j]
  PROVE  /\ Distinct(e, n) => Distinct(f, n)
         /\ Told(e, n, c) => Told(f, n, c)
         /\ Pointers(f, n) = Pointers(e, n)
<1>1. (Distinct(e, n) => Distinct(f, n)) /\ (Told(e, n, c) => Told(f, n, c))
  BY DEF Distinct, Told
<1>2. ASSUME NEW x \in Pointers(f, n) PROVE x \in Pointers(e, n)
  BY <1>2, Zenon DEF Pointers
<1>3. ASSUME NEW x \in Pointers(e, n) PROVE x \in Pointers(f, n)
  <2>1. PICK j \in 0 .. (n - 1) : x = e[j]
    BY Zenon DEF Pointers
  <2>2. x = f[j]
    BY <2>1
  <2> QED  BY <2>2, Zenon DEF Pointers
<1>4. Pointers(f, n) = Pointers(e, n)
  BY <1>2, <1>3, Zenon
<1> QED  BY <1>1, <1>4

(* The end of an operation other than ptrheap_create. *)
LEMMA FinishStep == IInv /\ finish => IInv' /\ Live' = Live /\ val' = val
<1> SUFFICES ASSUME IInv, finish PROVE IInv' /\ Live' = Live /\ val' = val
  OBVIOUS
<1> DEFINE n == Size
<1>1. /\ n \in Nat /\ i \in 0 .. (n - 1) /\ i \in Nat /\ i < n /\ Arr(elems, n, val)
      /\ nelems \in Nat /\ elems \in [0 .. (nelems - 1) -> Elems] /\ rc \in [Elems -> Nat]
      /\ Distinct(elems, n) /\ after # "create" /\ Told(elems, n, rc) /\ n <= nelems
      /\ pc # "idle" /\ val' = val /\ rc' = rc /\ H' = H
  <2>1. pc # "idle" /\ after # "create"
    BY DEF finish, heapifyup_done, heapify_done
  <2>2. val' = val /\ rc' = rc /\ H' = H
    BY DEF finish
  <2> QED  BY <2>1, <2>2, LiveFacts DEF IInv, HeapTypeOK
<1>2. Ordered(elems, n, val)
  <2>1. CASE heapifyup_done
    <3>1. OrderedUp(elems, n, val, i)
      BY <2>1 DEF heapifyup_done, IInv, Order
    <3>2. i # 0 => ~(val[elems[i]] < val[elems[Parent(i)]])
      BY <2>1 DEF heapifyup_done, Less
    <3> HIDE DEF n
    <3> QED  BY <3>1, <3>2, <1>1, DoneUp
  <2>2. CASE heapify_done
    <3>1. OrderedDown(elems, n, val, i, 0)
      BY <2>2, <1>1 DEF heapify_done, IInv, Order
    <3>2. \A j \in 1 .. (n - 1) : Parent(j) = i => val[elems[i]] <= val[elems[j]]
      BY <2>2, MinFacts DEF heapify_done
    <3> HIDE DEF n
    <3> QED  BY <3>1, <3>2, <1>1, DoneDown
  <2> QED  BY <2>1, <2>2 DEF finish
<1>3. /\ nelems' = n
      /\ elems' \in [0 .. (n - 1) -> Elems]
      /\ \A j \in 0 .. (n - 1) : elems'[j] = elems[j]
  <2>1. CASE after = "return" /\ UNCHANGED <<elems, nelems, val, rc>>
    BY <2>1, <1>1 DEF Size
  <2>2. CASE after = "shrink" /\ shrink
    <3>1. n = nelems - 1 /\ 0 .. (n - 1) \subseteq 0 .. (nelems - 1)
      BY <2>2, <1>1 DEF Size
    <3>2. elems' = [j \in 0 .. (n - 1) |-> elems[j]] /\ nelems' = n
      BY <2>2, <3>1, <1>1 DEF shrink
    <3> HIDE DEF n
    <3> QED  BY <3>1, <3>2, <1>1
  <2> QED  BY <2>1, <2>2 DEF finish
<1>4. Size' = n /\ pc' = "idle" /\ after' = "return" /\ i' = 0 /\ N' = 0 /\ ci' = ci
  BY <1>3 DEF finish, Size
<1>5. (~H => FALSE)
  BY <1>1 DEF IInv, Control
<1> HIDE DEF n
<1>6. Ordered(elems', n, val)
  BY <1>1, <1>2, <1>3, SameOrder
<1>7. Distinct(elems', n) /\ Told(elems', n, rc) /\ Pointers(elems', n) = Pointers(elems, n)
  BY <1>1, <1>3, SamePrefix
<1>8. HeapTypeOK'
  BY <1>1, <1>3, <1>4 DEF IInv, HeapTypeOK
<1>9. Control'
  BY <1>1, <1>4, <1>5 DEF Control
<1>10. Live' = Live
  BY <1>4, <1>7 DEF Live, Pointers, n
<1> QED  BY <1>1, <1>4, <1>6, <1>7, <1>8, <1>9, <1>10 DEF IInv, Order

(* ptrheap_create goes on to the next position. *)
LEMMA CreateNextStep == IInv /\ create_next => IInv' /\ Live' = Live
<1> SUFFICES ASSUME IInv, create_next PROVE IInv' /\ Live' = Live
  OBVIOUS
<1>1. /\ nelems \in Nat /\ Arr(elems, nelems, val) /\ Size = nelems /\ pc = "down"
      /\ after = "create" /\ i \in Nat /\ i < nelems /\ ci \in Nat /\ ci > 0 /\ ci < nelems
  BY LiveFacts DEF create_next, heapify_done, IInv, HeapTypeOK, Control
<1>2. /\ ci' = ci - 1 /\ i' = ci - 1 /\ Size' = nelems
      /\ UNCHANGED <<H, elems, nelems, val, rc, pc, N, after>>
  BY <1>1 DEF create_next, Size
<1>3. \A j \in 1 .. (nelems - 1) : ci <= Parent(j) => Edge(elems, val, j)
  <2>1. OrderedDown(elems, nelems, val, i, ci)
    BY <1>1 DEF IInv, Order
  <2>2. \A j \in 1 .. (nelems - 1) : Parent(j) = i => val[elems[i]] <= val[elems[j]]
    BY <1>1, MinFacts DEF create_next, heapify_done
  <2> QED  BY <2>1, <2>2, <1>1, DoneDown
<1>4. OrderedDown(elems, nelems, val, ci - 1, ci - 1)
  <2>1. \A j \in 1 .. (nelems - 1) : Parent(j) \in Nat
    BY <1>1, ParentFacts
  <2>2. ci - 1 # 0 => Parent(ci - 1) < ci - 1 /\ Parent(ci - 1) \in Nat /\ ci - 1 \in Nat
    BY <1>1, ParentFacts
  <2> QED  BY <1>1, <1>3, <2>1, <2>2 DEF OrderedDown
<1>5. HeapTypeOK'
  BY <1>1, <1>2 DEF IInv, HeapTypeOK
<1>6. Control'
  BY <1>1, <1>2 DEF IInv, HeapTypeOK, Control
<1>7. Order' /\ Distinct(elems', Size')
  BY <1>1, <1>2, <1>4 DEF Order, IInv
<1> QED  BY <1>1, <1>2, <1>5, <1>6, <1>7 DEF IInv, Live

(* ptrheap_create is done and tells every element its position. *)
LEMMA CreateDoneStep == IInv /\ create_done => IInv' /\ Live' = Live
<1> SUFFICES ASSUME IInv, create_done PROVE IInv' /\ Live' = Live
  OBVIOUS
<1>1. /\ nelems \in Nat /\ Arr(elems, nelems, val) /\ Size = nelems /\ pc = "down"
      /\ after = "create" /\ i \in Nat /\ i < nelems /\ ci = 0
      /\ elems \in [0 .. (nelems - 1) -> Elems] /\ rc \in [Elems -> Nat]
      /\ Distinct(elems, nelems)
  BY LiveFacts DEF create_done, heapify_done, IInv, HeapTypeOK, Control
<1>2. /\ pc' = "idle" /\ after' = "return" /\ i' = 0 /\ N' = 0 /\ Size' = nelems
      /\ UNCHANGED <<H, elems, nelems, val, ci>>
  BY <1>1 DEF create_done, Size
<1>3. Ordered(elems, nelems, val)
  <2>1. OrderedDown(elems, nelems, val, i, 0)
    BY <1>1 DEF IInv, Order
  <2>2. \A j \in 1 .. (nelems - 1) : Parent(j) = i => val[elems[i]] <= val[elems[j]]
    BY <1>1, MinFacts DEF create_done, heapify_done
  <2> QED  BY <2>1, <2>2, <1>1, DoneDown
<1>4. ASSUME NEW j \in 0 .. (nelems - 1) PROVE elems[j] \in Live /\ PositionOf(elems[j]) = j
  <2>1. elems[j] \in Live
    BY <1>1, <1>4, Zenon DEF Live
  <2>2. \A k \in 0 .. (nelems - 1) : elems[k] = elems[j] => k = j
    BY <1>1 DEF Distinct
  <2>3. PositionOf(elems[j]) \in 0 .. (nelems - 1) /\ elems[PositionOf(elems[j])] = elems[j]
    BY Zenon DEF PositionOf
  <2> QED  BY <2>1, <2>2, <2>3
<1>5. ASSUME NEW x \in Live PROVE PositionOf(x) \in Nat
  <2>1. PICK j \in 0 .. (nelems - 1) : x = elems[j]
    BY <1>1, <1>5, Zenon DEF Live
  <2> QED  BY <2>1, <1>4
<1>6. rc' = [x \in Elems |-> IF x \in Live THEN PositionOf(x) ELSE rc[x]]
  BY DEF create_done
<1>7. rc' \in [Elems -> Nat]
  BY <1>1, <1>5, <1>6
<1>8. Told(elems, nelems, rc')
  BY <1>1, <1>4, <1>6 DEF Told
<1>9. HeapTypeOK'
  BY <1>1, <1>2, <1>7 DEF IInv, HeapTypeOK
<1>10. Control'
  BY <1>1, <1>2 DEF IInv, Control
<1>11. Order'
  BY <1>2, <1>3 DEF Order
<1> QED  BY <1>1, <1>2, <1>8, <1>9, <1>10, <1>11 DEF IInv, Live
----------------------------------------------------------------------------
(* The operations. *)

(* ptrheap_create starts with an array of which nothing is in order. *)
LEMMA CreateStep ==
  ASSUME IInv, NEW n \in 0 .. MaxCreate,
         NEW ptrs \in [0 .. (n - 1) -> Elems], NEW v \in [0 .. (n - 1) -> Keys],
         ptrheap_create(n, ptrs, v)
  PROVE  IInv' /\ Promise!Refill
<1>1. /\ n \in Nat /\ pc = "idle" /\ ~H /\ nelems = 0 /\ after = "return"
      /\ Distinct(ptrs, n) /\ H' = TRUE /\ nelems' = n /\ elems' = ptrs /\ rc' = rc
  BY HeapAssumption DEF ptrheap_create, IInv, Control, Distinct
<1>2. val' \in [Elems -> Keys]
  <2>1. \A x \in Elems : (\E j \in 0 .. (n - 1) : ptrs[j] = x) =>
          (CHOOSE j \in 0 .. (n - 1) : ptrs[j] = x) \in 0 .. (n - 1)
    OBVIOUS
  <2>2. 0 \in Keys
    BY HeapAssumption DEF Keys
  <2>3. val' = [x \in Elems |-> IF \E j \in 0 .. (n - 1) : ptrs[j] = x
                                THEN v[CHOOSE j \in 0 .. (n - 1) : ptrs[j] = x] ELSE 0]
    BY DEF ptrheap_create
  <2> QED  BY <2>1, <2>2, <2>3
<1>3. \/ n = 0 /\ UNCHANGED <<pc, i, N, ci, after>>
      \/ /\ n > 0 /\ ci' = n - 1
         /\ pc' = "down" /\ i' = n - 1 /\ N' = n /\ after' = "create"
  BY <1>1 DEF ptrheap_create, start
<1>4. HeapTypeOK'
  <2>1. H' \in BOOLEAN
    BY <1>1, Zenon
  <2>2. /\ pc' \in {"idle", "up", "down"} /\ after' \in {"return", "shrink", "create"}
        /\ i' \in Nat /\ N' \in Nat /\ ci' \in Nat
    BY <1>1, <1>3 DEF IInv, HeapTypeOK
  <2>3. rc' \in [Elems -> Nat]
    BY <1>1 DEF IInv, HeapTypeOK
  <2> QED  BY <2>1, <2>2, <2>3, <1>1, <1>2 DEF HeapTypeOK
<1>5. Size' = n
  BY <1>1, <1>3 DEF Size
<1>6. Control'
  BY <1>1, <1>3, <1>5 DEF Control
<1>7. Order'
  <2>1. CASE n = 0
    BY <2>1, <1>1, <1>3, <1>5 DEF Order, Ordered
  <2>2. CASE n > 0
    <3>0. n - 1 \in Nat
      BY <2>2, <1>1
    <3>1. \A j \in 1 .. (n - 1) : Parent(j) < n - 1 /\ Parent(j) \in Nat
      BY <3>0, ParentBelow
    <3>2. n - 1 # 0 => Parent(n - 1) < n - 1 /\ Parent(n - 1) \in Nat
      BY <2>2, <1>1, ParentFacts
    <3>3. OrderedDown(ptrs, n, val', n - 1, n - 1)
      BY <3>1, <3>2, <2>2, <1>1 DEF OrderedDown
    <3> QED  BY <3>3, <2>2, <1>1, <1>3, <1>5 DEF Order
  <2> QED  BY <2>1, <2>2, <1>1
<1>8. after' # "create" => Told(elems', Size', rc')
  BY <1>1, <1>3, <1>5 DEF Told
<1>9. IInv'
  BY <1>1, <1>4, <1>5, <1>6, <1>7, <1>8 DEF IInv
<1>10. Promise!Refill
  <2>1. Live = {}
    BY <1>1 DEF Live, Size
  <2>2. Live' \in SUBSET Elems
    BY <1>1, <1>5 DEF Live
  <2>3. (pc' # "idle") \in BOOLEAN
    OBVIOUS
  <2> QED  BY <2>1, <2>2, <2>3, <1>1, <1>2 DEF Promise!Refill, Promise!Called
<1> QED  BY <1>9, <1>10

(* ptrheap_add starts with the new pointer at the end. *)
LEMMA AddStep ==
  ASSUME IInv, NEW x \in Elems, NEW v \in Keys, ptrheap_add(x, v)
  PROVE  IInv' /\ Promise!Add(x, v)
<1> DEFINE n == nelems
<1>1. /\ n \in Nat /\ pc = "idle" /\ H /\ Size = n /\ Arr(elems, n, val) /\ after = "return"
      /\ elems \in [0 .. (n - 1) -> Elems] /\ rc \in [Elems -> Nat] /\ val \in [Elems -> Keys]
      /\ Distinct(elems, n) /\ Told(elems, n, rc) /\ Ordered(elems, n, val)
  BY LiveFacts DEF ptrheap_add, IInv, HeapTypeOK, Control, Order
<1>2. /\ nelems' = n + 1
      /\ elems' = [j \in 0 .. n |-> IF j = n THEN x ELSE elems[j]]
      /\ val' = [val EXCEPT ![x] = v] /\ rc' = [rc EXCEPT ![x] = n]
      /\ pc' = "up" /\ i' = n /\ N' = 0 /\ after' = "return" /\ H' = H /\ ci' = ci
  BY DEF ptrheap_add, start
<1>3. Size' = n + 1 /\ (n + 1) - 1 = n
  BY <1>1, <1>2 DEF Size
<1> HIDE DEF n
<1>4. \A j \in 0 .. (n - 1) : elems[j] \in Elems /\ elems[j] # x
  <2>1. x \notin Live
    BY DEF ptrheap_add
  <2>2. \A j \in 0 .. (n - 1) : elems[j] \in Live
    BY <1>1, Zenon DEF Live
  <2> QED  BY <2>1, <2>2, <1>1
<1>5. /\ elems' \in [0 .. n -> Elems] /\ elems'[n] = x
      /\ \A j \in 0 .. (n - 1) : elems'[j] = elems[j] /\ j \in 0 .. n /\ j # n
      /\ \A j \in 0 .. n : j = n \/ j \in 0 .. (n - 1)
  BY <1>1, <1>2
<1>6. /\ val' \in [Elems -> Keys] /\ rc' \in [Elems -> Nat]
      /\ \A j \in 0 .. (n - 1) : val'[elems[j]] = val[elems[j]] /\ rc'[elems[j]] = rc[elems[j]]
      /\ rc'[x] = n
  BY <1>1, <1>2, <1>4
<1>7. OrderedUp(elems', n + 1, val', n)
  <2>1. Ordered(elems', n, val')
    BY <1>1, <1>5, <1>6, SameOrder
  <2>2. \A j \in 1 .. n : Parent(j) < n /\ Parent(j) \in Nat
    BY <1>1, ParentBelow
  <2>3. \A j \in 1 .. n : j # n => j \in 1 .. (n - 1)
    BY <1>1
  <2> QED  BY <2>1, <2>2, <2>3, <1>1, <1>3 DEF OrderedUp, Ordered, Bridged
<1>8. Distinct(elems', n + 1)
  BY <1>1, <1>3, <1>4, <1>5 DEF Distinct
<1>9. Told(elems', n + 1, rc')
  BY <1>1, <1>3, <1>5, <1>6 DEF Told
<1>10. HeapTypeOK'
  BY <1>1, <1>2, <1>3, <1>5, <1>6 DEF IInv, HeapTypeOK
<1>11. Control'
  BY <1>1, <1>2, <1>3 DEF Control
<1>12. IInv'
  BY <1>2, <1>3, <1>7, <1>8, <1>9, <1>10, <1>11 DEF IInv, Order
<1>13. Live' = Live \cup {x}
  <2>1. Live = Pointers(elems, n) /\ Live' = Pointers(elems', n + 1)
    BY <1>1, <1>3 DEF Live, Pointers
  <2>2. ASSUME NEW y \in Pointers(elems', n + 1) PROVE y \in Pointers(elems, n) \cup {x}
    <3>1. PICK j \in 0 .. n : y = elems'[j]
      BY <1>3, <2>2 DEF Pointers
    <3>2. y = x \/ \E k \in 0 .. (n - 1) : y = elems[k]
      BY <3>1, <1>5
    <3> QED  BY <3>2, Zenon DEF Pointers
  <2>3. ASSUME NEW y \in Pointers(elems, n) \cup {x} PROVE y \in Pointers(elems', n + 1)
    <3>1. y = x \/ \E k \in 0 .. (n - 1) : y = elems[k]
      BY <2>3, Zenon DEF Pointers
    <3>2. n \in 0 .. n
      BY <1>1
    <3>3. \E k \in 0 .. n : y = elems'[k]
      BY <3>1, <3>2, <1>5
    <3> QED  BY <3>3, <1>3 DEF Pointers
  <2> QED  BY <2>1, <2>2, <2>3, Zenon
<1> QED
  <2>1. x \notin Live
    BY DEF ptrheap_add
  <2>2. Promise!Add(x, v)
    BY <2>1, <1>1, <1>2, <1>13 DEF Promise!Add, Promise!Called
  <2> QED  BY <2>2, <1>12

(* ptrheap_delete puts the last pointer in the place of the deleted one. *)
LEMMA DeleteStep ==
  ASSUME IInv, NEW p \in 0 .. (nelems - 1), delete_at(p)
  PROVE  IInv' /\ Promise!Remove(elems[p])
<1> DEFINE n == nelems - 1
           x == elems[p]
<1>1. /\ nelems \in Nat /\ n \in Nat /\ n + 1 = nelems /\ p \in 0 .. n /\ p \in Nat
      /\ pc = "idle" /\ H /\ Size = nelems /\ Arr(elems, n + 1, val) /\ after = "return"
      /\ elems \in [0 .. n -> Elems] /\ rc \in [Elems -> Nat] /\ val \in [Elems -> Keys]
      /\ Distinct(elems, n + 1) /\ Told(elems, n + 1, rc) /\ Ordered(elems, n + 1, val)
  BY LiveFacts DEF delete_at, IInv, HeapTypeOK, Control, Order
<1>2. x \in Elems /\ val' = [val EXCEPT ![x] = 0] /\ H' = H /\ ci' = ci /\ 0 \in Keys
  BY <1>1, HeapAssumption DEF delete_at, Keys
<1>3. val' \in [Elems -> Keys] /\ \A y \in Elems : y # x => val'[y] = val[y]
  BY <1>1, <1>2
<1>4. \A j, k \in 0 .. n : elems[j] = elems[k] => j = k
  BY <1>1 DEF Distinct
<1>5. \A j \in 0 .. (n - 1) : j \in 0 .. n /\ j # n
  BY <1>1
<1>6. Live = Pointers(elems, n + 1)
  BY <1>1 DEF Live, Pointers
<1>7. x \in Live
  BY <1>1, <1>6 DEF Pointers
(* It is enough to know the new array, its order and its cookies. *)
<1>8. ASSUME Size' = n, HeapTypeOK', Control', Order', after' # "create",
             \A j \in 0 .. (n - 1) : \E k \in 0 .. n : k # p /\ elems'[j] = elems[k],
             \A k \in 0 .. n : k # p => \E j \in 0 .. (n - 1) : elems'[j] = elems[k],
             Distinct(elems', n), Told(elems', n, rc')
      PROVE  IInv' /\ Promise!Remove(elems[p])
  <2>1. Live' = Pointers(elems', n)
    BY <1>8 DEF Live, Pointers
  <2>2. ASSUME NEW y \in Pointers(elems', n) PROVE y \in Live \ {x}
    <3>1. PICK j \in 0 .. (n - 1) : y = elems'[j]
      BY <2>2, Zenon DEF Pointers
    <3>2. PICK k \in 0 .. n : k # p /\ y = elems[k]
      BY <3>1, <1>8
    <3>3. y # x
      BY <3>2, <1>1, <1>4
    <3>4. y \in Live
      BY <3>2, <1>1, <1>6 DEF Pointers
    <3> QED  BY <3>3, <3>4
  <2>3. ASSUME NEW y \in Live \ {x} PROVE y \in Pointers(elems', n)
    <3>1. PICK k \in 0 .. n : y = elems[k]
      BY <2>3, <1>1, <1>6 DEF Pointers
    <3>2. k # p
      BY <3>1, <2>3
    <3>3. \E j \in 0 .. (n - 1) : y = elems'[j]
      BY <3>1, <3>2, <1>8
    <3> QED  BY <3>3, Zenon DEF Pointers
  <2>4. Live' = Live \ {x}
    BY <2>1, <2>2, <2>3, Zenon
  <2>5. \A y \in Live' : y \in Elems /\ y # x
    <3>1. Live \subseteq Elems
      BY <1>1, <1>6 DEF Pointers
    <3> QED  BY <3>1, <2>4
  <2>6. \A y \in Live' : val'[y] = val[y]
    BY <2>5, <1>3
  <2>7. Promise!Remove(elems[p])
    BY <2>4, <2>6, <1>1, <1>3, <1>7 DEF Promise!Remove, Promise!Called
  <2> QED  BY <2>7, <1>8 DEF IInv
(* The last element is deleted. *)
<1>9. CASE p = n
  <2>1. /\ elems' = [j \in 0 .. (n - 1) |-> elems[j]] /\ nelems' = n
        /\ rc' = [rc EXCEPT ![x] = 0] /\ UNCHANGED <<pc, i, N, after>>
    BY <1>1, <1>9 DEF delete_at, shrink
  <2>2. /\ elems' \in [0 .. (n - 1) -> Elems]
        /\ \A j \in 0 .. (n - 1) : elems'[j] = elems[j] /\ elems[j] \in Elems
    BY <2>1, <1>1, <1>5
  <2>3. \A j \in 0 .. (n - 1) : elems[j] # x
    BY <1>1, <1>4, <1>5, <1>9
  <2>4. rc' \in [Elems -> Nat] /\ \A j \in 0 .. (n - 1) : rc'[elems[j]] = rc[elems[j]]
    BY <2>1, <2>2, <2>3, <1>1, <1>2
  <2>5. Size' = n
    BY <2>1, <1>1 DEF Size
  <2>6. HeapTypeOK'
    BY <2>1, <2>2, <2>4, <1>1, <1>2, <1>3 DEF IInv, HeapTypeOK
  <2>7. Control'
    BY <2>1, <1>1, <1>2 DEF IInv, Control
  <2>8. Order'
    <3>1. Ordered(elems, n, val)
      <4>1. \A j \in 1 .. (n - 1) : j \in 1 .. ((n + 1) - 1)
        BY <1>1
      <4> QED  BY <4>1, <1>1 DEF Ordered
    <3>2. \A j \in 0 .. (n - 1) : val'[elems'[j]] = val[elems[j]]
      BY <2>2, <2>3, <1>3
    <3>3. Ordered(elems', n, val')
      BY <3>1, <3>2, <1>1, SameOrder
    <3> QED  BY <3>3, <2>1, <2>5, <1>1 DEF Order
  <2>9. Distinct(elems', n) /\ Told(elems', n, rc')
    <3>1. \A j \in 0 .. (n - 1) : rc[elems[j]] = j
      BY <1>1, <1>5 DEF Told
    <3> QED  BY <3>1, <2>2, <2>4, <1>4, <1>5 DEF Distinct, Told
  <2>10. /\ \A j \in 0 .. (n - 1) : \E k \in 0 .. n : k # p /\ elems'[j] = elems[k]
         /\ \A k \in 0 .. n : k # p => \E j \in 0 .. (n - 1) : elems'[j] = elems[k]
    <3>1. \A k \in 0 .. n : k # n => k \in 0 .. (n - 1)
      BY <1>1
    <3> QED  BY <3>1, <2>2, <1>5, <1>9
  <2>11. after' # "create"
    BY <2>1, <1>1
  <2> QED  BY <2>5, <2>6, <2>7, <2>8, <2>9, <2>10, <2>11, <1>8
(* Another element is deleted, and the last one takes its place. *)
<1>10. CASE p # n
  <2> DEFINE y == elems[n]
  <2>1. /\ elems' = [elems EXCEPT ![p] = y] /\ nelems' = nelems
        /\ rc' = [rc EXCEPT ![x] = 0, ![y] = p]
        /\ p > 0 /\ val[y] < val[elems[Parent(p)]] =>
             pc' = "up" /\ i' = p /\ N' = 0 /\ after' = "shrink"
        /\ ~(p > 0 /\ val[y] < val[elems[Parent(p)]]) =>
             pc' = "down" /\ i' = p /\ N' = n /\ after' = "shrink"
    BY <1>1, <1>10 DEF delete_at, start, TooSmall, Less
  <2>2. p \in 0 .. (n - 1) /\ n \in 0 .. n /\ y \in Elems /\ y # x
    BY <1>1, <1>4, <1>10
  <2> HIDE DEF y
  <2>3. /\ elems' \in [0 .. n -> Elems] /\ elems'[p] = y
        /\ \A j \in 0 .. n : j # p => elems'[j] = elems[j]
    BY <2>1, <2>2, <1>1
  <2>4. \A j \in 0 .. (n - 1) : j # p => elems[j] # x /\ elems[j] # y /\ elems[j] \in Elems
    BY <1>1, <1>4, <1>5, <2>2 DEF y
  <2>5. /\ rc' \in [Elems -> Nat] /\ rc'[y] = p
        /\ \A z \in Elems : z # x /\ z # y => rc'[z] = rc[z]
    <3>1. p \in Nat /\ 0 \in Nat
      BY <1>1
    <3>2. rc' \in [Elems -> Nat]
      BY <2>1, <2>2, <3>1, <1>1, <1>2
    <3> QED  BY <2>1, <2>2, <3>2, <1>1, <1>2
  <2>6. Size' = n
    BY <2>1, <1>1 DEF Size
  <2>7. HeapTypeOK'
    <3>1. /\ pc' \in {"up", "down"} /\ after' = "shrink"
          /\ i' \in Nat /\ N' \in Nat
      BY <2>1, <2>2, <1>1
    <3> QED  BY <3>1, <2>1, <2>3, <2>5, <1>1, <1>2, <1>3 DEF IInv, HeapTypeOK
  <2>8. Control'
    BY <2>1, <2>2, <2>6, <1>1, <1>2 DEF Control
  <2>9. Order'
    <3>1. /\ p > 0 /\ val[y] < val[elems[Parent(p)]] => OrderedUp(elems', n, val, p)
          /\ ~(p > 0 /\ val[y] < val[elems[Parent(p)]]) => OrderedDown(elems', n, val, p, 0)
      BY <1>1, <1>5, <2>2, <2>3, ReplaceOrder DEF y
    <3>2. \A j \in 0 .. (n - 1) : val'[elems'[j]] = val[elems'[j]]
      BY <2>2, <2>3, <2>4, <1>3, <1>5
    <3>3. /\ OrderedUp(elems', n, val, p) => OrderedUp(elems', n, val', p)
          /\ OrderedDown(elems', n, val, p, 0) => OrderedDown(elems', n, val', p, 0)
      BY <3>2, <2>2, <1>1, SameOrder
    <3> QED  BY <3>1, <3>3, <2>1, <2>6 DEF Order
  <2>10. Distinct(elems', n)
    BY <2>3, <2>4, <1>4, <1>5 DEF Distinct
  <2>11. Told(elems', n, rc')
    <3>1. \A j \in 0 .. (n - 1) : rc[elems[j]] = j
      BY <1>1, <1>5 DEF Told
    <3> QED  BY <3>1, <2>3, <2>4, <2>5, <1>5 DEF Told
  <2>12. \A j \in 0 .. (n - 1) : \E k \in 0 .. n : k # p /\ elems'[j] = elems[k]
    BY <2>2, <2>3, <1>5, <1>10 DEF y
  <2>13. \A k \in 0 .. n : k # p => \E j \in 0 .. (n - 1) : elems'[j] = elems[k]
    <3>1. \A k \in 0 .. n : k # n => k \in 0 .. (n - 1)
      BY <1>1
    <3> QED  BY <3>1, <2>2, <2>3 DEF y
  <2>14. after' # "create"
    BY <2>1
  <2> QED  BY <2>6, <2>7, <2>8, <2>9, <2>10, <2>11, <2>12, <2>13, <2>14, <1>8
<1> QED  BY <1>9, <1>10

(* The value of the element at p changes and it starts to move. *)
LEMMA RekeyStep ==
  ASSUME IInv, NEW x \in Elems, NEW v \in Keys, NEW p \in 0 .. (nelems - 1),
         x = elems[p], rekey(x, v),
         \/ v <= val[x] /\ start("up", p, 0, "return")
         \/ v >= val[x] /\ start("down", p, nelems, "return")
  PROVE  IInv' /\ Promise!Rekey(x, v)
<1> DEFINE n == nelems
<1>1. /\ n \in Nat /\ pc = "idle" /\ H /\ Size = n /\ Arr(elems, n, val) /\ after = "return"
      /\ elems \in [0 .. (n - 1) -> Elems] /\ rc \in [Elems -> Nat] /\ val \in [Elems -> Keys]
      /\ Distinct(elems, n) /\ Told(elems, n, rc) /\ Ordered(elems, n, val) /\ p \in Nat /\ p < n
  BY LiveFacts DEF rekey, IInv, HeapTypeOK, Control, Order
<1>2. val' = [val EXCEPT ![x] = v] /\ UNCHANGED <<H, elems, nelems, rc, ci>>
  BY DEF rekey
<1>3. /\ i' = p /\ after' = "return"
      /\ \/ v <= val[x] /\ pc' = "up" /\ N' = 0
         \/ val[x] <= v /\ pc' = "down" /\ N' = n
  <2>1. v \in Int /\ val[x] \in Int
    BY <1>1 DEF Keys
  <2> QED  BY <2>1 DEF start
<1>4. Size' = n
  BY <1>1, <1>2, <1>3 DEF Size
<1> HIDE DEF n
<1>5. /\ val' \in [Elems -> Keys] /\ val'[elems[p]] = v
      /\ \A j \in 0 .. (n - 1) : j # p => val'[elems[j]] = val[elems[j]]
  <2>1. \A j \in 0 .. (n - 1) : j # p => elems[j] # x /\ elems[j] \in Elems
    BY <1>1 DEF Distinct, n
  <2> QED  BY <2>1, <1>1, <1>2
<1>6. Arr(elems, n, val')
  BY <1>1, <1>5 DEF Arr
<1>7. /\ v <= val[x] => OrderedUp(elems, n, val', p)
      /\ val[x] <= v => OrderedDown(elems, n, val', p, 0)
  BY <1>1, <1>5, <1>6, RekeyOrder DEF n
<1>8. HeapTypeOK'
  BY <1>1, <1>2, <1>3, <1>5 DEF IInv, HeapTypeOK, n
<1>9. Control'
  BY <1>1, <1>2, <1>3, <1>4 DEF Control
<1>10. Order'
  BY <1>2, <1>3, <1>4, <1>7 DEF Order
<1>11. IInv'
  BY <1>1, <1>2, <1>4, <1>8, <1>9, <1>10 DEF IInv
<1>12. Live' = Live /\ x \in Live
  <2>1. Live' = Live
    BY <1>1, <1>2, <1>4 DEF Live
  <2>2. x \in Live
    BY <1>1, Zenon DEF Live, n
  <2> QED  BY <2>1, <2>2
<1>13. Promise!Rekey(x, v)
  BY <1>1, <1>2, <1>12 DEF Promise!Rekey, Promise!Called
<1> QED  BY <1>11, <1>13

LEMMA FreeStep == IInv /\ ptrheap_free => IInv' /\ Promise!Clear
<1> SUFFICES ASSUME IInv, ptrheap_free PROVE IInv' /\ Promise!Clear
  OBVIOUS
<1>1. /\ pc = "idle" /\ after = "return" /\ nelems' = 0 /\ elems' = Empty
      /\ val' = [x \in Elems |-> 0] /\ rc' = [x \in Elems |-> 0]
      /\ UNCHANGED <<pc, i, N, ci, after>>
  BY DEF ptrheap_free, IInv, Control
<1>2. Size' = 0
  BY <1>1 DEF Size
<1>3. HeapTypeOK'
  <2>1. H' \in BOOLEAN
    BY Zenon DEF ptrheap_free
  <2>2. val' \in [Elems -> Keys] /\ rc' \in [Elems -> Nat]
    BY <1>1, HeapAssumption DEF Keys
  <2>3. elems' \in [0 .. (nelems' - 1) -> Elems]
    <3>1. 0 .. (0 - 1) = {}
      OBVIOUS
    <3> QED  BY <3>1, <1>1 DEF Empty
  <2> QED  BY <2>1, <2>2, <2>3, <1>1 DEF IInv, HeapTypeOK
<1>4. Control'
  BY <1>1 DEF Control
<1>5. Order' /\ Distinct(elems', Size') /\ Told(elems', Size', rc')
  BY <1>1, <1>2 DEF Order, Ordered, Distinct, Told
<1>6. Promise!Clear
  <2>1. Live' = {}
    BY <1>2 DEF Live
  <2>2. val' \in [Elems -> Keys]
    BY <1>3 DEF HeapTypeOK
  <2> QED  BY <2>1, <2>2, <1>1 DEF Promise!Clear, Promise!Called
<1> QED  BY <1>3, <1>4, <1>5, <1>6 DEF IInv

(* The cookie of a live element is its position. *)
LEMMA CookieFinds ==
  ASSUME IInv, pc = "idle", NEW x \in Elems, x \in Live
  PROVE  rc[x] \in 0 .. (nelems - 1) /\ elems[rc[x]] = x
<1>1. Size = nelems /\ Told(elems, nelems, rc)
  BY LiveFacts DEF IInv, Control
<1>2. PICK j \in 0 .. (nelems - 1) : x = elems[j]
  BY <1>1 DEF Live
<1> QED  BY <1>1, <1>2 DEF Told

(* Every step keeps the invariant and is a step of the promised queue. *)
LEMMA NextOK ==
  IInv /\ [HeapNext]_heapvars =>
    IInv' /\ [Promise!Next]_<<Live, val, pc # "idle">>
<1> SUFFICES ASSUME IInv, [HeapNext]_heapvars
             PROVE  IInv' /\ [Promise!Next]_<<Live, val, pc # "idle">>
  OBVIOUS
<1>1. ASSUME NEW n \in 0 .. MaxCreate,
             NEW ptrs \in [0 .. (n - 1) -> Elems], NEW v \in [0 .. (n - 1) -> Keys],
             ptrheap_create(n, ptrs, v)
      PROVE  IInv' /\ Promise!Next
  BY <1>1, CreateStep DEF Promise!Next
<1>2. ASSUME NEW x \in Elems, ptrheap_delete(x) PROVE IInv' /\ Promise!Next
  <2>1. pc = "idle" /\ x \in Live /\ delete_at(rc[x])
    BY <1>2 DEF ptrheap_delete, delete_at
  <2>2. rc[x] \in 0 .. (nelems - 1) /\ elems[rc[x]] = x
    BY <2>1, CookieFinds
  <2>3. IInv' /\ Promise!Remove(x)
    BY <2>1, <2>2, DeleteStep
  <2> QED  BY <2>3 DEF Promise!Next
<1>3. ASSUME ptrheap_deletemin PROVE IInv' /\ Promise!Next
  <2>1. 0 \in 0 .. (nelems - 1) /\ delete_at(0)
    BY <1>3 DEF ptrheap_deletemin, IInv, HeapTypeOK
  <2>2. IInv' /\ Promise!Remove(elems[0]) /\ elems[0] \in Elems
    BY <2>1, DeleteStep DEF IInv, HeapTypeOK
  <2> QED  BY <2>2 DEF Promise!Next
<1>4. ASSUME NEW x \in Elems, NEW v \in Keys, ptrheap_add(x, v) PROVE IInv' /\ Promise!Next
  BY <1>4, AddStep DEF Promise!Next
<1>5. ASSUME NEW x \in Elems, NEW v \in Keys, ptrheap_decrease(x, v) \/ ptrheap_increase(x, v)
      PROVE  IInv' /\ Promise!Next
  <2>1. /\ pc = "idle" /\ x \in Live /\ rekey(x, v)
        /\ \/ v <= val[x] /\ start("up", rc[x], 0, "return")
           \/ v >= val[x] /\ start("down", rc[x], nelems, "return")
    BY <1>5 DEF ptrheap_decrease, ptrheap_increase, rekey
  <2>2. rc[x] \in 0 .. (nelems - 1) /\ elems[rc[x]] = x
    BY <2>1, CookieFinds
  <2>3. IInv' /\ Promise!Rekey(x, v)
    BY <2>1, <2>2, RekeyStep
  <2> QED  BY <2>3 DEF Promise!Next
<1>6. ASSUME NEW v \in Keys, ptrheap_increasemin(v) PROVE IInv' /\ Promise!Next
  <2>1. /\ 0 \in 0 .. (nelems - 1) /\ elems[0] \in Elems /\ rekey(elems[0], v)
        /\ v >= val[elems[0]] /\ start("down", 0, nelems, "return")
    BY <1>6 DEF ptrheap_increasemin, IInv, HeapTypeOK
  <2>2. IInv' /\ Promise!Rekey(elems[0], v)
    BY <2>1, RekeyStep
  <2> QED  BY <2>1, <2>2 DEF Promise!Next
<1>7. ASSUME ptrheap_free PROVE IInv' /\ Promise!Next
  BY <1>7, FreeStep DEF Promise!Next
<1>8. ASSUME Step PROVE IInv' /\ Promise!Next
  <2>1. IInv' /\ Live' = Live
    BY <1>8, UpStep, DownStep, FinishStep, CreateNextStep, CreateDoneStep DEF Step
  <2>2. val' = val /\ pc # "idle"
    BY <1>8 DEF Step, heapifyup_swap, heapify_swap, finish, create_next, create_done,
                heapifyup_done, heapify_done
  <2>3. Promise!Rearrange
    BY <2>1, <2>2 DEF Promise!Rearrange
  <2> QED  BY <2>1, <2>3 DEF Promise!Next
<1>9. ASSUME UNCHANGED heapvars PROVE IInv' /\ UNCHANGED <<Live, val, pc # "idle">>
  BY <1>9 DEF heapvars, IInv, HeapTypeOK, Control, Order, Size, Live
<1> QED  BY <1>1, <1>2, <1>3, <1>4, <1>5, <1>6, <1>7, <1>8, <1>9 DEF HeapNext

LEMMA Inductive == HeapSpec => []IInv
BY InitOK, NextOK, PTL DEF HeapSpec
----------------------------------------------------------------------------
(* Every variable of the heap keeps its type, and the array its size. *)
THEOREM HeapTypeCorrect == HeapSpec => []HeapTypeOK
<1>1. IInv => HeapTypeOK
  BY DEF IInv
<1> QED  BY <1>1, Inductive, PTL

(* Between operations the array is a heap, its root is a minimum and every  *)
(* element knows its position, for heaps of any size.                       *)
THEOREM HeapCorrect == HeapSpec => [](HeapProperty /\ MinAtRoot /\ CookiesCurrent)
<1>1. IInv => HeapProperty /\ MinAtRoot /\ CookiesCurrent
  <2> SUFFICES ASSUME IInv, pc = "idle"
               PROVE  /\ \A j \in 1 .. (nelems - 1) : ~Less(elems[j], elems[Parent(j)])
                      /\ \A j \in 0 .. (nelems - 1) : ~Less(elems[j], elems[0])
                      /\ \A j \in 0 .. (nelems - 1) : rc[elems[j]] = j
    BY DEF HeapProperty, MinAtRoot, CookiesCurrent
  <2>1. /\ nelems \in Nat /\ Size = nelems /\ Arr(elems, nelems, val)
        /\ Ordered(elems, nelems, val) /\ Told(elems, nelems, rc)
    BY LiveFacts DEF IInv, HeapTypeOK, Control, Order
  <2>2. \A j \in 0 .. (nelems - 1) : val[elems[j]] \in Int
    BY <2>1 DEF Arr, Keys
  <2>3. \A j \in 1 .. (nelems - 1) : j \in 0 .. (nelems - 1) /\ Parent(j) \in 0 .. (nelems - 1)
    BY <2>1, ParentIn
  <2>4. \A j \in 1 .. (nelems - 1) : ~Less(elems[j], elems[Parent(j)])
    BY <2>1, <2>2, <2>3 DEF Ordered, Edge, Above, Less
  <2>5. \A j \in 0 .. (nelems - 1) : val[elems[0]] <= val[elems[j]] /\ 0 \in 0 .. (nelems - 1)
    BY <2>1, RootIsLeast
  <2>6. \A j \in 0 .. (nelems - 1) : ~Less(elems[j], elems[0])
    BY <2>2, <2>5 DEF Less
  <2> QED  BY <2>1, <2>4, <2>6 DEF Told
<1> QED  BY <1>1, Inductive, PTL

(* After every operation, for heaps of any size and any keys, the root is a *)
(* minimum and every cookie is current.                                     *)
THEOREM HeapStaysConsistent == HeapSpec => []HeapConsistent
BY HeapTypeCorrect, HeapCorrect, PTL DEF HeapConsistent

(* The heap implements the promised queue: an operation changes its         *)
(* contents once, as it was asked to, and rearranging never does.           *)
THEOREM HeapKeepsElements == HeapSpec => KeepsElements
<1>1. HeapInit => Promise!Init
  <2> SUFFICES ASSUME HeapInit PROVE Promise!Init
    OBVIOUS
  <2>1. Live = {}
    BY DEF HeapInit, Live, Size
  <2>2. val \in [Elems -> Keys]
    BY HeapAssumption DEF HeapInit, Keys
  <2> QED  BY <2>1, <2>2 DEF HeapInit, Promise!Init
<1> QED  BY <1>1, NextOK, Inductive, PTL DEF HeapSpec, KeepsElements, Promise!Spec
=============================================================================
