------------------------------- MODULE PtrHeap -------------------------------
(***************************************************************************)
(* The heap of pointers (datastruct/ptrheap.c).  An element is identified  *)
(* with its pointer; val is what compar looks at, and rc what setreccookie *)
(* last recorded for the element.  Between the start of an operation and   *)
(* its end, each iteration of heapifyup or heapify is a step of its own.   *)
(* The user operates on the heap only between operations.                  *)
(***************************************************************************)
EXTENDS Integers, FiniteSets

CONSTANTS
  Elems,     \* the pointers
  MaxKey,    \* values are 0 .. MaxKey
  MaxCreate  \* ptrheap_create is given at most this many pointers

ASSUME HeapAssumption ==
  /\ MaxKey \in Nat
  /\ MaxCreate \in Nat

VARIABLES
  H,       \* the heap exists
  elems,   \* the pointers at positions 0 .. nelems - 1
  nelems,
  val,     \* the value of each element, as compar sees it
  rc,      \* the record cookie of each element
  pc,      \* "idle", or the loop that is running: "up" or "down"
  i,       \* the loop's position
  N,       \* heapify's bound
  ci,      \* ptrheap_create's own loop position
  after    \* what follows the loop: "return", "shrink" or "create"

heapvars == <<H, elems, nelems, val, rc, pc, i, N, ci, after>>

Keys == 0 .. MaxKey
Empty == [j \in 0 .. (0 - 1) |-> CHOOSE x \in Elems : TRUE]

HeapTypeOK ==
  /\ H \in BOOLEAN
  /\ nelems \in Nat
  /\ elems \in [0 .. (nelems - 1) -> Elems]
  /\ val \in [Elems -> Keys]
  /\ rc \in [Elems -> Nat]
  /\ pc \in {"idle", "up", "down"}
  /\ i \in Nat
  /\ N \in Nat
  /\ ci \in Nat
  /\ after \in {"return", "shrink", "create"}

HeapInit ==
  /\ H = FALSE
  /\ elems = Empty
  /\ nelems = 0
  /\ val = [x \in Elems |-> 0]
  /\ rc = [x \in Elems |-> 0]
  /\ pc = "idle"
  /\ i = 0
  /\ N = 0
  /\ ci = 0
  /\ after = "return"

Parent(j) == (j - 1) \div 2

(* The positions that hold elements of the heap: while a deletion is under  *)
(* way the last position is a leftover.                                     *)
Size == IF after = "shrink" /\ pc # "idle" THEN nelems - 1 ELSE nelems
Live == {elems[j] : j \in 0 .. (Size - 1)}

(* Mutant: one of the two elements is overwritten. *)
swap_overwrites(a, b) ==
  /\ elems' = [elems EXCEPT ![a] = elems[b]]
  /\ rc' = IF after = "create" THEN rc
           ELSE [rc EXCEPT ![elems[b]] = a, ![elems[a]] = b]

(* swap(elems, a, b, ...): setreccookie is NULL while a heap is created. *)
swap(a, b) ==
  /\ elems' = [elems EXCEPT ![a] = elems[b], ![b] = elems[a]]
  /\ rc' = IF after = "create" THEN rc
           ELSE [rc EXCEPT ![elems[b]] = a, ![elems[a]] = b]

(* Is element x smaller than element y? *)
Less(x, y) == val[x] < val[y]
----------------------------------------------------------------------------
(* The loops. *)

(* heapifyup: the element moves up past a larger parent. *)
heapifyup_swap ==
  /\ pc = "up"
  /\ i # 0
  /\ Less(elems[i], elems[Parent(i)])
  /\ swap(i, Parent(i))
  /\ i' = Parent(i)
  /\ UNCHANGED <<H, nelems, val, pc, N, ci, after>>

heapifyup_done ==
  /\ pc = "up"
  /\ i # 0 => ~Less(elems[i], elems[Parent(i)])

(* heapify: the least of i and its children among the first N. *)
MinOf(a, b) == IF b < N /\ Less(elems[b], elems[a]) THEN b ELSE a

heapify_min == MinOf(MinOf(i, 2 * i + 1), 2 * i + 2)

heapify_swap ==
  /\ pc = "down"
  /\ heapify_min # i
  /\ swap(heapify_min, i)
  /\ i' = heapify_min
  /\ UNCHANGED <<H, nelems, val, pc, N, ci, after>>

heapify_done ==
  /\ pc = "down"
  /\ heapify_min = i

(* The end of ptrheap_delete: strip off the final pointer. *)
shrink ==
  /\ elems' = [j \in 0 .. (nelems - 2) |-> elems[j]]
  /\ nelems' = nelems - 1

(* The loop is over and the operation returns. *)
finish ==
  /\ heapifyup_done \/ heapify_done
  /\ \/ after = "return" /\ UNCHANGED <<elems, nelems, val, rc>>
     \/ after = "shrink" /\ shrink /\ UNCHANGED <<val, rc>>
  /\ pc' = "idle"
  /\ after' = "return"
  /\ i' = 0
  /\ N' = 0
  /\ UNCHANGED <<H, ci>>

(* ptrheap_create goes on to the next position, down to 0 ... *)
create_next ==
  /\ heapify_done
  /\ after = "create"
  /\ ci > 0
  /\ ci' = ci - 1
  /\ i' = ci - 1
  /\ UNCHANGED <<H, elems, nelems, val, rc, pc, N, after>>

(* ... and then advises the caller about the record cookies. *)
PositionOf(x) == CHOOSE j \in 0 .. (nelems - 1) : elems[j] = x
create_done ==
  /\ heapify_done
  /\ after = "create"
  /\ ci = 0
  /\ rc' = [x \in Elems |-> IF x \in Live THEN PositionOf(x) ELSE rc[x]]
  /\ pc' = "idle"
  /\ after' = "return"
  /\ i' = 0
  /\ N' = 0
  /\ UNCHANGED <<H, elems, nelems, val, ci>>
----------------------------------------------------------------------------
(* The operations. *)

(* heapifyup(elems, p, ...) and heapify(elems, p, n, ...) are entered.      *)
start(loop, p, n, next) ==
  /\ pc' = loop
  /\ i' = p
  /\ N' = n
  /\ after' = next

(* ptrheap_create(..., n, ptrs), and ptrheap_init for n = 0.  The pointers  *)
(* are distinct, and v holds their values.  A failing allocation leaves no  *)
(* heap.                                                                    *)
ptrheap_create(n, ptrs, v) ==
  /\ pc = "idle"
  /\ ~H
  /\ \A j, k \in 0 .. (n - 1) : ptrs[j] = ptrs[k] => j = k
  /\ H' = TRUE
  /\ nelems' = n
  /\ elems' = ptrs
  /\ IF n = 0 THEN UNCHANGED <<pc, i, N, ci, after>>
     ELSE ci' = n - 1 /\ start("down", n - 1, n, "create")
  /\ val' = [x \in Elems |-> IF \E j \in 0 .. (n - 1) : ptrs[j] = x
                             THEN v[CHOOSE j \in 0 .. (n - 1) : ptrs[j] = x] ELSE 0]
  /\ UNCHANGED rc

(* ptrheap_add(H, x) of an element with value v that is not in the heap. A  *)
(* failing ptrlist_append leaves everything as it was.                      *)
ptrheap_add(x, v) ==
  /\ pc = "idle"
  /\ H
  /\ x \notin Live
  /\ nelems' = nelems + 1
  /\ elems' = [j \in 0 .. nelems |-> IF j = nelems THEN x ELSE elems[j]]
  /\ val' = [val EXCEPT ![x] = v]
  /\ rc' = [rc EXCEPT ![x] = nelems]
  /\ start("up", nelems, 0, "return")
  /\ UNCHANGED <<H, ci>>

(* Mutant: the replacement of a deleted pointer is only ever moved down. *)
TooSmall_never(p) == FALSE

(* The last pointer moves to position p: is it too small to be there?       *)
TooSmall(p) == p > 0 /\ Less(elems[nelems - 1], elems[Parent(p)])

(* ptrheap_delete(H, p): the last pointer replaces the deleted one and      *)
(* moves up or down.  The user frees what it deletes: the value and the     *)
(* cookie of an element outside the heap are gone, and 0 stands for them.   *)
delete_at(p) ==
  /\ pc = "idle"
  /\ H
  /\ val' = [val EXCEPT ![elems[p]] = 0]
  /\ \/ /\ p = nelems - 1
        /\ shrink
        /\ rc' = [rc EXCEPT ![elems[p]] = 0]
        /\ UNCHANGED <<pc, i, N, after>>
     \/ /\ p # nelems - 1
        /\ elems' = [elems EXCEPT ![p] = elems[nelems - 1]]
        /\ rc' = [rc EXCEPT ![elems[p]] = 0, ![elems[nelems - 1]] = p]
        /\ IF TooSmall(p) THEN start("up", p, 0, "shrink")
           ELSE start("down", p, nelems - 1, "shrink")
        /\ UNCHANGED nelems
  /\ UNCHANGED <<H, ci>>

(* The user deletes an element by the cookie it was last told, or the       *)
(* minimum of a heap that is not empty.                                     *)
ptrheap_delete(x) == x \in Live /\ delete_at(rc[x])
ptrheap_deletemin == nelems > 0 /\ delete_at(0)

(* The value of the element with cookie p changes to v, and                 *)
(* ptrheap_decrease or ptrheap_increase is called.                          *)
rekey(x, v) ==
  /\ pc = "idle"
  /\ H
  /\ val' = [val EXCEPT ![x] = v]
  /\ UNCHANGED <<H, elems, nelems, rc, ci>>

ptrheap_decrease(x, v) ==
  /\ x \in Live
  /\ v <= val[x]
  /\ rekey(x, v)
  /\ start("up", rc[x], 0, "return")

ptrheap_increase(x, v) ==
  /\ x \in Live
  /\ v >= val[x]
  /\ rekey(x, v)
  /\ start("down", rc[x], nelems, "return")

ptrheap_increasemin(v) ==
  /\ nelems > 0
  /\ v >= val[elems[0]]
  /\ rekey(elems[0], v)
  /\ start("down", 0, nelems, "return")

ptrheap_free ==
  /\ pc = "idle"
  /\ H
  /\ H' = FALSE
  /\ nelems' = 0
  /\ elems' = Empty
  /\ val' = [x \in Elems |-> 0]
  /\ rc' = [x \in Elems |-> 0]
  /\ UNCHANGED <<pc, i, N, ci, after>>

Step == heapifyup_swap \/ heapify_swap \/ finish \/ create_next \/ create_done

HeapNext ==
  \/ ~H /\ \E n \in 0 .. MaxCreate :
       \E ptrs \in [0 .. (n - 1) -> Elems], v \in [0 .. (n - 1) -> Keys] :
         ptrheap_create(n, ptrs, v)
  \/ \E x \in Elems :
       \/ ptrheap_delete(x)
       \/ \E v \in Keys : ptrheap_add(x, v) \/ ptrheap_decrease(x, v) \/ ptrheap_increase(x, v)
  \/ \E v \in Keys : ptrheap_increasemin(v)
  \/ ptrheap_deletemin
  \/ ptrheap_free
  \/ Step

HeapSpec == HeapInit /\ [][HeapNext]_heapvars
----------------------------------------------------------------------------
(* Between operations no element is smaller than its parent. *)
HeapProperty ==
  pc = "idle" => \A j \in 1 .. (nelems - 1) : ~Less(elems[j], elems[Parent(j)])

(* Between operations ptrheap_getmin, which returns elems[0], returns a     *)
(* minimum of the elements.                                                 *)
MinAtRoot ==
  pc = "idle" => \A j \in 0 .. (nelems - 1) : ~Less(elems[j], elems[0])

(* Between operations the cookie of an element in the heap is its position: *)
(* ptrheap_delete, ptrheap_increase and ptrheap_decrease get the element    *)
(* they were called for.                                                    *)
CookiesCurrent ==
  pc = "idle" => \A j \in 0 .. (nelems - 1) : rc[elems[j]] = j

(* After every operation the root is a minimum and every cookie is current, *)
(* whatever was sifted up or down on the way.                               *)
HeapConsistent == HeapTypeOK /\ MinAtRoot /\ CookiesCurrent

(* The heap never loses or duplicates a pointer, however it is rearranged:  *)
(* it implements the promised queue.                                        *)
Promise == INSTANCE PriorityQueue WITH live <- Live, key <- val, busy <- (pc # "idle")
KeepsElements == Promise!Spec
=============================================================================
