----------------------------- MODULE ElasticArray -----------------------------
(***************************************************************************)
(* Elastic arrays (datastruct/elasticarray.c): how the size of the buffer  *)
(* follows the size of the data, in bytes of size_t, whose multiplications *)
(* wrap.  What is in the buffer is realloc's business: here an array is    *)
(* its two sizes, and a function that changes it is the set of its         *)
(* possible outcomes, a status and an array.                               *)
(***************************************************************************)
EXTENDS Integers

CONSTANTS
  EA_SIZE_MAX,  \* largest size_t
  RecLens    \* the record lengths that clients use

ASSUME ElasticAssumption == EA_SIZE_MAX \in Nat /\ RecLens \subseteq 1 .. EA_SIZE_MAX

VARIABLES
  EA,        \* the array: size, alloc
  earc,      \* status of the last call
  slack      \* history: since realloc failed for elasticarray_shrink no call
             \* has succeeded

eavars == <<EA, earc, slack>>

Sizes == 0 .. EA_SIZE_MAX
Arrays == [size : Sizes, alloc : Sizes]
Wrap(n) == n % (EA_SIZE_MAX + 1)
EmptyArray == [size |-> 0, alloc |-> 0]

ElasticTypeOK == EA \in Arrays /\ earc \in {0, -1} /\ slack \in BOOLEAN

Ok(A) == [rc |-> 0, EA |-> A]
Err(A) == [rc |-> -1, EA |-> A]
----------------------------------------------------------------------------
(* Mutant: doubling is taken to be enough. *)
NewAlloc_doubles(A, nsize) ==
  IF A.alloc < nsize THEN Wrap(A.alloc * 2)
  ELSE IF A.alloc \div 4 > nsize THEN Wrap(nsize * 2)
  ELSE A.alloc

(* The allocation resize wants: doubled or as much as is needed, halved     *)
(* when less than a quarter is used.                                        *)
NewAlloc(A, nsize) ==
  IF A.alloc < nsize
  THEN IF Wrap(A.alloc * 2) < nsize THEN nsize ELSE Wrap(A.alloc * 2)
  ELSE IF A.alloc \div 4 > nsize THEN Wrap(nsize * 2)
  ELSE A.alloc

(* resize: realloc may fail, but not to a size of zero. *)
resize(A, nsize) ==
  LET nalloc == NewAlloc(A, nsize)
  IN {Ok([size |-> nsize, alloc |-> nalloc])}
       \cup (IF nalloc \notin {0, A.alloc} THEN {Err(A)} ELSE {})

(* elasticarray_resize *)
elasticarray_resize(A, nrec, reclen) ==
  IF nrec > EA_SIZE_MAX \div reclen THEN {Err(A)} ELSE resize(A, Wrap(nrec * reclen))

(* elasticarray_init: the new array, if it does not fail. *)
elasticarray_init(nrec, reclen) ==
  {o \in elasticarray_resize(EmptyArray, nrec, reclen) : o.rc = 0}

(* elasticarray_getsize *)
elasticarray_getsize(A, reclen) == A.size \div reclen

(* elasticarray_append; the copy goes to [A.size, A.size + nrec * reclen). *)
elasticarray_append(A, nrec, reclen) ==
  IF nrec > EA_SIZE_MAX \div reclen \/ Wrap(nrec * reclen) > EA_SIZE_MAX - A.size
  THEN {Err(A)}
  ELSE resize(A, A.size + nrec * reclen)

(* elasticarray_shrink keeps the old buffer if resize fails: the outcome    *)
(* with rc = -1, a status its caller does not see.                          *)
elasticarray_shrink(A, nrec, reclen) ==
  LET nsize == IF nrec > EA_SIZE_MAX \div reclen \/ Wrap(nrec * reclen) > A.size
               THEN 0 ELSE A.size - nrec * reclen
  IN {IF o.rc = 0 THEN o ELSE Err([A EXCEPT !.size = nsize]) : o \in resize(A, nsize)}

(* elasticarray_truncate *)
elasticarray_truncate(A) ==
  IF A.size = 0 THEN {Ok(EmptyArray)}
  ELSE IF A.alloc > A.size THEN {Ok([A EXCEPT !.alloc = A.size]), Err(A)}
  ELSE {Ok(A)}

(* elasticarray_get: the record at pos is the bytes from pos * reclen on. *)
elasticarray_get(pos, reclen) == pos * reclen

(* elasticarray_export gives away the truncated buffer and ends the array;  *)
(* elasticarray_exportdup a copy of its size.                               *)
elasticarray_export(A) == elasticarray_truncate(A)
elasticarray_exportdup(A) == {Ok(A), Err(A)}
----------------------------------------------------------------------------
(* An array under any client.  After elasticarray_free or a successful      *)
(* elasticarray_export the client starts with another.                      *)
Outcome(o) == EA' = o.EA /\ earc' = o.rc

ElasticInit ==
  /\ \E nrec \in Sizes, reclen \in RecLens : \E o \in elasticarray_init(nrec, reclen) : EA = o.EA
  /\ earc = 0 /\ slack = FALSE

ElasticNext ==
  \/ \E nrec \in Sizes, reclen \in RecLens :
       \/ \E o \in elasticarray_resize(EA, nrec, reclen)
                     \cup elasticarray_append(EA, nrec, reclen) :
            Outcome(o) /\ slack' = (slack /\ o.rc = -1)
       \/ \E o \in elasticarray_shrink(EA, nrec, reclen) : Outcome(o) /\ slack' = (o.rc = -1)
  \/ \E o \in elasticarray_truncate(EA) \cup elasticarray_exportdup(EA) :
       Outcome(o) /\ slack' = (slack /\ (o.rc = -1 \/ o.EA = EA))
  \/ \E o \in elasticarray_export(EA), new \in elasticarray_init(0, 1) :
       IF o.rc = 0 THEN Outcome(new) /\ slack' = FALSE ELSE Outcome(o) /\ UNCHANGED slack

ElasticSpec == ElasticInit /\ [][ElasticNext]_eavars
----------------------------------------------------------------------------
(* The data fits the buffer, whatever wraps on the way; and the buffer is   *)
(* at most four times the size of the data, but for the bytes that          *)
(* resize's division drops, unless realloc failed in elasticarray_shrink.   *)
BufferFits ==
  /\ EA.size <= EA.alloc
  /\ EA.alloc > 4 * EA.size + 3 => slack

=============================================================================
