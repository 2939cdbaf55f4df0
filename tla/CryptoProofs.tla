----------------------------- MODULE CryptoProofs -----------------------------
(***************************************************************************)
(* Proofs about the cryptographic code: the generator of random bytes, AES *)
(* in CTR mode, and the hashes with HMAC and PBKDF2.                       *)
(***************************************************************************)
EXTENDS CryptoEntropy, AesCtr, Hash, FiniteSetTheorems, FunctionTheorems,
        SequenceTheorems, NaturalsInduction, WellFoundedInduction, TLAPS

----------------------------------------------------------------------------
(* What is not empty in Nat has a least member. *)
LEMMA LeastNat ==
  ASSUME NEW T, T \subseteq Nat, T # {}
  PROVE  \E t \in T : \A y \in T : t <= y
<1>1. PICK t \in T : \A y \in T : ~(<<y, t>> \in OpToRel(<, Nat))
  <2>1. IsWellFoundedOn(OpToRel(<, Nat), Nat)
    BY NatLessThanWellFounded
  <2> QED BY <2>1, WFMin
<1>2. \A y \in T : ~(y < t)
  BY <1>1 DEF OpToRel
<1> QED BY <1>2

----------------------------------------------------------------------------
(* The generator of random bytes.  EntropyFresh is about every state; what  *)
(* the induction needs besides is which states of the generator a call is   *)
(* in at each of its steps: pieces are only made from a generator that was  *)
(* seeded, nothing was made before, and no entropy is wanted while the      *)
(* device is closed.                                                        *)
EntropyIInv ==
  /\ EntropyFresh
  /\ epc \in {"loop", "reseed"} => instantiated
  /\ epc = "instantiate" => ~instantiated
  /\ ~fd => need = 0
  /\ ~instantiated => since = 0

(* generate, length of a piece: it is never more than what is left. *)
LEMMA MinOfTwo ==
  ASSUME NEW a \in Nat, NEW b \in Nat
  PROVE  Min({a, b}) \in Nat /\ Min({a, b}) <= a /\ Min({a, b}) <= b /\ Min({a, b}) \in {a, b}
<1>1. \E x \in {a, b} : \A y \in {a, b} : x =< y
  OBVIOUS
<1> QED BY <1>1 DEF Min

LEMMA EntropyInitOK == EntropyInit => EntropyIInv
<1> SUFFICES ASSUME EntropyInit PROVE EntropyIInv
  OBVIOUS
<1>1. /\ 0 \in 0 .. RESEED_INTERVAL + 1 /\ 0 \in 0 .. SEED + NONCE
      /\ 0 <= RESEED_INTERVAL /\ ~(0 > 0)
  BY EntropyAssumption
<1>2. EntropyTypeOK
  BY <1>1 DEF EntropyInit, EntropyTypeOK
<1>3. fd = (epc \in {"instantiate", "reseed"})
  <2>1. fd \in BOOLEAN /\ ~fd /\ ~(epc \in {"instantiate", "reseed"})
    BY DEF EntropyInit
  <2> QED BY <2>1
<1> QED BY <1>1, <1>2, <1>3 DEF EntropyInit, EntropyFresh, EntropyIInv

(* The device is open just while entropy is being read: fd as the steps of  *)
(* a call leave it agrees with where the call is.                           *)
LEMMA DeviceAgrees ==
  ASSUME NEW f \in BOOLEAN, NEW e,
         f <=> e \in {"instantiate", "reseed"}
  PROVE  f = (e \in {"instantiate", "reseed"})
OBVIOUS

LEMMA EntropyNextOK == EntropyIInv /\ [EntropyNext]_entropyvars => EntropyIInv'
<1> SUFFICES ASSUME EntropyIInv, [EntropyNext]_entropyvars PROVE EntropyIInv'
  OBVIOUS
<1> USE EntropyAssumption
<1>0. /\ EntropyTypeOK /\ RESEED_INTERVAL \in Nat \ {0} /\ SEED \in Nat \ {0} /\ NONCE \in Nat \ {0}
      /\ GENERATE_MAXLEN \in Nat \ {0}
      /\ SEED + NONCE \in 0 .. SEED + NONCE /\ SEED \in 0 .. SEED + NONCE
      /\ 0 \in 0 .. SEED + NONCE
      /\ fd <=> epc \in {"instantiate", "reseed"}
      /\ since > 0 => instantiated
      /\ since <= RESEED_INTERVAL
      /\ instantiated => reseed_counter = since + 1
      /\ epc = "idle" /\ ret = 0 => left = 0
  <2>1. RESEED_INTERVAL \in Nat \ {0} /\ SEED \in Nat \ {0} /\ NONCE \in Nat \ {0}
        /\ GENERATE_MAXLEN \in Nat \ {0}
    OBVIOUS
  <2>2. SEED + NONCE \in 0 .. SEED + NONCE /\ SEED \in 0 .. SEED + NONCE
        /\ 0 \in 0 .. SEED + NONCE
    BY <2>1
  <2>3. fd <=> epc \in {"instantiate", "reseed"}
    BY DEF EntropyIInv, EntropyFresh, EntropyTypeOK
  <2> QED BY <2>1, <2>2, <2>3 DEF EntropyIInv, EntropyFresh
<1>1. ASSUME NEW len \in ReadLens, crypto_entropy_read(len) PROVE EntropyIInv'
  <2>1. /\ epc = "idle" /\ left' = len /\ UNCHANGED <<instantiated, reseed_counter, since>>
        /\ len \in Nat /\ ~fd /\ need = 0
    BY <1>1, <1>0 DEF crypto_entropy_read, EntropyIInv
  <2>2. CASE instantiated /\ epc' = "loop" /\ UNCHANGED <<fd, need, ret>>
    <3>1. fd' = (epc' \in {"instantiate", "reseed"})
      BY <2>1, <2>2, <1>0, DeviceAgrees DEF EntropyTypeOK
    <3>2. EntropyTypeOK'
      BY <2>1, <2>2, <1>0 DEF EntropyTypeOK
    <3> QED BY <3>1, <3>2, <2>1, <2>2, <1>0 DEF EntropyIInv, EntropyFresh
  <2>3. CASE ~instantiated /\ fd' = TRUE /\ need' = SEED + NONCE /\ epc' = "instantiate"
             /\ UNCHANGED ret
    <3>1. fd' = (epc' \in {"instantiate", "reseed"})
      BY <2>3, DeviceAgrees
    <3>2. EntropyTypeOK'
      BY <2>1, <2>3, <1>0 DEF EntropyTypeOK
    <3>3. fd' /\ since = 0
      BY <2>3 DEF EntropyIInv
    <3> QED BY <3>1, <3>2, <3>3, <2>1, <2>3, <1>0 DEF EntropyIInv, EntropyFresh
  <2>4. CASE ~instantiated /\ Returns(-1) /\ UNCHANGED <<fd, need>>
    <3>1. epc' = "idle" /\ ret' = -1
      BY <2>4 DEF Returns
    <3>2. fd' = (epc' \in {"instantiate", "reseed"})
      BY <2>1, <2>4, <3>1, <1>0, DeviceAgrees DEF EntropyTypeOK
    <3>3. EntropyTypeOK'
      BY <2>1, <2>4, <3>1, <1>0 DEF EntropyTypeOK
    <3> QED BY <3>1, <3>2, <3>3, <2>1, <2>4, <1>0 DEF EntropyIInv, EntropyFresh
  <2> QED BY <2>2, <2>3, <2>4, <1>1, Zenon DEF crypto_entropy_read, entropy_read_init
<1>2. CASE entropy_read_fill
  <2>1. /\ need > 0 /\ UNCHANGED <<instantiated, reseed_counter, since, left>>
        /\ need \in Nat /\ fd /\ epc \in {"instantiate", "reseed"}
    <3>1. need > 0 /\ UNCHANGED <<instantiated, reseed_counter, since, left>> /\ need \in Nat
      BY <1>2, <1>0 DEF entropy_read_fill, EntropyTypeOK
    <3> QED BY <3>1, <1>0 DEF EntropyIInv
  <2>2. ASSUME NEW n \in 1 .. need, need' = need - n, UNCHANGED <<fd, epc, ret>>
        PROVE  EntropyIInv'
    <3>1. fd' = (epc' \in {"instantiate", "reseed"})
      BY <2>1, <2>2, <1>0, DeviceAgrees DEF EntropyTypeOK
    <3>2. need' \in 0 .. SEED + NONCE
      BY <2>1, <2>2, <1>0 DEF EntropyTypeOK
    <3>3. EntropyTypeOK'
      BY <2>1, <2>2, <3>2, <1>0 DEF EntropyTypeOK
    <3>4. fd'
      BY <2>1, <2>2
    <3> QED BY <3>1, <3>3, <3>4, <2>1, <2>2, <1>0 DEF EntropyIInv, EntropyFresh
  <2>3. CASE Returns(-1) /\ fd' = FALSE /\ need' = 0
    <3>1. epc' = "idle" /\ ret' = -1
      BY <2>3 DEF Returns
    <3>2. fd' = (epc' \in {"instantiate", "reseed"})
      BY <2>3, <3>1, DeviceAgrees
    <3>3. EntropyTypeOK'
      BY <2>1, <2>3, <3>1, <1>0 DEF EntropyTypeOK
    <3> QED BY <3>1, <3>2, <3>3, <2>1, <2>3, <1>0 DEF EntropyIInv, EntropyFresh
  <2> QED BY <2>2, <2>3, <1>2, Zenon DEF entropy_read_fill
<1>3. CASE entropy_read_done
  <2>1. /\ fd /\ need = 0 /\ fd' = FALSE /\ UNCHANGED <<left, need>>
        /\ epc \in {"instantiate", "reseed"}
    BY <1>3, <1>0 DEF entropy_read_done
  <2>2. CASE /\ epc' = "loop" /\ UNCHANGED ret
             /\ since' = 0 /\ reseed_counter' = 1
             /\ instantiated' \in BOOLEAN /\ instantiated'
    <3>1. fd' = (epc' \in {"instantiate", "reseed"})
      BY <2>1, <2>2, DeviceAgrees
    <3>2. 1 \in 0 .. RESEED_INTERVAL + 1 /\ 0 <= RESEED_INTERVAL /\ 1 = 0 + 1
      BY <1>0
    <3>3. EntropyTypeOK'
      BY <2>1, <2>2, <3>2, <1>0 DEF EntropyTypeOK
    <3> QED BY <3>1, <3>2, <3>3, <2>1, <2>2 DEF EntropyIInv, EntropyFresh
  <2>3. CASE Returns(-1) /\ UNCHANGED <<instantiated, reseed_counter, since>>
    <3>1. epc' = "idle" /\ ret' = -1
      BY <2>3 DEF Returns
    <3>2. fd' = (epc' \in {"instantiate", "reseed"})
      BY <2>1, <3>1, DeviceAgrees
    <3>3. EntropyTypeOK'
      BY <2>1, <2>3, <3>1, <1>0 DEF EntropyTypeOK
    <3> QED BY <3>1, <3>2, <3>3, <2>1, <2>3, <1>0 DEF EntropyIInv, EntropyFresh
  <2>4. epc # "instantiate" => instantiated \in BOOLEAN /\ instantiated
    BY <2>1, <1>0 DEF EntropyIInv, EntropyTypeOK
  <2>5. instantiate => since' = 0 /\ reseed_counter' = 1 /\ instantiated' \in BOOLEAN /\ instantiated'
    BY Zenon DEF instantiate, update
  <2>6. reseed => since' = 0 /\ reseed_counter' = 1 /\ instantiated' = instantiated
    BY Zenon DEF reseed, update
  <2> QED BY <2>2, <2>3, <2>4, <2>5, <2>6, <1>3, Zenon DEF entropy_read_done
<1>4. CASE ReadLoop
  <2>1. epc = "loop" /\ UNCHANGED instantiated /\ instantiated /\ ~fd /\ need = 0
        /\ reseed_counter = since + 1 /\ since \in Nat /\ left \in Nat
    BY <1>4, <1>0 DEF ReadLoop, EntropyIInv, EntropyTypeOK
  <2>2. CASE left = 0 /\ Returns(0) /\ UNCHANGED <<left, reseed_counter, since, fd, need>>
    <3>1. epc' = "idle" /\ ret' = 0 /\ left' = 0
      BY <2>2 DEF Returns
    <3>2. fd' = (epc' \in {"instantiate", "reseed"})
      BY <2>1, <2>2, <3>1, <1>0, DeviceAgrees DEF EntropyTypeOK
    <3>3. EntropyTypeOK'
      BY <2>1, <2>2, <3>1, <1>0 DEF EntropyTypeOK
    <3> QED BY <3>1, <3>2, <3>3, <2>1, <2>2, <1>0 DEF EntropyIInv, EntropyFresh
  <2>3. CASE fd' = TRUE /\ need' = SEED /\ epc' = "reseed" /\ UNCHANGED ret
             /\ UNCHANGED <<left, reseed_counter, since>>
    <3>1. fd' = (epc' \in {"instantiate", "reseed"})
      BY <2>3, DeviceAgrees
    <3>2. EntropyTypeOK'
      BY <2>1, <2>3, <1>0 DEF EntropyTypeOK
    <3>3. fd'
      BY <2>3
    <3> QED BY <3>1, <3>2, <3>3, <2>1, <2>3, <1>0 DEF EntropyIInv, EntropyFresh
  <2>4. CASE Returns(-1) /\ UNCHANGED <<fd, need, left, reseed_counter, since>>
    <3>1. epc' = "idle" /\ ret' = -1
      BY <2>4 DEF Returns
    <3>2. fd' = (epc' \in {"instantiate", "reseed"})
      BY <2>1, <2>4, <3>1, <1>0, DeviceAgrees DEF EntropyTypeOK
    <3>3. EntropyTypeOK'
      BY <2>1, <2>4, <3>1, <1>0 DEF EntropyTypeOK
    <3> QED BY <3>1, <3>2, <3>3, <2>1, <2>4, <1>0 DEF EntropyIInv, EntropyFresh
  <2>5. CASE ~NeedsReseed /\ generate /\ UNCHANGED <<epc, ret, fd, need>>
    <3>1. /\ left' = left - Piece /\ since' = since + 1 /\ reseed_counter' = reseed_counter + 1
      BY <2>5 DEF generate, update
    <3>2. left' \in Nat
      BY <3>1, <2>1, <1>0, MinOfTwo DEF Piece
    <3>3. /\ since + 1 \in Nat /\ since + 1 <= RESEED_INTERVAL
          /\ reseed_counter + 1 \in 0 .. RESEED_INTERVAL + 1
          /\ reseed_counter + 1 = (since + 1) + 1
      BY <2>1, <2>5, <1>0 DEF NeedsReseed
    <3>4. fd' = (epc' \in {"instantiate", "reseed"})
      BY <2>1, <2>5, <1>0, DeviceAgrees DEF EntropyTypeOK
    <3>5. EntropyTypeOK'
      BY <2>1, <2>5, <3>1, <3>2, <3>3, <1>0 DEF EntropyTypeOK
    <3>6. epc' = "loop" /\ instantiated' /\ ~fd' /\ need' = 0
      BY <2>1, <2>5
    <3> QED BY <3>1, <3>3, <3>4, <3>5, <3>6 DEF EntropyIInv, EntropyFresh
  <2> QED BY <2>2, <2>3, <2>4, <2>5, <1>4, Zenon DEF ReadLoop, entropy_read_init
<1>5. CASE UNCHANGED entropyvars
  BY <1>5 DEF entropyvars, EntropyIInv, EntropyFresh, EntropyTypeOK
<1> QED BY <1>1, <1>2, <1>3, <1>4, <1>5, Zenon DEF EntropyNext

(* For every interval, length of a piece and lengths of calls, and whatever *)
(* the operating system fails: crypto_entropy_read makes bytes only from a  *)
(* generator that was seeded, at most RESEED_INTERVAL pieces ago, returns 0 *)
(* only when every byte was provided, and does not leave the device open.   *)
THEOREM EntropyCorrect == EntropySpec => []EntropyFresh
<1>1. EntropyIInv => EntropyFresh
  BY DEF EntropyIInv
<1> QED BY <1>1, EntropyInitOK, EntropyNextOK, PTL DEF EntropySpec
----------------------------------------------------------------------------
(* AES in CTR mode. *)

(* Division. *)
LEMMA DivMod ==
  ASSUME NEW a \in Nat, NEW b \in Nat \ {0}, NEW q, q = a \div b, NEW r, r = a % b
  PROVE  /\ q \in Nat /\ r \in Nat /\ r < b
         /\ a = b * q + r /\ b * q \in Nat
<1>1. q \in Nat
  OBVIOUS
<1>2. r \in Nat /\ r < b
  OBVIOUS
<1>3. a = b * q + r
  OBVIOUS
<1>4. b * q \in Nat
  BY <1>1
<1> QED BY <1>1, <1>2, <1>3, <1>4

LEMMA DivBelow ==
  ASSUME NEW a \in Nat, NEW b \in Nat \ {0}
  PROVE  b * (a \div b) <= a
<1> DEFINE q == a \div b
           r == a % b
<1>0. q = a \div b /\ r = a % b
  OBVIOUS
<1> HIDE DEF q, r
<1>1. r \in Nat /\ a = b * q + r /\ b * q \in Nat
  BY ONLY <1>0, a \in Nat, b \in Nat \ {0}, DivMod
<1>2. b * q <= a
  BY ONLY <1>1
<1> QED BY <1>2 DEF q

LEMMA DivUnique ==
  ASSUME NEW b \in Nat \ {0}, NEW q \in Nat, NEW r \in Nat, r < b, NEW a, a = b * q + r
  PROVE  a \div b = q /\ a % b = r
<1>1. a \in Nat
  OBVIOUS
<1> DEFINE p == a \div b
           s == a % b
<1>0. p = a \div b /\ s = a % b
  OBVIOUS
<1> HIDE DEF p, s
<1>2. p \in Nat /\ s \in Nat /\ s < b /\ a = b * p + s
  BY ONLY <1>0, <1>1, b \in Nat \ {0}, DivMod
<1>3. ~(p >= q + 1)
  <2> SUFFICES ASSUME p >= q + 1 PROVE FALSE
    OBVIOUS
  <2>1. b * p >= b * q + b
    BY <1>2
  <2> QED BY <1>2, <2>1
<1>4. ~(q >= p + 1)
  <2> SUFFICES ASSUME q >= p + 1 PROVE FALSE
    OBVIOUS
  <2>1. b * q >= b * p + b
    BY <1>2
  <2> QED BY <1>2, <2>1
<1>5. p = q
  BY <1>2, <1>3, <1>4
<1>6. s = r
  BY <1>2, <1>5
<1> QED BY <1>5, <1>6 DEF p, s

(* Block and byte of a position. *)
Blk(p) == p \div BLK
Off(p) == p % BLK

LEMMA BlkFacts ==
  ASSUME NEW p \in Nat
  PROVE  /\ Blk(p) \in Nat /\ Off(p) \in Nat /\ Off(p) < BLK
         /\ p = BLK * Blk(p) + Off(p) /\ BLK * Blk(p) \in Nat
         /\ Blk(p) <= p
<1> DEFINE q == Blk(p)
           r == Off(p)
<1>1. q = p \div BLK /\ r = p % BLK /\ BLK \in Nat \ {0}
  BY AesCtrAssumption DEF Blk, Off
<1> HIDE DEF q, r
<1>2. q \in Nat /\ r \in Nat /\ r < BLK /\ p = BLK * q + r /\ BLK * q \in Nat
  BY ONLY <1>1, p \in Nat, DivMod
<1>3. q <= BLK * q
  BY ONLY <1>1, <1>2
<1>4. q <= p
  BY ONLY <1>2, <1>3
<1> QED BY <1>2, <1>4 DEF q, r

LEMMA BlkUnique ==
  ASSUME NEW q \in Nat, NEW r \in Nat, r < BLK, NEW p, p = BLK * q + r
  PROVE  Blk(p) = q /\ Off(p) = r
BY DivUnique, AesCtrAssumption DEF Blk, Off

(* In the same block. *)
LEMMA BlkSame ==
  ASSUME NEW p \in Nat, NEW l \in Nat, Off(p) + l < BLK
  PROVE  Blk(p + l) = Blk(p) /\ Off(p + l) = Off(p) + l
<1> DEFINE q == Blk(p)
           r == Off(p) + l
           x == p + l
<1>1. q \in Nat /\ Off(p) \in Nat /\ p = BLK * q + Off(p) /\ BLK * q \in Nat /\ BLK \in Nat
  BY BlkFacts, AesCtrAssumption
<1>2. r \in Nat /\ r < BLK /\ x = BLK * q + r
  <2> HIDE DEF q
  <2> QED BY <1>1
<1> HIDE DEF q, r, x
<1>3. Blk(x) = q /\ Off(x) = r
  BY ONLY <1>1, <1>2, BlkUnique
<1> QED BY <1>3 DEF q, r, x

(* Up to the end of the block. *)
LEMMA BlkEnd ==
  ASSUME NEW p \in Nat, NEW l \in Nat, Off(p) + l = BLK
  PROVE  Blk(p + l) = Blk(p) + 1 /\ Off(p + l) = 0
<1> DEFINE q == Blk(p)
           q1 == q + 1
           x == p + l
<1>1. q \in Nat /\ Off(p) \in Nat /\ p = BLK * q + Off(p) /\ BLK * q \in Nat /\ BLK \in Nat \ {0}
  BY BlkFacts, AesCtrAssumption
<1>2. q1 \in Nat /\ x = BLK * q1 + 0 /\ 0 \in Nat /\ 0 < BLK
  <2> HIDE DEF q
  <2>1. BLK * (q + 1) = BLK * q + BLK
    BY <1>1
  <2> QED BY <1>1, <2>1
<1> HIDE DEF q, q1, x
<1>3. Blk(x) = q1 /\ Off(x) = 0
  BY ONLY <1>2, BlkUnique
<1> QED BY <1>3 DEF q, q1, x

(* The byte before. *)
LEMMA BlkPred ==
  ASSUME NEW p \in Nat \ {0}
  PROVE  /\ Off(p) # 0 => Blk(p - 1) = Blk(p)
         /\ Off(p) = 0 => Blk(p) = Blk(p - 1) + 1
<1> DEFINE x == p - 1
<1>1. x \in Nat /\ p = x + 1 /\ 1 \in Nat
  OBVIOUS
<1> HIDE DEF x
<1>2. Off(x) \in Nat /\ Off(x) < BLK /\ BLK \in Nat
  BY <1>1, BlkFacts, AesCtrAssumption
<1>3. CASE Off(x) + 1 < BLK
  <2>1. Blk(x + 1) = Blk(x) /\ Off(x + 1) = Off(x) + 1
    BY <1>1, <1>3, BlkSame
  <2> QED BY <1>1, <1>2, <2>1 DEF x
<1>4. CASE Off(x) + 1 = BLK
  <2>1. Blk(x + 1) = Blk(x) + 1 /\ Off(x + 1) = 0
    BY <1>1, <1>4, BlkEnd
  <2> QED BY <1>1, <1>2, <2>1 DEF x
<1> QED BY <1>2, <1>3, <1>4

(* From the beginning of a block on. *)
LEMMA BlkFrom ==
  ASSUME NEW p \in Nat, NEW i \in Nat, Off(p) = 0
  PROVE  Blk(p + i) = Blk(p) + Blk(i) /\ Off(p + i) = Off(i)
<1> DEFINE q == Blk(p)
           k == Blk(i)
           r == Off(i)
           qk == q + k
           x == p + i
<1>1. q \in Nat /\ p = BLK * q + 0 /\ BLK * q \in Nat /\ BLK \in Nat
  BY BlkFacts, AesCtrAssumption
<1>2. k \in Nat /\ r \in Nat /\ r < BLK /\ i = BLK * k + r /\ BLK * k \in Nat
  BY BlkFacts
<1>3. qk \in Nat /\ x = BLK * qk + r
  <2> HIDE DEF q, k, r
  <2>1. BLK * (q + k) = BLK * q + BLK * k
    BY <1>1, <1>2
  <2> QED BY <1>1, <1>2, <2>1
<1> HIDE DEF q, k, r, qk, x
<1>4. Blk(x) = qk /\ Off(x) = r
  BY ONLY <1>2, <1>3, BlkUnique
<1> QED BY <1>4 DEF q, k, r, qk, x

(* The counter. *)
LEMMA CounterFacts ==
  ASSUME NEW n \in Nat
  PROVE  /\ be64enc(n).hi \in Nat /\ be64enc(n).lo \in 0 .. BYTE - 1
         /\ Decode(be64enc(n)) = n
         /\ be64enc(n).lo # BYTE - 1 => [be64enc(n) EXCEPT !.lo = @ + 1] = be64enc(n + 1)
<1> DEFINE h == n \div BYTE
           l == n % BYTE
<1>0. h = n \div BYTE /\ l = n % BYTE /\ BYTE \in Nat \ {0}
  BY AesCtrAssumption
<1>1. be64enc(n) = [hi |-> h, lo |-> l]
  BY DEF be64enc
<1> HIDE DEF h, l
<1>2. h \in Nat /\ l \in Nat /\ l < BYTE /\ n = BYTE * h + l /\ BYTE * h \in Nat
  BY ONLY <1>0, n \in Nat, DivMod
<1>3. Decode(be64enc(n)) = n
  <2>1. h * BYTE = BYTE * h
    BY ONLY <1>0, <1>2
  <2> QED BY <1>1, <1>2, <2>1 DEF Decode
<1>4. ASSUME l # BYTE - 1 PROVE [be64enc(n) EXCEPT !.lo = @ + 1] = be64enc(n + 1)
  <2> DEFINE n1 == n + 1
             l1 == l + 1
  <2>1. l1 \in Nat /\ l1 < BYTE /\ n1 = BYTE * h + l1
    BY <1>0, <1>2, <1>4
  <2>2. be64enc(n1) = [hi |-> n1 \div BYTE, lo |-> n1 % BYTE]
    BY DEF be64enc
  <2>3. [be64enc(n) EXCEPT !.lo = @ + 1] = [hi |-> h, lo |-> l1]
    BY <1>1
  <2> HIDE DEF n1, l1
  <2>5. BYTE \in Nat \ {0}
    BY <1>0
  <2>6. h \in Nat
    BY <1>2
  <2>4. n1 \div BYTE = h /\ n1 % BYTE = l1
    BY ONLY <2>5, <2>6, <2>1, DivUnique
  <2> QED BY <2>2, <2>3, <2>4 DEF n1
<1> QED BY <1>0, <1>1, <1>2, <1>3, <1>4

(* The counter of a block of the stream has the type of the counter. *)
LEMMA CounterType ==
  ASSUME NEW p \in 0 .. CTRMAX
  PROVE  be64enc(Blk(p)) \in Counter
<1> USE AesCtrAssumption
<1> DEFINE q == Blk(p)
           h == be64enc(q).hi
           m == BLK * BYTE
           t == CTRMAX \div m
<1>1. p \in Nat /\ q \in Nat /\ BLK * q <= p /\ p <= CTRMAX /\ BLK * q \in Nat
  <2>1. p \in Nat /\ p <= CTRMAX
    OBVIOUS
  <2>2. q \in Nat /\ Off(p) \in Nat /\ p = BLK * q + Off(p) /\ BLK * q \in Nat
    BY <2>1, BlkFacts
  <2> HIDE DEF q
  <2> QED BY <2>1, <2>2
<1>2. be64enc(q) = [hi |-> q \div BYTE, lo |-> q % BYTE] /\ h = q \div BYTE
  BY DEF be64enc
<1>3. h \in Nat /\ be64enc(q).lo \in 0 .. BYTE - 1
  BY <1>1, CounterFacts
<1>4. BYTE * h <= q
  BY <1>1, <1>2, DivBelow
<1>5. m \in Nat \ {0} /\ t = CTRMAX \div m
  <2>1. BLK \in Nat \ {0} /\ BYTE \in Nat \ {0}
    OBVIOUS
  <2>2. m \in Nat \ {0}
    BY ONLY <2>1
  <2> QED BY <2>2
<1>6. m * h <= CTRMAX
  <2> HIDE DEF h, q
  <2>1. BLK \in Nat \ {0} /\ BYTE \in Nat \ {0} /\ CTRMAX \in Nat
    OBVIOUS
  <2>2. BYTE * h \in Nat
    BY <2>1, <1>3
  <2>3. BLK * (BYTE * h) <= BLK * q
    BY ONLY <1>1, <1>4, <2>1, <2>2
  <2>4. m * h = BLK * (BYTE * h)
    BY ONLY <1>3, <2>1
  <2> HIDE DEF m
  <2>5. BLK * (BYTE * h) \in Nat
    BY ONLY <2>1, <2>2
  <2> QED BY ONLY <1>1, <2>1, <2>3, <2>4, <2>5
<1>7. h <= t
  <2> DEFINE r == CTRMAX % m
  <2>1. r = CTRMAX % m /\ CTRMAX \in Nat
    OBVIOUS
  <2> HIDE DEF r, t, m, h
  <2>2. t \in Nat /\ r \in Nat /\ r < m /\ CTRMAX = m * t + r
    BY ONLY <1>5, <2>1, DivMod
  <2>3. ~(h >= t + 1)
    <3> SUFFICES ASSUME h >= t + 1 PROVE FALSE
      OBVIOUS
    <3>1. m * h >= m * t + m
      BY ONLY <1>3, <1>5, <2>2, h >= t + 1
    <3>2. m * h \in Nat /\ m * t \in Nat
      BY ONLY <1>3, <1>5, <2>2
    <3> QED BY ONLY <1>5, <1>6, <2>2, <3>1, <3>2
  <2> QED BY <1>3, <2>2, <2>3
<1>8. t \in Nat
  BY <1>5
<1> QED BY <1>2, <1>3, <1>7, <1>8 DEF Counter

(* A stream: the counter is that of the last byte, the block buffered that  *)
(* of the next byte unless the next byte begins a block.                    *)
AesStream == [key : AesKeys \cup {NoKey}, nonce : Nonces, ctr : Counter, bytectr : 0 .. CTRMAX,
              buf : [key : AesKeys \cup {NoKey}, nonce : Nonces, ctr : Nat]]

Synced(c) ==
  /\ c.bytectr = 0 => c.ctr.lo = BYTE - 1
  /\ c.bytectr # 0 => c.ctr = be64enc(Blk(c.bytectr - 1))
  /\ Off(c.bytectr) # 0 => c.buf = CipherBlock(c, Blk(c.bytectr))

(* The block buffered is that of the next byte. *)
Ready(c) == c.ctr = be64enc(Blk(c.bytectr)) /\ c.buf = CipherBlock(c, Blk(c.bytectr))

(* What the bytes a .. b - 1 of a stream are to be xored with. *)
Used(c, a, b) == {[blk |-> CipherBlock(c, Blk(p)), off |-> Off(p), pos |-> p] : p \in a .. b - 1}

(* In a call that began with the stream c0 and is to end at the byte end. *)
InCall(s, c0, end) ==
  /\ s = [n |-> s.n, strm |-> s.strm, xored |-> s.xored]
  /\ s.n \in Nat /\ s.strm \in AesStream
  /\ s.strm.key = c0.key /\ s.strm.nonce = c0.nonce
  /\ s.strm.bytectr + s.n = end /\ c0.bytectr <= s.strm.bytectr
  /\ s.xored = Used(c0, c0.bytectr, s.strm.bytectr)

CallOK(s, c0, end) == InCall(s, c0, end) /\ Synced(s.strm)

LEMMA UsedUnion ==
  ASSUME NEW c, NEW a \in Nat, NEW m \in Nat, NEW b \in Nat, a <= m, m <= b
  PROVE  Used(c, a, m) \cup Used(c, m, b) = Used(c, a, b)
<1>1. (a .. m - 1) \cup (m .. b - 1) = a .. b - 1
  OBVIOUS
<1> QED BY <1>1 DEF Used

(* Bytes of the block that is buffered. *)
LEMMA UseOK ==
  ASSUME NEW s, NEW c0, c0.bytectr \in Nat, NEW end \in 0 .. CTRMAX, InCall(s, c0, end),
         Ready(s.strm), NEW l \in Nat, l <= s.n,
         Off(s.strm.bytectr) + l >= 1, Off(s.strm.bytectr) + l <= BLK
  PROVE  LET t == cipherblock_use(s, l, Off(s.strm.bytectr)) IN
         /\ CallOK(t, c0, end)
         /\ t.n = s.n - l
         /\ t.strm.bytectr = s.strm.bytectr + l
<1> DEFINE b == s.strm.bytectr
           b1 == b + l
           q == Blk(b)
           r == Off(b)
           new == {[blk |-> s.strm.buf, off |-> r + i, pos |-> b + i] : i \in 0 .. l - 1}
           c1 == [s.strm EXCEPT !.bytectr = b1]
           t == cipherblock_use(s, l, r)
<1>1. CTRMAX \in Nat /\ BLK \in Nat \ {0}
  BY AesCtrAssumption
<1>2. b \in Nat /\ b1 \in 0 .. CTRMAX /\ b1 \in Nat /\ s.n \in Nat
  BY <1>1 DEF InCall, AesStream
<1>3. t = [n |-> s.n - l, strm |-> c1, xored |-> s.xored \cup new]
  <2> DEFINE n == s.n
             c == s.strm
             x == s.xored
  <2>1. s = [n |-> n, strm |-> c, xored |-> x] /\ c \in AesStream
    BY DEF InCall
  <2>2. t = [[[s EXCEPT !.n = @ - l] EXCEPT !.strm.bytectr = @ + l] EXCEPT !.xored = @ \cup new]
    BY DEF cipherblock_use
  <2>3. c1 = [c EXCEPT !.bytectr = @ + l]
    BY <2>1 DEF AesStream
  <2> HIDE DEF n, c, x, new, t, c1
  <2>4. t = [n |-> n - l, strm |-> c1, xored |-> x \cup new]
    BY ONLY <2>1, <2>2, <2>3 DEF AesStream
  <2> QED BY <2>4 DEF n, x
<1>4. q \in Nat /\ r \in Nat /\ r < BLK /\ b = BLK * q + r /\ BLK * q \in Nat
  BY <1>2, BlkFacts
<1>5. ASSUME NEW i \in 0 .. l - 1
      PROVE  Blk(b + i) = q /\ Off(b + i) = r + i
  <2>1. i \in Nat /\ r + i < BLK
    BY <1>1, <1>4
  <2> QED BY <1>2, <2>1, BlkSame
<1>6. new = Used(c0, b, b1)
  <2>1. CipherBlock(c0, q) = s.strm.buf
    BY DEF Ready, InCall, CipherBlock
  <2>2. \A i \in 0 .. l - 1 : [blk |-> s.strm.buf, off |-> r + i, pos |-> b + i]
                              = [blk |-> CipherBlock(c0, Blk(b + i)), off |-> Off(b + i), pos |-> b + i]
    BY <1>5, <2>1
  <2>3. /\ \A i \in 0 .. l - 1 : b + i \in b .. b1 - 1
        /\ \A p \in b .. b1 - 1 : p - b \in 0 .. l - 1 /\ b + (p - b) = p
    BY <1>2
  <2> DEFINE U(p) == [blk |-> CipherBlock(c0, Blk(p)), off |-> Off(p), pos |-> p]
  <2>4. new = {U(b + i) : i \in 0 .. l - 1}
    BY <2>2
  <2>5. Used(c0, b, b1) = {U(p) : p \in b .. b1 - 1}
    BY DEF Used
  <2> HIDE DEF U, new, b, b1
  <2>6. {U(b + i) : i \in 0 .. l - 1} = {U(p) : p \in b .. b1 - 1}
    <3>1. ASSUME NEW x \in {U(b + i) : i \in 0 .. l - 1} PROVE x \in {U(p) : p \in b .. b1 - 1}
      <4>1. PICK i \in 0 .. l - 1 : x = U(b + i)
        OBVIOUS
      <4> QED BY <2>3, <4>1
    <3>2. ASSUME NEW x \in {U(p) : p \in b .. b1 - 1} PROVE x \in {U(b + i) : i \in 0 .. l - 1}
      <4>1. PICK p \in b .. b1 - 1 : x = U(p)
        OBVIOUS
      <4>2. x = U(b + (p - b)) /\ p - b \in 0 .. l - 1
        BY <2>3, <4>1
      <4> QED BY <4>2
    <3> QED BY <3>1, <3>2
  <2> QED BY <2>4, <2>5, <2>6
<1>7. s.xored \cup new = Used(c0, c0.bytectr, b1)
  <2>1. s.xored = Used(c0, c0.bytectr, b) /\ c0.bytectr <= b
    BY DEF InCall
  <2>2. b <= b1
    BY <1>2
  <2>3. b \in Nat /\ b1 \in Nat /\ c0.bytectr <= b
    BY <1>2, <2>1
  <2> HIDE DEF b, b1, new
  <2>4. Used(c0, c0.bytectr, b) \cup Used(c0, b, b1) = Used(c0, c0.bytectr, b1)
    BY ONLY <2>2, <2>3, c0.bytectr \in Nat, UsedUnion
  <2> QED BY ONLY <1>6, <2>1, <2>4
<1>8. /\ c1 \in AesStream /\ c1.key = s.strm.key /\ c1.nonce = s.strm.nonce
      /\ c1.bytectr = b1 /\ c1.ctr = s.strm.ctr /\ c1.buf = s.strm.buf
  BY <1>2 DEF InCall, AesStream
<1>9. InCall(t, c0, end)
  <2>1. t.n = s.n - l /\ t.strm = c1 /\ t.xored = Used(c0, c0.bytectr, b1)
    BY <1>3, <1>7
  <2>2. t = [n |-> t.n, strm |-> t.strm, xored |-> t.xored]
    BY <1>3
  <2>3. s.n - l \in Nat /\ b1 + (s.n - l) = end /\ c0.bytectr <= b1
    BY <1>2 DEF InCall
  <2>4. c0.key = s.strm.key /\ c0.nonce = s.strm.nonce
    BY DEF InCall
  <2> HIDE DEF t, c1, b1
  <2> QED BY <1>8, <2>1, <2>2, <2>3, <2>4 DEF InCall
<1>10. Synced(c1)
  <2>1. b1 # 0
    <3> SUFFICES ASSUME b1 = 0 PROVE FALSE
      OBVIOUS
    <3>1. b = 0 /\ l = 0 /\ r >= 1
      <4>1. r + l >= 1 /\ b \in Nat /\ r \in Nat /\ b + l = 0
        BY <1>2, <1>4
      <4> HIDE DEF r, b
      <4> QED BY ONLY <4>1, l \in Nat
    <3> DEFINE z == BLK * q
    <3> HIDE DEF z, b, r
    <3>2. b = z + r /\ z \in Nat /\ r \in Nat
      BY <1>4 DEF z
    <3> QED BY ONLY <3>1, <3>2
  <2>2. Synced(c1)
    <3> DEFINE x == b1 - 1
               y == r + l - 1
    <3>1. y \in Nat /\ y < BLK /\ x = BLK * q + y
      <4>1. r + l >= 1 /\ r + l <= BLK /\ x = b + l - 1
        BY <1>2
      <4> HIDE DEF q, r, b, x
      <4>2. y \in Nat /\ y < BLK
        BY ONLY <1>1, <1>4, <4>1, l \in Nat
      <4>3. x = BLK * q + y
        <5> DEFINE z == BLK * q
        <5> HIDE DEF z
        <5>1. b = z + r /\ z \in Nat /\ r \in Nat
          BY <1>4 DEF z
        <5>2. x = z + y
          BY ONLY <4>1, <5>1, l \in Nat
        <5> QED BY <5>2 DEF z
      <4> QED BY <4>2, <4>3
    <3>2. Blk(x) = q
      <4> HIDE DEF x, y, q
      <4> QED BY ONLY <1>4, <3>1, BlkUnique
    <3>3. c1.ctr = be64enc(Blk(b1 - 1))
      BY <1>8, <3>2 DEF Ready
    <3>4. ASSUME Off(b1) # 0 PROVE c1.buf = CipherBlock(c1, Blk(b1))
      <4>1. r + l < BLK
        <5> SUFFICES ASSUME r + l = BLK PROVE FALSE
          BY <1>1, <1>4
        <5> QED BY <1>2, <3>4, BlkEnd
      <4>2. Blk(b1) = q
        BY <1>2, <4>1, BlkSame
      <4> QED BY <1>8, <4>2 DEF Ready, CipherBlock
    <3> QED BY <1>8, <2>1, <3>3, <3>4 DEF Synced
  <2> QED BY <2>2
<1>11. t.strm = c1 /\ t.n = s.n - l
  BY <1>3
<1>12. CallOK(t, c0, end)
  <2> HIDE DEF t, c1
  <2> QED BY <1>9, <1>10, <1>11 DEF CallOK
<1> QED BY <1>8, <1>11, <1>12

(* The next block is generated. *)
LEMMA GenerateOK ==
  ASSUME NEW s, NEW c0, NEW end \in 0 .. CTRMAX, CallOK(s, c0, end), Off(s.strm.bytectr) = 0
  PROVE  LET t == cipherblock_generate(s) IN
         /\ InCall(t, c0, end) /\ Ready(t.strm)
         /\ t.n = s.n /\ t.strm.bytectr = s.strm.bytectr
<1> DEFINE c == s.strm
           b == c.bytectr
           ctr == Incremented(c)
           buf == CipherBlock(c, Decode(ctr))
           c1 == [c EXCEPT !.ctr = ctr, !.buf = buf]
           t == cipherblock_generate(s)
<1>1. c \in AesStream /\ Synced(c) /\ s = [n |-> s.n, strm |-> c, xored |-> s.xored]
  BY DEF CallOK, InCall
<1>2. b \in 0 .. CTRMAX /\ b \in Nat /\ CTRMAX \in Nat /\ BYTE \in Nat \ {0} /\ BLK \in Nat \ {0}
  BY <1>1, AesCtrAssumption DEF AesStream
<1>3. Blk(b) \in Nat /\ be64enc(Blk(b)) \in Counter
  BY <1>2, BlkFacts, CounterType
<1>4. ctr = be64enc(Blk(b))
  <2>1. CASE c.ctr.lo = BYTE - 1
    BY <2>1 DEF Incremented, Blk
  <2>2. CASE c.ctr.lo # BYTE - 1
    <3>1. b # 0
      BY <1>1, <2>2 DEF Synced
    <3>2. b - 1 \in Nat /\ b \in Nat \ {0}
      BY <1>2, <3>1
    <3>3. c.ctr = be64enc(Blk(b - 1)) /\ Blk(b - 1) \in Nat
      BY <1>1, <3>1, <3>2, BlkFacts DEF Synced
    <3>4. Blk(b) = Blk(b - 1) + 1
      BY <3>2, BlkPred
    <3>5. ctr = [c.ctr EXCEPT !.lo = @ + 1]
      BY <2>2 DEF Incremented
    <3> HIDE DEF ctr, b, c
    <3> QED BY <2>2, <3>3, <3>4, <3>5, CounterFacts
  <2> QED BY <2>1, <2>2
<1>5. buf = CipherBlock(c, Blk(b))
  BY <1>3, <1>4, CounterFacts
<1>6. t = [n |-> s.n, strm |-> c1, xored |-> s.xored]
  <2>1. t = [[s EXCEPT !.strm.ctr = ctr] EXCEPT !.strm.buf = buf]
    BY DEF cipherblock_generate
  <2> DEFINE n == s.n
             x == s.xored
  <2>2. c1 = [[c EXCEPT !.ctr = ctr] EXCEPT !.buf = buf]
    OBVIOUS
  <2>3. s = [n |-> n, strm |-> c, xored |-> x] /\ c \in AesStream
    BY <1>1
  <2> HIDE DEF ctr, buf, c, t, c1, n, x
  <2>4. t = [n |-> n, strm |-> c1, xored |-> x]
    BY ONLY <2>1, <2>2, <2>3 DEF AesStream
  <2> QED BY <2>4 DEF n, x
<1>7. /\ c1 \in AesStream /\ c1.key = c.key /\ c1.nonce = c.nonce
      /\ c1.bytectr = b /\ c1.ctr = ctr /\ c1.buf = buf
  <2>1. ctr \in Counter /\ buf = [key |-> c.key, nonce |-> c.nonce, ctr |-> Blk(b)]
    BY <1>3, <1>4, <1>5 DEF CipherBlock
  <2> HIDE DEF ctr, buf, c
  <2> QED BY <1>1, <1>3, <2>1 DEF AesStream
<1>8. Ready(c1)
  <2>1. CipherBlock(c1, Blk(b)) = CipherBlock(c, Blk(b))
    BY <1>7 DEF CipherBlock
  <2> HIDE DEF c1, ctr, buf
  <2> QED BY <1>4, <1>5, <1>7, <2>1 DEF Ready
<1>9. t.n = s.n /\ t.strm = c1 /\ t.xored = s.xored /\ t = [n |-> t.n, strm |-> t.strm, xored |-> t.xored]
  BY <1>6
<1>10. InCall(t, c0, end)
  <2> HIDE DEF t, c1
  <2> QED BY <1>7, <1>9 DEF CallOK, InCall
<1> QED BY <1>7, <1>8, <1>9, <1>10

(* The call goes on at the beginning of a block, or ends. *)
Aligned(s) == s.n = 0 \/ Off(s.strm.bytectr) = 0

LEMMA MinTwo ==
  ASSUME NEW a \in Nat, NEW b \in Nat
  PROVE  Min({a, b}) = IF a <= b THEN a ELSE b
BY DEF Min

LEMMA PreOK ==
  ASSUME NEW s, NEW c0, c0.bytectr \in Nat, NEW end \in 0 .. CTRMAX, CallOK(s, c0, end)
  PROVE  CallOK(pre_wholeblock(s), c0, end) /\ Aligned(pre_wholeblock(s))
<1> DEFINE b == s.strm.bytectr
           r == Off(b)
           m == BLK - r
           l == Min({s.n, m})
           t == pre_wholeblock(s)
<1>1. b \in Nat /\ s.n \in Nat /\ BLK \in Nat \ {0}
  BY AesCtrAssumption DEF CallOK, InCall, AesStream
<1>2. r \in Nat /\ r < BLK
  BY <1>1, BlkFacts
<1>3. CASE r = 0
  BY <1>3 DEF pre_wholeblock, Aligned, Off
<1>4. CASE r # 0
  <2>1. m \in Nat
    BY <1>1, <1>2
  <2>2. l = IF s.n <= m THEN s.n ELSE m
    <3> HIDE DEF m
    <3> QED BY <1>1, <2>1, MinTwo
  <2>3. t = cipherblock_use(s, l, r)
    BY <1>4 DEF pre_wholeblock, Off
  <2>4. l \in Nat /\ l <= s.n /\ r + l >= 1 /\ r + l <= BLK
    <3> HIDE DEF r, l
    <3> QED BY <1>1, <1>2, <1>4, <2>1, <2>2
  <2>5. Ready(s.strm)
    <3>1. b # 0
      <4> SUFFICES ASSUME b = 0 PROVE FALSE
        OBVIOUS
      <4>1. 0 = BLK * 0 + 0 /\ 0 \in Nat /\ 0 < BLK
        BY <1>1
      <4>2. Off(0) = 0
        BY ONLY <4>1, BlkUnique
      <4> QED BY <1>4, <4>2
    <3>2. Blk(b - 1) = Blk(b)
      BY <1>1, <1>4, <3>1, BlkPred
    <3> QED BY <1>4, <3>1, <3>2 DEF CallOK, Synced, Ready
  <2>6. /\ CallOK(t, c0, end) /\ t.n = s.n - l /\ t.strm.bytectr = b + l
    <3>1. InCall(s, c0, end)
      BY DEF CallOK
    <3> HIDE DEF l, t
    <3> QED BY <2>3, <2>4, <2>5, <3>1, UseOK
  <2>7. Aligned(t)
    <3>1. CASE s.n <= m
      BY <1>1, <2>2, <2>6, <3>1 DEF Aligned
    <3>2. CASE ~(s.n <= m)
      <4>1. r + l = BLK
        BY <1>1, <1>2, <2>2, <3>2
      <4>2. Off(b + l) = 0
        <5> HIDE DEF l
        <5> QED BY <1>1, <2>4, <4>1, BlkEnd
      <4> QED BY <2>6, <4>2 DEF Aligned
    <3> QED BY <3>1, <3>2
  <2> QED BY <2>6, <2>7
<1> QED BY <1>3, <1>4

(* One block generated and some of it used. *)
LEMMA BlockOK ==
  ASSUME NEW s, NEW c0, c0.bytectr \in Nat, NEW end \in 0 .. CTRMAX, CallOK(s, c0, end),
         Off(s.strm.bytectr) = 0, NEW l \in 1 .. BLK, l <= s.n
  PROVE  LET t == cipherblock_use(cipherblock_generate(s), l, 0) IN
         /\ CallOK(t, c0, end) /\ t.n = s.n - l /\ t.strm.bytectr = s.strm.bytectr + l
<1> DEFINE g == cipherblock_generate(s)
<1>1. /\ InCall(g, c0, end) /\ Ready(g.strm)
      /\ g.n = s.n /\ g.strm.bytectr = s.strm.bytectr
  BY GenerateOK
<1>2. l \in Nat /\ l <= g.n /\ Off(g.strm.bytectr) + l >= 1 /\ Off(g.strm.bytectr) + l <= BLK
  BY <1>1, AesCtrAssumption
<1> HIDE DEF g
<1>3. LET t == cipherblock_use(g, l, Off(g.strm.bytectr)) IN
      /\ CallOK(t, c0, end) /\ t.n = g.n - l /\ t.strm.bytectr = g.strm.bytectr + l
  BY <1>1, <1>2, UseOK
<1>4. Off(g.strm.bytectr) = 0
  BY <1>1
<1> QED BY <1>1, <1>3, <1>4 DEF g

LEMMA PostOK ==
  ASSUME NEW s, NEW c0, c0.bytectr \in Nat, NEW end \in 0 .. CTRMAX, CallOK(s, c0, end),
         Aligned(s), s.n < BLK
  PROVE  CallOK(post_wholeblock(s), c0, end) /\ post_wholeblock(s).n = 0
<1>1. s.n \in Nat /\ BLK \in Nat
  BY AesCtrAssumption DEF CallOK, InCall
<1>2. CASE s.n = 0
  BY <1>2 DEF post_wholeblock
<1>3. CASE s.n # 0
  <2> DEFINE l == s.n
             t == cipherblock_use(cipherblock_generate(s), l, 0)
  <2>1. l \in 1 .. BLK /\ l <= s.n /\ Off(s.strm.bytectr) = 0
    BY <1>1, <1>3 DEF Aligned
  <2>2. post_wholeblock(s) = t
    BY <1>3 DEF post_wholeblock
  <2>3. CallOK(t, c0, end) /\ t.n = s.n - l
    BY <2>1, BlockOK
  <2> HIDE DEF t
  <2> QED BY <1>1, <2>2, <2>3
<1> QED BY <1>2, <1>3


(* The function that wholeblocks recurses with. *)
WholeBlock(s) == cipherblock_use(cipherblock_generate(s), BLK, 0)
IsBlocks(f, s, n) == f = [k \in 0 .. n |-> IF k = 0 THEN s ELSE WholeBlock(f[k - 1])]

LEMMA BlocksExist ==
  ASSUME NEW s, NEW n \in Nat
  PROVE  \E f : IsBlocks(f, s, n)
<1> DEFINE T == {k \in Nat : ~ \E f : IsBlocks(f, s, k)}
<1> SUFFICES ASSUME T # {} PROVE FALSE
  OBVIOUS
<1>1. PICK t \in T : \A y \in T : t <= y
  BY LeastNat
<1>2. t \in Nat /\ ~ \E f : IsBlocks(f, s, t)
  OBVIOUS
<1>3. CASE t = 0
  <2> DEFINE f == [k \in 0 .. 0 |-> s]
  <2>1. IsBlocks(f, s, 0)
    BY DEF IsBlocks
  <2> QED BY <1>2, <1>3, <2>1
<1>4. CASE t # 0
  <2>1. t - 1 \in Nat /\ t - 1 \notin T
    BY <1>1, <1>2, <1>4
  <2>2. PICK g : IsBlocks(g, s, t - 1)
    BY <2>1
  <2> DEFINE f == [k \in 0 .. t |-> IF k = t THEN WholeBlock(g[t - 1]) ELSE g[k]]
  <2>3. \A k \in 0 .. t - 1 : f[k] = g[k] /\ k \in 0 .. t
    BY <1>2
  <2>4. ASSUME NEW k \in 0 .. t
        PROVE  f[k] = IF k = 0 THEN s ELSE WholeBlock(f[k - 1])
    <3>1. CASE k = t
      <4>1. f[k - 1] = g[t - 1]
        BY <1>2, <1>4, <2>3, <3>1
      <4> QED BY <1>4, <3>1, <4>1
    <3>2. CASE k # t
      <4>1. k \in 0 .. t - 1
        BY <1>2, <3>2
      <4>2. f[k] = g[k] /\ (k # 0 => f[k - 1] = g[k - 1])
        BY <1>2, <2>3, <4>1
      <4>3. g[k] = IF k = 0 THEN s ELSE WholeBlock(g[k - 1])
        BY <2>2, <4>1 DEF IsBlocks
      <4> HIDE DEF f
      <4> QED BY <4>2, <4>3
    <3> QED BY <3>1, <3>2
  <2>5. IsBlocks(f, s, t)
    <3>1. f = [k \in 0 .. t |-> f[k]]
      OBVIOUS
    <3> HIDE DEF f
    <3> QED BY <2>4, <3>1 DEF IsBlocks
  <2> QED BY <1>2, <2>5
<1> QED BY <1>3, <1>4

LEMMA WholeOK ==
  ASSUME NEW s, NEW c0, c0.bytectr \in Nat, NEW end \in 0 .. CTRMAX, CallOK(s, c0, end),
         Aligned(s)
  PROVE  CallOK(wholeblocks(s), c0, end) /\ Aligned(wholeblocks(s)) /\ wholeblocks(s).n < BLK
<1> DEFINE m == Blk(s.n)
           z == s.n
           f == CHOOSE g : IsBlocks(g, s, m)
           OK(k) == /\ CallOK(f[k], c0, end) /\ Aligned(f[k])
                    /\ f[k].n = z - BLK * k
           T == {k \in 0 .. m : ~OK(k)}
<1>1. z \in Nat /\ BLK \in Nat \ {0}
  BY AesCtrAssumption DEF CallOK, InCall
<1>2. m \in Nat /\ BLK * m \in Nat /\ BLK * m <= z /\ z - BLK * m < BLK
  <2>1. m \in Nat /\ Off(z) \in Nat /\ Off(z) < BLK /\ z = BLK * m + Off(z) /\ BLK * m \in Nat
    BY <1>1, BlkFacts
  <2> DEFINE x == BLK * m
  <2>2. z = x + Off(z) /\ x \in Nat
    BY <2>1
  <2> HIDE DEF x, z, m
  <2>3. x <= z /\ z - x < BLK
    BY ONLY <1>1, <2>1, <2>2
  <2> QED BY <2>1, <2>3 DEF x
<1>3. IsBlocks(f, s, m)
  BY <1>2, BlocksExist
<1>4. wholeblocks(s) = f[m]
  BY DEF wholeblocks, WholeBlock, IsBlocks, Blk
<1> HIDE DEF f
<1>5. \A k \in 0 .. m : f[k] = IF k = 0 THEN s ELSE WholeBlock(f[k - 1])
  BY <1>3 DEF IsBlocks
<1> HIDE DEF m
<1>6. ASSUME T # {} PROVE FALSE
  <2>1. PICK t \in T : \A y \in T : t <= y
    <3>1. T \subseteq Nat
      BY <1>2
    <3> QED BY <1>6, <3>1, LeastNat
  <2>2. t \in 0 .. m /\ t \in Nat /\ t <= m
    BY <1>2
  <2>3. OK(t)
    <3>1. CASE t = 0
      <4>1. f[t] = s
        BY <1>5, <2>2, <3>1
      <4>2. z = z - BLK * t
        BY <1>1, <3>1
      <4> QED BY <4>1, <4>2
    <3>2. CASE t # 0
      <4> DEFINE u == t - 1
                 g == f[u]
      <4>1. u \in 0 .. m /\ u \in Nat /\ u < t /\ t = u + 1
        BY <1>2, <2>2, <3>2
      <4>2. OK(u)
        <5>1. ~(t <= u)
          BY <2>2, <4>1
        <5> HIDE DEF u, OK
        <5> QED BY <2>1, <4>1, <5>1
      <4>3. f[t] = WholeBlock(g)
        BY <1>5, <2>2, <3>2
      <4>4. CallOK(g, c0, end) /\ Aligned(g) /\ g.n = z - BLK * u
        BY <4>2
      <4> HIDE DEF u, g, z
      <4>5. BLK * t = BLK * u + BLK /\ BLK * u \in Nat /\ BLK * t <= BLK * m
        BY ONLY <1>1, <1>2, <2>2, <4>1
      <4> DEFINE xu == BLK * u
                 xt == BLK * t
                 xm == BLK * m
      <4>6. xt = xu + BLK /\ xu \in Nat /\ xt <= xm /\ xm <= z /\ xm \in Nat /\ g.n = z - xu
        BY <1>2, <4>4, <4>5
      <4>7. BLK \in 1 .. BLK /\ BLK <= g.n /\ g.n # 0 /\ g.n - BLK = z - xt
        <5> HIDE DEF xu, xt, xm
        <5> QED BY ONLY <1>1, <4>6
      <4>8. Off(g.strm.bytectr) = 0
        BY <4>4, <4>7 DEF Aligned
      <4> DEFINE h == WholeBlock(g)
      <4>9. CallOK(h, c0, end) /\ h.n = g.n - BLK /\ h.strm.bytectr = g.strm.bytectr + BLK
        BY <4>4, <4>7, <4>8, BlockOK DEF WholeBlock
      <4> HIDE DEF h
      <4>10. Off(h.strm.bytectr) = 0
        <5>1. g.strm.bytectr \in Nat
          BY <4>4, AesCtrAssumption DEF CallOK, InCall, AesStream
        <5>2. Off(g.strm.bytectr) + BLK = BLK
          BY <1>1, <4>8
        <5> QED BY <1>1, <4>9, <5>1, <5>2, BlkEnd
      <4>11. f[t] = h
        BY <4>3 DEF h
      <4> QED BY <4>7, <4>9, <4>10, <4>11 DEF Aligned
    <3> QED BY <3>1, <3>2
  <2> HIDE DEF OK
  <2> QED BY <2>1, <2>3
<1>7. OK(m)
  <2>1. m \in 0 .. m
    BY <1>2
  <2> HIDE DEF OK
  <2> QED BY <1>6, <2>1
<1> QED BY <1>2, <1>4, <1>7

(* The whole blocks at once. *)
LEMMA AesniOK ==
  ASSUME NEW s, NEW c0, c0.bytectr \in Nat, NEW end \in 0 .. CTRMAX, CallOK(s, c0, end),
         Aligned(s)
  PROVE  /\ CallOK(aesni_wholeblocks(s), c0, end) /\ Aligned(aesni_wholeblocks(s))
         /\ aesni_wholeblocks(s).n < BLK
<1> DEFINE c == s.strm
           b == c.bytectr
           z == s.n
           num == Blk(z)
           x == num * BLK
           first == Blk(b)
           b1 == b + x
           last == first + num - 1
           ctr == be64enc(last)
           c1 == [c EXCEPT !.ctr = ctr, !.bytectr = b1]
           new == {[blk |-> CipherBlock(c, first + i \div BLK), off |-> i % BLK,
                    pos |-> b + i] : i \in 0 .. x - 1}
           t == aesni_wholeblocks(s)
<1>0. /\ c \in AesStream /\ Synced(c) /\ c.key = c0.key /\ c.nonce = c0.nonce
      /\ b + z = end /\ c0.bytectr <= b /\ s.xored = Used(c0, c0.bytectr, b)
  BY DEF CallOK, InCall
<1>1. z \in Nat /\ b \in Nat /\ BLK \in Nat \ {0} /\ CTRMAX \in Nat
  BY <1>0, AesCtrAssumption DEF CallOK, InCall, AesStream
<1>2. /\ num \in Nat /\ x \in Nat /\ x <= z /\ z - x < BLK /\ x = BLK * num
      /\ first \in Nat
  <2>1. num \in Nat /\ Off(z) \in Nat /\ Off(z) < BLK /\ z = BLK * num + Off(z) /\ BLK * num \in Nat
    BY <1>1, BlkFacts
  <2>2. x = BLK * num
    <3> HIDE DEF num
    <3> QED BY ONLY <1>1, <2>1
  <2>3. z = x + Off(z) /\ x \in Nat
    BY <2>1, <2>2
  <2>4. first \in Nat
    BY <1>1, BlkFacts
  <2> HIDE DEF x, z, num, first
  <2>5. x <= z /\ z - x < BLK
    BY ONLY <1>1, <2>1, <2>3
  <2> QED BY <2>1, <2>2, <2>3, <2>4, <2>5
<1>3. CASE num = 0
  <2>1. t = s
    BY <1>3 DEF aesni_wholeblocks, Blk
  <2>2. x = 0
    BY <1>1, <1>3
  <2>3. z < BLK
    <3> HIDE DEF x, z
    <3> QED BY <1>1, <1>2, <2>2
  <2> QED BY <2>1, <2>3
<1>4. CASE num # 0
  <2>1. x >= BLK
    <3>1. BLK * num >= BLK
      <4> HIDE DEF num
      <4> QED BY ONLY <1>1, <1>2, <1>4
    <3> QED BY <1>2, <3>1
  <2>2. Off(b) = 0
    <3>1. z # 0
      <4> HIDE DEF x, z
      <4> QED BY ONLY <1>1, <1>2, <2>1
    <3> QED BY <3>1 DEF Aligned
  <2>3. t = [n |-> z - x, strm |-> c1, xored |-> s.xored \cup new]
    <3>1. c1 = [c EXCEPT !.ctr = ctr, !.bytectr = @ + x]
      BY <1>0 DEF AesStream
    <3> QED BY <1>4, <3>1 DEF aesni_wholeblocks, Blk
  <2>4. b1 \in 0 .. CTRMAX /\ b1 \in Nat /\ b1 # 0 /\ b1 - 1 \in 0 .. CTRMAX /\ b <= b1
    <3> HIDE DEF x, z, b
    <3> QED BY <1>0, <1>1, <1>2, <2>1
  <2>5. Blk(b1 - 1) = last /\ Off(b1) = 0
    <3> DEFINE q == num - 1
               r == BLK - 1
               y == x - 1
    <3>1. q \in Nat /\ r \in Nat /\ r < BLK /\ y \in Nat /\ y = BLK * q + r
      <4>1. BLK * q = BLK * num - BLK
        <5> HIDE DEF num
        <5> QED BY ONLY <1>1, <1>2
      <4>2. q \in Nat
        <5> HIDE DEF num
        <5> QED BY ONLY <1>2, <1>4
      <4> DEFINE bq == BLK * q
                 bn == BLK * num
      <4>3. bq = bn - BLK /\ x = bn
        BY <1>2, <4>1
      <4> HIDE DEF bq, bn, x, q
      <4>4. r \in Nat /\ r < BLK /\ y \in Nat /\ y = bq + r
        BY ONLY <1>1, <1>2, <2>1, <4>3
      <4> QED BY <4>2, <4>4 DEF bq
    <3>2. Blk(y) = q
      <4> HIDE DEF y, q, r
      <4> QED BY ONLY <3>1, BlkUnique
    <3>3. Blk(b + y) = first + q
      <4> HIDE DEF y, q
      <4> QED BY <1>1, <2>2, <3>1, <3>2, BlkFrom
    <3>4. b + y = b1 - 1 /\ first + q = last
      <4> HIDE DEF x, b, num, first
      <4> QED BY <1>1, <1>2
    <3>5. x = BLK * num + 0 /\ 0 \in Nat /\ 0 < BLK
      BY <1>1, <1>2
    <3>6. Off(x) = 0
      <4> HIDE DEF x, num
      <4>1. num \in Nat
        BY <1>2
      <4> QED BY ONLY <3>5, <4>1, BlkUnique
    <3>7. Off(b + x) = Off(x)
      <4> HIDE DEF x
      <4> QED BY <1>1, <1>2, <2>2, BlkFrom
    <3> QED BY <3>3, <3>4, <3>6, <3>7
  <2>6. ctr \in Counter
    <3> HIDE DEF b1, last
    <3> QED BY <2>4, <2>5, CounterType
  <2>7. new = Used(c0, b, b1)
    <3> DEFINE U(p) == [blk |-> CipherBlock(c0, Blk(p)), off |-> Off(p), pos |-> p]
    <3>1. ASSUME NEW i \in 0 .. x - 1
          PROVE  [blk |-> CipherBlock(c, first + i \div BLK), off |-> i % BLK, pos |-> b + i] = U(b + i)
      <4>1. i \in Nat
        BY <1>2
      <4>2. Blk(b + i) = first + i \div BLK /\ Off(b + i) = i % BLK
        <5>1. Blk(i) = i \div BLK /\ Off(i) = i % BLK
          BY DEF Blk, Off
        <5> QED BY <1>1, <2>2, <4>1, <5>1, BlkFrom
      <4> QED BY <1>0, <4>2 DEF CipherBlock
    <3>2. /\ \A i \in 0 .. x - 1 : b + i \in b .. b1 - 1
          /\ \A p \in b .. b1 - 1 : p - b \in 0 .. x - 1 /\ b + (p - b) = p
      <4> HIDE DEF x, b
      <4> QED BY <1>1, <1>2
    <3>3. new = {U(b + i) : i \in 0 .. x - 1}
      <4> HIDE DEF U
      <4> QED BY <3>1
    <3>4. Used(c0, b, b1) = {U(p) : p \in b .. b1 - 1}
      BY DEF Used
    <3> HIDE DEF U, new, b, b1, x
    <3>5. {U(b + i) : i \in 0 .. x - 1} = {U(p) : p \in b .. b1 - 1}
      <4>1. ASSUME NEW w \in {U(b + i) : i \in 0 .. x - 1} PROVE w \in {U(p) : p \in b .. b1 - 1}
        <5>1. PICK i \in 0 .. x - 1 : w = U(b + i)
          OBVIOUS
        <5> QED BY <3>2, <5>1
      <4>2. ASSUME NEW w \in {U(p) : p \in b .. b1 - 1} PROVE w \in {U(b + i) : i \in 0 .. x - 1}
        <5>1. PICK p \in b .. b1 - 1 : w = U(p)
          OBVIOUS
        <5>2. w = U(b + (p - b)) /\ p - b \in 0 .. x - 1
          BY <3>2, <5>1
        <5> QED BY <5>2
      <4> QED BY <4>1, <4>2
    <3> QED BY <3>3, <3>4, <3>5
  <2>8. s.xored \cup new = Used(c0, c0.bytectr, b1)
    <3> HIDE DEF b, b1, new
    <3>1. b \in Nat /\ b1 \in Nat /\ b <= b1 /\ c0.bytectr <= b
      BY <1>0, <1>1, <2>4
    <3>2. Used(c0, c0.bytectr, b) \cup Used(c0, b, b1) = Used(c0, c0.bytectr, b1)
      BY ONLY <3>1, c0.bytectr \in Nat, UsedUnion
    <3>3. s.xored = Used(c0, c0.bytectr, b)
      BY <1>0
    <3> QED BY ONLY <2>7, <3>2, <3>3
  <2>9. /\ c1 \in AesStream /\ c1.key = c0.key /\ c1.nonce = c0.nonce
        /\ c1.bytectr = b1 /\ c1.ctr = ctr
    <3> HIDE DEF ctr, b1, c
    <3> QED BY <1>0, <2>4, <2>6 DEF AesStream
  <2>10. Synced(c1)
    <3> HIDE DEF c1, b1, last
    <3> QED BY <2>4, <2>5, <2>9 DEF Synced
  <2>11. /\ t.n = z - x /\ t.strm = c1 /\ t.xored = Used(c0, c0.bytectr, b1)
         /\ t = [n |-> t.n, strm |-> t.strm, xored |-> t.xored]
    BY <2>3, <2>8
  <2>12. z - x \in Nat /\ b1 + (z - x) = end /\ c0.bytectr <= b1
    <3>1. b1 = b + x
      OBVIOUS
    <3> HIDE DEF z, x, b, b1
    <3> QED BY <1>0, <1>1, <1>2, <2>4, <3>1
  <2> HIDE DEF t, c1, b1, z, x
  <2>13. InCall(t, c0, end)
    BY <2>9, <2>11, <2>12 DEF InCall
  <2>14. Aligned(t) /\ t.n < BLK
    BY <1>2, <2>5, <2>9, <2>11 DEF Aligned
  <2>15. Synced(t.strm)
    BY <2>10, <2>11
  <2>16. CallOK(t, c0, end)
    BY <2>13, <2>15 DEF CallOK
  <2> QED BY <2>14, <2>16 DEF t
<1> QED BY <1>3, <1>4

----------------------------------------------------------------------------
AesIInv ==
  /\ hwaccel \in {"unset", "software", "aesni", "arm"}
  /\ strm \in AesStream
  /\ strm.key # NoKey => Synced(strm)
  /\ \E b \in 0 .. strm.bytectr : xored = Used(strm, b, strm.bytectr)

LEMMA UsedEmpty ==
  ASSUME NEW c, NEW b \in Nat
  PROVE  Used(c, b, b) = {}
<1>1. b .. b - 1 = {}
  OBVIOUS
<1> QED BY <1>1 DEF Used

LEMMA FreshOK ==
  ASSUME NEW n \in Nonces, NEW c \in Counter
  PROVE  /\ Fresh(n, c) \in AesStream /\ Fresh(n, c).key = NoKey
         /\ Fresh(n, c).bytectr = 0
BY AesCtrAssumption DEF Fresh, AesStream

(* A whole call. *)
LEMMA StreamOK ==
  ASSUME AesIInv, NEW len \in CallLens, crypto_aesctr_stream(len)
  PROVE  AesIInv'
<1> DEFINE call == [n |-> len, strm |-> strm, xored |-> {}]
           end == strm.bytectr + len
           pre == pre_wholeblock(call)
           hw == post_wholeblock(aesni_wholeblocks(pre))
           sw == post_wholeblock(wholeblocks(pre))
<1>1. len \in Nat /\ strm \in AesStream /\ strm.bytectr \in Nat /\ CTRMAX \in Nat
  BY AesCtrAssumption DEF AesIInv, AesStream
<1>2. end \in 0 .. CTRMAX /\ end \in Nat /\ strm.key # NoKey /\ Synced(strm) /\ UNCHANGED hwaccel
  BY <1>1 DEF crypto_aesctr_stream, AesIInv
<1>3. CallOK(call, strm, end)
  BY <1>1, <1>2, UsedEmpty DEF CallOK, InCall
<1>4. (strm' = hw.strm /\ xored' = hw.xored) \/ (strm' = sw.strm /\ xored' = sw.xored)
  BY DEF crypto_aesctr_stream, aesni_stream, arm_stream, arm_wholeblocks
<1> HIDE DEF call
<1>5. CallOK(pre, strm, end) /\ Aligned(pre)
  BY <1>1, <1>2, <1>3, PreOK
<1> HIDE DEF pre
<1>6. /\ CallOK(aesni_wholeblocks(pre), strm, end) /\ Aligned(aesni_wholeblocks(pre))
      /\ aesni_wholeblocks(pre).n < BLK
  BY <1>1, <1>2, <1>5, AesniOK
<1>7. /\ CallOK(wholeblocks(pre), strm, end) /\ Aligned(wholeblocks(pre))
      /\ wholeblocks(pre).n < BLK
  BY <1>1, <1>2, <1>5, WholeOK
<1>8. CallOK(hw, strm, end) /\ CallOK(sw, strm, end)
  BY <1>1, <1>2, <1>6, <1>7, PostOK
<1> HIDE DEF hw, sw, end
<1>9. ASSUME NEW t, CallOK(t, strm, end), strm' = t.strm, xored' = t.xored
      PROVE  AesIInv'
  <2>1. /\ t.strm \in AesStream /\ Synced(t.strm)
        /\ t.strm.key = strm.key /\ t.strm.nonce = strm.nonce
        /\ strm.bytectr <= t.strm.bytectr
        /\ t.xored = Used(strm, strm.bytectr, t.strm.bytectr)
    BY <1>9 DEF CallOK, InCall
  <2>2. Used(strm, strm.bytectr, t.strm.bytectr) = Used(t.strm, strm.bytectr, t.strm.bytectr)
    BY <2>1 DEF Used, CipherBlock
  <2>3. strm.bytectr \in 0 .. t.strm.bytectr
    BY <1>1, <2>1, AesCtrAssumption DEF AesStream
  <2>4. hwaccel' = hwaccel
    BY <1>2
  <2>5. Synced(strm')
    BY <1>9, <2>1
  <2>6. strm' \in AesStream /\ \E b \in 0 .. (strm').bytectr : xored' = Used(strm', b, (strm').bytectr)
    BY <1>9, <2>1, <2>2, <2>3
  <2>7. Synced(strm)' /\ (\E b \in 0 .. strm.bytectr : xored = Used(strm, b, strm.bytectr))'
    BY <2>5, <2>6 DEF Synced, Used, CipherBlock
  <2>8. (strm \in AesStream)'
    BY <2>6 DEF AesStream, Counter
  <2> QED BY <2>4, <2>7, <2>8 DEF AesIInv
<1> QED BY <1>4, <1>8, <1>9

LEMMA AesInitOK ==
  ASSUME AesInit
  PROVE  AesIInv
<1>1. PICK n \in Nonces, c \in Counter : strm = Fresh(n, c)
  BY DEF AesInit
<1>2. strm \in AesStream /\ strm.key = NoKey /\ strm.bytectr = 0
  BY <1>1, FreshOK
<1>3. xored = Used(strm, 0, 0) /\ 0 \in 0 .. 0
  BY UsedEmpty DEF AesInit
<1> QED BY <1>2, <1>3 DEF AesInit, AesIInv

LEMMA AesStep ==
  ASSUME AesIInv, [AesNext]_aesvars
  PROVE  AesIInv'
<1>1. CASE crypto_aesctr_free
  <2>1. PICK n \in Nonces, c \in Counter : strm' = Fresh(n, c)
    BY <1>1 DEF crypto_aesctr_free
  <2>2. strm' \in AesStream /\ (strm').key = NoKey /\ (strm').bytectr = 0
    BY <2>1, FreshOK
  <2>3. xored' = {} /\ hwaccel' = hwaccel
    BY <1>1 DEF crypto_aesctr_free
  <2>4. xored' = Used(strm', 0, 0) /\ 0 \in 0 .. 0
    BY <2>3, UsedEmpty
  <2>5. (\E b \in 0 .. strm.bytectr : xored = Used(strm, b, strm.bytectr))'
    BY <2>2, <2>4 DEF Used, CipherBlock
  <2>6. (strm \in AesStream)'
    BY <2>2 DEF AesStream, Counter
  <2> QED BY <2>2, <2>3, <2>5, <2>6 DEF AesIInv
<1>2. ASSUME NEW k \in AesKeys \cup ({strm.key} \ {NoKey}), NEW n \in Nonces,
             crypto_aesctr_init2(k, n)
      PROVE  AesIInv'
  <2> DEFINE c1 == [strm EXCEPT !.key = k, !.nonce = n, !.bytectr = 0, !.ctr.lo = BYTE - 1]
  <2>1. strm \in AesStream /\ k \in AesKeys \cup {NoKey}
    BY DEF AesIInv, AesStream
  <2>2. strm' = c1 /\ xored' = {}
    BY <1>2 DEF crypto_aesctr_init2
  <2>3. c1 \in AesStream /\ c1.bytectr = 0 /\ c1.ctr.lo = BYTE - 1
    <3>1. BYTE - 1 \in 0 .. BYTE - 1 /\ 0 \in 0 .. CTRMAX
      BY AesCtrAssumption
    <3> QED BY <2>1, <3>1 DEF AesStream, Counter
  <2>4. Synced(c1)
    <3>1. 0 = BLK * 0 + 0 /\ 0 \in Nat /\ 0 < BLK
      BY AesCtrAssumption
    <3>2. Off(0) = 0
      BY ONLY <3>1, BlkUnique
    <3> HIDE DEF c1
    <3> QED BY <2>3, <3>2 DEF Synced
  <2>5. Used(c1, 0, 0) = {}
    BY UsedEmpty
  <2> HIDE DEF c1
  <2>6. Synced(strm)' /\ (\E b \in 0 .. strm.bytectr : xored = Used(strm, b, strm.bytectr))'
    <3>1. Synced(strm')
      BY <2>2, <2>4
    <3>2. xored' = Used(strm', 0, (strm').bytectr) /\ 0 \in 0 .. (strm').bytectr
      BY <2>2, <2>3, <2>5
    <3> QED BY <3>1, <3>2 DEF Synced, Used, CipherBlock
  <2>7. (strm \in AesStream)'
    BY <2>2, <2>3 DEF AesStream, Counter
  <2>8. (hwaccel \in {"unset", "software", "aesni", "arm"})'
    BY <1>2 DEF crypto_aesctr_init2, hwaccel_init, AesIInv
  <2> QED BY <2>6, <2>7, <2>8 DEF AesIInv
<1>3. ASSUME NEW len \in CallLens, crypto_aesctr_stream(len)
      PROVE  AesIInv'
  BY <1>3, StreamOK
<1>4. CASE UNCHANGED aesvars
  <2>1. strm' = strm /\ xored' = xored /\ hwaccel' = hwaccel
    BY <1>4 DEF aesvars
  <2> QED BY <2>1 DEF AesIInv, AesStream, Counter, Synced, Used, CipherBlock
<1> QED BY <1>1, <1>2, <1>3, <1>4 DEF AesNext

(* The number of bytes of a call. *)
LEMMA UsedSize ==
  ASSUME NEW c, NEW a \in Nat, NEW b \in Nat, a <= b
  PROVE  Cardinality(Used(c, a, b)) = b - a
<1> DEFINE U(p) == [blk |-> CipherBlock(c, Blk(p)), off |-> Off(p), pos |-> p]
           I == a .. b - 1
           f == [p \in I |-> U(p)]
<1>1. Used(c, a, b) = {U(p) : p \in I}
  BY DEF Used
<1>2. f \in Bijection(I, Used(c, a, b))
  <2>1. \A p \in I : U(p).pos = p
    OBVIOUS
  <2> HIDE DEF U
  <2>2. f \in [I -> Used(c, a, b)]
    BY <1>1
  <2>3. \A p, q \in I : f[p] = f[q] => p = q
    BY <2>1
  <2>4. \A u \in Used(c, a, b) : \E p \in I : f[p] = u
    BY <1>1
  <2> HIDE DEF f, I
  <2> QED BY <2>2, <2>3, <2>4, Fun_IsBij
<1>3. IsFiniteSet(I) /\ Cardinality(I) = b - a
  <2> DEFINE e == b - 1
  <2>1. e \in Int /\ a \in Int
    OBVIOUS
  <2> HIDE DEF e
  <2>2. IsFiniteSet(a .. e) /\ Cardinality(a .. e) = IF a > e THEN 0 ELSE e - a + 1
    BY <2>1, FS_Interval
  <2> QED BY <2>2 DEF e
<1> HIDE DEF f, I
<1> QED BY <1>2, <1>3, FS_Bijection DEF ExistsBijection

LEMMA AesImplies ==
  ASSUME AesIInv
  PROVE  KeystreamExact
<1>1. PICK b \in 0 .. strm.bytectr : xored = Used(strm, b, strm.bytectr)
  BY DEF AesIInv
<1>2. /\ strm.bytectr \in Nat /\ b \in Nat /\ b <= strm.bytectr
      /\ strm.bytectr <= CTRMAX /\ CTRMAX \in Nat
  BY AesCtrAssumption DEF AesIInv, AesStream
<1>3. ASSUME NEW x \in xored
      PROVE  /\ x.pos \in b .. strm.bytectr - 1
             /\ x.blk = CipherBlock(strm, x.pos \div BLK)
             /\ x.off = x.pos % BLK /\ x.off \in 0 .. BLK - 1 /\ x.pos \in 0 .. CTRMAX
  <2>1. PICK p \in b .. strm.bytectr - 1 :
          x = [blk |-> CipherBlock(strm, Blk(p)), off |-> Off(p), pos |-> p]
    BY <1>1 DEF Used
  <2>2. p \in Nat /\ p \in 0 .. CTRMAX
    BY <1>2
  <2>3. Off(p) \in 0 .. BLK - 1
    BY <2>2, BlkFacts, AesCtrAssumption
  <2>4. Blk(p) = p \div BLK /\ Off(p) = p % BLK
    BY DEF Blk, Off
  <2> QED BY <2>1, <2>2, <2>3, <2>4
<1>4. {x.pos : x \in xored} = b .. strm.bytectr - 1
  <2>1. ASSUME NEW p \in b .. strm.bytectr - 1 PROVE \E x \in xored : x.pos = p
    <3> DEFINE u == [blk |-> CipherBlock(strm, Blk(p)), off |-> Off(p), pos |-> p]
    <3>1. u \in xored /\ u.pos = p
      BY <1>1 DEF Used
    <3> QED BY <3>1
  <2> QED BY <1>3, <2>1
<1>5. Cardinality(xored) = strm.bytectr - b
  BY <1>1, <1>2, UsedSize
<1>6. strm.bytectr - Cardinality(xored) = b
  BY <1>2, <1>5
<1>7. AesTypeOK
  BY <1>3 DEF AesIInv, AesStream, AesTypeOK
<1> QED BY <1>3, <1>4, <1>6, <1>7 DEF KeystreamExact

(* crypto_aesctr.c:109, crypto_aesctr_shared.c, crypto_aesctr_aesni.c:      *)
(* however a stream is cut into calls, and whichever code handles each of   *)
(* them, every byte is xored once, with the byte of cipherstream of its     *)
(* position, for every size of a block and of a byte.                       *)
THEOREM KeystreamCorrect == AesSpec => []KeystreamExact
<1>1. AesInit => AesIInv
  BY AesInitOK
<1>2. AesIInv /\ [AesNext]_aesvars => AesIInv'
  BY AesStep
<1>3. AesIInv => KeystreamExact
  BY AesImplies
<1> QED BY <1>1, <1>2, <1>3, PTL DEF AesSpec
----------------------------------------------------------------------------
(* The hashes.  Positions in a message: at the beginning of a block, and    *)
(* the blocks before a position and the bytes after them.                   *)
At(k) == k * HBLK
Full(n) == n \div HBLK
Rest(n) == n % HBLK

LEMMA HashConsts ==
  /\ HBLK \in Nat \ {0} /\ CNT \in Nat \ {0} /\ BITS \in Nat \ {0} /\ CWORD \in Nat \ {0}
  /\ HLEN \in Nat \ {0} /\ CNT < HBLK /\ HLEN <= HBLK
BY HashAssumption

LEMMA AtFacts ==
  /\ At(0) = 0
  /\ \A k \in Nat : At(k) \in Nat /\ At(k + 1) = At(k) + HBLK
  /\ \A j, k \in Nat : At(j + k) = At(j) + At(k)
  /\ \A j, k \in Nat : j <= k => At(j) <= At(k)
<1>0. HBLK \in Nat \ {0}
  BY HashConsts
<1>1. At(0) = 0
  BY <1>0 DEF At
<1>2. ASSUME NEW k \in Nat PROVE At(k) \in Nat /\ At(k + 1) = At(k) + HBLK
  BY <1>0 DEF At
<1>3. ASSUME NEW j \in Nat, NEW k \in Nat PROVE At(j + k) = At(j) + At(k)
  BY <1>0 DEF At
<1>4. ASSUME NEW j \in Nat, NEW k \in Nat, j <= k PROVE At(j) <= At(k)
  BY <1>0, <1>4 DEF At
<1> QED BY <1>1, <1>2, <1>3, <1>4

LEMMA FullFacts ==
  ASSUME NEW n \in Nat
  PROVE  /\ Full(n) \in Nat /\ Rest(n) \in Nat /\ Rest(n) < HBLK
         /\ n = At(Full(n)) + Rest(n)
<1> DEFINE q == Full(n)
           r == Rest(n)
<1>1. q = n \div HBLK /\ r = n % HBLK /\ HBLK \in Nat \ {0}
  BY HashConsts DEF Full, Rest
<1> HIDE DEF q, r
<1>2. q \in Nat /\ r \in Nat /\ r < HBLK /\ n = HBLK * q + r
  BY ONLY <1>1, n \in Nat, DivMod
<1>3. At(q) = HBLK * q
  BY <1>1, <1>2 DEF At
<1> QED BY <1>2, <1>3 DEF q, r

LEMMA FullUnique ==
  ASSUME NEW q \in Nat, NEW r \in Nat, r < HBLK, NEW n, n = At(q) + r
  PROVE  Full(n) = q /\ Rest(n) = r
<1>1. n = HBLK * q + r /\ HBLK \in Nat \ {0}
  BY HashConsts DEF At
<1>2. n \div HBLK = q /\ n % HBLK = r
  BY ONLY <1>1, q \in Nat, r \in Nat, r < HBLK, DivUnique
<1> QED BY <1>2 DEF Full, Rest

LEMMA ModShift ==
  ASSUME NEW b \in Nat \ {0}, NEW a \in Nat, NEW k \in Nat
  PROVE  (a + b * k) % b = a % b
<1> DEFINE q == a \div b
           r == a % b
           q1 == q + k
           x == a + b * k
<1>0. q = a \div b /\ r = a % b
  OBVIOUS
<1> HIDE DEF q, r
<1>1. q \in Nat /\ r \in Nat /\ r < b /\ a = b * q + r
  BY ONLY <1>0, a \in Nat, b \in Nat \ {0}, DivMod
<1>2. q1 \in Nat /\ x = b * q1 + r
  <2>1. b * (q + k) = b * q + b * k
    BY <1>1
  <2>2. b * q \in Nat /\ b * k \in Nat
    BY <1>1
  <2> QED BY <1>1, <2>1, <2>2
<1> HIDE DEF q1, x
<1>3. r \in Nat /\ r < b
  BY <1>1
<1>4. x % b = r
  BY ONLY <1>2, <1>3, b \in Nat \ {0}, DivUnique
<1> QED BY <1>0, <1>4 DEF x

LEMMA ModAdd ==
  ASSUME NEW b \in Nat \ {0}, NEW a \in Nat, NEW l \in Nat
  PROVE  ((a % b) + l) % b = (a + l) % b
<1> DEFINE q == a \div b
           r == a % b
           x == r + l
<1>0. q = a \div b /\ r = a % b
  OBVIOUS
<1> HIDE DEF q, r
<1>1. q \in Nat /\ r \in Nat /\ a = b * q + r /\ b * q \in Nat
  BY ONLY <1>0, a \in Nat, b \in Nat \ {0}, DivMod
<1>2. x \in Nat /\ x = r + l /\ a + l = x + b * q
  BY <1>1
<1> HIDE DEF x
<1>3. q \in Nat
  BY <1>1
<1>4. (x + b * q) % b = x % b
  BY ONLY <1>2, <1>3, b \in Nat \ {0}, ModShift
<1> QED BY <1>0, <1>2, <1>4

(* The number of bits of n bytes, as it is kept. *)
CountOf(n) == (n * BITS) % (CWORD * CWORD)

LEMMA CountAdd ==
  ASSUME NEW n \in Nat, NEW l \in Nat
  PROVE  (CountOf(n) + l * BITS) % (CWORD * CWORD) = CountOf(n + l)
<1> DEFINE W == CWORD * CWORD
           a == n * BITS
           b == l * BITS
           m == n + l
<1>1. BITS \in Nat \ {0} /\ CWORD \in Nat \ {0}
  BY HashConsts
<1>2. W \in Nat \ {0}
  BY ONLY <1>1
<1>3. a \in Nat /\ b \in Nat /\ a + b = m * BITS
  BY ONLY <1>1, n \in Nat, l \in Nat
<1>4. CountOf(n) = a % W /\ CountOf(m) = (m * BITS) % W
  BY DEF CountOf
<1> HIDE DEF W, a, b, m
<1>5. ((a % W) + b) % W = (a + b) % W
  BY ONLY <1>2, <1>3, ModAdd
<1>6. (CountOf(n) + b) % W = CountOf(m)
  BY ONLY <1>3, <1>4, <1>5
<1> QED BY <1>6 DEF W, b, m

(* How many bytes the buffer has. *)
LEMMA CountRest ==
  ASSUME NEW n \in Nat
  PROVE  (CountOf(n) \div BITS) % HBLK = Rest(n)
<1> DEFINE W == CWORD * CWORD
           B == BITS * HBLK
           K == W \div B
           a == n * BITS
           t == a \div W
           r == a % W
           u == HBLK * (K * t)
           y == n - u
<1>1. BITS \in Nat \ {0} /\ CWORD \in Nat \ {0} /\ HBLK \in Nat \ {0}
  BY HashConsts
<1>2. W \in Nat \ {0} /\ B \in Nat \ {0} /\ a \in Nat
  BY ONLY <1>1, n \in Nat
<1>3. K \in Nat /\ W = B * K
  <2> DEFINE z == W % B
  <2>1. K = W \div B /\ z = W % B /\ z = 0
    BY HashAssumption
  <2> HIDE DEF K, W, B, z
  <2>2. W \in Nat
    BY <1>2
  <2>3. B \in Nat \ {0}
    BY <1>2
  <2>4. K \in Nat /\ W = B * K + z /\ B * K \in Nat
    BY ONLY <2>1, <2>2, <2>3, DivMod
  <2> QED BY <2>1, <2>4
<1>4. t \in Nat /\ r \in Nat /\ a = W * t + r
  <2>1. t = a \div W /\ r = a % W /\ a \in Nat /\ W \in Nat \ {0}
    BY <1>2
  <2> HIDE DEF t, r, a, W
  <2> QED BY ONLY <2>1, DivMod
<1>5. u \in Nat
  <2>1. K \in Nat /\ t \in Nat
    BY <1>3, <1>4
  <2> HIDE DEF K, t
  <2>2. K * t \in Nat
    BY ONLY <2>1
  <2> QED BY <1>1, <2>2
<1>6. r = BITS * y
  <2>1. W * t = BITS * u
    <3>1. W * t = (B * K) * t
      BY <1>3
    <3> HIDE DEF t, K
    <3>2. (B * K) * t = BITS * u
      BY ONLY <1>1, <1>3, <1>4
    <3> QED BY <3>1, <3>2
  <2>2. a = BITS * n /\ y \in Int
    BY ONLY <1>1, <1>5, n \in Nat
  <2> DEFINE w == W * t
  <2>3. w = BITS * u /\ a = w + r /\ w \in Nat /\ r \in Nat
    <3>1. BITS * u \in Nat
      BY ONLY <1>1, <1>5
    <3> QED BY <1>4, <2>1, <3>1
  <2>4. BITS * y = BITS * n - BITS * u
    <3> HIDE DEF u
    <3> QED BY ONLY <1>1, <1>5, n \in Nat
  <2> HIDE DEF w, r, a, u, y
  <2> QED BY ONLY <2>2, <2>3, <2>4
<1>7. y \in Nat
  <2>1. y \in Int
    BY ONLY <1>5, n \in Nat
  <2>2. r \in Nat
    BY <1>4
  <2> HIDE DEF y, r
  <2>3. ~(y < 0)
    <3> SUFFICES ASSUME y < 0 PROVE FALSE
      OBVIOUS
    <3>1. BITS * y < 0
      BY ONLY <1>1, <2>1, y < 0
    <3> QED BY ONLY <1>6, <2>2, <3>1
  <2> QED BY <2>1, <2>3
<1>8. r \div BITS = y
  <2>1. r = BITS * y + 0 /\ 0 \in Nat /\ 0 < BITS /\ BITS \in Nat \ {0}
    BY <1>1, <1>4, <1>6
  <2> HIDE DEF y, r
  <2> QED BY ONLY <1>7, <2>1, DivUnique
<1>9. y % HBLK = n % HBLK
  <2> DEFINE v == K * t
  <2>1. v \in Nat /\ n = y + HBLK * v
    <3>1. v \in Nat
      BY ONLY <1>3, <1>4
    <3>2. u = HBLK * v
      OBVIOUS
    <3>3. n = y + u
      <4> HIDE DEF u
      <4> QED BY ONLY <1>5, n \in Nat
    <3> QED BY <3>1, <3>2, <3>3
  <2> HIDE DEF v, y
  <2>2. HBLK \in Nat \ {0}
    BY <1>1
  <2>3. (y + HBLK * v) % HBLK = y % HBLK
    BY ONLY <1>7, <2>1, <2>2, ModShift
  <2> QED BY <2>1, <2>3
<1>10. CountOf(n) = r
  BY DEF CountOf
<1> HIDE DEF r, y
<1> QED BY <1>8, <1>9, <1>10 DEF Rest

LEMMA TwoWordsIs ==
  ASSUME NEW n \in Nat, NEW l \in Nat
  PROVE  TwoWords(CountOf(n), l) = CountOf(n + l)
<1> DEFINE C == CWORD
           W == C * C
           c == CountOf(n)
           hi == c \div C
           lo == c % C
           D == C \div BITS
           q == l \div D
           r == l % D
           L == l * BITS
           ll == L % C
           low == (lo + ll) % C
           carry == IF low < ll THEN 1 ELSE 0
           s == hi + q + carry
           high == s % C
<1>0. BITS \in Nat \ {0} /\ C \in Nat \ {0} /\ W \in Nat \ {0}
  <2>1. BITS \in Nat \ {0} /\ C \in Nat \ {0}
    BY HashConsts
  <2>2. W \in Nat \ {0}
    BY ONLY <2>1
  <2> QED BY <2>1, <2>2
<1>1. c \in Nat /\ c < W
  <2> DEFINE a == n * BITS
  <2>1. a \in Nat /\ c = a % W
    BY <1>0 DEF CountOf
  <2> HIDE DEF a, c, W
  <2> QED BY <1>0, <2>1
<1>2. D \in Nat \ {0} /\ C = BITS * D
  <2> DEFINE z == C % BITS
  <2>1. D = C \div BITS /\ z = C % BITS /\ z = 0 /\ C \in Nat /\ BITS \in Nat \ {0}
    BY <1>0, HashAssumption
  <2> HIDE DEF D, z, C
  <2>2. D \in Nat /\ C = BITS * D + z /\ BITS * D \in Nat
    BY ONLY <2>1, DivMod
  <2>3. C = BITS * D
    BY <2>1, <2>2
  <2>4. D # 0
    BY <1>0, <2>3
  <2> QED BY <2>2, <2>3, <2>4
<1>3. hi \in Nat /\ lo \in Nat /\ lo < C /\ c = C * hi + lo /\ C * hi \in Nat
  <2>1. hi = c \div C /\ lo = c % C /\ C \in Nat \ {0} /\ c \in Nat
    BY <1>0, <1>1
  <2> HIDE DEF hi, lo, c, C
  <2> QED BY ONLY <2>1, DivMod
<1>4. q \in Nat /\ r \in Nat /\ r < D /\ l = D * q + r
  <2>1. q = l \div D /\ r = l % D /\ D \in Nat \ {0}
    BY <1>2
  <2> HIDE DEF q, r, D
  <2> QED BY ONLY <2>1, l \in Nat, DivMod
<1>5. L = C * q + r * BITS /\ r * BITS \in Nat /\ r * BITS < C /\ C * q \in Nat
  <2> HIDE DEF q, r, D
  <2>1. r * BITS \in Nat /\ C * q \in Nat
    BY ONLY <1>0, <1>4
  <2>2. (D * q + r) * BITS = (BITS * D) * q + r * BITS
    BY ONLY <1>0, <1>2, <1>4
  <2>3. r * BITS < D * BITS
    BY ONLY <1>0, <1>2, <1>4
  <2>4. D * BITS = BITS * D
    BY ONLY <1>0, <1>2
  <2> QED BY <1>2, <1>4, <2>1, <2>2, <2>3, <2>4
<1>6. ll = r * BITS /\ ll \in Nat /\ ll < C /\ L = C * q + ll
  <2> DEFINE x == r * BITS
  <2>1. L = C * q + x /\ x \in Nat /\ x < C
    BY <1>5
  <2>2. q \in Nat
    BY <1>4
  <2>3. C \in Nat \ {0}
    BY <1>0
  <2>5. ll = L % C
    OBVIOUS
  <2> HIDE DEF x, q, L, C, ll
  <2>4. L % C = x
    BY ONLY <2>1, <2>2, <2>3, DivUnique
  <2>6. ll = x /\ ll \in Nat /\ ll < C /\ L = C * q + ll
    BY ONLY <2>1, <2>4, <2>5
  <2> QED BY <2>6 DEF x
<1>7. /\ low \in Nat /\ low < C
      /\ lo + ll = C * carry + low /\ carry \in Nat
  <2> DEFINE x == lo + ll
  <2>7. C \in Nat \ {0}
    BY <1>0
  <2>8. lo \in Nat /\ lo < C
    BY <1>3
  <2>9. ll \in Nat /\ ll < C
    BY <1>6
  <2>10. low = x % C
    OBVIOUS
  <2>11. x \in Nat
    <3> HIDE DEF lo, ll
    <3> QED BY ONLY <2>8, <2>9
  <2>1. C \in Nat \ {0} /\ lo \in Nat /\ ll \in Nat /\ lo < C /\ ll < C /\ low = x % C /\ x \in Nat
    <3> HIDE DEF C, lo, ll, low, x
    <3> QED BY ONLY <2>7, <2>8, <2>9, <2>10, <2>11
  <2>2. carry = IF low < ll THEN 1 ELSE 0
    OBVIOUS
  <2>3. x = lo + ll
    OBVIOUS
  <2> HIDE DEF C, lo, ll, low, carry, x
  <2>4. CASE x < C
    <3>1. low = x
      BY ONLY <2>1, <2>4
    <3>2. ~(low < ll)
      BY ONLY <2>1, <2>3, <3>1
    <3>3. carry = 0
      BY ONLY <2>2, <3>2
    <3>4. C * 0 = 0
      BY <2>1
    <3> QED BY ONLY <2>1, <2>3, <2>4, <3>1, <3>3, <3>4
  <2>5. CASE x >= C
    <3> DEFINE y == x - C
    <3>0. 1 \in Nat
      OBVIOUS
    <3>1. y \in Nat /\ y < C /\ x = C * 1 + y
      BY ONLY <2>1, <2>3, <2>5
    <3>5. C \in Nat \ {0}
      BY <2>1
    <3> HIDE DEF y
    <3>2. x % C = y
      BY ONLY <3>0, <3>1, <3>5, DivUnique
    <3>3. low = x - C
      BY <2>1, <3>2 DEF y
    <3>4. carry = 1
      BY ONLY <2>1, <2>2, <2>3, <3>3
    <3>6. C * 1 = C
      BY <2>1
    <3> QED BY ONLY <2>1, <2>3, <2>5, <3>3, <3>4, <3>6
  <2> QED BY <2>1, <2>4, <2>5 DEF x
<1>8. high * C + low = (c + L) % W
  <2> DEFINE t == s \div C
  <2>1. s \in Nat /\ s = hi + q + carry /\ C \in Nat \ {0}
    <3>1. hi \in Nat /\ q \in Nat /\ carry \in Nat
      BY <1>3, <1>4, <1>7
    <3>2. s = hi + q + carry
      OBVIOUS
    <3>3. C \in Nat \ {0}
      BY <1>0
    <3> HIDE DEF s, hi, q, carry, C
    <3> QED BY ONLY <3>1, <3>2, <3>3
  <2>2. t = s \div C /\ high = s % C
    OBVIOUS
  <2> HIDE DEF t, high, s, hi, q, carry, lo, ll, low, L, c, C, W
  <2>3. t \in Nat /\ high \in Nat /\ high < C /\ s = C * t + high
    BY ONLY <2>1, <2>2, DivMod
  <2>4. c + L = C * s + low
    <3> DEFINE ch == C * hi
               cq == C * q
               cc == C * carry
    <3>1. C * s = ch + cq + cc
      BY ONLY <1>3, <1>4, <1>7, <2>1
    <3>2. c = ch + lo /\ L = cq + ll /\ lo + ll = cc + low /\ ch \in Nat /\ cq \in Nat /\ cc \in Nat
      <4>1. cc \in Nat
        BY ONLY <1>7, <2>1
      <4> QED BY <1>3, <1>5, <1>6, <1>7, <4>1
    <3>3. lo \in Nat /\ ll \in Nat /\ low \in Nat
      BY <1>3, <1>6, <1>7
    <3> DEFINE cs == C * s
    <3>4. cs = ch + cq + cc
      BY <3>1
    <3> HIDE DEF ch, cq, cc, cs
    <3>5. c + L = cs + low
      BY ONLY <3>2, <3>3, <3>4
    <3> QED BY <3>5 DEF cs
  <2> DEFINE x == c + L
             y == high * C + low
  <2>5. C * s = (C * C) * t + high * C
    BY ONLY <2>1, <2>3
  <2>6. x = W * t + y /\ y \in Nat /\ y < W
    <3>1. high * C \in Nat /\ (C * C) * t \in Nat /\ C * C \in Nat
      BY ONLY <2>1, <2>3
    <3>2. high * C + C <= C * C
      BY ONLY <2>1, <2>3
    <3> DEFINE hc == high * C
               ct == (C * C) * t
               cc == C * C
    <3>3. /\ hc \in Nat /\ ct \in Nat /\ cc \in Nat /\ hc + C <= cc /\ x = ct + hc + low /\ y = hc + low
          /\ low \in Nat /\ low < C
      BY <1>7, <2>4, <2>5, <3>1, <3>2
    <3> HIDE DEF hc, ct, cc, x, y
    <3>4. x = ct + y /\ y \in Nat /\ y < cc
      BY ONLY <2>1, <3>3
    <3> QED BY <3>4 DEF ct, cc, W
  <2>7. t \in Nat
    BY <2>3
  <2>8. W \in Nat \ {0}
    BY <1>0
  <2> HIDE DEF x, y
  <2>9. x % W = y
    BY ONLY <2>6, <2>7, <2>8, DivUnique
  <2> QED BY <2>9 DEF x, y
<1>9. TwoWords(c, l) = high * C + low
  BY DEF TwoWords
<1>10. (c + L) % W = CountOf(n + l)
  BY CountAdd
<1> HIDE DEF high, low, L, c, W, C
<1>11. TwoWords(c, l) = CountOf(n + l)
  BY ONLY <1>8, <1>9, <1>10
<1> QED BY <1>11 DEF c

----------------------------------------------------------------------------
(* Sequences of whatever it may be. *)
IsSeq(s) == \E B : s \in Seq(B)

LEMMA FunIsSeq ==
  ASSUME NEW n \in Nat, NEW f, f = [i \in 1 .. n |-> f[i]]
  PROVE  IsSeq(f) /\ Len(f) = n
<1> DEFINE B == {f[i] : i \in 1 .. n}
<1>1. f \in [1 .. n -> B]
  OBVIOUS
<1>2. f \in Seq(B)
  BY <1>1
<1>3. Len(f) = n
  <2>1. DOMAIN f = 1 .. n /\ DOMAIN f = 1 .. Len(f) /\ Len(f) \in Nat
    BY <1>1, <1>2, LenProperties
  <2> QED BY <2>1
<1> QED BY <1>2, <1>3 DEF IsSeq

LEMMA SeqLen ==
  ASSUME NEW s, IsSeq(s)
  PROVE  Len(s) \in Nat /\ s = [i \in 1 .. Len(s) |-> s[i]]
<1>1. PICK B : s \in Seq(B)
  BY DEF IsSeq
<1>2. Len(s) \in Nat /\ s \in [1 .. Len(s) -> B]
  BY <1>1, LenProperties
<1> QED BY <1>2

LEMMA SeqEq ==
  ASSUME NEW s, NEW t, IsSeq(s), IsSeq(t), Len(s) = Len(t),
         \A i \in 1 .. Len(s) : s[i] = t[i]
  PROVE  s = t
<1> DEFINE n == Len(s)
<1>1. s = [i \in 1 .. n |-> s[i]] /\ t = [i \in 1 .. n |-> t[i]]
  BY SeqLen
<1>2. \A i \in 1 .. n : s[i] = t[i]
  OBVIOUS
<1> HIDE DEF n
<1>3. [i \in 1 .. n |-> s[i]] = [i \in 1 .. n |-> t[i]]
  BY ONLY <1>2
<1> QED BY ONLY <1>1, <1>3

LEMMA SeqCat ==
  ASSUME NEW s, NEW t, IsSeq(s), IsSeq(t)
  PROVE  /\ IsSeq(s \o t) /\ Len(s \o t) = Len(s) + Len(t)
         /\ \A i \in 1 .. Len(s) : (s \o t)[i] = s[i]
         /\ \A i \in 1 .. Len(t) : (s \o t)[Len(s) + i] = t[i]
<1>1. PICK B : s \in Seq(B)
  BY DEF IsSeq
<1>2. PICK D : t \in Seq(D)
  BY DEF IsSeq
<1> DEFINE E == B \cup D
<1>3. s \in Seq(E) /\ t \in Seq(E)
  BY <1>1, <1>2
<1> HIDE DEF E
<1>4. s \o t \in Seq(E) /\ Len(s \o t) = Len(s) + Len(t) /\ Len(s) \in Nat /\ Len(t) \in Nat
  BY <1>3
<1>5. \A i \in 1 .. Len(s) : (s \o t)[i] = s[i]
  BY <1>3, <1>4
<1>6. \A i \in 1 .. Len(t) : (s \o t)[Len(s) + i] = t[i]
  BY <1>3, <1>4
<1> QED BY <1>4, <1>5, <1>6 DEF IsSeq

LEMMA SeqSub ==
  ASSUME NEW s, IsSeq(s), NEW a \in Nat, NEW b \in Nat, a <= b, b <= Len(s)
  PROVE  /\ IsSeq(SubSeq(s, a + 1, b)) /\ Len(SubSeq(s, a + 1, b)) = b - a
         /\ \A i \in 1 .. b - a : SubSeq(s, a + 1, b)[i] = s[a + i]
<1>1. PICK B : s \in Seq(B)
  BY DEF IsSeq
<1> DEFINE u == SubSeq(s, a + 1, b)
<1>2. Len(s) \in Nat
  BY <1>1
<1>3. u = [i \in 1 .. b - a |-> s[a + i]]
  <2>1. u = [i \in 1 .. (b - (a + 1) + 1) |-> s[i + (a + 1) - 1]]
    BY <1>1, SubSeqProperties
  <2>2. b - (a + 1) + 1 = b - a /\ \A i \in 1 .. b - a : i + (a + 1) - 1 = a + i
    OBVIOUS
  <2> HIDE DEF u
  <2> QED BY <2>1, <2>2
<1> HIDE DEF u
<1>4. u = [i \in 1 .. b - a |-> u[i]] /\ b - a \in Nat
  BY <1>3
<1>5. IsSeq(u) /\ Len(u) = b - a
  <2> DEFINE n == b - a
  <2>1. n \in Nat /\ u = [i \in 1 .. n |-> u[i]]
    BY <1>4
  <2> HIDE DEF n
  <2>2. IsSeq(u) /\ Len(u) = n
    BY ONLY <2>1, FunIsSeq
  <2> QED BY <2>2 DEF n
<1>6. \A i \in 1 .. b - a : u[i] = s[a + i]
  BY <1>3
<1> QED BY <1>5, <1>6 DEF u

(* The whole blocks of a message. *)
Blocks(m) == [i \in 1 .. Len(m) \div HBLK |-> SubSeq(m, (i - 1) * HBLK + 1, i * HBLK)]

BlockAt(m, k) == [j \in 1 .. HBLK |-> m[At(k) + j]]

LEMMA BlocksAre ==
  ASSUME NEW m, IsSeq(m)
  PROVE  Blocks(m) = [i \in 1 .. Full(Len(m)) |-> BlockAt(m, i - 1)]
<1>0. Len(m) \in Nat /\ HBLK \in Nat \ {0}
  BY SeqLen, HashConsts
<1> DEFINE q == Full(Len(m))
<1>1. q \in Nat /\ At(q) <= Len(m) /\ At(q) \in Nat
  <2>1. q \in Nat /\ Rest(Len(m)) \in Nat /\ Len(m) = At(q) + Rest(Len(m))
    BY <1>0, FullFacts
  <2>2. At(q) \in Nat
    BY <2>1, AtFacts
  <2> HIDE DEF q
  <2> QED BY <2>1, <2>2, <1>0
<1>2. ASSUME NEW i \in 1 .. q
      PROVE  SubSeq(m, (i - 1) * HBLK + 1, i * HBLK) = BlockAt(m, i - 1)
  <2> DEFINE a == At(i - 1)
             b == At(i)
             u == SubSeq(m, a + 1, b)
  <2>1. a \in Nat /\ b \in Nat /\ b = a + HBLK /\ b <= Len(m) /\ a <= b
    <3>1. i - 1 \in Nat /\ i \in Nat /\ i <= q /\ (i - 1) + 1 = i
      BY <1>1
    <3>2. a \in Nat /\ At((i - 1) + 1) = a + HBLK /\ At(i) <= At(q) /\ At(i) \in Nat
      BY <1>1, <3>1, AtFacts
    <3> QED BY <1>0, <1>1, <3>1, <3>2
  <2>2. (i - 1) * HBLK = a /\ i * HBLK = b
    BY DEF At
  <2> HIDE DEF a, b
  <2>3. IsSeq(u) /\ Len(u) = b - a /\ \A j \in 1 .. b - a : u[j] = m[a + j]
    BY <2>1, SeqSub
  <2>4. b - a = HBLK
    BY <1>0, <2>1
  <2>5. u = [j \in 1 .. HBLK |-> u[j]]
    BY <2>3, <2>4, SeqLen
  <2>6. u = [j \in 1 .. HBLK |-> m[a + j]]
    BY <2>3, <2>4, <2>5
  <2> QED BY <2>2, <2>6 DEF BlockAt, a
<1>3. Blocks(m) = [i \in 1 .. q |-> SubSeq(m, (i - 1) * HBLK + 1, i * HBLK)]
  BY DEF Blocks, Full
<1> HIDE DEF q
<1>4. Blocks(m) = [i \in 1 .. q |-> BlockAt(m, i - 1)]
  BY <1>2, <1>3
<1> QED BY <1>4 DEF q

LEMMA BlocksEq ==
  ASSUME NEW s, NEW m, IsSeq(s), IsSeq(m), Len(s) = Full(Len(m)),
         \A i \in 1 .. Len(s) : s[i] = BlockAt(m, i - 1)
  PROVE  s = Blocks(m)
<1> DEFINE n == Len(s)
<1>1. s = [i \in 1 .. n |-> s[i]] /\ Blocks(m) = [i \in 1 .. n |-> BlockAt(m, i - 1)]
  BY SeqLen, BlocksAre
<1>2. \A i \in 1 .. n : s[i] = BlockAt(m, i - 1)
  OBVIOUS
<1> HIDE DEF n
<1>3. [i \in 1 .. n |-> s[i]] = [i \in 1 .. n |-> BlockAt(m, i - 1)]
  BY ONLY <1>2
<1> QED BY ONLY <1>1, <1>3

LEMMA BlocksLen ==
  ASSUME NEW m, IsSeq(m)
  PROVE  /\ IsSeq(Blocks(m)) /\ Len(Blocks(m)) = Full(Len(m))
         /\ \A i \in 1 .. Full(Len(m)) : Blocks(m)[i] = BlockAt(m, i - 1)
<1> DEFINE n == Full(Len(m))
           f == Blocks(m)
<1>1. n \in Nat
  BY SeqLen, FullFacts
<1>2. f = [i \in 1 .. n |-> BlockAt(m, i - 1)]
  BY BlocksAre
<1> HIDE DEF n, f
<1>3. f = [i \in 1 .. n |-> f[i]]
  BY <1>2
<1>4. IsSeq(f) /\ Len(f) = n
  BY ONLY <1>1, <1>3, FunIsSeq
<1>5. \A i \in 1 .. n : f[i] = BlockAt(m, i - 1)
  BY ONLY <1>2
<1> QED BY <1>4, <1>5 DEF n, f

----------------------------------------------------------------------------
(* The buffer holds the bytes after the whole blocks. *)
HeldTo(buf, m, a, r) ==
  /\ buf = [i \in 1 .. HBLK |-> buf[i]]
  /\ \A i \in 1 .. r : buf[i] = m[a + i]
Held(buf, m) == HeldTo(buf, m, At(Full(Len(m))), Rest(Len(m)))

(* A context with the blocks of m, count, and a buffer with the rest of m.  *)
Absorbed(c, m, count) ==
  /\ c = [state |-> Blocks(m), count |-> count, buf |-> c.buf]
  /\ Held(c.buf, m)

Ctx(c, m) == IsSeq(m) /\ Absorbed(c, m, CountOf(Len(m)))

(* Positions in blocks. *)
LEMMA AtWithin ==
  ASSUME NEW q \in Nat, NEW k \in Nat, k < q, NEW j \in 1 .. HBLK
  PROVE  At(k) + j \in 1 .. At(q)
<1>1. k + 1 \in Nat /\ k + 1 <= q
  OBVIOUS
<1>2. At(k) \in Nat /\ At(k + 1) = At(k) + HBLK
  BY AtFacts
<1>3. At(k + 1) <= At(q) /\ At(q) \in Nat
  BY <1>1, AtFacts
<1>4. HBLK \in Nat
  BY HashConsts
<1> QED BY ONLY <1>2, <1>3, <1>4, j \in 1 .. HBLK

LEMMA SplitLess ==
  ASSUME NEW n \in Nat, NEW l \in Nat, Rest(n) + l < HBLK
  PROVE  Full(n + l) = Full(n) /\ Rest(n + l) = Rest(n) + l
<1> DEFINE q == Full(n)
           r == Rest(n)
           a == At(q)
           x == r + l
           y == n + l
<1>1. q \in Nat /\ r \in Nat /\ n = a + r /\ a \in Nat /\ a = At(q)
  BY FullFacts, AtFacts
<1>2. x < HBLK
  OBVIOUS
<1> HIDE DEF q, r, a
<1>3. x \in Nat /\ y = a + x
  BY <1>1
<1> HIDE DEF x, y
<1>4. y = At(q) + x
  BY <1>1, <1>3
<1>5. q \in Nat
  BY <1>1
<1>6. x \in Nat
  BY <1>3
<1>7. Full(y) = q /\ Rest(y) = x
  BY ONLY <1>2, <1>4, <1>5, <1>6, FullUnique
<1> QED BY <1>7 DEF x, y, q, r

LEMMA SplitMore ==
  ASSUME NEW n \in Nat, NEW d \in Nat, NEW k, k = HBLK - Rest(n), NEW y, y = n + (k + d)
  PROVE  /\ Full(y) = (Full(n) + 1) + Full(d)
         /\ Rest(y) = Rest(d)
         /\ At(Full(n) + 1) = n + k /\ k \in Nat
<1> DEFINE q == Full(n)
           r == Rest(n)
           p == Full(d)
           e == Rest(d)
           x == (q + 1) + p
<1>0. HBLK \in Nat
  BY HashConsts
<1>1. q \in Nat /\ r \in Nat /\ r < HBLK /\ n = At(q) + r
  BY FullFacts
<1>2. p \in Nat /\ e \in Nat /\ e < HBLK /\ d = At(p) + e
  BY FullFacts
<1>3. k = HBLK - r
  OBVIOUS
<1> HIDE DEF q, r, p, e
<1>4. q + 1 \in Nat /\ x \in Nat
  BY <1>1, <1>2
<1>5. At(q) \in Nat /\ At(p) \in Nat /\ At(q + 1) = At(q) + HBLK
  BY <1>1, <1>2, AtFacts
<1>6. At(x) = At(q + 1) + At(p)
  BY <1>2, <1>4, AtFacts
<1>7. At(q + 1) = n + k /\ k \in Nat
  BY ONLY <1>0, <1>1, <1>3, <1>5
<1>8. y = At(x) + e
  <2> HIDE DEF x
  <2> QED BY ONLY <1>2, <1>5, <1>6, <1>7, n \in Nat, y = n + (k + d)
<1> HIDE DEF x
<1>9. e \in Nat /\ e < HBLK
  BY <1>2
<1>10. x \in Nat
  BY <1>4
<1>11. Full(y) = x /\ Rest(y) = e
  BY ONLY <1>8, <1>9, <1>10, FullUnique
<1> QED BY <1>7, <1>11 DEF x, q, r, p, e

(* What Put does. *)
IsPut(b, buf, r, l, src) ==
  /\ b = [i \in 1 .. HBLK |-> b[i]]
  /\ \A i \in 1 .. HBLK : i <= r => b[i] = buf[i]
  /\ \A i \in 1 .. HBLK : i > r + l => b[i] = buf[i]
  /\ \A i \in 1 .. l : r + i <= HBLK => b[r + i] = src[i]

LEMMA PutFacts ==
  ASSUME NEW buf, NEW r \in Nat, NEW src, NEW l \in Nat, Len(src) = l
  PROVE  IsPut(Put(buf, r, src), buf, r, l, src)
<1> DEFINE b == Put(buf, r, src)
<1>0. HBLK \in Nat
  BY HashConsts
<1>2. b = [i \in 1 .. HBLK |-> IF i \in r + 1 .. r + l THEN src[i - r] ELSE buf[i]]
  BY DEF Put
<1> HIDE DEF b
<1>3. ASSUME NEW i \in 1 .. l, r + i <= HBLK PROVE b[r + i] = src[i]
  <2>1. r + i \in 1 .. HBLK /\ r + i \in r + 1 .. r + l /\ (r + i) - r = i
    BY ONLY <1>0, <1>3, r \in Nat, l \in Nat
  <2> QED BY ONLY <1>2, <2>1
<1>4. ASSUME NEW i \in 1 .. HBLK, i <= r \/ i > r + l PROVE b[i] = buf[i]
  <2>1. i \notin r + 1 .. r + l
    BY ONLY <1>0, <1>4, r \in Nat, l \in Nat
  <2> QED BY ONLY <1>2, <2>1, i \in 1 .. HBLK
<1>5. b = [i \in 1 .. HBLK |-> b[i]]
  BY ONLY <1>2
<1>6. IsPut(b, buf, r, l, src)
  BY ONLY <1>3, <1>4, <1>5 DEF IsPut
<1> QED BY <1>6 DEF b

(* r bytes were in the buffer, and l bytes are put after them. *)
LEMMA PutHolds ==
  ASSUME NEW buf, NEW src, NEW all, NEW a \in Nat, NEW r \in Nat, NEW l \in Nat, r + l <= HBLK,
         Len(src) = l, NEW b, b = Put(buf, r, src),
         \A i \in 1 .. r : buf[i] = all[a + i],
         \A i \in 1 .. l : src[i] = all[a + (r + i)]
  PROVE  HeldTo(b, all, a, r + l)
<1>0. HBLK \in Nat
  BY HashConsts
<1>1. /\ b = [i \in 1 .. HBLK |-> b[i]]
      /\ \A i \in 1 .. HBLK : i <= r => b[i] = buf[i]
      /\ \A i \in 1 .. l : r + i <= HBLK => b[r + i] = src[i]
  <2>1. IsPut(Put(buf, r, src), buf, r, l, src)
    BY ONLY r \in Nat, l \in Nat, Len(src) = l, PutFacts
  <2>2. IsPut(b, buf, r, l, src)
    BY ONLY <2>1, b = Put(buf, r, src)
  <2> QED BY ONLY <2>2 DEF IsPut
<1>2. ASSUME NEW i \in 1 .. r + l PROVE b[i] = all[a + i]
  <2>1. CASE i <= r
    <3>1. i \in 1 .. HBLK /\ i \in 1 .. r
      BY ONLY <1>0, <2>1, i \in 1 .. r + l, r \in Nat, l \in Nat, r + l <= HBLK
    <3> QED BY <1>1, <2>1, <3>1
  <2>2. CASE i > r
    <3> DEFINE j == i - r
    <3>1. j \in 1 .. l /\ r + j <= HBLK /\ r + j = i
      BY ONLY <1>0, <2>2, i \in 1 .. r + l, r \in Nat, l \in Nat, r + l <= HBLK
    <3> HIDE DEF j
    <3>2. b[r + j] = src[j] /\ src[j] = all[a + (r + j)]
      BY <1>1, <3>1
    <3> QED BY ONLY <3>1, <3>2
  <2>3. i \in Int /\ r \in Int
    BY r \in Nat, l \in Nat
  <2> QED BY ONLY <2>1, <2>2, <2>3
<1> QED BY ONLY <1>1, <1>2 DEF HeldTo

(* A block of which both sequences have the bytes. *)
LEMMA BlockSame ==
  ASSUME NEW m, NEW all, NEW q \in Nat, NEW k \in Nat, k < q,
         \A i \in 1 .. At(q) : all[i] = m[i]
  PROVE  BlockAt(all, k) = BlockAt(m, k)
<1>1. \A j \in 1 .. HBLK : At(k) + j \in 1 .. At(q)
  BY AtWithin
<1>2. \A j \in 1 .. HBLK : all[At(k) + j] = m[At(k) + j]
  BY <1>1
<1> QED BY ONLY <1>2 DEF BlockAt

Moved(rest, all, a, n) == \A i \in 1 .. n : rest[i] = all[a + i]

LEMMA BlockMoved ==
  ASSUME NEW rest, NEW all, NEW q \in Nat, NEW p \in Nat, NEW k \in Nat, k < p,
         Moved(rest, all, At(q), At(p))
  PROVE  BlockAt(rest, k) = BlockAt(all, q + k)
<1>1. \A j \in 1 .. HBLK : At(k) + j \in 1 .. At(p)
  BY AtWithin
<1>2. At(q + k) = At(q) + At(k) /\ At(q) \in Nat /\ At(k) \in Nat /\ HBLK \in Nat
  BY AtFacts, HashConsts
<1>3. ASSUME NEW j \in 1 .. HBLK PROVE rest[At(k) + j] = all[At(q + k) + j]
  <2>1. At(q) + (At(k) + j) = At(q + k) + j
    BY ONLY <1>2, j \in 1 .. HBLK
  <2> QED BY <1>1, <2>1 DEF Moved
<1> QED BY ONLY <1>3 DEF BlockAt

(* A concatenation and a part of a sequence. *)
IsCat(c, s, t) ==
  /\ IsSeq(c) /\ Len(c) = Len(s) + Len(t)
  /\ \A i \in 1 .. Len(s) : c[i] = s[i]
  /\ \A i \in 1 .. Len(t) : c[Len(s) + i] = t[i]

LEMMA CatIs ==
  ASSUME NEW s, NEW t, IsSeq(s), IsSeq(t)
  PROVE  IsCat(s \o t, s, t)
BY SeqCat DEF IsCat

IsSub(u, s, a, b) ==
  /\ IsSeq(u) /\ Len(u) = b - a
  /\ \A i \in 1 .. b - a : u[i] = s[a + i]

LEMMA SubIs ==
  ASSUME NEW s, IsSeq(s), NEW a \in Nat, NEW b \in Nat, a <= b, b <= Len(s)
  PROVE  IsSub(SubSeq(s, a + 1, b), s, a, b)
BY SeqSub DEF IsSub

(* The source does not fill the buffer. *)
LEMMA AbsorbLess ==
  ASSUME NEW m, NEW src, NEW all, IsSeq(m), IsSeq(src), IsCat(all, m, src),
         NEW buf, Held(buf, m), NEW r, r = Rest(Len(m)), Len(src) < HBLK - r
  PROVE  Blocks(all) = Blocks(m) /\ Held(Put(buf, r, src), all)
<1> DEFINE n == Len(m)
           l == Len(src)
           q == Full(n)
           a == At(q)
           b == Put(buf, r, src)
<1>0. HBLK \in Nat \ {0}
  BY HashConsts
<1>1. n \in Nat /\ l \in Nat
  BY SeqLen
<1>2. q \in Nat /\ r \in Nat /\ n = a + r /\ a \in Nat /\ a = At(q)
  BY <1>1, FullFacts, AtFacts
<1>3. IsSeq(all) /\ Len(all) = n + l /\ (\A i \in 1 .. n : all[i] = m[i]) /\ \A i \in 1 .. l : all[n + i] = src[i]
  BY DEF IsCat
<1>4. r + l < HBLK
  BY ONLY <1>0, <1>1, <1>2, Len(src) < HBLK - r
<1>5. Full(n + l) = q /\ Rest(n + l) = r + l
  <2>1. Rest(n) + l < HBLK
    BY <1>4
  <2> QED BY ONLY <1>1, <2>1, r = Rest(Len(m)), SplitLess
<1>6. HeldTo(buf, m, a, r)
  BY DEF Held
<1>7. IsSeq(Blocks(m)) /\ Len(Blocks(m)) = q /\ \A i \in 1 .. q : Blocks(m)[i] = BlockAt(m, i - 1)
  BY BlocksLen
<1>8. b = Put(buf, r, src) /\ Len(src) = l
  OBVIOUS
<1> HIDE DEF n, l, q, a, b
<1>9. Blocks(m) = Blocks(all)
  <2> DEFINE s == Blocks(m)
  <2>1. IsSeq(s) /\ Len(s) = q /\ \A i \in 1 .. q : s[i] = BlockAt(m, i - 1)
    BY <1>7
  <2>2. \A i \in 1 .. At(q) : all[i] = m[i]
    <3>1. \A i \in 1 .. a : i \in 1 .. n
      BY ONLY <1>1, <1>2
    <3> QED BY ONLY <1>2, <1>3, <3>1
  <2>3. ASSUME NEW i \in 1 .. q PROVE BlockAt(all, i - 1) = BlockAt(m, i - 1)
    <3> DEFINE k == i - 1
    <3>1. k \in Nat /\ k < q
      BY ONLY <1>2, i \in 1 .. q
    <3>2. q \in Nat
      BY <1>2
    <3> HIDE DEF k
    <3>3. BlockAt(all, k) = BlockAt(m, k)
      BY ONLY <2>2, <3>1, <3>2, BlockSame
    <3> QED BY <3>3 DEF k
  <2> HIDE DEF s
  <2>4. Len(s) = Full(Len(all)) /\ \A i \in 1 .. Len(s) : s[i] = BlockAt(all, i - 1)
    BY ONLY <1>3, <1>5, <2>1, <2>3
  <2>5. s = Blocks(all)
    BY ONLY <1>3, <2>1, <2>4, BlocksEq
  <2> QED BY <2>5 DEF s
<1>10. HeldTo(b, all, a, r + l)
  <2>1. ASSUME NEW i \in 1 .. r PROVE buf[i] = all[a + i]
    <3>1. a + i \in 1 .. n
      BY ONLY <1>1, <1>2, i \in 1 .. r
    <3>2. buf[i] = m[a + i]
      BY ONLY <1>6, i \in 1 .. r DEF HeldTo
    <3> QED BY ONLY <1>3, <3>1, <3>2
  <2>2. ASSUME NEW i \in 1 .. l PROVE src[i] = all[a + (r + i)]
    <3>1. n + i = a + (r + i)
      BY ONLY <1>1, <1>2, i \in 1 .. l
    <3> QED BY ONLY <1>3, <3>1, i \in 1 .. l
  <2>3. a \in Nat /\ r \in Nat /\ l \in Nat /\ r + l <= HBLK
    BY ONLY <1>0, <1>1, <1>2, <1>4
  <2> QED BY ONLY <1>8, <2>1, <2>2, <2>3, PutHolds
<1>11. Held(b, all)
  BY ONLY <1>2, <1>3, <1>5, <1>10 DEF Held
<1> QED BY <1>9, <1>11 DEF b

(* The source fills the buffer: the block in it, whole blocks, and the rest *)
(* of the source.                                                           *)
LEMMA AbsorbMore ==
  ASSUME NEW m, NEW src, NEW all, IsSeq(m), IsSeq(src), IsCat(all, m, src),
         NEW buf, Held(buf, m), NEW r, r = Rest(Len(m)), NEW k, k = HBLK - r, Len(src) >= k,
         NEW head, IsSub(head, src, 0, k),
         NEW rest, IsSub(rest, src, k, Len(src)),
         NEW tail, IsSub(tail, rest, At(Full(Len(rest))), Len(rest)),
         NEW first, first = Put(buf, r, head)
  PROVE  /\ Blocks(all) = Blocks(m) \o <<first>> \o Blocks(rest)
         /\ Held(Put(first, 0, tail), all)
<1> DEFINE n == Len(m)
           l == Len(src)
           q == Full(n)
           a == At(q)
           d == Len(rest)
           p == Full(d)
           e == Rest(d)
           b == Put(first, 0, tail)
           q1 == q + 1
<1>0. HBLK \in Nat \ {0}
  BY HashConsts
<1>1. n \in Nat /\ l \in Nat
  BY SeqLen
<1>2. q \in Nat /\ r \in Nat /\ r < HBLK /\ n = a + r /\ a \in Nat /\ a = At(q)
  BY <1>1, FullFacts, AtFacts
<1>3. IsSeq(all) /\ Len(all) = n + l /\ (\A i \in 1 .. n : all[i] = m[i]) /\ \A i \in 1 .. l : all[n + i] = src[i]
  BY DEF IsCat
<1>4. k \in Nat /\ k <= l /\ r + k = HBLK
  BY ONLY <1>0, <1>1, <1>2, k = HBLK - r, Len(src) >= k
<1>5. IsSeq(rest) /\ d = l - k /\ \A i \in 1 .. l - k : rest[i] = src[k + i]
  BY DEF IsSub
<1>6. d \in Nat /\ l = k + d /\ n + l = n + (k + d)
  <2> HIDE DEF n, l, d
  <2> QED BY ONLY <1>1, <1>4, <1>5
<1>7. p \in Nat /\ e \in Nat /\ e < HBLK /\ d = At(p) + e /\ At(p) \in Nat
  BY <1>6, FullFacts, AtFacts
<1>8. Full(n + (k + d)) = q1 + p /\ Rest(n + (k + d)) = e /\ At(q1) = n + k
  <2>1. k = HBLK - Rest(n)
    OBVIOUS
  <2>2. n \in Nat
    BY <1>1
  <2>4. d \in Nat
    BY <1>6
  <2> DEFINE y == n + (k + d)
  <2>5. y = n + (k + d)
    OBVIOUS
  <2> HIDE DEF n, d, y
  <2>3. Full(y) = (Full(n) + 1) + Full(d) /\ Rest(y) = Rest(d) /\ At(Full(n) + 1) = n + k
    BY ONLY <2>1, <2>2, <2>4, <2>5, SplitMore
  <2> QED BY <2>3 DEF y
<1>9. HeldTo(buf, m, a, r)
  BY DEF Held
<1>10. IsSeq(Blocks(m)) /\ Len(Blocks(m)) = q /\ \A i \in 1 .. q : Blocks(m)[i] = BlockAt(m, i - 1)
  BY BlocksLen
<1>11. IsSeq(Blocks(rest)) /\ Len(Blocks(rest)) = p /\ \A i \in 1 .. p : Blocks(rest)[i] = BlockAt(rest, i - 1)
  BY <1>5, BlocksLen
<1>12. Len(head) = k /\ \A i \in 1 .. k : head[i] = src[i]
  <2>1. Len(head) = k - 0 /\ \A i \in 1 .. k - 0 : head[i] = src[0 + i]
    BY DEF IsSub
  <2>2. k - 0 = k /\ \A i \in 1 .. k : 0 + i = i
    BY ONLY <1>4
  <2> QED BY ONLY <2>1, <2>2
<1>13. Len(tail) = e /\ \A i \in 1 .. e : tail[i] = rest[At(p) + i]
  <2>1. Len(tail) = d - At(p) /\ \A i \in 1 .. d - At(p) : tail[i] = rest[At(p) + i]
    BY DEF IsSub
  <2> HIDE DEF d, p, e
  <2>2. d - At(p) = e
    BY ONLY <1>7
  <2> QED BY ONLY <2>1, <2>2
<1>14. b = Put(first, 0, tail) /\ q1 \in Nat
  BY <1>2
<1> HIDE DEF n, l, q, a, d, p, e, b
<1>15. first = BlockAt(all, q)
  <2>1. ASSUME NEW i \in 1 .. r PROVE buf[i] = all[a + i]
    <3>1. a + i \in 1 .. n
      BY ONLY <1>1, <1>2, i \in 1 .. r
    <3>2. buf[i] = m[a + i]
      BY ONLY <1>9, i \in 1 .. r DEF HeldTo
    <3> QED BY ONLY <1>3, <3>1, <3>2
  <2>2. ASSUME NEW i \in 1 .. k PROVE head[i] = all[a + (r + i)]
    <3>1. n + i = a + (r + i) /\ i \in 1 .. l
      BY ONLY <1>1, <1>2, <1>4, i \in 1 .. k
    <3> QED BY ONLY <1>3, <1>12, <3>1, i \in 1 .. k
  <2>3. a \in Nat /\ r \in Nat /\ k \in Nat /\ r + k <= HBLK
    BY ONLY <1>0, <1>2, <1>4
  <2>5. Len(head) = k
    BY <1>12
  <2>4. HeldTo(first, all, a, r + k)
    BY ONLY <2>5, <2>1, <2>2, <2>3, first = Put(buf, r, head), PutHolds
  <2> QED BY ONLY <1>2, <1>4, <2>4 DEF HeldTo, BlockAt
<1>16. \A i \in 1 .. d : rest[i] = all[At(q1) + i]
  <2> SUFFICES ASSUME NEW i \in 1 .. d PROVE rest[i] = all[At(q1) + i]
    OBVIOUS
  <2>1. k + i \in 1 .. l /\ n + (k + i) = At(q1) + i /\ i \in 1 .. l - k
    BY ONLY <1>1, <1>4, <1>5, <1>6, <1>8, i \in 1 .. d
  <2> QED BY ONLY <1>3, <1>5, <2>1
<1>17. ASSUME NEW i \in 1 .. p PROVE Blocks(rest)[i] = BlockAt(all, q1 + (i - 1))
  <2> DEFINE j == i - 1
  <2>1. j \in Nat /\ j < p
    BY ONLY <1>7, i \in 1 .. p
  <2>2. Moved(rest, all, At(q1), At(p))
    <3>1. \A x \in 1 .. At(p) : x \in 1 .. d
      BY ONLY <1>7
    <3> QED BY ONLY <1>16, <3>1 DEF Moved
  <2>4. q1 \in Nat /\ p \in Nat
    BY <1>7, <1>14
  <2> HIDE DEF j, q1
  <2>3. BlockAt(rest, j) = BlockAt(all, q1 + j)
    BY ONLY <2>1, <2>2, <2>4, BlockMoved
  <2> QED BY <1>11, <2>3 DEF j
<1>18. ASSUME NEW i \in 1 .. q PROVE BlockAt(all, i - 1) = BlockAt(m, i - 1)
  <2> DEFINE j == i - 1
  <2>1. j \in Nat /\ j < q /\ q \in Nat
    BY ONLY <1>2, i \in 1 .. q
  <2>2. \A x \in 1 .. At(q) : all[x] = m[x]
    <3>1. \A x \in 1 .. a : x \in 1 .. n
      BY ONLY <1>1, <1>2
    <3> QED BY ONLY <1>2, <1>3, <3>1
  <2> HIDE DEF j
  <2>3. BlockAt(all, j) = BlockAt(m, j)
    BY ONLY <2>1, <2>2, BlockSame
  <2> QED BY <2>3 DEF j
<1>19. Blocks(all) = Blocks(m) \o <<first>> \o Blocks(rest)
  <2> DEFINE bm == Blocks(m)
             br == Blocks(rest)
             f1 == <<first>>
             s == bm \o f1
             t == s \o br
  <2>1. IsSeq(f1) /\ Len(f1) = 1 /\ f1[1] = first
    <3>1. f1 \in Seq({first})
      OBVIOUS
    <3> QED BY <3>1 DEF IsSeq
  <2>2. IsSeq(bm) /\ Len(bm) = q /\ \A i \in 1 .. q : bm[i] = BlockAt(all, i - 1)
    BY <1>10, <1>18
  <2>3. IsSeq(br) /\ Len(br) = p /\ \A i \in 1 .. p : br[i] = BlockAt(all, q1 + (i - 1))
    BY <1>11, <1>17
  <2> HIDE DEF f1, bm, br
  <2>4. IsCat(s, bm, f1)
    BY ONLY <2>1, <2>2, CatIs
  <2> HIDE DEF s
  <2>5. IsSeq(s)
    BY ONLY <2>4 DEF IsCat
  <2>6. IsCat(t, s, br)
    BY ONLY <2>3, <2>5, CatIs
  <2> HIDE DEF t
  <2>7. /\ Len(s) = q + 1
        /\ \A i \in 1 .. q : s[i] = BlockAt(all, i - 1)
        /\ \A i \in 1 .. 1 : s[q + i] = f1[i]
    BY ONLY <2>1, <2>2, <2>4 DEF IsCat
  <2>8. s[q + 1] = BlockAt(all, q)
    <3>1. 1 \in 1 .. 1
      OBVIOUS
    <3> QED BY ONLY <1>15, <2>1, <2>7, <3>1
  <2>9. /\ IsSeq(t) /\ Len(t) = q1 + p
        /\ \A i \in 1 .. q1 : t[i] = s[i]
        /\ \A i \in 1 .. p : t[q1 + i] = br[i]
    BY ONLY <2>3, <2>6, <2>7 DEF IsCat
  <2>10. ASSUME NEW i \in 1 .. Len(t) PROVE t[i] = BlockAt(all, i - 1)
    <3>1. CASE i <= q
      <4>1. i \in 1 .. q /\ i \in 1 .. q1
        BY ONLY <1>2, <1>7, <2>9, <3>1, i \in 1 .. Len(t)
      <4> QED BY ONLY <2>7, <2>9, <4>1
    <3>2. CASE i = q + 1
      <4>1. i \in 1 .. q1 /\ i - 1 = q
        BY ONLY <1>2, <3>2
      <4> QED BY ONLY <2>8, <2>9, <3>2, <4>1
    <3>3. CASE i > q + 1
      <4> DEFINE j == i - q1
      <4>1. j \in 1 .. p /\ q1 + j = i /\ q1 + (j - 1) = i - 1
        <5>1. Len(t) = (q + 1) + p
          BY <2>9
        <5> QED BY ONLY <1>2, <1>7, <5>1, <3>3, i \in 1 .. Len(t)
      <4> HIDE DEF j
      <4> QED BY ONLY <2>3, <2>9, <4>1
    <3>4. i \in Int /\ q \in Int
      BY <1>2, <1>7, <2>9
    <3> QED BY ONLY <3>1, <3>2, <3>3, <3>4
  <2>11. Len(t) = Full(Len(all))
    BY ONLY <1>3, <1>6, <1>8, <2>9
  <2>12. t = Blocks(all)
    BY ONLY <1>3, <2>9, <2>10, <2>11, BlocksEq
  <2> QED BY <2>12 DEF t, s, f1, bm, br
<1>20. HeldTo(b, all, At(q1 + p), e)
  <2> DEFINE c == At(q1 + p)
  <2>1. c = At(q1) + At(p) /\ At(q1) \in Nat /\ c \in Nat
    <3> HIDE DEF q1
    <3>1. c = At(q1) + At(p) /\ At(q1) \in Nat
      BY <1>7, <1>14, AtFacts
    <3> QED BY <1>7, <3>1
  <2> HIDE DEF c
  <2>2. ASSUME NEW i \in 1 .. e PROVE tail[i] = all[c + (0 + i)]
    <3>1. At(p) + i \in 1 .. d /\ At(q1) + (At(p) + i) = c + (0 + i)
      BY ONLY <1>7, <2>1, i \in 1 .. e
    <3> QED BY ONLY <1>13, <1>16, <3>1, i \in 1 .. e
  <2>3. \A i \in 1 .. 0 : first[i] = all[c + i]
    OBVIOUS
  <2>4. 0 + e <= HBLK /\ 0 + e = e
    BY ONLY <1>0, <1>7
  <2>8. 0 \in Nat
    OBVIOUS
  <2>9. e \in Nat
    BY <1>7
  <2>10. c \in Nat
    BY <2>1
  <2>11. 0 + e <= HBLK
    BY <2>4
  <2>5. Len(tail) = e
    BY <1>13
  <2>7. b = Put(first, 0, tail)
    BY <1>14
  <2>6. HeldTo(b, all, c, 0 + e)
    BY ONLY <2>2, <2>3, <2>5, <2>7, <2>8, <2>9, <2>10, <2>11, PutHolds
  <2> QED BY <2>4, <2>6 DEF c
<1>21. Held(b, all)
  BY ONLY <1>3, <1>6, <1>8, <1>20 DEF Held
<1> QED BY <1>19, <1>21 DEF b

LEMMA AbsorbOK ==
  ASSUME NEW m, NEW src, NEW all, IsSeq(m), IsSeq(src), all = m \o src,
         NEW count, NEW c, Absorbed(c, m, count)
  PROVE  Absorbed(Absorb(c, Rest(Len(m)), src), all, count)
<1> DEFINE r == Rest(Len(m))
           k == HBLK - r
           l == Len(src)
           buf == c.buf
<1>9. c = [state |-> Blocks(m), count |-> count, buf |-> buf] /\ Held(buf, m)
  BY DEF Absorbed
<1> HIDE DEF buf
<1>10. ASSUME NEW d, NEW b, d = [state |-> Blocks(all), count |-> count, buf |-> b], Held(b, all)
       PROVE  Absorbed(d, all, count)
  <2>1. d.buf = b
    BY ONLY <1>10
  <2> QED BY ONLY <1>10, <2>1 DEF Absorbed
<1>0. HBLK \in Nat \ {0}
  BY HashConsts
<1>1. Len(m) \in Nat /\ l \in Nat
  BY SeqLen
<1>2. r \in Nat /\ r < HBLK
  BY <1>1, FullFacts
<1>3. IsCat(all, m, src)
  BY CatIs
<1>4. k \in Nat /\ k = HBLK - r /\ r = Rest(Len(m))
  BY ONLY <1>0, <1>2
<1> HIDE DEF k, r
<1>5. CASE l < k
  <2> DEFINE b == Put(buf, r, src)
  <2>1. Len(src) < HBLK - r
    BY <1>4, <1>5
  <2>2. Blocks(all) = Blocks(m) /\ Held(b, all)
    BY ONLY IsSeq(m), IsSeq(src), <1>9, <1>3, <1>4, <2>1, AbsorbLess
  <2>3. Absorb(c, r, src) = [c EXCEPT !.buf = Put(@, r, src)]
    BY <2>1 DEF Absorb
  <2>4. [c EXCEPT !.buf = Put(@, r, src)] = [state |-> Blocks(m), count |-> count, buf |-> b]
    <3> HIDE DEF b
    <3>1. [c EXCEPT !.buf = Put(@, r, src)] = [c EXCEPT !.buf = b]
      BY ONLY <1>9 DEF b
    <3> QED BY ONLY <1>9, <3>1
  <2> HIDE DEF b
  <2>5. Absorb(c, r, src) = [state |-> Blocks(all), count |-> count, buf |-> b]
    BY ONLY <2>2, <2>3, <2>4
  <2> QED BY ONLY <1>4, <2>2, <2>5, <1>10
<1>6. CASE ~(l < k)
  <2> DEFINE head == SubSeq(src, 1, k)
             rest == SubSeq(src, k + 1, l)
             n == Len(rest) \div HBLK
             z == n * HBLK
             tail == SubSeq(rest, z + 1, Len(rest))
             first == Put(buf, r, head)
             b == Put(first, 0, tail)
  <2>1. k <= l /\ Len(src) >= k
    BY ONLY <1>1, <1>4, <1>6
  <2>2. IsSub(rest, src, k, Len(src))
    BY <1>1, <1>4, <2>1, SubIs
  <2>3. IsSub(head, src, 0, k)
    <3>1. 0 \in Nat /\ 0 <= k /\ 0 + 1 = 1
      BY <1>4
    <3> QED BY <1>4, <2>1, <3>1, SubIs
  <2>4. IsSeq(rest) /\ Len(rest) \in Nat
    BY <2>2, SeqLen DEF IsSub
  <2>5. n = Full(Len(rest)) /\ z = At(Full(Len(rest)))
    BY DEF Full, At
  <2>6. IsSub(tail, rest, At(Full(Len(rest))), Len(rest))
    <3> HIDE DEF rest
    <3> DEFINE y == Len(rest)
               x == At(Full(y))
    <3>1. y \in Nat
      BY <2>4
    <3> HIDE DEF y
    <3>2. Full(y) \in Nat /\ Rest(y) \in Nat /\ y = x + Rest(y) /\ x \in Nat
      BY <3>1, FullFacts, AtFacts
    <3>3. x <= y
      <4> HIDE DEF x
      <4> QED BY ONLY <3>1, <3>2
    <3>4. IsSub(SubSeq(rest, x + 1, y), rest, x, y)
      <4>1. y <= Len(rest)
        BY <3>1 DEF y
      <4> HIDE DEF x
      <4> QED BY ONLY <2>4, <3>1, <3>2, <3>3, <4>1, SubIs
    <3> QED BY <2>5, <3>4 DEF y
  <2>7. Absorb(c, r, src) = [c EXCEPT !.state = @ \o <<first>> \o Blocks(rest), !.buf = b]
    <3>1. ~(Len(src) < HBLK - r)
      BY <1>4, <1>6
    <3> QED BY <1>4, <3>1 DEF Absorb, Blocks, k, buf
  <2>8. [c EXCEPT !.state = @ \o <<first>> \o Blocks(rest), !.buf = b]
        = [state |-> Blocks(m) \o <<first>> \o Blocks(rest), count |-> count, buf |-> b]
    <3> DEFINE s0 == Blocks(m)
               x == s0 \o <<first>> \o Blocks(rest)
    <3>1. c = [state |-> s0, count |-> count, buf |-> buf]
      BY <1>9
    <3> HIDE DEF first, rest, b, s0
    <3>2. c.state = s0
      BY ONLY <3>1
    <3>3. [c EXCEPT !.state = @ \o <<first>> \o Blocks(rest), !.buf = b] = [c EXCEPT !.state = x, !.buf = b]
      BY ONLY <3>2
    <3> HIDE DEF x
    <3> DEFINE c2 == [c EXCEPT !.state = x]
    <3>4. c2 = [state |-> x, count |-> count, buf |-> buf]
      BY ONLY <3>1
    <3>6. [c EXCEPT !.state = x, !.buf = b] = [c2 EXCEPT !.buf = b]
      BY ONLY <3>1
    <3> HIDE DEF c2
    <3>5. [c2 EXCEPT !.buf = b] = [state |-> x, count |-> count, buf |-> b]
      BY ONLY <3>4
    <3> QED BY ONLY <3>3, <3>5, <3>6 DEF x, s0
  <2>10. first = Put(buf, r, head)
    OBVIOUS
  <2> HIDE DEF head, rest, tail, first, n, z
  <2>9. Blocks(all) = Blocks(m) \o <<first>> \o Blocks(rest) /\ Held(b, all)
    BY ONLY IsSeq(m), IsSeq(src), <1>9, <1>3, <1>4, <2>1, <2>2, <2>3, <2>6, <2>10, AbsorbMore
  <2> HIDE DEF b
  <2>11. Absorb(c, r, src) = [state |-> Blocks(all), count |-> count, buf |-> b]
    BY ONLY <2>7, <2>8, <2>9
  <2> QED BY ONLY <1>4, <2>9, <2>11, <1>10
<1> QED BY ONLY <1>5, <1>6

Algs == {"sha256", "sha1", "md5"}

(* The three functions that absorb more of a message. *)
LEMMA UpdateOK ==
  ASSUME NEW h \in Algs, NEW c, NEW m, Ctx(c, m), NEW src, IsSeq(src)
  PROVE  Ctx(Update(h, c, src), m \o src)
<1> DEFINE all == m \o src
           n == Len(m)
           l == Len(src)
           count == CountOf(n + l)
           buf == c.buf
           c1 == [state |-> Blocks(m), count |-> count, buf |-> buf]
<1>1. IsSeq(m) /\ Held(buf, m) /\ c = [state |-> Blocks(m), count |-> CountOf(n), buf |-> buf]
  BY DEF Ctx, Absorbed
<1>2. n \in Nat /\ l \in Nat
  BY <1>1, SeqLen
<1>3. IsSeq(all) /\ Len(all) = n + l
  BY <1>1, SeqCat
<1>4. Buffered(c) = Rest(n)
  <2>1. c.count = CountOf(n)
    BY <1>1
  <2> HIDE DEF n
  <2> QED BY <1>2, <2>1, CountRest DEF Buffered
<1>5. Update(h, c, src) = Absorb(c1, Rest(n), src)
  <2>0. c.count = CountOf(n)
    BY <1>1
  <2>1. (CountOf(n) + l * BITS) % (CWORD * CWORD) = count /\ TwoWords(CountOf(n), l) = count
    <3> HIDE DEF n, l
    <3> QED BY <1>2, CountAdd, TwoWordsIs
  <2>2. [c EXCEPT !.count = count] = c1
    <3> HIDE DEF count, buf
    <3> QED BY ONLY <1>1
  <2>3. SHA256_Update(c, src) = Absorb(c1, Rest(n), src)
    BY <1>4, <2>0, <2>1, <2>2 DEF SHA256_Update
  <2>4. SHA1_Update(c, src) = Absorb(c1, Rest(n), src) /\ MD5_Update(c, src) = Absorb(c1, Rest(n), src)
    BY <1>4, <2>0, <2>1, <2>2 DEF SHA1_Update, MD5_Update
  <2> HIDE DEF c1, n
  <2> QED BY <2>3, <2>4 DEF Update, Algs
<1>6. Absorbed(Absorb(c1, Rest(n), src), all, count)
  <2>1. IsSeq(m)
    BY <1>1
  <2>2. all = m \o src
    OBVIOUS
  <2>3. Absorbed(c1, m, count)
    <3>1. c1.buf = buf
      OBVIOUS
    <3>2. c1 = [state |-> Blocks(m), count |-> count, buf |-> c1.buf] /\ Held(c1.buf, m)
      BY <1>1, <3>1
    <3> HIDE DEF c1, count
    <3> QED BY ONLY <3>2 DEF Absorbed
  <2> HIDE DEF count, c1, all
  <2> QED BY ONLY <2>1, <2>2, <2>3, IsSeq(src), AbsorbOK
<1> HIDE DEF all, c1, n, l
<1>9. Ctx(Update(h, c, src), all)
  BY ONLY <1>3, <1>5, <1>6 DEF Ctx
<1> QED BY <1>9 DEF all

LEMMA NewOK == Ctx(NewContext, <<>>)
<1> DEFINE m == <<>>
           b == [i \in 1 .. HBLK |-> Byte("m", 0, <<>>)]
<1>0. HBLK \in Nat \ {0} /\ BITS \in Nat \ {0} /\ CWORD \in Nat \ {0}
  BY HashConsts
<1>1. IsSeq(m) /\ Len(m) = 0
  <2>1. m \in Seq({})
    OBVIOUS
  <2> QED BY <2>1 DEF IsSeq
<1>2. Full(0) = 0 /\ Rest(0) = 0
  <2>1. 0 \in Nat /\ 0 < HBLK /\ 0 = At(0) + 0
    BY <1>0, AtFacts
  <2> QED BY ONLY <2>1, FullUnique
<1>3. Blocks(m) = <<>>
  <2> DEFINE e == <<>>
  <2>1. IsSeq(e) /\ Len(e) = Full(Len(m)) /\ \A i \in 1 .. Len(e) : e[i] = BlockAt(m, i - 1)
    BY <1>1, <1>2
  <2> HIDE DEF e, m
  <2>2. e = Blocks(m)
    BY ONLY <1>1, <2>1, BlocksEq
  <2> QED BY <2>2 DEF e
<1>4. CountOf(Len(m)) = 0
  <2> DEFINE W == CWORD * CWORD
  <2>1. W \in Nat \ {0}
    BY ONLY <1>0
  <2>2. Len(m) * BITS = 0
    BY <1>0, <1>1
  <2> HIDE DEF W
  <2>3. 0 % W = 0
    BY <2>1
  <2> QED BY <2>2, <2>3 DEF CountOf, W
<1>5. Held(b, m)
  BY <1>1, <1>2 DEF Held, HeldTo
<1>6. NewContext = [state |-> <<>>, count |-> 0, buf |-> b] /\ NewContext.buf = b
  BY DEF NewContext
<1> HIDE DEF b, m
<1>7. Ctx(NewContext, m)
  BY ONLY <1>1, <1>3, <1>4, <1>5, <1>6 DEF Ctx, Absorbed
<1> QED BY <1>7 DEF m

(* The padding. *)
LEMMA CatOne ==
  ASSUME NEW s, IsSeq(s), NEW x
  PROVE  s \o <<x>> \o <<>> = Append(s, x)
<1>1. PICK B : s \in Seq(B)
  BY DEF IsSeq
<1> DEFINE C == B \cup {x}
<1>2. s \in Seq(C) /\ <<x>> \in Seq(C)
  BY <1>1
<1>3. s \o <<x>> \in Seq(C)
  BY <1>2
<1>4. s \o <<x>> = Append(s, x)
  BY <1>2
<1> QED BY <1>3, <1>4

LEMMA NoBlocks ==
  ASSUME NEW s, IsSeq(s), Len(s) < HBLK
  PROVE  Blocks(s) = <<>> /\ Full(Len(s)) = 0 /\ Rest(Len(s)) = Len(s)
<1> DEFINE n == Len(s)
           e == <<>>
<1>1. n \in Nat /\ HBLK \in Nat \ {0} /\ n < HBLK
  BY SeqLen, HashConsts
<1> HIDE DEF n
<1>2. n = At(0) + n
  BY ONLY <1>1, AtFacts
<1>3. Full(n) = 0 /\ Rest(n) = n
  <2>1. 0 \in Nat
    OBVIOUS
  <2> QED BY ONLY <1>1, <1>2, <2>1, FullUnique
<1>4. IsSeq(e) /\ Len(e) = Full(Len(s)) /\ \A i \in 1 .. Len(e) : e[i] = BlockAt(s, i - 1)
  <2>1. e \in Seq({})
    OBVIOUS
  <2> QED BY <1>3, <2>1 DEF IsSeq, n
<1> HIDE DEF e
<1>5. e = Blocks(s)
  BY ONLY IsSeq(s), <1>4, BlocksEq
<1> QED BY <1>3, <1>5 DEF e, n

LEMMA SubSelf ==
  ASSUME NEW s, IsSeq(s)
  PROVE  IsSub(s, s, 0, Len(s))
<1>1. Len(s) \in Nat
  BY SeqLen
<1> DEFINE n == Len(s)
<1> HIDE DEF n
<1>2. n \in Nat
  BY <1>1 DEF n
<1>3. n = n - 0 /\ \A i \in 1 .. n - 0 : s[i] = s[0 + i]
  BY ONLY <1>2
<1> QED BY ONLY <1>3, IsSeq(s) DEF IsSub, n

LEMMA CountBytesSeq ==
  ASSUME NEW x
  PROVE  IsSeq(CountBytes(x)) /\ Len(CountBytes(x)) = CNT
<1> DEFINE f == CountBytes(x)
<1>1. f = [i \in 1 .. CNT |-> f[i]]
  BY DEF CountBytes
<1>2. CNT \in Nat
  BY HashConsts
<1> HIDE DEF f
<1>3. IsSeq(f) /\ Len(f) = CNT
  BY ONLY <1>1, <1>2, FunIsSeq
<1> QED BY <1>3 DEF f

(* The count completes a block. *)
LEMMA LastBlock ==
  ASSUME NEW p, IsSeq(p), Rest(Len(p)) = HBLK - CNT, NEW b, Held(b, p), NEW x
  PROVE  Blocks(p \o CountBytes(x)) = Append(Blocks(p), Put(b, HBLK - CNT, CountBytes(x)))
<1> DEFINE src == CountBytes(x)
           all == p \o src
           r == HBLK - CNT
           e == <<>>
           first == Put(b, r, src)
<1>0. HBLK \in Nat \ {0} /\ CNT \in Nat \ {0} /\ CNT < HBLK
  BY HashConsts
<1>1. IsSeq(src) /\ Len(src) = CNT
  BY CountBytesSeq
<1>2. IsSeq(e) /\ Len(e) = 0
  <2>1. e \in Seq({})
    OBVIOUS
  <2> QED BY <2>1 DEF IsSeq
<1> HIDE DEF src, e
<1>3. IsCat(all, p, src)
  BY ONLY IsSeq(p), <1>1, CatIs
<1>4. r = Rest(Len(p)) /\ CNT = HBLK - r /\ Len(src) >= CNT
  BY ONLY Rest(Len(p)) = HBLK - CNT, <1>0, <1>1
<1>5. IsSub(src, src, 0, CNT)
  BY ONLY <1>1, SubSelf
<1>6. IsSub(e, src, CNT, Len(src))
  <2>1. Len(src) - CNT = 0
    BY ONLY <1>0, <1>1
  <2> QED BY ONLY <1>2, <2>1 DEF IsSub
<1>7. Blocks(e) = <<>> /\ Full(Len(e)) = 0
  <2>1. Len(e) < HBLK
    BY ONLY <1>0, <1>2
  <2> QED BY ONLY <1>2, <2>1, NoBlocks
<1>8. IsSub(e, e, At(Full(Len(e))), Len(e))
  BY ONLY <1>2, <1>7, AtFacts, SubSelf
<1>9. first = Put(b, r, src)
  OBVIOUS
<1> HIDE DEF first, all, r
<1>10. Blocks(all) = Blocks(p) \o <<first>> \o Blocks(e)
  BY ONLY IsSeq(p), Held(b, p), <1>1, <1>3, <1>4, <1>5, <1>6, <1>8, <1>9, AbsorbMore
<1>11. Blocks(all) = Append(Blocks(p), first)
  <2>1. IsSeq(Blocks(p))
    BY ONLY IsSeq(p), BlocksLen
  <2> QED BY ONLY <1>7, <1>10, <2>1, CatOne
<1> QED BY <1>11 DEF first, all, r, src

Zeros(n) == (2 * HBLK - CNT - 1 - (n % HBLK)) % HBLK
PadOf(n) == SubSeq(PAD, 1, 1 + Zeros(n))
Padded(m) == m \o PadOf(Len(m)) \o CountBytes(CountOf(Len(m)))

LEMMA HashOfIs ==
  ASSUME NEW m
  PROVE  HashOf(m) = Digest(Blocks(Padded(m)))
BY DEF HashOf, Blocks, Padded, PadOf, Zeros, CountOf

LEMMA PadLen ==
  ASSUME NEW n \in Nat, NEW r, r = Rest(n)
  PROVE  /\ PadLength(r) = 1 + Zeros(n) /\ PadLength(r) \in 1 .. HBLK
         /\ r < HBLK - CNT => PadLength(r) = HBLK - CNT - r
         /\ ~(r < HBLK - CNT) => PadLength(r) = (HBLK - r) + (HBLK - CNT)
         /\ Rest(n + PadLength(r)) = HBLK - CNT
<1> DEFINE x == 2 * HBLK - CNT - 1 - r
           P == PadLength(r)
           d == HBLK - CNT
<1>0. HBLK \in Nat \ {0} /\ CNT \in Nat \ {0} /\ CNT < HBLK
  BY HashConsts
<1>1. r \in Nat /\ r < HBLK
  BY FullFacts
<1>2. Zeros(n) = Rest(x)
  BY DEF Zeros, Rest
<1>3. At(0) = 0 /\ At(1) = HBLK
  BY <1>0 DEF At
<1>4. d \in Nat /\ d < HBLK /\ d > 0
  BY ONLY <1>0
<1>5. CASE r < d
  <2> DEFINE y == d - r - 1
  <2>1. P = d - r
    BY <1>5 DEF PadLength
  <2>2. y \in Nat /\ y < HBLK /\ x = At(1) + y /\ 1 \in Nat
    BY ONLY <1>0, <1>1, <1>3, <1>5
  <2>3. Rest(x) = y
    BY ONLY <2>2, FullUnique
  <2>4. P = 1 + Zeros(n) /\ P \in 1 .. HBLK /\ P \in Nat /\ r + P = d
    BY ONLY <1>0, <1>1, <1>2, <1>5, <2>1, <2>3
  <2>5. Rest(n + P) = d
    <3> HIDE DEF P, d
    <3>1. Rest(n) + P < HBLK
      BY ONLY <1>4, <2>4, r = Rest(n)
    <3> QED BY ONLY n \in Nat, <2>4, <3>1, r = Rest(n), SplitLess
  <2> QED BY ONLY <1>5, <2>1, <2>4, <2>5
<1>6. CASE ~(r < d)
  <2> DEFINE k == HBLK - r
  <2>1. P = k + d
    BY <1>0, <1>1, <1>6 DEF PadLength
  <2>2. x \in Nat /\ x < HBLK /\ x = At(0) + x /\ 0 \in Nat
    BY ONLY <1>0, <1>1, <1>3, <1>6
  <2>3. Rest(x) = x
    <3> HIDE DEF x
    <3> QED BY ONLY <2>2, FullUnique
  <2>4. P = 1 + Zeros(n) /\ P \in 1 .. HBLK
    BY ONLY <1>0, <1>1, <1>2, <1>6, <2>1, <2>3
  <2>5. Rest(n + (k + d)) = Rest(d)
    <3>1. k = HBLK - Rest(n)
      OBVIOUS
    <3>2. d \in Nat
      BY <1>4
    <3> HIDE DEF k, d
    <3> QED BY ONLY n \in Nat, <3>1, <3>2, SplitMore
  <2>6. Rest(d) = d
    <3>1. d = At(0) + d /\ 0 \in Nat
      BY ONLY <1>3, <1>4
    <3> HIDE DEF d
    <3> QED BY ONLY <1>4, <3>1, FullUnique
  <2> QED BY ONLY <1>6, <2>1, <2>4, <2>5, <2>6
<1> QED BY ONLY <1>5, <1>6

(* The first byte of PAD is 0x80, the others are zero. *)
LEMMA PadBytes ==
  /\ IsSeq(PAD) /\ Len(PAD) = HBLK
  /\ \A i \in 2 .. HBLK : PAD[i] = Byte("pad", 0, <<>>)
<1> DEFINE f == PAD
<1>1. HBLK \in Nat \ {0}
  BY HashConsts
<1>2. f = [i \in 1 .. HBLK |-> f[i]]
  BY DEF PAD
<1>3. \A i \in 2 .. HBLK : f[i] = Byte("pad", 0, <<>>)
  BY <1>1 DEF PAD
<1> HIDE DEF f
<1>4. IsSeq(f) /\ Len(f) = HBLK
  BY ONLY <1>1, <1>2, FunIsSeq
<1> QED BY <1>3, <1>4 DEF f

(* The beginning of PAD. *)
LEMMA PadSub ==
  ASSUME NEW l \in 0 .. HBLK
  PROVE  IsSub(SubSeq(PAD, 1, l), PAD, 0, l)
<1>1. 0 \in Nat /\ l \in Nat /\ 0 <= l /\ l <= Len(PAD) /\ 0 + 1 = 1
  BY HashConsts, PadBytes
<1>2. IsSub(SubSeq(PAD, 0 + 1, l), PAD, 0, l)
  BY ONLY <1>1, PadBytes, SubIs
<1> QED BY ONLY <1>1, <1>2

LEMMA SubHead ==
  ASSUME NEW u, NEW s, NEW l \in Nat, IsSub(u, s, 0, l)
  PROVE  IsSeq(u) /\ Len(u) = l /\ \A i \in 1 .. l : u[i] = s[i]
<1>1. IsSeq(u) /\ Len(u) = l - 0 /\ \A i \in 1 .. l - 0 : u[i] = s[0 + i]
  BY DEF IsSub
<1>2. l - 0 = l /\ \A i \in 1 .. l : 0 + i = i
  OBVIOUS
<1> QED BY ONLY <1>1, <1>2

(* SHA1 and MD5 pad by way of two updates. *)
LEMMA PadTwice ==
  ASSUME NEW h \in Algs, NEW c, NEW m, Ctx(c, m)
  PROVE  Update(h, Update(h, c, SubSeq(PAD, 1, PadLength(Buffered(c)))), CountBytes(c.count)).state
         = Blocks(Padded(m))
<1> DEFINE n == Len(m)
           pad == PadOf(n)
           cb == CountBytes(CountOf(n))
           c1 == Update(h, c, pad)
           c2 == Update(h, c1, cb)
<1>1. IsSeq(m) /\ c.count = CountOf(n)
  BY DEF Ctx, Absorbed
<1>2. n \in Nat
  BY <1>1, SeqLen
<1>3. Buffered(c) = Rest(n)
  <2> HIDE DEF n
  <2> QED BY <1>1, <1>2, CountRest DEF Buffered
<1>4. PadLength(Rest(n)) = 1 + Zeros(n) /\ PadLength(Rest(n)) \in 1 .. HBLK
  <2> HIDE DEF n
  <2> QED BY <1>2, PadLen
<1>5. pad = SubSeq(PAD, 1, PadLength(Buffered(c)))
  <2> HIDE DEF n
  <2> QED BY ONLY <1>3, <1>4 DEF PadOf
<1>6. IsSeq(pad)
  <2> DEFINE l == 1 + Zeros(n)
  <2>1. l \in 0 .. HBLK
    BY <1>4, HashConsts
  <2> HIDE DEF l, n
  <2>2. IsSeq(SubSeq(PAD, 1, l))
    BY <2>1, PadSub DEF IsSub
  <2> QED BY <2>2 DEF PadOf, l
<1>7. IsSeq(cb)
  BY CountBytesSeq
<1>8. Padded(m) = m \o pad \o cb
  BY DEF Padded
<1> HIDE DEF pad, cb
<1>9. Ctx(c1, m \o pad)
  BY <1>6, UpdateOK
<1> HIDE DEF c1
<1>10. Ctx(c2, m \o pad \o cb)
  BY <1>7, <1>9, UpdateOK
<1>11. c2.state = Blocks(Padded(m))
  <2> HIDE DEF c2
  <2> QED BY ONLY <1>8, <1>10 DEF Ctx, Absorbed
<1> QED BY <1>1, <1>5, <1>11 DEF c1, cb

(* A context with these three fields. *)
IsContext(c, s, k, b) == c = [state |-> s, count |-> k, buf |-> b]

LEMMA TransformIs ==
  ASSUME NEW c, NEW s, NEW k, NEW b, IsContext(c, s, k, b), NEW x
  PROVE  IsContext(Transform(c, x), Append(s, x), k, b)
<1> DEFINE y == Append(s, x)
<1>1. c = [state |-> s, count |-> k, buf |-> b]
  BY DEF IsContext
<1>2. Transform(c, x) = [c EXCEPT !.state = y]
  BY <1>1 DEF Transform
<1> HIDE DEF y
<1>3. [c EXCEPT !.state = y] = [state |-> y, count |-> k, buf |-> b]
  BY ONLY <1>1
<1> QED BY ONLY <1>2, <1>3 DEF y, IsContext

(* The padding and the count fit into the block. *)
LEMMA PadFits ==
  ASSUME NEW m, IsSeq(m), NEW buf, Held(buf, m), NEW r, r = Rest(Len(m)), r < HBLK - CNT
  PROVE  Blocks(Padded(m)) =
           Append(Blocks(m), Put(Put(buf, r, SubSeq(PAD, 1, HBLK - CNT - r)), HBLK - CNT,
                                 CountBytes(CountOf(Len(m)))))
<1> DEFINE n == Len(m)
           l == HBLK - CNT - r
           pad == SubSeq(PAD, 1, l)
           p == m \o pad
           b == Put(buf, r, pad)
           x == CountOf(n)
<1>0. HBLK \in Nat \ {0} /\ CNT \in Nat \ {0} /\ CNT < HBLK
  BY HashConsts
<1>1. n \in Nat
  BY SeqLen
<1>2. r \in Nat /\ r < HBLK
  BY <1>1, FullFacts
<1>3. l \in 0 .. HBLK /\ l \in Nat /\ l < HBLK - r
  BY ONLY <1>0, <1>2, r < HBLK - CNT
<1>4. l = 1 + Zeros(n) /\ Rest(n + l) = HBLK - CNT
  <2>1. r = Rest(n)
    OBVIOUS
  <2> HIDE DEF n
  <2> QED BY ONLY <1>1, <2>1, r < HBLK - CNT, PadLen
<1> HIDE DEF l
<1>5. IsSeq(pad) /\ Len(pad) = l
  <2>1. IsSub(pad, PAD, 0, l)
    BY ONLY <1>3, PadSub
  <2> QED BY ONLY <1>3, <2>1, SubHead
<1>6. Padded(m) = p \o CountBytes(x)
  BY <1>4 DEF Padded, PadOf
<1> HIDE DEF pad, x
<1>7. IsCat(p, m, pad)
  BY ONLY IsSeq(m), <1>5, CatIs
<1>8. IsSeq(p) /\ Len(p) = n + l
  BY ONLY <1>5, <1>7 DEF IsCat, n
<1> HIDE DEF p
<1>9. Blocks(p) = Blocks(m) /\ Held(b, p)
  <2>1. Len(pad) < HBLK - r
    BY ONLY <1>3, <1>5
  <2> QED BY ONLY IsSeq(m), Held(buf, m), r = Rest(Len(m)), <1>5, <1>7, <2>1, AbsorbLess
<1> HIDE DEF b, n
<1>10. Rest(Len(p)) = HBLK - CNT
  BY ONLY <1>4, <1>8
<1>11. Blocks(p \o CountBytes(x)) = Append(Blocks(p), Put(b, HBLK - CNT, CountBytes(x)))
  BY ONLY <1>8, <1>9, <1>10, LastBlock
<1> QED BY ONLY <1>6, <1>9, <1>11 DEF b, x, pad, l, n

(* They take another block. *)
LEMMA PadOverflows ==
  ASSUME NEW m, IsSeq(m), NEW buf, Held(buf, m), NEW r, r = Rest(Len(m)), ~(r < HBLK - CNT),
         NEW zeros, zeros = [i \in 1 .. HBLK - CNT |-> Byte("pad", 0, <<>>)],
         NEW full, full = Put(buf, r, SubSeq(PAD, 1, HBLK - r))
  PROVE  Blocks(Padded(m)) =
           Append(Append(Blocks(m), full),
                  Put(Put(full, 0, zeros), HBLK - CNT, CountBytes(CountOf(Len(m)))))
<1> DEFINE n == Len(m)
           d == HBLK - CNT
           k == HBLK - r
           l == k + d
           pad == SubSeq(PAD, 1, l)
           head == SubSeq(PAD, 1, k)
           p == m \o pad
           b == Put(full, 0, zeros)
           x == CountOf(n)
<1>0. HBLK \in Nat \ {0} /\ CNT \in Nat \ {0} /\ CNT < HBLK
  BY HashConsts
<1>1. n \in Nat
  BY SeqLen
<1>2. r \in Nat /\ r < HBLK
  BY <1>1, FullFacts
<1>3. k \in Nat \ {0} /\ d \in Nat /\ k \in 0 .. HBLK /\ l \in Nat /\ d < HBLK
  BY ONLY <1>0, <1>2
<1>4. l = 1 + Zeros(n) /\ Rest(n + l) = d /\ l \in 0 .. HBLK
  <2>1. r = Rest(n)
    OBVIOUS
  <2> HIDE DEF n
  <2>2. /\ PadLength(r) = 1 + Zeros(n) /\ PadLength(r) \in 1 .. HBLK
        /\ PadLength(r) = (HBLK - r) + (HBLK - CNT) /\ Rest(n + PadLength(r)) = HBLK - CNT
    BY ONLY <1>1, <2>1, ~(r < HBLK - CNT), PadLen
  <2> QED BY <2>2, <1>0
<1>5. k = HBLK - r
  OBVIOUS
<1>6. full = Put(buf, r, head)
  OBVIOUS
<1>20. zeros = [i \in 1 .. d |-> Byte("pad", 0, <<>>)]
  OBVIOUS
<1>21. l = k + d /\ d = HBLK - CNT
  OBVIOUS
<1> HIDE DEF l, k, d
<1>7. IsSub(pad, PAD, 0, l)
  BY ONLY <1>4, PadSub
<1>8. IsSub(head, PAD, 0, k)
  BY ONLY <1>3, PadSub
<1>9. Padded(m) = p \o CountBytes(x)
  BY <1>4 DEF Padded, PadOf
<1> HIDE DEF pad, x, head
<1>10. IsSeq(pad) /\ Len(pad) = l /\ \A i \in 1 .. l : pad[i] = PAD[i]
  BY ONLY <1>3, <1>7, SubHead
<1>11. IsSeq(head) /\ Len(head) = k /\ \A i \in 1 .. k : head[i] = PAD[i]
  BY ONLY <1>3, <1>8, SubHead
<1>12. IsCat(p, m, pad)
  BY ONLY IsSeq(m), <1>10, CatIs
<1>13. IsSeq(p) /\ Len(p) = n + l
  BY ONLY <1>10, <1>12 DEF IsCat, n
<1> HIDE DEF p
<1>14. IsSub(head, pad, 0, k)
  <2>1. Len(head) = k - 0 /\ \A i \in 1 .. k - 0 : head[i] = pad[0 + i]
    BY ONLY <1>3, <1>10, <1>11, <1>21
  <2> QED BY ONLY <1>11, <2>1 DEF IsSub
<1>15. IsSeq(zeros) /\ Len(zeros) = d /\ \A i \in 1 .. d : zeros[i] = Byte("pad", 0, <<>>)
  <2>1. zeros = [i \in 1 .. d |-> zeros[i]] /\ \A i \in 1 .. d : zeros[i] = Byte("pad", 0, <<>>)
    BY ONLY <1>20
  <2> QED BY ONLY <1>3, <2>1, FunIsSeq
<1>16. IsSub(zeros, pad, k, Len(pad))
  <2>1. Len(pad) - k = d
    BY ONLY <1>3, <1>10, <1>21
  <2>2. ASSUME NEW i \in 1 .. d PROVE zeros[i] = pad[k + i]
    <3>1. k + i \in 1 .. l /\ k + i \in 2 .. HBLK
      BY ONLY <1>0, <1>3, <1>4, <1>21, i \in 1 .. d
    <3> QED BY ONLY <1>10, <1>15, <3>1, PadBytes, i \in 1 .. d
  <2> QED BY ONLY <1>15, <2>1, <2>2 DEF IsSub
<1>17. Blocks(zeros) = <<>> /\ IsSub(zeros, zeros, At(Full(Len(zeros))), Len(zeros))
  <2>1. Len(zeros) < HBLK
    BY ONLY <1>3, <1>15
  <2>2. Blocks(zeros) = <<>> /\ Full(Len(zeros)) = 0
    BY ONLY <1>15, <2>1, NoBlocks
  <2> QED BY ONLY <1>15, <2>2, AtFacts, SubSelf
<1>18. Blocks(p) = Blocks(m) \o <<full>> \o Blocks(zeros) /\ Held(b, p)
  <2>1. Len(pad) >= k
    BY ONLY <1>3, <1>10, <1>21
  <2> QED BY ONLY IsSeq(m), Held(buf, m), r = Rest(Len(m)), <1>5, <1>6, <1>10, <1>12, <1>14, <1>16, <1>17, <2>1, AbsorbMore
<1> HIDE DEF b, n
<1>19. Blocks(p) = Append(Blocks(m), full)
  <2>1. IsSeq(Blocks(m))
    BY ONLY IsSeq(m), BlocksLen
  <2> QED BY ONLY <1>17, <1>18, <2>1, CatOne
<1>22. Rest(Len(p)) = HBLK - CNT
  BY ONLY <1>4, <1>13, <1>21
<1>23. Blocks(p \o CountBytes(x)) = Append(Blocks(p), Put(b, HBLK - CNT, CountBytes(x)))
  BY ONLY <1>13, <1>18, <1>22, LastBlock
<1> QED BY ONLY <1>9, <1>19, <1>23 DEF b, x, n

LEMMA PadDirectly ==
  ASSUME NEW c, NEW m, Ctx(c, m)
  PROVE  SHA256_Pad(c).state = Blocks(Padded(m))
<1> DEFINE n == Len(m)
           r == Rest(n)
           s == Blocks(m)
           cnt == CountOf(n)
           b == c.buf
           zeros == [i \in 1 .. HBLK - CNT |-> Byte("pad", 0, <<>>)]
           full == Put(b, r, SubSeq(PAD, 1, HBLK - r))
           one == Put(Put(b, r, SubSeq(PAD, 1, HBLK - CNT - r)), HBLK - CNT, CountBytes(cnt))
           two == Put(Put(full, 0, zeros), HBLK - CNT, CountBytes(cnt))
<1>1. IsSeq(m) /\ c = [state |-> s, count |-> cnt, buf |-> b] /\ Held(b, m)
  BY DEF Ctx, Absorbed
<1>2. n \in Nat
  BY <1>1, SeqLen
<1>3. c.count = cnt
  <2> HIDE DEF cnt, s, b
  <2> QED BY ONLY <1>1
<1>4. Buffered(c) = r
  <2> HIDE DEF n
  <2> QED BY <1>2, <1>3, CountRest DEF Buffered
<1>7. IsContext(c, s, cnt, b)
  BY <1>1 DEF IsContext
<1>5. CASE r < HBLK - CNT
  <2>1. SHA256_Pad(c) = Transform(c, one)
    BY <1>3, <1>4, <1>5 DEF SHA256_Pad
  <2>2. Blocks(Padded(m)) = Append(s, one)
    BY <1>1, <1>5, PadFits
  <2> HIDE DEF s, cnt, b, one
  <2>3. IsContext(Transform(c, one), Append(s, one), cnt, b)
    BY ONLY <1>7, TransformIs
  <2> QED BY <2>1, <2>2, <2>3 DEF IsContext
<1>6. CASE ~(r < HBLK - CNT)
  <2>1. SHA256_Pad(c) = Transform(Transform(c, full), two)
    BY <1>3, <1>4, <1>6 DEF SHA256_Pad
  <2>2. Blocks(Padded(m)) = Append(Append(s, full), two)
    BY <1>1, <1>6, PadOverflows
  <2> HIDE DEF s, cnt, b, full, two
  <2> DEFINE c1 == Transform(c, full)
  <2>3. IsContext(c1, Append(s, full), cnt, b)
    BY ONLY <1>7, TransformIs
  <2> HIDE DEF c1
  <2>4. IsContext(Transform(c1, two), Append(Append(s, full), two), cnt, b)
    BY ONLY <2>3, TransformIs
  <2> QED BY <2>1, <2>2, <2>4 DEF IsContext, c1
<1> QED BY <1>5, <1>6

(* Whatever the algorithm, a digest is that of the standards. *)
LEMMA FinalOK ==
  ASSUME NEW h \in Algs, NEW c, NEW m, Ctx(c, m)
  PROVE  Final(h, c) = HashOf(m)
<1>0. HashOf(m) = Digest(Blocks(Padded(m)))
  BY HashOfIs
<1>1. CASE h = "sha256"
  BY <1>0, <1>1, PadDirectly DEF Final, SHA256_Final
<1>2. CASE h = "sha1"
  <2>1. SHA1_Pad(c).state = Blocks(Padded(m))
    BY <1>2, PadTwice DEF Update, SHA1_Pad
  <2> QED BY <1>0, <1>2, <2>1 DEF Final, SHA1_Final
<1>3. CASE h = "md5"
  <2>1. MD5_Pad(c).state = Blocks(Padded(m))
    BY <1>3, PadTwice DEF Update, MD5_Pad
  <2> QED BY <1>0, <1>3, <2>1 DEF Final, MD5_Final
<1> QED BY <1>1, <1>2, <1>3 DEF Algs

(* HMAC. *)
LEMMA CatAssoc ==
  ASSUME NEW s, NEW t, NEW u, IsSeq(s), IsSeq(t), IsSeq(u)
  PROVE  (s \o t) \o u = s \o (t \o u)
<1>1. PICK A : s \in Seq(A)
  BY DEF IsSeq
<1>2. PICK B : t \in Seq(B)
  BY DEF IsSeq
<1>3. PICK C : u \in Seq(C)
  BY DEF IsSeq
<1> DEFINE D == A \cup B \cup C
<1>4. s \in Seq(D) /\ t \in Seq(D) /\ u \in Seq(D)
  BY <1>1, <1>2, <1>3
<1> QED BY <1>4, ConcatAssociative

LEMMA CatEmpty ==
  ASSUME NEW s, IsSeq(s)
  PROVE  s \o <<>> = s /\ <<>> \o s = s
<1>1. PICK B : s \in Seq(B)
  BY DEF IsSeq
<1> QED BY <1>1, ConcatEmptySeq

LEMMA DigestSeq ==
  ASSUME NEW m
  PROVE  IsSeq(HashOf(m)) /\ Len(HashOf(m)) = HLEN
<1> DEFINE b == Blocks(Padded(m))
           f == Digest(b)
<1>1. HashOf(m) = f
  BY HashOfIs
<1>2. f = [i \in 1 .. HLEN |-> f[i]]
  BY DEF Digest
<1>3. HLEN \in Nat
  BY HashConsts
<1> HIDE DEF f
<1>4. IsSeq(f) /\ Len(f) = HLEN
  BY ONLY <1>2, <1>3, FunIsSeq
<1> QED BY <1>1, <1>4

LEMMA XorSeq ==
  ASSUME NEW x, NEW K
  PROVE  IsSeq(Xor(x, K))
<1> DEFINE f == Xor(x, K)
<1>1. f = [i \in 1 .. HBLK |-> f[i]]
  BY DEF Xor
<1>2. HBLK \in Nat
  BY HashConsts
<1> HIDE DEF f
<1>3. IsSeq(f)
  BY ONLY <1>1, <1>2, FunIsSeq
<1> QED BY <1>3 DEF f

LEMMA StartOK ==
  ASSUME NEW h \in Algs, NEW src, IsSeq(src)
  PROVE  Ctx(Update(h, NewContext, src), src)
<1>1. Ctx(Update(h, NewContext, src), <<>> \o src)
  BY NewOK, UpdateOK
<1> QED BY <1>1, CatEmpty

(* The key that is used, and the context of HMAC for it after m. *)
KeyFor(K0) == IF Len(K0) > HBLK THEN HashOf(K0) ELSE K0
HmacCtx(c, K, m) ==
  /\ c = [ictx |-> c.ictx, octx |-> c.octx]
  /\ Ctx(c.ictx, Xor(54, K) \o m)
  /\ Ctx(c.octx, Xor(92, K))

LEMMA HmacInitOK ==
  ASSUME NEW h \in Algs, NEW K0, IsSeq(K0)
  PROVE  HmacCtx(HmacInit(h, K0), KeyFor(K0), <<>>)
<1> DEFINE K == KeyFor(K0)
           i == Update(h, NewContext, Xor(54, K))
           o == Update(h, NewContext, Xor(92, K))
           c == HmacInit(h, K0)
<1>1. Final(h, Update(h, NewContext, K0)) = HashOf(K0)
  BY StartOK, FinalOK
<1>2. c = [ictx |-> i, octx |-> o]
  BY <1>1 DEF HmacInit, KeyFor
<1>3. IsSeq(Xor(54, K)) /\ IsSeq(Xor(92, K))
  BY XorSeq
<1> HIDE DEF K
<1>4. Ctx(i, Xor(54, K) \o <<>>) /\ Ctx(o, Xor(92, K))
  <2>1. Ctx(i, Xor(54, K)) /\ Ctx(o, Xor(92, K))
    BY <1>3, StartOK
  <2>2. Xor(54, K) \o <<>> = Xor(54, K)
    BY ONLY <1>3, CatEmpty
  <2> QED BY ONLY <2>1, <2>2
<1> HIDE DEF i, o, c
<1>5. c.ictx = i /\ c.octx = o
  BY ONLY <1>2
<1>6. HmacCtx(c, K, <<>>)
  BY ONLY <1>2, <1>4, <1>5 DEF HmacCtx
<1> QED BY <1>6 DEF c, K

LEMMA HmacUpdateOK ==
  ASSUME NEW h \in Algs, NEW c, NEW K, NEW m, IsSeq(m), HmacCtx(c, K, m), NEW src, IsSeq(src)
  PROVE  HmacCtx(HmacUpdate(h, c, src), K, m \o src)
<1> DEFINE i == Update(h, c.ictx, src)
           o == c.octx
           X == Xor(54, K)
           d == HmacUpdate(h, c, src)
<1>1. c = [ictx |-> c.ictx, octx |-> o] /\ Ctx(c.ictx, X \o m) /\ Ctx(o, Xor(92, K))
  BY DEF HmacCtx
<1>2. IsSeq(X)
  BY XorSeq
<1>3. d = [c EXCEPT !.ictx = i]
  BY DEF HmacUpdate
<1> HIDE DEF X
<1>4. Ctx(i, (X \o m) \o src)
  BY <1>1, UpdateOK
<1>5. Ctx(i, X \o (m \o src))
  <2>1. (X \o m) \o src = X \o (m \o src)
    BY ONLY <1>2, IsSeq(m), IsSeq(src), CatAssoc
  <2> HIDE DEF i
  <2> QED BY ONLY <1>4, <2>1
<1> HIDE DEF i, o
<1>6. [c EXCEPT !.ictx = i] = [ictx |-> i, octx |-> o]
  BY ONLY <1>1
<1> HIDE DEF d
<1>7. d = [ictx |-> i, octx |-> o] /\ d.ictx = i /\ d.octx = o
  BY ONLY <1>3, <1>6
<1>8. HmacCtx(d, K, m \o src)
  BY ONLY <1>1, <1>5, <1>7 DEF HmacCtx, X
<1> QED BY <1>8 DEF d

LEMMA HmacFinalOK ==
  ASSUME NEW h \in Algs, NEW c, NEW K0, NEW m, HmacCtx(c, KeyFor(K0), m)
  PROVE  HmacFinal(h, c) = HmacOf(K0, m)
<1> DEFINE K == KeyFor(K0)
           inner == HashOf(Xor(54, K) \o m)
<1>1. Ctx(c.ictx, Xor(54, K) \o m) /\ Ctx(c.octx, Xor(92, K))
  BY DEF HmacCtx
<1>2. HmacOf(K0, m) = HashOf(Xor(92, K) \o inner)
  BY DEF HmacOf, KeyFor
<1> HIDE DEF K
<1>3. Final(h, c.ictx) = inner
  BY <1>1, FinalOK
<1>4. IsSeq(inner)
  BY DigestSeq
<1> HIDE DEF inner
<1>5. Ctx(Update(h, c.octx, inner), Xor(92, K) \o inner)
  BY <1>1, <1>4, UpdateOK
<1>6. Final(h, Update(h, c.octx, inner)) = HashOf(Xor(92, K) \o inner)
  BY <1>5, FinalOK
<1> QED BY <1>2, <1>3, <1>6 DEF HmacFinal

(* Pieces of a message. *)
LEMMA MessageSeq ==
  ASSUME NEW lo, NEW len \in Nat
  PROVE  IsSeq(Message(lo, len)) /\ Len(Message(lo, len)) = len
<1> DEFINE f == Message(lo, len)
<1>1. f = [i \in 1 .. len |-> f[i]]
  BY DEF Message
<1> HIDE DEF f
<1>2. IsSeq(f) /\ Len(f) = len
  BY ONLY <1>1, len \in Nat, FunIsSeq
<1> QED BY <1>2 DEF f

LEMMA KeySeq ==
  ASSUME NEW len \in Nat
  PROVE  IsSeq(KeyOf(len))
<1> DEFINE f == KeyOf(len)
<1>1. f = [i \in 1 .. len |-> f[i]]
  BY DEF KeyOf
<1> HIDE DEF f
<1>2. IsSeq(f)
  BY ONLY <1>1, len \in Nat, FunIsSeq
<1> QED BY <1>2 DEF f

LEMMA MessageCat ==
  ASSUME NEW f \in Nat, NEW l \in Nat
  PROVE  Message(0, f) \o Message(f, l) = Message(0, f + l)
<1> DEFINE s == Message(0, f)
           t == Message(f, l)
           u == Message(0, f + l)
           c == s \o t
<1>0. f + l \in Nat
  OBVIOUS
<1>1. IsSeq(s) /\ Len(s) = f /\ IsSeq(t) /\ Len(t) = l /\ IsSeq(u) /\ Len(u) = f + l
  BY <1>0, MessageSeq
<1>2. /\ \A i \in 1 .. f : s[i] = Byte("m", 0 + i, <<>>)
      /\ \A i \in 1 .. l : t[i] = Byte("m", f + i, <<>>)
      /\ \A i \in 1 .. f + l : u[i] = Byte("m", 0 + i, <<>>)
  BY DEF Message
<1> HIDE DEF s, t, u
<1>3. IsCat(c, s, t)
  BY ONLY <1>1, CatIs
<1> HIDE DEF c
<1>4. /\ IsSeq(c) /\ Len(c) = f + l
      /\ \A i \in 1 .. f : c[i] = s[i]
      /\ \A i \in 1 .. l : c[f + i] = t[i]
  BY ONLY <1>1, <1>3 DEF IsCat
<1>5. ASSUME NEW i \in 1 .. f + l PROVE c[i] = u[i]
  <2>1. CASE i <= f
    <3>1. i \in 1 .. f
      BY ONLY <2>1, f \in Nat, l \in Nat, i \in 1 .. f + l
    <3> QED BY ONLY <1>2, <1>4, <3>1, i \in 1 .. f + l
  <2>2. CASE i > f
    <3> DEFINE j == i - f
    <3>1. j \in 1 .. l /\ f + j = i /\ 0 + i = i
      BY ONLY <2>2, f \in Nat, l \in Nat, i \in 1 .. f + l
    <3> HIDE DEF j
    <3> QED BY ONLY <1>2, <1>4, <3>1, i \in 1 .. f + l
  <2> QED BY <2>1, <2>2
<1>6. c = u
  BY ONLY <1>1, <1>4, <1>5, SeqEq
<1> QED BY <1>6 DEF c, s, t, u

(* PBKDF2. *)
LEMMA INTSeq ==
  ASSUME NEW i
  PROVE  IsSeq(INT(i))
<1> DEFINE x == Byte("i", i, <<>>)
<1>1. <<x>> \in Seq({x})
  OBVIOUS
<1> QED BY <1>1 DEF INT, IsSeq

LEMMA FinalSeq ==
  ASSUME NEW c
  PROVE  IsSeq(HMAC_SHA256_Final(c))
<1> DEFINE d == SHA256_Pad(Update("sha256", c.octx, Final("sha256", c.ictx))).state
           f == Digest(d)
<1>1. HMAC_SHA256_Final(c) = f
  BY DEF HMAC_SHA256_Final, HmacFinal, Final, SHA256_Final
<1>2. f = [i \in 1 .. HLEN |-> f[i]]
  BY DEF Digest
<1>3. HLEN \in Nat
  BY HashConsts
<1> HIDE DEF f
<1>4. IsSeq(f)
  BY ONLY <1>2, <1>3, FunIsSeq
<1> QED BY <1>1, <1>4

(* HMAC-SHA256 of a message in one piece, after a context that was kept. *)
LEMMA HmacPiece ==
  ASSUME NEW c, NEW K0, NEW m, IsSeq(m), HmacCtx(c, KeyFor(K0), m), NEW src, IsSeq(src)
  PROVE  HMAC_SHA256_Final(HMAC_SHA256_Update(c, src)) = HmacOf(K0, m \o src)
<1>1. "sha256" \in Algs
  BY DEF Algs
<1> DEFINE h == "sha256"
<1> HIDE DEF h
<1>2. h \in Algs
  BY <1>1 DEF h
<1>3. HmacCtx(HmacUpdate(h, c, src), KeyFor(K0), m \o src)
  BY <1>2, HmacUpdateOK
<1>4. HmacFinal(h, HmacUpdate(h, c, src)) = HmacOf(K0, m \o src)
  BY <1>2, <1>3, HmacFinalOK
<1> QED BY <1>4 DEF h, HMAC_SHA256_Final, HMAC_SHA256_Update

LEMMA BlocksOfKey ==
  ASSUME NEW P, IsSeq(P), NEW S, IsSeq(S), NEW c \in Nat, NEW i,
         NEW Phctx, Phctx = HMAC_SHA256_Init(P),
         NEW PShctx, PShctx = HMAC_SHA256_Update(Phctx, S)
  PROVE  PBKDF2_U(Phctx, PShctx, c, i) = UOf(P, S, c, i)
<1> DEFINE A(u, j) == HMAC_SHA256_Final(IF j = 1 THEN HMAC_SHA256_Update(PShctx, INT(i))
                                        ELSE HMAC_SHA256_Update(Phctx, u[j - 1]))
           B(u, j) == HmacOf(P, IF j = 1 THEN S \o INT(i) ELSE u[j - 1])
           isA(u) == u = [j \in 1 .. c |-> A(u, j)]
           isB(u) == u = [j \in 1 .. c |-> B(u, j)]
<1>1. "sha256" \in Algs
  BY DEF Algs
<1>2. HmacCtx(Phctx, KeyFor(P), <<>>)
  BY <1>1, HmacInitOK DEF HMAC_SHA256_Init
<1>3. IsSeq(<<>>)
  <2>1. <<>> \in Seq({})
    OBVIOUS
  <2> QED BY ONLY <2>1 DEF IsSeq
<1>4. HmacCtx(PShctx, KeyFor(P), S)
  <2>1. HmacCtx(PShctx, KeyFor(P), <<>> \o S)
    BY <1>1, <1>2, <1>3, HmacUpdateOK DEF HMAC_SHA256_Update
  <2>2. <<>> \o S = S
    BY ONLY IsSeq(S), CatEmpty
  <2> QED BY ONLY <2>1, <2>2
<1>5. HMAC_SHA256_Final(HMAC_SHA256_Update(PShctx, INT(i))) = HmacOf(P, S \o INT(i))
  BY <1>4, INTSeq, HmacPiece
<1>6. ASSUME NEW x, IsSeq(x)
      PROVE  HMAC_SHA256_Final(HMAC_SHA256_Update(Phctx, x)) = HmacOf(P, x)
  <2>1. HMAC_SHA256_Final(HMAC_SHA256_Update(Phctx, x)) = HmacOf(P, <<>> \o x)
    <3> DEFINE e == <<>>
    <3>1. HmacCtx(Phctx, KeyFor(P), e) /\ IsSeq(e)
      BY <1>2, <1>3
    <3> HIDE DEF e
    <3>2. HMAC_SHA256_Final(HMAC_SHA256_Update(Phctx, x)) = HmacOf(P, e \o x)
      BY ONLY <3>1, <1>6, HmacPiece
    <3> QED BY <3>2 DEF e
  <2>2. <<>> \o x = x
    BY ONLY <1>6, CatEmpty
  <2> QED BY ONLY <2>1, <2>2
<1>7. ASSUME NEW u, \A j \in 1 .. c : IsSeq(u[j]), NEW j \in 1 .. c
      PROVE  A(u, j) = B(u, j)
  <2>1. CASE j = 1
    BY ONLY <1>5, <2>1
  <2>2. CASE j # 1
    <3>1. j - 1 \in 1 .. c
      BY ONLY <2>2, c \in Nat, j \in 1 .. c
    <3>2. IsSeq(u[j - 1])
      BY ONLY <1>7, <3>1
    <3>3. HMAC_SHA256_Final(HMAC_SHA256_Update(Phctx, u[j - 1])) = HmacOf(P, u[j - 1])
      BY ONLY <1>6, <3>2
    <3> QED BY ONLY <2>2, <3>3
  <2> QED BY <2>1, <2>2
<1>8. ASSUME NEW u, NEW j PROVE IsSeq(A(u, j)) /\ IsSeq(B(u, j))
  <2>1. IsSeq(A(u, j))
    BY FinalSeq
  <2>2. IsSeq(B(u, j))
    BY DigestSeq DEF HmacOf
  <2> QED BY <2>1, <2>2
<1>9. PBKDF2_U(Phctx, PShctx, c, i) = CHOOSE u : isA(u)
  BY DEF PBKDF2_U
<1>10. UOf(P, S, c, i) = CHOOSE u : isB(u)
  BY DEF UOf
<1> HIDE DEF A, B
<1>11. ASSUME NEW u PROVE isA(u) <=> isB(u)
  <2>1. ASSUME isA(u) PROVE isB(u)
    <3>1. \A j \in 1 .. c : u[j] = A(u, j)
      BY ONLY <2>1
    <3>2. \A j \in 1 .. c : IsSeq(u[j])
      BY ONLY <1>8, <3>1
    <3>3. \A j \in 1 .. c : A(u, j) = B(u, j)
      BY ONLY <1>7, <3>2
    <3> QED BY ONLY <2>1, <3>3
  <2>2. ASSUME isB(u) PROVE isA(u)
    <3>1. \A j \in 1 .. c : u[j] = B(u, j)
      BY ONLY <2>2
    <3>2. \A j \in 1 .. c : IsSeq(u[j])
      BY ONLY <1>8, <3>1
    <3>3. \A j \in 1 .. c : A(u, j) = B(u, j)
      BY ONLY <1>7, <3>2
    <3> QED BY ONLY <2>2, <3>3
  <2> QED BY <2>1, <2>2
<1> HIDE DEF isA, isB
<1>12. (CHOOSE u : isA(u)) = (CHOOSE u : isB(u))
  BY ONLY <1>11
<1> QED BY ONLY <1>9, <1>10, <1>12

(* The concatenation of digests, of which the last may be cut. *)
HAt(k) == k * HLEN

LEMMA HAtFacts ==
  /\ HAt(0) = 0
  /\ \A k \in Nat : HAt(k) \in Nat /\ HAt(k + 1) = HAt(k) + HLEN /\ k <= HAt(k)
  /\ \A j, k \in Nat : j <= k => HAt(j) <= HAt(k)
<1>0. HLEN \in Nat \ {0}
  BY HashConsts
<1>1. HAt(0) = 0
  BY <1>0 DEF HAt
<1>2. ASSUME NEW k \in Nat PROVE HAt(k) \in Nat /\ HAt(k + 1) = HAt(k) + HLEN /\ k <= HAt(k)
  BY <1>0 DEF HAt
<1>3. ASSUME NEW j \in Nat, NEW k \in Nat, j <= k PROVE HAt(j) <= HAt(k)
  BY <1>0, <1>3 DEF HAt
<1> QED BY <1>1, <1>2, <1>3

IsFlatten(f, s, n) == f = [i \in 1 .. n |-> IF i = 1 THEN s[i] ELSE f[i - 1] \o s[i]]

LEMMA FlattenExists ==
  ASSUME NEW s, NEW n \in Nat
  PROVE  \E f : IsFlatten(f, s, n)
<1> DEFINE T == {k \in Nat : ~ \E f : IsFlatten(f, s, k)}
<1> SUFFICES ASSUME T # {} PROVE FALSE
  OBVIOUS
<1>1. PICK t \in T : \A y \in T : t <= y
  BY LeastNat
<1>2. t \in Nat /\ ~ \E f : IsFlatten(f, s, t)
  OBVIOUS
<1>3. CASE t = 0
  <2> DEFINE f == [k \in 1 .. 0 |-> s]
  <2>1. IsFlatten(f, s, 0)
    BY DEF IsFlatten
  <2> QED BY <1>2, <1>3, <2>1
<1>4. CASE t # 0
  <2>1. t - 1 \in Nat /\ t - 1 \notin T
    BY <1>1, <1>2, <1>4
  <2>2. PICK g : IsFlatten(g, s, t - 1)
    BY <2>1
  <2> DEFINE f == [k \in 1 .. t |-> IF k = t THEN (IF t = 1 THEN s[t] ELSE g[t - 1] \o s[t]) ELSE g[k]]
  <2>3. \A k \in 1 .. t - 1 : f[k] = g[k] /\ k \in 1 .. t
    BY <1>2
  <2>4. ASSUME NEW k \in 1 .. t
        PROVE  f[k] = IF k = 1 THEN s[k] ELSE f[k - 1] \o s[k]
    <3>1. CASE k = t
      <4>1. t # 1 => f[k - 1] = g[t - 1]
        BY <1>2, <1>4, <2>3, <3>1
      <4>2. f[k] = IF t = 1 THEN s[t] ELSE g[t - 1] \o s[t]
        BY <3>1
      <4> HIDE DEF f
      <4> QED BY <3>1, <4>1, <4>2
    <3>2. CASE k # t
      <4>1. k \in 1 .. t - 1
        BY <1>2, <3>2
      <4>2. f[k] = g[k] /\ (k # 1 => f[k - 1] = g[k - 1])
        BY <1>2, <2>3, <4>1
      <4>3. g[k] = IF k = 1 THEN s[k] ELSE g[k - 1] \o s[k]
        BY <2>2, <4>1 DEF IsFlatten
      <4> HIDE DEF f
      <4> QED BY <4>2, <4>3
    <3> QED BY <3>1, <3>2
  <2>5. IsFlatten(f, s, t)
    <3>1. f = [k \in 1 .. t |-> f[k]]
      OBVIOUS
    <3> HIDE DEF f
    <3> QED BY <2>4, <3>1 DEF IsFlatten
  <2> QED BY <1>2, <2>5
<1> QED BY <1>3, <1>4

(* g is the concatenation of the first k sequences of s. *)
Flat(g, s, k) ==
  /\ IsSeq(g) /\ Len(g) = HAt(k - 1) + Len(s[k])
  /\ \A i \in 1 .. k : \A j \in 1 .. Len(s[i]) : g[HAt(i - 1) + j] = s[i][j]

LEMMA FlatStep ==
  ASSUME NEW s, NEW g, NEW u \in Nat \ {0}, Flat(g, s, u), NEW t, t = u + 1,
         \A i \in 1 .. t : IsSeq(s[i]), \A i \in 1 .. u : Len(s[i]) = HLEN
  PROVE  Flat(g \o s[t], s, t)
<1> DEFINE x == s[t]
           d == g \o x
           l == Len(x)
<1>0. HLEN \in Nat \ {0}
  BY HashConsts
<1>1. u \in 1 .. u /\ t \in 1 .. t /\ t - 1 = u
  OBVIOUS
<1>2. IsSeq(x) /\ l \in Nat
  BY <1>1, SeqLen
<1>3. IsSeq(g) /\ Len(g) = HAt(u)
  <2>1. IsSeq(g) /\ Len(g) = HAt(u - 1) + Len(s[u])
    BY DEF Flat
  <2>2. Len(s[u]) = HLEN
    BY <1>1
  <2>3. u - 1 \in Nat /\ (u - 1) + 1 = u
    OBVIOUS
  <2>4. HAt((u - 1) + 1) = HAt(u - 1) + HLEN
    BY ONLY <2>3, HAtFacts
  <2> QED BY ONLY <2>1, <2>2, <2>3, <2>4
<1>5. \A i \in 1 .. u : \A j \in 1 .. Len(s[i]) : g[HAt(i - 1) + j] = s[i][j]
  BY DEF Flat
<1> HIDE DEF x, l
<1>4. IsCat(d, g, x)
  BY ONLY <1>2, <1>3, CatIs
<1> HIDE DEF d
<1>6. /\ IsSeq(d) /\ Len(d) = HAt(u) + l
      /\ \A p \in 1 .. HAt(u) : d[p] = g[p]
      /\ \A p \in 1 .. l : d[HAt(u) + p] = x[p]
  BY ONLY <1>3, <1>4 DEF IsCat, l
<1>7. ASSUME NEW i \in 1 .. t, NEW j \in 1 .. Len(s[i]) PROVE d[HAt(i - 1) + j] = s[i][j]
  <2>1. CASE i = t
    <3>1. j \in 1 .. l
      BY <2>1 DEF l, x
    <3> QED BY <1>1, <1>6, <2>1, <3>1 DEF x
  <2>2. CASE i # t
    <3>1. i \in 1 .. u /\ i - 1 \in Nat /\ (i - 1) + 1 = i /\ i \in Nat /\ i <= u
      BY <2>2
    <3> DEFINE a == HAt(i - 1)
               z == HAt(u)
    <3>2. HAt((i - 1) + 1) = HAt(i - 1) + HLEN /\ a \in Nat
      BY ONLY <3>1, HAtFacts
    <3>3. HAt(i) <= z /\ z \in Nat
      BY ONLY <3>1, u \in Nat \ {0}, HAtFacts
    <3>4. a + HLEN <= z /\ Len(s[i]) = HLEN
      BY <3>1, <3>2, <3>3
    <3> HIDE DEF a, z
    <3>5. j \in 1 .. HLEN
      BY <3>4
    <3>6. a + j \in 1 .. z
      BY ONLY <1>0, <3>2, <3>3, <3>4, <3>5
    <3>7. d[a + j] = g[a + j]
      BY <1>6, <3>6 DEF z
    <3>8. g[a + j] = s[i][j]
      BY <1>5, <3>1 DEF a
    <3> QED BY <3>7, <3>8 DEF a
  <2> QED BY <2>1, <2>2
<1>8. Flat(d, s, t)
  BY ONLY <1>1, <1>6, <1>7 DEF Flat, l, x
<1> QED BY <1>8 DEF d, x

LEMMA FlattenOK ==
  ASSUME NEW s, NEW n \in Nat \ {0}, Len(s) = n,
         \A i \in 1 .. n : IsSeq(s[i]), \A i \in 1 .. n - 1 : Len(s[i]) = HLEN
  PROVE  Flat(FlattenSeq(s), s, n)
<1> DEFINE f == CHOOSE g : IsFlatten(g, s, n)
           T == {k \in 1 .. n : ~Flat(f[k], s, k)}
<1>1. IsFlatten(f, s, n)
  BY FlattenExists
<1>2. FlattenSeq(s) = f[n]
  BY DEF FlattenSeq, IsFlatten
<1> HIDE DEF f
<1>3. \A i \in 1 .. n : f[i] = IF i = 1 THEN s[i] ELSE f[i - 1] \o s[i]
  BY <1>1 DEF IsFlatten
<1>4. ASSUME T # {} PROVE FALSE
  <2>1. PICK t \in T : \A y \in T : t <= y
    <3>1. T \subseteq Nat
      OBVIOUS
    <3> QED BY <1>4, <3>1, LeastNat
  <2>2. t \in 1 .. n /\ ~Flat(f[t], s, t)
    OBVIOUS
  <2>3. CASE t = 1
    <3>1. f[t] = s[1] /\ IsSeq(s[1]) /\ Len(s[1]) \in Nat
      BY <1>3, <2>2, <2>3, SeqLen
    <3> DEFINE l == Len(s[1])
    <3>2. l = HAt(1 - 1) + l /\ \A j \in 1 .. l : HAt(1 - 1) + j = j
      <4>1. l \in Nat /\ 1 - 1 = 0 /\ HAt(0) = 0
        BY <3>1, HAtFacts
      <4> HIDE DEF l
      <4> QED BY ONLY <4>1
    <3>3. \A i \in 1 .. 1 : i = 1
      OBVIOUS
    <3>4. Flat(s[1], s, 1)
      BY ONLY <3>1, <3>2, <3>3 DEF Flat
    <3> QED BY <2>2, <2>3, <3>1, <3>4
  <2>4. CASE t # 1
    <3> DEFINE u == t - 1
    <3>1. u \in Nat \ {0} /\ u \in 1 .. n /\ t = u + 1 /\ ~(t <= u) /\ t <= n /\ u <= n - 1
      BY <2>2, <2>4
    <3>2. Flat(f[u], s, u)
      <4> HIDE DEF u
      <4> QED BY <2>1, <3>1
    <3>3. f[t] = f[u] \o s[t]
      BY <1>3, <2>2, <2>4
    <3>4. (\A i \in 1 .. t : IsSeq(s[i])) /\ \A i \in 1 .. u : Len(s[i]) = HLEN
      <4>1. (\A i \in 1 .. t : i \in 1 .. n) /\ \A i \in 1 .. u : i \in 1 .. n - 1
        BY <2>2, <3>1
      <4> QED BY <4>1
    <3> HIDE DEF u
    <3>5. Flat(f[u] \o s[t], s, t)
      BY ONLY <3>1, <3>2, <3>4, FlatStep
    <3> QED BY <2>2, <3>3, <3>5
  <2> QED BY <2>3, <2>4
<1>5. n \in 1 .. n
  OBVIOUS
<1> QED BY <1>2, <1>4, <1>5

(* How many digests it takes for dk bytes. *)
LEMMA Ceiling ==
  ASSUME NEW dk \in Nat \ {0}, NEW N, N = (dk + HLEN - 1) \div HLEN
  PROVE  N \in Nat \ {0} /\ HAt(N - 1) < dk /\ dk <= HAt(N)
<1> DEFINE a == dk + HLEN - 1
           r == a % HLEN
<1>0. HLEN \in Nat \ {0}
  BY HashConsts
<1>1. a \in Nat /\ N = a \div HLEN /\ r = a % HLEN /\ a = (dk - 1) + HLEN
  BY <1>0
<1> HIDE DEF r
<1>2. N \in Nat /\ r \in Nat /\ r < HLEN /\ a = HLEN * N + r /\ HLEN * N \in Nat
  <2> HIDE DEF a
  <2> QED BY ONLY <1>0, <1>1, DivMod
<1>3. HAt(N) = HLEN * N
  BY ONLY <1>0, <1>2 DEF HAt
<1> DEFINE z == HAt(N)
<1>4. z \in Nat /\ (dk - 1) + HLEN = z + r
  BY <1>1, <1>2, <1>3
<1>5. N # 0
  <2>1. z # 0
    <3> HIDE DEF z
    <3> QED BY ONLY <1>0, <1>2, <1>4, dk \in Nat \ {0}
  <2> QED BY <2>1, HAtFacts
<1>6. N - 1 \in Nat /\ (N - 1) + 1 = N
  BY ONLY <1>2, <1>5
<1>7. z = HAt(N - 1) + HLEN /\ HAt(N - 1) \in Nat
  <2>1. HAt((N - 1) + 1) = HAt(N - 1) + HLEN /\ HAt(N - 1) \in Nat
    BY ONLY <1>6, HAtFacts
  <2> QED BY <1>6, <2>1
<1> DEFINE y == HAt(N - 1)
<1> HIDE DEF z, y
<1>8. y \in Nat /\ z = y + HLEN
  BY <1>7 DEF y
<1>9. y < dk /\ dk <= z
  BY ONLY <1>0, <1>2, <1>4, <1>8, dk \in Nat \ {0}
<1> QED BY <1>2, <1>5, <1>9 DEF y, z

LEMMA MinOf ==
  ASSUME NEW a \in Nat, NEW b \in Nat
  PROVE  Min({a, b}) = IF a <= b THEN a ELSE b
<1> DEFINE x == IF a <= b THEN a ELSE b
<1>1. x \in {a, b} /\ \A y \in {a, b} : x <= y
  OBVIOUS
<1>2. ASSUME NEW z \in {a, b}, \A y \in {a, b} : z <= y PROVE z = x
  BY <1>2
<1> QED BY <1>1, <1>2 DEF Min

(* Digests of which the last is cut to dk bytes in all are the first dk     *)
(* bytes of the digests.                                                    *)
AllDigests(X) == \A i \in Nat \ {0} : IsSeq(X[i]) /\ Len(X[i]) = HLEN
CutTo(s, X, dk, N) ==
  Len(s) = N /\ \A i \in 1 .. N : s[i] = SubSeq(X[i], 1, Min({dk - (i - 1) * HLEN, HLEN}))
FirstOf(s, X, n) == Len(s) = n /\ \A i \in 1 .. n : s[i] = X[i]

LEMMA CutAfter ==
  ASSUME NEW X, AllDigests(X), NEW dk \in Nat \ {0}, NEW N, N = (dk + HLEN - 1) \div HLEN,
         NEW s1, CutTo(s1, X, dk, N), NEW s2, FirstOf(s2, X, dk)
  PROVE  FlattenSeq(s1) = SubSeq(FlattenSeq(s2), 1, dk)
<1> DEFINE F1 == FlattenSeq(s1)
           F2 == FlattenSeq(s2)
           G == SubSeq(F2, 1, dk)
<1>0. HLEN \in Nat \ {0}
  BY HashConsts
<1>11. \A i \in Nat \ {0} : IsSeq(X[i]) /\ Len(X[i]) = HLEN
  BY DEF AllDigests
<1>12. Len(s1) = N /\ \A i \in 1 .. N : s1[i] = SubSeq(X[i], 1, Min({dk - (i - 1) * HLEN, HLEN}))
  BY DEF CutTo
<1>13. Len(s2) = dk /\ \A i \in 1 .. dk : s2[i] = X[i]
  BY DEF FirstOf
<1>1. N \in Nat \ {0} /\ HAt(N - 1) < dk /\ dk <= HAt(N)
  BY Ceiling
<1>2. ASSUME NEW i \in 1 .. N
      PROVE  \E l \in Nat : /\ IsSub(s1[i], X[i], 0, l)
                            /\ i # N => l = HLEN
                            /\ i = N => HAt(N - 1) + l = dk
  <2> DEFINE a == HAt(i - 1)
             e == dk - a
             l == Min({e, HLEN})
  <2>1. i - 1 \in Nat /\ (i - 1) + 1 = i /\ i \in Nat \ {0} /\ i - 1 <= N - 1 /\ N - 1 \in Nat
        /\ (i # N => i <= N - 1)
    BY <1>1
  <2>2. a \in Nat /\ a <= HAt(N - 1) /\ HAt((i - 1) + 1) = a + HLEN /\ HAt(N - 1) \in Nat
    BY ONLY <2>1, HAtFacts
  <2>3. e \in Nat
    <3> HIDE DEF a
    <3> QED BY ONLY <1>1, <2>2, dk \in Nat \ {0}
  <2>4. l = IF e <= HLEN THEN e ELSE HLEN
    <3> HIDE DEF e
    <3> QED BY ONLY <1>0, <2>3, MinOf
  <2>5. s1[i] = SubSeq(X[i], 1, l)
    BY <1>12 DEF HAt
  <2>6. i # N => HAt(i) <= HAt(N - 1)
    BY ONLY <2>1, HAtFacts
  <2>7. i # N => l = HLEN
    <3> SUFFICES ASSUME i # N PROVE l = HLEN
      OBVIOUS
    <3>1. HAt(i) = a + HLEN /\ HAt(i) <= HAt(N - 1)
      BY <2>1, <2>2, <2>6
    <3> HIDE DEF a, l
    <3> QED BY ONLY <1>0, <1>1, <2>2, <2>4, <3>1, dk \in Nat \ {0}
  <2>8. i = N => a + l = dk
    <3> SUFFICES ASSUME i = N PROVE a + l = dk
      OBVIOUS
    <3>1. HAt(N) = a + HLEN
      BY <2>1, <2>2
    <3> HIDE DEF a, l
    <3> QED BY ONLY <1>0, <1>1, <2>2, <2>4, <3>1, dk \in Nat \ {0}
  <2>9. l \in Nat /\ l <= HLEN
    <3> HIDE DEF e, l
    <3> QED BY ONLY <1>0, <2>3, <2>4
  <2>12. i = N => a = HAt(N - 1)
    OBVIOUS
  <2> HIDE DEF l, a
  <2>10. IsSub(s1[i], X[i], 0, l)
    <3> DEFINE x == X[i]
    <3>1. IsSeq(x) /\ l <= Len(x) /\ 0 + 1 = 1 /\ 0 \in Nat /\ 0 <= l
      BY <1>11, <2>1, <2>9
    <3> HIDE DEF x
    <3>2. IsSub(SubSeq(x, 0 + 1, l), x, 0, l)
      BY ONLY <2>9, <3>1, SubIs
    <3> QED BY <2>5, <3>1, <3>2 DEF x
  <2>11. i = N => HAt(N - 1) + l = dk
    BY ONLY <2>8, <2>12
  <2> QED BY ONLY <2>7, <2>9, <2>10, <2>11
<1>3. ASSUME NEW i \in 1 .. N
      PROVE  /\ IsSeq(s1[i]) /\ Len(s1[i]) \in Nat
             /\ i # N => Len(s1[i]) = HLEN
             /\ i = N => HAt(N - 1) + Len(s1[i]) = dk
             /\ \A j \in 1 .. Len(s1[i]) : s1[i][j] = X[i][j]
  <2>1. PICK l \in Nat : /\ IsSub(s1[i], X[i], 0, l)
                         /\ i # N => l = HLEN
                         /\ i = N => HAt(N - 1) + l = dk
    BY ONLY <1>2, i \in 1 .. N
  <2>2. IsSeq(s1[i]) /\ Len(s1[i]) = l /\ \A j \in 1 .. l : s1[i][j] = X[i][j]
    BY ONLY <2>1, SubHead
  <2> QED BY ONLY <2>1, <2>2
<1>4. Flat(F1, s1, N)
  <2>1. (\A i \in 1 .. N : IsSeq(s1[i])) /\ \A i \in 1 .. N - 1 : Len(s1[i]) = HLEN
    <3>1. \A i \in 1 .. N - 1 : i \in 1 .. N /\ i # N
      BY ONLY <1>1
    <3> QED BY ONLY <1>3, <3>1
  <2> QED BY ONLY <1>1, <1>12, <2>1, FlattenOK
<1>5. Flat(F2, s2, dk)
  <2>1. (\A i \in 1 .. dk : IsSeq(s2[i])) /\ \A i \in 1 .. dk - 1 : Len(s2[i]) = HLEN
    <3>1. \A i \in 1 .. dk : i \in Nat \ {0}
      OBVIOUS
    <3>2. \A i \in 1 .. dk - 1 : i \in 1 .. dk
      OBVIOUS
    <3> QED BY <1>11, <1>13, <3>1, <3>2
  <2> QED BY ONLY dk \in Nat \ {0}, <1>13, <2>1, FlattenOK
<1>6. /\ IsSeq(F1) /\ Len(F1) = dk
      /\ \A i \in 1 .. N : \A j \in 1 .. Len(s1[i]) : F1[HAt(i - 1) + j] = s1[i][j]
  <2>1. N \in 1 .. N
    BY <1>1
  <2>2. HAt(N - 1) + Len(s1[N]) = dk
    BY ONLY <1>3, <2>1
  <2> QED BY ONLY <1>4, <2>2 DEF Flat
<1>7. /\ IsSeq(F2) /\ dk <= Len(F2)
      /\ \A i \in 1 .. dk : \A j \in 1 .. HLEN : F2[HAt(i - 1) + j] = X[i][j]
  <2>1. /\ IsSeq(F2) /\ Len(F2) = HAt(dk - 1) + Len(s2[dk])
        /\ \A i \in 1 .. dk : \A j \in 1 .. Len(s2[i]) : F2[HAt(i - 1) + j] = s2[i][j]
    BY ONLY <1>5 DEF Flat
  <2>2. \A i \in 1 .. dk : s2[i] = X[i] /\ Len(s2[i]) = HLEN
    BY <1>11, <1>13
  <2>3. dk \in 1 .. dk /\ dk - 1 \in Nat /\ dk \in Nat
    OBVIOUS
  <2>4. HAt(dk - 1) \in Nat /\ dk - 1 <= HAt(dk - 1)
    BY ONLY <2>3, HAtFacts
  <2>5. dk <= HAt(dk - 1) + HLEN
    BY ONLY <1>0, <2>3, <2>4
  <2>6. Len(F2) = HAt(dk - 1) + HLEN
    BY ONLY <2>1, <2>2, <2>3
  <2> QED BY ONLY <2>1, <2>2, <2>5, <2>6
<1> HIDE DEF F1, F2
<1>8. IsSeq(G) /\ Len(G) = dk /\ \A p \in 1 .. dk : G[p] = F2[p]
  <2>1. 0 + 1 = 1 /\ 0 \in Nat /\ 0 <= dk /\ dk \in Nat
    OBVIOUS
  <2>2. IsSub(SubSeq(F2, 0 + 1, dk), F2, 0, dk)
    BY ONLY <1>7, <2>1, SubIs
  <2>3. IsSub(G, F2, 0, dk)
    BY ONLY <2>1, <2>2
  <2> HIDE DEF G
  <2> QED BY ONLY <2>1, <2>3, SubHead
<1> HIDE DEF G
<1>9. ASSUME NEW p \in 1 .. dk PROVE F1[p] = G[p]
  <2> DEFINE q == (p - 1) \div HLEN
             r == (p - 1) % HLEN
             o == p - 1
             i == q + 1
             j == r + 1
  <2>1. o \in Nat /\ q = o \div HLEN /\ r = o % HLEN /\ p = o + 1
    OBVIOUS
  <2> HIDE DEF q, r, o
  <2>2. q \in Nat /\ r \in Nat /\ r < HLEN /\ o = HLEN * q + r
    BY ONLY <1>0, <2>1, DivMod
  <2>3. HAt(q) = HLEN * q /\ HAt(q) \in Nat /\ q <= HAt(q)
    <3>1. HAt(q) = HLEN * q
      BY ONLY <1>0, <2>2 DEF HAt
    <3> QED BY ONLY <2>2, <3>1, HAtFacts
  <2> DEFINE a == HAt(q)
  <2>4. a \in Nat /\ o = a + r /\ q <= a
    BY <2>2, <2>3
  <2>5. q <= N - 1
    <3> SUFFICES ASSUME ~(q <= N - 1) PROVE FALSE
      OBVIOUS
    <3>1. N <= q /\ N \in Nat
      BY ONLY <1>1, <2>2, ~(q <= N - 1)
    <3>2. HAt(N) <= HAt(q) /\ HAt(N) \in Nat
      BY ONLY <2>2, <3>1, HAtFacts
    <3>3. HAt(N) <= a
      BY <3>2
    <3> HIDE DEF a
    <3> QED BY ONLY <1>1, <2>1, <2>2, <2>4, <3>2, <3>3, p \in 1 .. dk, dk \in Nat \ {0}
  <2>6. i \in 1 .. N /\ i \in 1 .. dk /\ j \in 1 .. HLEN /\ i - 1 = q /\ a + j = p
    <3> HIDE DEF a
    <3> QED BY ONLY <1>0, <1>1, <2>1, <2>2, <2>4, <2>5, p \in 1 .. dk, dk \in Nat \ {0}
  <2>11. j = r + 1
    OBVIOUS
  <2> HIDE DEF i, j
  <2>7. j \in 1 .. Len(s1[i])
    <3>1. CASE i # N
      BY ONLY <1>3, <2>6, <3>1
    <3>2. CASE i = N
      <4>1. HAt(N - 1) + Len(s1[i]) = dk /\ Len(s1[i]) \in Nat
        BY ONLY <1>3, <2>6, <3>2
      <4>2. a + Len(s1[i]) = dk
        BY ONLY <2>6, <3>2, <4>1
      <4> DEFINE l == Len(s1[i])
      <4>3. a + l = dk /\ l \in Nat
        BY <4>1, <4>2
      <4> HIDE DEF l, a
      <4>4. j \in 1 .. l
        BY ONLY <2>2, <2>4, <2>6, <2>11, <4>3, p \in 1 .. dk
      <4> QED BY <4>4 DEF l
    <3> QED BY <3>1, <3>2
  <2>8. F1[HAt(i - 1) + j] = s1[i][j] /\ s1[i][j] = X[i][j]
    BY ONLY <1>3, <1>6, <2>6, <2>7
  <2>9. F2[HAt(i - 1) + j] = X[i][j]
    BY ONLY <1>7, <2>6
  <2>10. HAt(i - 1) + j = p
    BY <2>6
  <2> QED BY ONLY <1>8, <2>8, <2>9, <2>10, p \in 1 .. dk
<1>10. F1 = G
  BY ONLY <1>6, <1>8, <1>9, SeqEq
<1> QED BY <1>10 DEF F1, F2, G

LEMMA XorOfSeq ==
  ASSUME NEW u
  PROVE  IsSeq(XorOf(u)) /\ Len(XorOf(u)) = HLEN
<1> DEFINE f == XorOf(u)
<1>1. f = [i \in 1 .. HLEN |-> f[i]]
  BY DEF XorOf
<1>2. HLEN \in Nat
  BY HashConsts
<1> HIDE DEF f
<1>3. IsSeq(f) /\ Len(f) = HLEN
  BY ONLY <1>1, <1>2, FunIsSeq
<1> QED BY <1>3 DEF f

(* PBKDF2_SHA256 computes the keys of the standard, for all passwords and   *)
(* salts, numbers of iterations and lengths of keys, although it keeps the  *)
(* contexts after the password and after the salt and cuts the last block.  *)
(* The number of iterations is positive, as the standard has it.            *)
THEOREM DerivedKeysCorrect ==
  ASSUME NEW P, IsSeq(P), NEW S, IsSeq(S), NEW c \in Nat, c >= 1, NEW dkLen \in Nat
  PROVE  PBKDF2_SHA256(P, S, c, dkLen) = DerivedOf(P, S, c, dkLen)
<1> DEFINE Phctx == HMAC_SHA256_Init(P)
           PShctx == HMAC_SHA256_Update(Phctx, S)
           X == [i \in Nat \ {0} |-> XorOf(UOf(P, S, c, i))]
           N == (dkLen + HLEN - 1) \div HLEN
           s1 == [i \in 1 .. N |-> SubSeq(XorOf(PBKDF2_U(Phctx, PShctx, c, (i - 1) + 1)), 1,
                                          Min({dkLen - (i - 1) * HLEN, HLEN}))]
           s2 == [i \in 1 .. dkLen |-> XorOf(UOf(P, S, c, i))]
<1>0. HLEN \in Nat \ {0}
  BY HashConsts
<1>1. PBKDF2_SHA256(P, S, c, dkLen) = FlattenSeq(s1)
  BY DEF PBKDF2_SHA256
<1>2. DerivedOf(P, S, c, dkLen) = SubSeq(FlattenSeq(s2), 1, dkLen)
  BY DEF DerivedOf
<1>3. N \in Nat
  <2> DEFINE a == dkLen + HLEN - 1
  <2>1. a \in Nat
    BY <1>0
  <2> HIDE DEF a
  <2>2. a \div HLEN \in Nat
    BY ONLY <1>0, <2>1
  <2> QED BY <2>2 DEF a
<1>4. \A i \in Nat \ {0} : IsSeq(X[i]) /\ Len(X[i]) = HLEN
  BY XorOfSeq
<1>5. ASSUME NEW i \in 1 .. N
      PROVE  s1[i] = SubSeq(X[i], 1, Min({dkLen - (i - 1) * HLEN, HLEN}))
  <2>1. (i - 1) + 1 = i /\ i \in Nat \ {0}
    BY <1>3
  <2>2. PBKDF2_U(Phctx, PShctx, c, i) = UOf(P, S, c, i)
    BY BlocksOfKey
  <2> HIDE DEF Phctx, PShctx, N
  <2> QED BY <2>1, <2>2
<1>6. IsSeq(s1) /\ Len(s1) = N
  <2>1. s1 = [i \in 1 .. N |-> s1[i]]
    OBVIOUS
  <2> HIDE DEF s1, N
  <2> QED BY ONLY <1>3, <2>1, FunIsSeq
<1>7. IsSeq(s2) /\ Len(s2) = dkLen
  <2>1. s2 = [i \in 1 .. dkLen |-> s2[i]]
    OBVIOUS
  <2> HIDE DEF s2
  <2> QED BY ONLY dkLen \in Nat, <2>1, FunIsSeq
<1>8. \A i \in 1 .. dkLen : s2[i] = X[i]
  OBVIOUS
<1>9. N = (dkLen + HLEN - 1) \div HLEN
  OBVIOUS
<1> HIDE DEF Phctx, PShctx, X, N, s1, s2
<1>10. CASE dkLen # 0
  <2>1. dkLen \in Nat \ {0}
    BY <1>10
  <2>2. AllDigests(X)
    BY ONLY <1>4 DEF AllDigests
  <2>3. CutTo(s1, X, dkLen, N)
    BY ONLY <1>5, <1>6 DEF CutTo
  <2>4. FirstOf(s2, X, dkLen)
    BY ONLY <1>7, <1>8 DEF FirstOf
  <2>5. FlattenSeq(s1) = SubSeq(FlattenSeq(s2), 1, dkLen)
    BY ONLY <1>9, <2>1, <2>2, <2>3, <2>4, CutAfter
  <2> QED BY ONLY <1>1, <1>2, <2>5
<1>11. CASE dkLen = 0
  <2>1. N = 0
    <3> DEFINE r == HLEN - 1
    <3>1. r \in Nat /\ r < HLEN /\ dkLen + HLEN - 1 = HLEN * 0 + r /\ 0 \in Nat
      BY ONLY <1>0, <1>11
    <3> HIDE DEF r
    <3>2. (dkLen + HLEN - 1) \div HLEN = 0
      BY ONLY <1>0, <3>1, DivUnique
    <3> QED BY ONLY <1>9, <3>2
  <2>2. FlattenSeq(s1) = s1 /\ FlattenSeq(s2) = s2
    BY <1>6, <1>7, <1>11, <2>1 DEF FlattenSeq
  <2>3. SubSeq(s2, 1, 0) = s2
    <3>1. PICK B : s2 \in Seq(B)
      BY <1>7 DEF IsSeq
    <3> QED BY <1>7, <1>11, <3>1
  <2>4. s1 = s2
    <3>1. \A i \in 1 .. Len(s1) : s1[i] = s2[i]
      BY <1>6, <2>1
    <3>2. Len(s1) = Len(s2)
      BY <1>6, <1>7, <1>11, <2>1
    <3> QED BY ONLY <1>6, <1>7, <3>1, <3>2, SeqEq
  <2> QED BY <1>1, <1>2, <1>11, <2>2, <2>3, <2>4
<1> QED BY <1>10, <1>11

(* What a digest is to be, and the inductive invariant. *)
RightDigest == IF klen = -1 THEN HashOf(Message(0, fed)) ELSE HmacOf(KeyOf(klen), Message(0, fed))

HashIInv ==
  /\ alg \in Algs /\ klen \in {-1} \cup KeyLens /\ fed \in Nat
  /\ klen = -1 => Ctx(cx, Message(0, fed))
  /\ klen # -1 => HmacCtx(cx, KeyFor(KeyOf(klen)), Message(0, fed))
  /\ digest # <<>> => digest = RightDigest

LEMMA HashInitOK == HashInit => HashIInv
<1> SUFFICES ASSUME HashInit PROVE HashIInv
  OBVIOUS
<1> DEFINE e == <<>>
<1>1. Message(0, 0) = e
  <2> DEFINE m == Message(0, 0)
  <2>1. IsSeq(m) /\ Len(m) = 0
    BY MessageSeq
  <2>2. IsSeq(e) /\ Len(e) = 0
    <3>1. e \in Seq({})
      OBVIOUS
    <3> QED BY <3>1 DEF IsSeq
  <2>3. Len(m) = Len(e) /\ \A i \in 1 .. Len(m) : m[i] = e[i]
    BY <2>1, <2>2
  <2> HIDE DEF m, e
  <2>4. m = e
    BY ONLY <2>1, <2>2, <2>3, SeqEq
  <2> QED BY <2>4 DEF m
<1>2. alg \in Algs /\ klen \in {-1} \cup KeyLens /\ fed = 0 /\ fed \in Nat /\ digest = <<>>
  BY DEF HashInit, Algs
<1>3. klen = -1 => Ctx(cx, e)
  BY NewOK DEF HashInit
<1>4. klen # -1 => HmacCtx(cx, KeyFor(KeyOf(klen)), e)
  <2> SUFFICES ASSUME klen # -1 PROVE HmacCtx(cx, KeyFor(KeyOf(klen)), e)
    OBVIOUS
  <2>1. klen \in Nat
    BY <1>2, HashAssumption
  <2>2. IsSeq(KeyOf(klen))
    BY <2>1, KeySeq
  <2>3. cx = HmacInit(alg, KeyOf(klen))
    BY <1>2 DEF HashInit, HMAC_SHA256_Init, HMAC_SHA1_Init, HMAC_MD5_Init, Algs
  <2> QED BY <1>2, <2>2, <2>3, HmacInitOK
<1> HIDE DEF e
<1> QED BY <1>1, <1>2, <1>3, <1>4 DEF HashIInv

LEMMA HashNextOK == HashIInv /\ [HashNext]_hashvars => HashIInv'
<1> SUFFICES ASSUME HashIInv, [HashNext]_hashvars PROVE HashIInv'
  OBVIOUS
<1> DEFINE m == Message(0, fed)
           K == KeyFor(KeyOf(klen))
<1>1. alg \in Algs /\ klen \in {-1} \cup KeyLens /\ fed \in Nat
  BY DEF HashIInv
<1>2. IsSeq(m)
  BY <1>1, MessageSeq
<1>3. (klen = -1 => Ctx(cx, m)) /\ (klen # -1 => HmacCtx(cx, K, m))
  BY DEF HashIInv
<1>4. CASE HashFinal
  <2>1. UNCHANGED <<alg, klen, fed, cx>>
    BY <1>4 DEF HashFinal
  <2>2. klen = -1 => digest' = HashOf(m)
    <3> SUFFICES ASSUME klen = -1 PROVE digest' = HashOf(m)
      OBVIOUS
    <3>1. digest' = Final(alg, cx)
      BY <1>4 DEF HashFinal
    <3>2. Ctx(cx, m)
      BY <1>3
    <3> HIDE DEF m
    <3> QED BY <1>1, <3>1, <3>2, FinalOK
  <2>3. klen # -1 => digest' = HmacOf(KeyOf(klen), m)
    <3> SUFFICES ASSUME klen # -1 PROVE digest' = HmacOf(KeyOf(klen), m)
      OBVIOUS
    <3>1. digest' = HmacFinal(alg, cx)
      BY <1>1, <1>4 DEF HashFinal, HMAC_SHA256_Final, HMAC_SHA1_Final, HMAC_MD5_Final, Algs
    <3>2. HmacCtx(cx, KeyFor(KeyOf(klen)), m)
      BY <1>3
    <3> HIDE DEF m
    <3> QED BY <1>1, <3>1, <3>2, HmacFinalOK
  <2>4. digest' = RightDigest
    BY <2>2, <2>3 DEF RightDigest
  <2>5. RightDigest' = RightDigest
    BY <2>1 DEF RightDigest
  <2> QED BY <1>1, <1>3, <2>1, <2>4, <2>5 DEF HashIInv
<1>5. ASSUME NEW len \in HashLens, HashUpdate(len) PROVE HashIInv'
  <2> DEFINE in == Message(fed, len)
             new == Message(0, fed + len)
  <2>1. len \in Nat
    BY HashAssumption
  <2>2. fed' = fed + len /\ UNCHANGED <<alg, klen, digest>> /\ digest = <<>>
    BY <1>5 DEF HashUpdate
  <2>3. IsSeq(in) /\ m \o in = new /\ fed + len \in Nat
    <3>1. fed \in Nat /\ fed + len \in Nat
      BY <1>1, <2>1
    <3>2. IsSeq(in)
      BY ONLY <2>1, MessageSeq
    <3>3. m \o in = new
      BY ONLY <2>1, <3>1, MessageCat
    <3> QED BY <3>1, <3>2, <3>3
  <2>4. klen = -1 => Ctx(cx', new)
    <3> SUFFICES ASSUME klen = -1 PROVE Ctx(cx', new)
      OBVIOUS
    <3>1. cx' = Update(alg, cx, in)
      BY <1>5 DEF HashUpdate
    <3>2. Ctx(cx, m)
      BY <1>3
    <3> HIDE DEF m, in, new
    <3>3. Ctx(Update(alg, cx, in), m \o in)
      BY ONLY <1>1, <2>3, <3>2, UpdateOK
    <3> QED BY ONLY <2>3, <3>1, <3>3
  <2>5. klen # -1 => HmacCtx(cx', K, new)
    <3> SUFFICES ASSUME klen # -1 PROVE HmacCtx(cx', K, new)
      OBVIOUS
    <3>1. cx' = HmacUpdate(alg, cx, in)
      BY <1>1, <1>5 DEF HashUpdate, HMAC_SHA256_Update, HMAC_SHA1_Update, HMAC_MD5_Update, Algs
    <3>2. HmacCtx(cx, K, m)
      BY <1>3
    <3> HIDE DEF m, in, new, K
    <3>3. HmacCtx(HmacUpdate(alg, cx, in), K, m \o in)
      BY ONLY <1>1, <1>2, <2>3, <3>2, HmacUpdateOK
    <3> QED BY ONLY <2>3, <3>1, <3>3
  <2> HIDE DEF in
  <2> QED BY <1>1, <2>2, <2>3, <2>4, <2>5 DEF HashIInv
<1>6. CASE UNCHANGED hashvars
  <2>1. UNCHANGED <<alg, klen, fed, cx, digest>>
    BY <1>6 DEF hashvars
  <2>2. RightDigest' = RightDigest
    BY <2>1 DEF RightDigest
  <2> QED BY <2>1, <2>2 DEF HashIInv
<1> QED BY <1>4, <1>5, <1>6 DEF HashNext

LEMMA HashIInvImplies == HashIInv => DigestsExact
<1> SUFFICES ASSUME HashIInv PROVE DigestsExact
  OBVIOUS
<1>1. digest # <<>> =>
        digest = IF klen = -1 THEN HashOf(Message(0, fed)) ELSE HmacOf(KeyOf(klen), Message(0, fed))
  BY DEF HashIInv, RightDigest
<1>2. ASSUME klen >= 0, NEW c \in 1 .. 2
      PROVE  PBKDF2_SHA256(KeyOf(klen), Message(0, 1), c, fed)
             = DerivedOf(KeyOf(klen), Message(0, 1), c, fed)
  <2>1. klen \in Nat /\ fed \in Nat /\ c \in Nat /\ c >= 1 /\ 1 \in Nat
    BY <1>2, HashAssumption DEF HashIInv
  <2>2. IsSeq(KeyOf(klen)) /\ IsSeq(Message(0, 1))
    BY ONLY <2>1, KeySeq, MessageSeq
  <2> QED BY ONLY <2>1, <2>2, DerivedKeysCorrect
<1> QED BY <1>1, <1>2 DEF DigestsExact

(* alg/sha256.c, alg/sha1.c, alg/md5.c: however a message is cut into       *)
(* pieces, and whatever its length and that of the key, the digest and the  *)
(* HMAC are those of the standards, and so are derived keys; also when the  *)
(* number of bits wraps, in one word or in two.                             *)
THEOREM DigestsCorrect == HashSpec => []DigestsExact
BY HashInitOK, HashNextOK, HashIInvImplies, PTL DEF HashSpec
=============================================================================
