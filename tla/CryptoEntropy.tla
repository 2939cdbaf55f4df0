---------------------------- MODULE CryptoEntropy ----------------------------
(***************************************************************************)
(* Random bytes (crypto/crypto_entropy.c, util/entropy.c): a generator     *)
(* that is seeded from the operating system when it is first used and      *)
(* again after RESEED_INTERVAL pieces of at most GENERATE_MAXLEN bytes.    *)
(* Of its state, Key and V are left abstract: what matters here is how     *)
(* many pieces were made since entropy was last mixed into them.  A call   *)
(* of crypto_entropy_read runs piece by piece, and every step of it that   *)
(* asks the operating system for something may fail, which ends the call.  *)
(***************************************************************************)
EXTENDS Integers, FiniteSetsExt

CONSTANTS
  RESEED_INTERVAL, GENERATE_MAXLEN,
  SEED, NONCE,  \* how much entropy is read: to reseed, and on top at first
  ReadLens,     \* lengths of calls
  NOTHING       \* no call has returned

ASSUME EntropyAssumption ==
  /\ {RESEED_INTERVAL, GENERATE_MAXLEN, SEED, NONCE} \subseteq Nat \ {0}
  /\ ReadLens \subseteq Nat

VARIABLES
  instantiated,    \* the generator was seeded
  reseed_counter,  \* its count of pieces
  since,           \* the pieces made since entropy was mixed into Key and V
  epc,             \* where the call is: "idle", "loop", "instantiate", "reseed"
  left,            \* how many bytes it has yet to provide
  need,            \* how many bytes entropy_read has yet to read
  fd,              \* /dev/urandom is open
  ret              \* what the last call returned: 0 or -1

entropyvars == <<instantiated, reseed_counter, since, epc, left, need, fd, ret>>

EntropyTypeOK ==
  /\ instantiated \in BOOLEAN /\ fd \in BOOLEAN
  /\ reseed_counter \in 0 .. RESEED_INTERVAL + 1 /\ since \in Nat
  /\ epc \in {"idle", "loop", "instantiate", "reseed"}
  /\ left \in Nat /\ need \in 0 .. SEED + NONCE
  /\ ret \in {NOTHING, 0, -1}

EntropyInit ==
  /\ instantiated = FALSE /\ reseed_counter = 0 /\ since = 0
  /\ epc = "idle" /\ left = 0 /\ need = 0 /\ fd = FALSE /\ ret = NOTHING

(* A call returns: 0, or -1 after a failure. *)
Returns(rc) == epc' = "idle" /\ ret' = rc
----------------------------------------------------------------------------
(* entropy_read_init: opens the device, or fails the call. *)
entropy_read_init(caller, len) ==
  \/ fd' = TRUE /\ need' = len /\ epc' = caller /\ UNCHANGED ret
  \/ Returns(-1) /\ UNCHANGED <<fd, need>>

(* crypto_entropy_read, up to the loop: the first call that gets that far   *)
(* instantiates the generator.  atexit may fail, too.                       *)
crypto_entropy_read(len) ==
  /\ epc = "idle"
  /\ left' = len
  /\ \/ instantiated /\ epc' = "loop" /\ UNCHANGED <<fd, need, ret>>
     \/ ~instantiated /\ entropy_read_init("instantiate", SEED + NONCE)
  /\ UNCHANGED <<instantiated, reseed_counter, since>>

(* entropy_read_fill: reads until it has enough; a failure or an end of the *)
(* file closes the device and ends the call.                                *)
entropy_read_fill ==
  /\ need > 0
  /\ \/ \E n \in 1 .. need : need' = need - n /\ UNCHANGED <<fd, epc, ret>>
     \/ Returns(-1) /\ fd' = FALSE /\ need' = 0
  /\ UNCHANGED <<instantiated, reseed_counter, since, left>>

(* update: new data is entropy; without data it is a step of generate. *)
update(hasdata) == since' = IF hasdata THEN 0 ELSE since + 1

(* entropy_read_done, and with what was read the end of instantiate or of   *)
(* reseed; if the device cannot be closed, they fail.                       *)
instantiate == update(TRUE) /\ reseed_counter' = 1 /\ instantiated' = TRUE
reseed == update(TRUE) /\ reseed_counter' = 1 /\ UNCHANGED instantiated

entropy_read_done ==
  /\ fd /\ need = 0
  /\ fd' = FALSE
  /\ \/ /\ epc' = "loop" /\ UNCHANGED ret
        /\ IF epc = "instantiate" THEN instantiate ELSE reseed
     \/ Returns(-1) /\ UNCHANGED <<instantiated, reseed_counter, since>>
  /\ UNCHANGED <<left, need>>

(* generate, for as much as one piece may have. *)
Piece == Min({left, GENERATE_MAXLEN})
generate ==
  /\ left' = left - Piece
  /\ update(FALSE)
  /\ reseed_counter' = reseed_counter + 1

(* The loop of crypto_entropy_read. *)
NeedsReseed_one_late == reseed_counter > RESEED_INTERVAL + 1
NeedsReseed == reseed_counter > RESEED_INTERVAL

ReadLoop ==
  /\ epc = "loop"
  /\ \/ left = 0 /\ Returns(0) /\ UNCHANGED <<left, reseed_counter, since, fd, need>>
     \/ left > 0 /\ NeedsReseed /\ entropy_read_init("reseed", SEED)
        /\ UNCHANGED <<left, reseed_counter, since>>
     \/ left > 0 /\ ~NeedsReseed /\ generate /\ UNCHANGED <<epc, ret, fd, need>>
  /\ UNCHANGED instantiated

EntropyNext ==
  \/ \E len \in ReadLens : crypto_entropy_read(len)
  \/ entropy_read_fill \/ entropy_read_done \/ ReadLoop

EntropySpec == EntropyInit /\ [][EntropyNext]_entropyvars
----------------------------------------------------------------------------
(* Whatever failed before, in this call or in an earlier one: bytes are     *)
(* only made from a generator that was instantiated, and that got entropy   *)
(* at most RESEED_INTERVAL pieces ago, the count of pieces is right, a call *)
(* that returns 0 has provided every byte, and the device is open only      *)
(* while entropy is being read.                                             *)
EntropyFresh ==
  /\ EntropyTypeOK
  /\ since > 0 => instantiated
  /\ since <= RESEED_INTERVAL
  /\ instantiated => reseed_counter = since + 1
  /\ epc = "idle" /\ ret = 0 => left = 0
  /\ fd = (epc \in {"instantiate", "reseed"})
=============================================================================
