------------------------------- MODULE AesCtr -------------------------------
(***************************************************************************)
(* AES in CTR mode as a stream (crypto/crypto_aesctr.c, _shared.c, _aesni.c *)
(* and _arm.c): calls of any length are cut into the rest of the current    *)
(* block, whole blocks, and the beginning of a block.  The counter in the   *)
(* block to encrypt is kept by increments of its last byte, except that a   *)
(* wrap of that byte, and the code for the AESNI and ARM instructions,      *)
(* which is used for calls of a block or more, encode it afresh from the    *)
(* number of bytes.  A block of cipherstream is the triple that is          *)
(* encrypted; a block has BLK bytes (16) and a byte BYTE values (256).      *)
(***************************************************************************)
EXTENDS Integers, FiniteSetsExt

CONSTANTS
  BLK, BYTE,   \* the size of a block, and the number of values of a byte
  CTRMAX,      \* UINT64_MAX: a stream is shorter
  AesKeys,     \* expanded keys
  Nonces,      \* nonces
  CallLens     \* lengths of calls

ASSUME AesCtrAssumption ==
  /\ {BLK, BYTE, CTRMAX} \subseteq Nat \ {0}
  /\ CallLens \subseteq Nat

VARIABLES
  hwaccel,   \* which code runs: "unset", "software", "aesni" or "arm"
  strm,      \* the struct crypto_aesctr
  xored      \* what the last call xored each of its bytes with:
             \* the block of cipherstream, the byte in it, and its position

aesvars == <<hwaccel, strm, xored>>

(* The counter in the bytes 8 .. 15 of pblk: its last byte and the others. *)
Counter == [hi : 0 .. CTRMAX \div (BLK * BYTE), lo : 0 .. BYTE - 1]
be64enc(n) == [hi |-> n \div BYTE, lo |-> n % BYTE]
Decode(c) == c.hi * BYTE + c.lo

NoKey == "none"

AesTypeOK ==
  /\ hwaccel \in {"unset", "software", "aesni", "arm"}
  /\ strm.key \in AesKeys \cup {NoKey} /\ strm.bytectr \in 0 .. CTRMAX
  /\ strm.nonce \in Nonces /\ strm.ctr \in Counter
  /\ \A x \in xored : x.off \in 0 .. BLK - 1 /\ x.pos \in 0 .. CTRMAX

(* What malloc returned holds anything; NoKey stands for no stream. *)
Fresh(n, c) == [key |-> NoKey, nonce |-> n, ctr |-> c, bytectr |-> 0,
                buf |-> [key |-> NoKey, nonce |-> n, ctr |-> 0]]

AesInit ==
  /\ hwaccel = "unset"
  /\ \E n \in Nonces, c \in Counter : strm = Fresh(n, c)
  /\ xored = {}
----------------------------------------------------------------------------
(* hwaccel_init decides once, by the build and the processor, for the whole *)
(* program.                                                                 *)
hwaccel_init ==
  hwaccel' \in IF hwaccel = "unset" THEN {"software", "aesni", "arm"} ELSE {hwaccel}

(* crypto_aesctr_init2, and crypto_aesctr_init, which allocates as well:    *)
(* the first bytes of the counter stay as they are.                         *)
crypto_aesctr_init2(key, nonce) ==
  /\ strm' = [strm EXCEPT !.key = key, !.nonce = nonce, !.bytectr = 0,
                          !.ctr.lo = BYTE - 1]
  /\ hwaccel_init
  /\ xored' = {}

(* The functions below pass on the stream, the number n of bytes left, and  *)
(* what the bytes were xored with.                                          *)
CipherBlock(c, ctr) == [key |-> c.key, nonce |-> c.nonce, ctr |-> ctr]

(* The next value of the counter: only if its last byte wraps is it encoded *)
(* from the number of bytes.                                                *)
Incremented_no_carry(c) == [c.ctr EXCEPT !.lo = (@ + 1) % BYTE]
Incremented(c) ==
  IF c.ctr.lo = BYTE - 1 THEN be64enc(c.bytectr \div BLK)
  ELSE [c.ctr EXCEPT !.lo = @ + 1]

cipherblock_generate(s) ==
  LET ctr == Incremented(s.strm) IN
  [s EXCEPT !.strm.ctr = ctr, !.strm.buf = CipherBlock(s.strm, Decode(ctr))]

cipherblock_use(s, nbytes, bytemod) ==
  [s EXCEPT
     !.n = @ - nbytes,
     !.strm.bytectr = @ + nbytes,
     !.xored = @ \cup {[blk |-> s.strm.buf, off |-> bytemod + i, pos |-> s.strm.bytectr + i] :
                       i \in 0 .. nbytes - 1}]

(* What is left of the current block of cipherstream. *)
pre_wholeblock(s) ==
  LET bytemod == s.strm.bytectr % BLK IN
  IF bytemod = 0 THEN s ELSE cipherblock_use(s, Min({s.n, BLK - bytemod}), bytemod)

post_wholeblock(s) ==
  IF s.n = 0 THEN s ELSE cipherblock_use(cipherblock_generate(s), s.n, 0)

(* Whole blocks, one after the other. *)
wholeblocks(s) ==
  LET after[k \in 0 .. s.n \div BLK] ==
        IF k = 0 THEN s ELSE cipherblock_use(cipherblock_generate(after[k - 1]), BLK, 0)
  IN  after[s.n \div BLK]

(* crypto_aesctr_aesni_stream_wholeblocks: the counter in a register, the   *)
(* last one stored at the end.                                              *)
aesni_wholeblocks(s) ==
  LET num == s.n \div BLK
      first == s.strm.bytectr \div BLK
  IN
  IF num = 0 THEN s
  ELSE [n |-> s.n - num * BLK,
        strm |-> [s.strm EXCEPT !.ctr = be64enc(first + num - 1), !.bytectr = @ + num * BLK],
        xored |-> s.xored \cup
          {[blk |-> CipherBlock(s.strm, first + i \div BLK), off |-> i % BLK,
            pos |-> s.strm.bytectr + i] : i \in 0 .. num * BLK - 1}]

(* crypto_aesctr_arm_stream_wholeblocks: the same with other instructions. *)
arm_wholeblocks(s) == aesni_wholeblocks(s)

(* crypto_aesctr_aesni_stream, crypto_aesctr_arm_stream. *)
aesni_stream(s) == post_wholeblock(aesni_wholeblocks(pre_wholeblock(s)))
arm_stream(s) == post_wholeblock(arm_wholeblocks(pre_wholeblock(s)))

(* crypto_aesctr_stream: the assertion keeps a stream below 2^64 bytes, and *)
(* short calls are left to the software.                                    *)
crypto_aesctr_stream(len) ==
  LET call == [n |-> len, strm |-> strm, xored |-> {}]
      post == IF len >= BLK /\ hwaccel = "aesni" THEN aesni_stream(call)
              ELSE IF len >= BLK /\ hwaccel = "arm" THEN arm_stream(call)
              ELSE post_wholeblock(wholeblocks(pre_wholeblock(call)))
  IN
  /\ strm.key # NoKey
  /\ len < CTRMAX - strm.bytectr
  /\ strm' = post.strm /\ xored' = post.xored
  /\ UNCHANGED hwaccel

(* crypto_aesctr_free; a later crypto_aesctr_alloc gets memory with         *)
(* anything in it.                                                          *)
crypto_aesctr_free ==
  /\ strm.key # NoKey
  /\ \E n \in Nonces, c \in Counter : strm' = Fresh(n, c)
  /\ xored' = {}
  /\ UNCHANGED hwaccel

AesNext ==
  \/ crypto_aesctr_free
  \/ \E k \in AesKeys \cup ({strm.key} \ {NoKey}), n \in Nonces : crypto_aesctr_init2(k, n)
  \/ \E len \in CallLens : crypto_aesctr_stream(len)

AesSpec == AesInit /\ [][AesNext]_aesvars
----------------------------------------------------------------------------
(* However a stream is cut into calls, and whichever code handles each of   *)
(* them, byte p of the stream is xored with byte p mod 16 of the encryption *)
(* of the nonce and p div 16, under the key of the stream, and every byte   *)
(* of a call once.                                                          *)
KeystreamExact ==
  /\ AesTypeOK
  /\ \A x \in xored : /\ x.blk = CipherBlock(strm, x.pos \div BLK)
                      /\ x.off = x.pos % BLK
  /\ {x.pos : x \in xored} = strm.bytectr - Cardinality(xored) .. strm.bytectr - 1
=============================================================================
