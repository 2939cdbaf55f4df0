-------------------------------- MODULE Hash --------------------------------
(***************************************************************************)
(* The streaming side of the hashes (alg/sha256.c, alg/sha1.c, alg/md5.c), *)
(* HMAC, and PBKDF2: how data that arrives in pieces is cut into blocks,   *)
(* padded and counted.  The compression function is left abstract: the     *)
(* state of a hash is the sequence of the blocks it has absorbed, and a    *)
(* digest is HLEN bytes that name that sequence.  A block has HBLK bytes   *)
(* (64), the last CNT of the last block (8) hold the number of bits; a     *)
(* byte has BITS bits (8) and a word of the count CWORD values (2^32).     *)
(***************************************************************************)
EXTENDS Integers, SequencesExt

CONSTANTS HBLK, CNT, BITS, CWORD, HLEN, HashLens, MaxMessage, KeyLens

ASSUME HashAssumption ==
  /\ {HBLK, CNT, BITS, CWORD, HLEN, MaxMessage} \subseteq Nat \ {0}
  /\ CNT < HBLK /\ CWORD % BITS = 0 /\ HLEN <= HBLK
  /\ (CWORD * CWORD) % (BITS * HBLK) = 0   \* a count that wraps does so between blocks
  /\ HashLens \cup KeyLens \subseteq Nat

VARIABLES
  alg,     \* the hash in use
  cx,      \* its context, or that of HMAC
  fed,     \* how many bytes it was given
  klen,    \* the length of the HMAC key, or -1 for the hash alone
  digest   \* the digest, or <<>>

hashvars == <<alg, cx, fed, klen, digest>>

(* The bytes of a message or key, of the padding, of a count and of a       *)
(* digest; a byte x of a key xored with 0x36 or 0x5c.                       *)
Byte(t, n, of) == [t |-> t, n |-> n, of |-> of]
Message(lo, len) == [i \in 1 .. len |-> Byte("m", lo + i, <<>>)]
KeyOf(len) == [i \in 1 .. len |-> Byte("k", i, <<>>)]
PAD == [i \in 1 .. HBLK |-> Byte("pad", IF i = 1 THEN 128 ELSE 0, <<>>)]
Digest(blocks) == [i \in 1 .. HLEN |-> Byte("h", i, blocks)]
Xor(x, K) == [i \in 1 .. HBLK |-> IF i <= Len(K) THEN Byte("x", x, <<K[i]>>) ELSE Byte("x", x, <<>>)]
CountBytes(n) == [i \in 1 .. CNT |-> Byte("c", i, <<n>>)]

(* A context: the blocks absorbed, the number of bits, and the buffer. *)
NewContext == [state |-> <<>>, count |-> 0, buf |-> [i \in 1 .. HBLK |-> Byte("m", 0, <<>>)]]
Buffered(c) == (c.count \div BITS) % HBLK
Transform(c, block) == [c EXCEPT !.state = Append(@, block)]
Put(buf, r, src) == [i \in 1 .. HBLK |-> IF i \in r + 1 .. r + Len(src) THEN src[i - r] ELSE buf[i]]

(* The part the three _Update functions have in common: r bytes were in the *)
(* buffer before the count was updated.                                     *)
Absorb(c, r, src) ==
  LET first == Put(c.buf, r, SubSeq(src, 1, HBLK - r))
      rest == SubSeq(src, HBLK - r + 1, Len(src))
      n == Len(rest) \div HBLK
      whole == [i \in 1 .. n |-> SubSeq(rest, (i - 1) * HBLK + 1, i * HBLK)]
  IN
  IF Len(src) < HBLK - r THEN [c EXCEPT !.buf = Put(@, r, src)]
  ELSE [c EXCEPT !.state = @ \o <<first>> \o whole,
                 !.buf = Put(first, 0, SubSeq(rest, n * HBLK + 1, Len(rest)))]
----------------------------------------------------------------------------
(* SHA256: one count of 64 bits, and padding written into the buffer. *)
SHA256_Init == NewContext

SHA256_Update(c, src) ==
  Absorb([c EXCEPT !.count = (@ + Len(src) * BITS) % (CWORD * CWORD)], Buffered(c), src)

(* The padding and the count fit into the block, or they take another one. *)
SHA256_Pad_late(c) ==
  LET r == Buffered(c)
      zeros == [i \in 1 .. HBLK - CNT |-> Byte("pad", 0, <<>>)]
      full == Put(c.buf, r, SubSeq(PAD, 1, HBLK - r))
  IN
  IF r <= HBLK - CNT
  THEN Transform(c, Put(Put(c.buf, r, SubSeq(PAD, 1, HBLK - CNT - r)), HBLK - CNT, CountBytes(c.count)))
  ELSE Transform(Transform(c, full), Put(Put(full, 0, zeros), HBLK - CNT, CountBytes(c.count)))
SHA256_Pad(c) ==
  LET r == Buffered(c)
      zeros == [i \in 1 .. HBLK - CNT |-> Byte("pad", 0, <<>>)]
      full == Put(c.buf, r, SubSeq(PAD, 1, HBLK - r))
  IN
  IF r < HBLK - CNT
  THEN Transform(c, Put(Put(c.buf, r, SubSeq(PAD, 1, HBLK - CNT - r)), HBLK - CNT, CountBytes(c.count)))
  ELSE Transform(Transform(c, full), Put(Put(full, 0, zeros), HBLK - CNT, CountBytes(c.count)))

SHA256_Final(c) == Digest(SHA256_Pad(c).state)
SHA256_Buf(m) == SHA256_Final(SHA256_Update(SHA256_Init, m))
----------------------------------------------------------------------------
(* SHA1 and MD5: a count of two words, and padding by way of _Update.       *)
(* TwoWords is how both add a length to the count.                          *)
TwoWords(count, len) ==
  LET lowlen == (len * BITS) % CWORD
      low == ((count % CWORD) + lowlen) % CWORD
      carry == IF low < lowlen THEN 1 ELSE 0
      high == ((count \div CWORD) + (len \div (CWORD \div BITS)) + carry) % CWORD
  IN  high * CWORD + low

SHA1_Init == NewContext
SHA1_Update(c, src) == Absorb([c EXCEPT !.count = TwoWords(@, Len(src))], Buffered(c), src)
PadLength(r) == IF r < HBLK - CNT THEN HBLK - CNT - r ELSE 2 * HBLK - CNT - r
SHA1_Pad(c) ==
  SHA1_Update(SHA1_Update(c, SubSeq(PAD, 1, PadLength(Buffered(c)))), CountBytes(c.count))
SHA1_Final(c) == Digest(SHA1_Pad(c).state)
SHA1_Buf(m) == SHA1_Final(SHA1_Update(SHA1_Init, m))

MD5_Init == NewContext
MD5_Update(c, src) == Absorb([c EXCEPT !.count = TwoWords(@, Len(src))], Buffered(c), src)
MD5_Pad(c) ==
  MD5_Update(MD5_Update(c, SubSeq(PAD, 1, PadLength(Buffered(c)))), CountBytes(c.count))
MD5_Final(c) == Digest(MD5_Pad(c).state)
MD5_Buf(m) == MD5_Final(MD5_Update(MD5_Init, m))
----------------------------------------------------------------------------
(* HMAC: two hashes, both started with a block made of the key, or of its   *)
(* hash if it is longer than a block.                                       *)
Update(h, c, in) ==
  CASE h = "sha256" -> SHA256_Update(c, in)
    [] h = "sha1" -> SHA1_Update(c, in)
    [] h = "md5" -> MD5_Update(c, in)
Final(h, c) ==
  CASE h = "sha256" -> SHA256_Final(c)
    [] h = "sha1" -> SHA1_Final(c)
    [] h = "md5" -> MD5_Final(c)

HmacInit(h, K0) ==
  LET K == IF Len(K0) > HBLK THEN Final(h, Update(h, NewContext, K0)) ELSE K0 IN
  [ictx |-> Update(h, NewContext, Xor(54, K)), octx |-> Update(h, NewContext, Xor(92, K))]
HmacUpdate(h, c, in) == [c EXCEPT !.ictx = Update(h, @, in)]
HmacFinal(h, c) == Final(h, Update(h, c.octx, Final(h, c.ictx)))

HMAC_SHA256_Init(K) == HmacInit("sha256", K)
HMAC_SHA256_Update(c, in) == HmacUpdate("sha256", c, in)
HMAC_SHA256_Final(c) == HmacFinal("sha256", c)
HMAC_SHA256_Buf(K, in) == HMAC_SHA256_Final(HMAC_SHA256_Update(HMAC_SHA256_Init(K), in))

HMAC_SHA1_Init(K) == HmacInit("sha1", K)
HMAC_SHA1_Update(c, in) == HmacUpdate("sha1", c, in)
HMAC_SHA1_Final(c) == HmacFinal("sha1", c)

HMAC_MD5_Init(K) == HmacInit("md5", K)
HMAC_MD5_Update(c, in) == HmacUpdate("md5", c, in)
HMAC_MD5_Final(c) == HmacFinal("md5", c)

(* PBKDF2_SHA256: the contexts after the password, and after the password   *)
(* and the salt, are computed once and copied.  The xor of blocks is the    *)
(* sequence of them.                                                        *)
INT(i) == <<Byte("i", i, <<>>)>>
XorOf(Us) == [i \in 1 .. HLEN |-> Byte("t", i, Us)]
PBKDF2_U(Phctx, PShctx, c, i) ==
  LET u[j \in 1 .. c] ==
        HMAC_SHA256_Final(IF j = 1 THEN HMAC_SHA256_Update(PShctx, INT(i))
                          ELSE HMAC_SHA256_Update(Phctx, u[j - 1]))
  IN  u
PBKDF2_SHA256(P, S, c, dkLen) ==
  LET Phctx == HMAC_SHA256_Init(P)
      PShctx == HMAC_SHA256_Update(Phctx, S)
      T(i) == SubSeq(XorOf(PBKDF2_U(Phctx, PShctx, c, i + 1)), 1, Min({dkLen - i * HLEN, HLEN}))
  IN  FlattenSeq([i \in 1 .. (dkLen + HLEN - 1) \div HLEN |-> T(i - 1)])
----------------------------------------------------------------------------
(* A program that computes one digest: it feeds a message in pieces to a    *)
(* hash (klen = -1) or to HMAC with a key of klen bytes, or derives a key.  *)
HashInit ==
  /\ alg \in {"sha256", "sha1", "md5"}
  /\ klen \in {-1} \cup KeyLens
  /\ fed = 0 /\ digest = <<>>
  /\ cx = CASE klen = -1 -> NewContext
            [] klen # -1 /\ alg = "sha256" -> HMAC_SHA256_Init(KeyOf(klen))
            [] klen # -1 /\ alg = "sha1" -> HMAC_SHA1_Init(KeyOf(klen))
            [] klen # -1 /\ alg = "md5" -> HMAC_MD5_Init(KeyOf(klen))

HashUpdate(len) ==
  LET in == Message(fed, len) IN
  /\ digest = <<>> /\ fed + len <= MaxMessage
  /\ fed' = fed + len
  /\ cx' = CASE klen = -1 -> Update(alg, cx, in)
             [] klen # -1 /\ alg = "sha256" -> HMAC_SHA256_Update(cx, in)
             [] klen # -1 /\ alg = "sha1" -> HMAC_SHA1_Update(cx, in)
             [] klen # -1 /\ alg = "md5" -> HMAC_MD5_Update(cx, in)
  /\ UNCHANGED <<alg, klen, digest>>

HashFinal ==
  /\ digest = <<>>
  /\ digest' = CASE klen = -1 -> Final(alg, cx)
                 [] klen # -1 /\ alg = "sha256" -> HMAC_SHA256_Final(cx)
                 [] klen # -1 /\ alg = "sha1" -> HMAC_SHA1_Final(cx)
                 [] klen # -1 /\ alg = "md5" -> HMAC_MD5_Final(cx)
  /\ UNCHANGED <<alg, klen, fed, cx>>

HashNext == HashFinal \/ \E len \in HashLens : HashUpdate(len)

HashSpec == HashInit /\ [][HashNext]_hashvars
----------------------------------------------------------------------------
(* What a digest is by the standards: the message, a byte 0x80, as many     *)
(* zeros as it takes, and the number of bits, cut into blocks.              *)
HashOf(m) ==
  LET zeros == (2 * HBLK - CNT - 1 - (Len(m) % HBLK)) % HBLK
      all == m \o SubSeq(PAD, 1, 1 + zeros) \o CountBytes((Len(m) * BITS) % (CWORD * CWORD))
  IN  Digest([i \in 1 .. Len(all) \div HBLK |-> SubSeq(all, (i - 1) * HBLK + 1, i * HBLK)])

HmacOf(K0, m) ==
  LET K == IF Len(K0) > HBLK THEN HashOf(K0) ELSE K0 IN
  HashOf(Xor(92, K) \o HashOf(Xor(54, K) \o m))

UOf(P, S, c, i) ==
  LET u[j \in 1 .. c] == HmacOf(P, IF j = 1 THEN S \o INT(i) ELSE u[j - 1]) IN u
DerivedOf(P, S, c, dkLen) ==
  SubSeq(FlattenSeq([i \in 1 .. dkLen |-> XorOf(UOf(P, S, c, i))]), 1, dkLen)

(* A digest depends on the message alone, not on how it was cut into        *)
(* pieces, and is the one the standards define, for messages and keys of    *)
(* every length about the ends of blocks and of the count's low word; so is *)
(* a derived key, for every length about the ends of digests.               *)
DigestsExact ==
  /\ digest # <<>> =>
       digest = IF klen = -1 THEN HashOf(Message(0, fed)) ELSE HmacOf(KeyOf(klen), Message(0, fed))
  /\ (alg = "sha256" /\ klen >= 0 /\ digest # <<>> /\ fed <= HLEN + 1) =>
       \A c \in 1 .. 2 : PBKDF2_SHA256(KeyOf(klen), Message(0, 1), c, fed)
                          = DerivedOf(KeyOf(klen), Message(0, 1), c, fed)
=============================================================================
