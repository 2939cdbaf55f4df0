----------------------------- MODULE NetworkRead -----------------------------
(***************************************************************************)
(* Reading from a socket (network/network_read.c): one request at a time   *)
(* reads into memory of the client until it has enough.  Bytes carry their *)
(* number in the stream that the peer sends, so that a byte that is lost,  *)
(* repeated or overwritten shows.                                          *)
(***************************************************************************)
EXTENDS Null, Integers, FiniteSetsExt

CONSTANT MaxBytes  \* how many bytes the peer sends

ASSUME ReadAssumption == MaxBytes \in Nat /\ NULL \notin -1 .. MaxBytes

VARIABLES
  sent,     \* number of bytes the peer has sent
  closed,   \* the peer has closed its end
  rcvd,     \* number of bytes that recv has delivered
  mem,      \* the memory read into, a sequence of byte numbers (0: never written)
  rd        \* the network_read_cookie: buf is &mem[at + 1], or NULL

sockvars == <<sent, closed, rcvd, mem, rd>>

ReadCookie ==
  [at : Nat, buflen : Nat \ {0}, minlen : Nat, bufpos : Nat]

ASSUME ReadNullAssumption == NULL \notin ReadCookie

(* The peer sends a byte or closes; bytes that were sent are still          *)
(* delivered.                                                               *)
PeerSends ==
  /\ ~closed /\ sent < MaxBytes
  /\ sent' = sent + 1
  /\ UNCHANGED <<closed, rcvd, mem, rd>>

PeerCloses ==
  /\ ~closed
  /\ closed' = TRUE
  /\ UNCHANGED <<sent, rcvd, mem, rd>>
----------------------------------------------------------------------------
(* network_read; the assertion is the guard.  If it fails nothing changes.  *)
network_read(at, buflen, minread) ==
  /\ buflen # 0
  /\ rd' = [at |-> at, buflen |-> buflen, minlen |-> minread, bufpos |-> 0]

(* network_read_cancel *)
network_read_cancel == rd' = NULL

(* recv(2) into the rest of the buffer returns len; to ask for no bytes at  *)
(* all gives none, like the end of the stream.                              *)
recv(len) ==
  LET oplen == rd.buflen - rd.bufpos
      start == rd.at + rd.bufpos
  IN \/ /\ len \in 1 .. Min({oplen, sent - rcvd})
        /\ mem' = [i \in DOMAIN mem |->
                     IF i \in start + 1 .. start + len THEN rcvd + i - start ELSE mem[i]]
        /\ rcvd' = rcvd + len
     \/ /\ len = 0
        /\ oplen = 0 \/ (closed /\ rcvd = sent)
        /\ UNCHANGED <<mem, rcvd>>
     \/ /\ len = -1
        /\ UNCHANGED <<mem, rcvd>>

(* docallback: the client's callback is given nbytes.  The cookie is freed  *)
(* after it; the client may start another request meanwhile, with a cookie  *)
(* of its own.                                                              *)
docallback_read(given, nbytes) == given = nbytes /\ rd' = NULL

(* callback_buf: the socket is readable; given is what the client's         *)
(* callback is given, or NULL if it is not called.  A try-again, and fewer  *)
(* bytes than the client must have, register the event again; where that    *)
(* fails the request fails, and so does one that recv fails for.            *)
callback_buf_read(given) ==
  /\ rd # NULL
  /\ UNCHANGED <<sent, closed>>
  /\ \E len \in -1 .. MaxBytes :
       /\ recv(len)
       /\ LET bufpos == rd.bufpos + Max({len, 0})
              tryagain == given = NULL /\ rd' = [rd EXCEPT !.bufpos = bufpos]
              failed == docallback_read(given, -1)
          IN \/ len = -1 /\ (tryagain \/ failed)
             \/ len = 0 /\ docallback_read(given, 0)
             \/ len > 0 /\ bufpos < rd.minlen /\ (tryagain \/ failed)
             \/ len > 0 /\ bufpos >= rd.minlen /\ docallback_read(given, bufpos)
=============================================================================
