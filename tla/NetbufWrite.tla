----------------------------- MODULE NetbufWrite -----------------------------
(***************************************************************************)
(* The buffered writer (netbuf/netbuf_write.c) on a socket.  Clients       *)
(* reserve space, fill it and consume the reservation, or do all of this   *)
(* with netbuf_write_write.  The bytes are numbered in the order in which  *)
(* clients hand them over.                                                 *)
(*                                                                         *)
(* netbuf.h obliges the client to consume a reservation before it returns  *)
(* to the event loop.  A reservation that failed cannot be consumed, but   *)
(* it leaves the writer reserved: the client can free the writer, and if   *)
(* it does not, the write under way makes writbuf's assertion fail when    *)
(* it ends.                                                                *)
(***************************************************************************)
EXTENDS NetworkWrite, SequencesExt

CONSTANTS
  WBUFLEN,     \* the size of a write buffer (4096 in the source)
  WriteLens,   \* how many bytes clients write at a time
  MaxWritten   \* how many bytes clients write at all

ASSUME NetbufWriteAssumption ==
  /\ WBUFLEN \in Nat \ {0} /\ WriteLens \subseteq Nat /\ MaxWritten \in Nat
  /\ NULL \notin WriteLens \cup -1 .. MaxWritten

VARIABLES
  W,      \* the writer, or NULL once it was freed or the program has aborted
  space,  \* the length of a reservation, or NULL
  fcalls, \* history: number of calls of fail_callback
  made,   \* history: number of bytes clients have handed over
  launch  \* history: what the last poke that had something to write did: "ok",
          \* "failed", or "empty" where network_write's assertion fails; and
          \* "abort" where writbuf's does, which ends the program

writevars == <<wr, out, W, space, fcalls, made, launch>>

(* A writebuf: its size and the data in it. *)
WriteBuf == [buflen : Nat, data : Seq(1 .. MaxWritten)]
Writer ==
  [reserved : BOOLEAN, failed : BOOLEAN, buffers : Seq(WriteBuf), curr : WriteBuf \cup {NULL}]
WriteCookie == [buf : Seq(1 .. MaxWritten), minlen : Nat, bufpos : Nat]

ASSUME WriterNullAssumption == NULL \notin WriteBuf \cup Writer \cup WriteCookie

NetbufWriteTypeOK ==
  /\ wr \in WriteCookie \cup {NULL}
  /\ W \in Writer \cup {NULL}
  /\ space \in WriteLens \cup {NULL}
  /\ fcalls \in Nat /\ made \in 0 .. MaxWritten 
  /\ launch \in {"ok", "failed", "empty", "abort"}

(* netbuf_write_init2 has been called. *)
WriteInit ==
  /\ wr = NULL /\ out = <<>>
  /\ W = [reserved |-> FALSE, failed |-> FALSE, buffers |-> <<>>, curr |-> NULL]
  /\ space = NULL /\ fcalls = 0 /\ made = 0 /\ launch = "ok"

LastBuf(V) == V.buffers[Len(V.buffers)]
----------------------------------------------------------------------------
(* Mutant: the newest buffer is written first. *)
poke_last(V, cookie) ==
  IF cookie # NULL \/ V.buffers = <<>> \/ V.failed
  THEN W' = V /\ wr' = cookie /\ UNCHANGED launch
  ELSE /\ network_write(LastBuf(V).data, Len(LastBuf(V).data))
       /\ W' = [V EXCEPT !.curr = LastBuf(V), !.buffers = SubSeq(@, 1, Len(@) - 1)]
       /\ launch' = "ok"

(* poke, for the writer V whose write_cookie is cookie: start to write the  *)
(* first buffer, if there is one and nothing is being written and nothing   *)
(* has failed.  If network_write fails the buffer stays in the queue, until *)
(* the client writes more.                                                  *)
poke(V, cookie) ==
  IF cookie # NULL \/ V.buffers = <<>> \/ V.failed
  THEN W' = V /\ wr' = cookie /\ UNCHANGED launch
  ELSE LET WB == Head(V.buffers)
       IN \/ /\ network_write(WB.data, Len(WB.data))
             /\ W' = [V EXCEPT !.curr = WB, !.buffers = Tail(@)]
             /\ launch' = IF NonEmpty(WB.data) THEN "ok" ELSE "empty"
          \/ /\ wr' = NULL
             /\ W' = V
             /\ launch' = "failed"

(* netbuf_write_reserve: in the last buffer of the queue if it has space,   *)
(* otherwise in a new one.                                                  *)
Reserved(V, len) ==
  IF V.buffers # <<>> /\ LastBuf(V).buflen - Len(LastBuf(V).data) >= len
  THEN [V EXCEPT !.reserved = TRUE]
  ELSE [V EXCEPT !.reserved = TRUE,
                 !.buffers = Append(@, [buflen |-> Max({len, WBUFLEN}), data |-> <<>>])]

(* The bytes a client puts into len bytes of reserved space. *)
NextBytes(len) == [i \in 1 .. len |-> made + i]

(* The first part of netbuf_write_consume: nothing is added to the buffer   *)
(* if the writer has failed.                                                *)
Consumed(V, len) ==
  IF V.failed THEN [V EXCEPT !.reserved = FALSE]
  ELSE [V EXCEPT !.reserved = FALSE,
                 !.buffers[Len(V.buffers)].data = @ \o NextBytes(len)]

netbuf_write_reserve(len) ==
  /\ W # NULL /\ ~W.reserved
  /\ W' = Reserved(W, len)
  /\ space' = len
  /\ UNCHANGED <<wr, out, fcalls, made, launch>>

(* It fails, but reserved has been set by then. *)
netbuf_write_reserve_fails ==
  /\ W # NULL /\ ~W.reserved
  /\ W' = [W EXCEPT !.reserved = TRUE]
  /\ UNCHANGED <<wr, out, space, fcalls, made, launch>>

netbuf_write_consume(len) ==
  /\ W # NULL /\ W.reserved /\ space # NULL /\ len <= space /\ made + len <= MaxWritten
  /\ poke(Consumed(W, len), wr)
  /\ space' = NULL
  /\ made' = IF W.failed THEN made ELSE made + len
  /\ UNCHANGED <<out, fcalls>>

(* netbuf_write_write: both in one, or nothing if the writer has failed.    *)
(* Where it cannot reserve, see netbuf_write_reserve_fails.                 *)
netbuf_write_write(len) ==
  /\ W # NULL /\ ~W.reserved /\ ~W.failed /\ made + len <= MaxWritten
  /\ poke(Consumed(Reserved(W, len), len), wr)
  /\ made' = made + len
  /\ UNCHANGED <<out, space, fcalls>>

(* netbuf_write_free cancels the write in progress. *)
netbuf_write_free ==
  /\ W # NULL
  /\ W' = NULL /\ network_write_cancel
  /\ space' = NULL
  /\ UNCHANGED <<out, fcalls, made, launch>>

(* writbuf, called by network_write: the next buffer follows, or after a    *)
(* failure fail_callback is called.  It asserts that no space is reserved.  *)
writbuf(writelen) ==
  /\ IF W.reserved
     THEN W' = NULL /\ wr' = NULL /\ launch' = "abort" /\ UNCHANGED fcalls
     ELSE IF writelen # Len(W.curr.data)
     THEN /\ W' = [W EXCEPT !.curr = NULL, !.failed = TRUE]
          /\ wr' = NULL
          /\ fcalls' = fcalls + 1
          /\ UNCHANGED launch
     ELSE poke([W EXCEPT !.curr = NULL], NULL) /\ UNCHANGED fcalls
  /\ UNCHANGED <<space, made>>

WriteClient ==
  \/ \E len \in WriteLens :
       netbuf_write_reserve(len) \/ netbuf_write_write(len) \/ netbuf_write_consume(len)
  \/ netbuf_write_reserve_fails
  \/ netbuf_write_free

(* The loop runs only while the client has no space to fill: a reservation  *)
(* is consumed "before control returns to the event loop" (netbuf.h).       *)
WriteLoop ==
  /\ W # NULL /\ space = NULL
  /\ \E given \in {NULL} \cup -1 .. MaxWritten :
       /\ callback_buf_write(given)
       /\ IF given = NULL THEN UNCHANGED <<W, space, fcalls, made, launch>> ELSE writbuf(given)

WriteNext == WriteClient \/ WriteLoop

WriteSpec == WriteInit /\ [][WriteNext]_writevars
----------------------------------------------------------------------------
(* A writer fails at most once, with one call of fail_callback, and sends   *)
(* nothing after that; curr and write_cookie belong together, as writbuf    *)
(* and poke assert; a reservation keeps its space while writes finish; and  *)
(* data waits in the queue only behind a write in progress, or because      *)
(* network_write failed; and network_write is given something to write.     *)
WriterConsistent ==
  W # NULL =>
    /\ fcalls = (IF W.failed THEN 1 ELSE 0)
    /\ (wr = NULL) = (W.curr = NULL)
    /\ wr # NULL => /\ wr.buf = W.curr.data /\ wr.minlen = Len(wr.buf)
                    /\ wr.bufpos < wr.minlen /\ ~W.failed
    /\ \A i \in DOMAIN W.buffers : Len(W.buffers[i].data) <= W.buffers[i].buflen
    /\ space # NULL => /\ W.reserved /\ W.buffers # <<>>
                       /\ LastBuf(W).buflen - Len(LastBuf(W).data) >= space
    /\ W.buffers # <<>> /\ wr = NULL => W.failed \/ W.reserved \/ launch = "failed"
    /\ launch # "empty"

(* The bytes d are those of the stream that follow byte n. *)
Run(d, n) == \A j \in 1 .. Len(d) : d[j] = n + j

(* How many bytes were handed over before those of buffer i of the queue.   *)
Before(bufs, i, n) ==
  IF i <= Len(bufs) /\ bufs[i].data # <<>> THEN bufs[i].data[1] - 1 ELSE n

(* The buffers of the queue, each where the one before it ends, hold the    *)
(* stream up to byte n.                                                     *)
Queued(bufs, n) ==
  \A i \in DOMAIN bufs :
    /\ Run(bufs[i].data, Before(bufs, i, n))
    /\ Before(bufs, i, n) + Len(bufs[i].data) = Before(bufs, i + 1, n)

(* What was sent, what is left of the buffer being written and what waits   *)
(* in the queue is the stream the clients wrote: no byte is skipped,        *)
(* repeated or overtaken, whatever buffers they went through, until the     *)
(* first failure.  After it what was sent is a prefix of the stream.  The   *)
(* writer's own state stays consistent.                                     *)
WriteInOrder ==
  /\ NetbufWriteTypeOK /\ WriterConsistent
  /\ Run(out, 0) /\ Len(out) <= made
  /\ W # NULL /\ ~W.failed =>
       /\ Queued(W.buffers, made)
       /\ wr = NULL => Len(out) = Before(W.buffers, 1, made)
       /\ wr # NULL => /\ Run(wr.buf, Len(out) - wr.bufpos)
                       /\ Len(out) - wr.bufpos + Len(wr.buf) = Before(W.buffers, 1, made)
=============================================================================
