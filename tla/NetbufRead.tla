------------------------------ MODULE NetbufRead ------------------------------
(***************************************************************************)
(* The buffered reader (netbuf/netbuf_read.c) on a socket.  The memory of  *)
(* its buffer is mem; network_read writes into it beyond datalen.  The     *)
(* same reader works over network_ssl_read, whose requests make the same   *)
(* promise.                                                                *)
(*                                                                         *)
(* A client waits for data, looks at it and consumes it, from the main     *)
(* program or from the callback of a wait.                                 *)
(***************************************************************************)
EXTENDS NetworkRead

CONSTANTS
  RBUFLEN,  \* the initial size of the buffer (4096 in the source)
  WaitLens  \* how many bytes clients wait for

ASSUME NetbufReadAssumption == RBUFLEN \in Nat \ {0} /\ WaitLens \subseteq Nat

VARIABLES
  R,         \* the reader: bufpos, datalen and whether immediate_cookie is set,
             \* or NULL once it was freed
  rcall,     \* status given to the client's callback that is under way, or NULL
  want,      \* history: the last byte that the last wait asked for
  consumed,  \* history: number of bytes the client has consumed
  due,       \* history: the client was told of the bytes up to this one
  lost       \* history: number of bytes recv delivered that no client will see

readervars == <<R, rcall, want, consumed, due, lost>>
readvars == <<sockvars, readervars>>

buflen == Cardinality(DOMAIN mem)
Buffered == R.datalen - R.bufpos
Busy == rd # NULL \/ R.immediate

Reader == [bufpos : Nat, datalen : Nat, immediate : BOOLEAN]

ASSUME ReaderNullAssumption == NULL \notin Reader

NetbufReadTypeOK ==
  /\ sent \in 0 .. MaxBytes /\ rcvd \in 0 .. sent /\ closed \in BOOLEAN
  /\ DOMAIN mem = 1 .. buflen /\ \A i \in DOMAIN mem : mem[i] \in 0 .. MaxBytes
  /\ rd \in ReadCookie \cup {NULL}
  /\ R \in Reader \cup {NULL}
  /\ rcall \in {NULL, -1, 0, 1}
  /\ want \in Nat
  /\ consumed \in 0 .. MaxBytes /\ due \in 0 .. MaxBytes /\ lost \in 0 .. MaxBytes

(* netbuf_read_init2 has been called. *)
ReadInit ==
  /\ sent = 0 /\ closed = FALSE /\ rcvd = 0 /\ rd = NULL
  /\ mem = [i \in 1 .. RBUFLEN |-> 0]
  /\ R = [bufpos |-> 0, datalen |-> 0, immediate |-> FALSE]
  /\ rcall = NULL /\ want = 0 /\ consumed = 0 /\ due = 0 /\ lost = 0
----------------------------------------------------------------------------
(* Mutant: what was consumed is moved too. *)
AtStart_ignores_bufpos(n) ==
  [i \in 1 .. n |-> IF i <= Buffered THEN mem[i] ELSE IF n = buflen THEN mem[i] ELSE 0]

(* The bytes that are buffered, at the start of a buffer of n bytes: what   *)
(* memcpy and memmove leave.                                                *)
AtStart(n) ==
  [i \in 1 .. n |-> IF i <= Buffered THEN mem[R.bufpos + i]
                    ELSE IF n = buflen THEN mem[i] ELSE 0]

(* netbuf_read_resize_buffer: the size of the new buffer. *)
ResizedTo(len) == Max({buflen * 2, len})

(* Make room for len bytes at bufpos: in a larger buffer, or by moving the  *)
(* data to the start of this one.                                           *)
MakeRoom(len) ==
  IF buflen < len THEN [mem |-> AtStart(ResizedTo(len)), bufpos |-> 0]
  ELSE IF buflen - R.bufpos < len THEN [mem |-> AtStart(buflen), bufpos |-> 0]
  ELSE [mem |-> mem, bufpos |-> R.bufpos]

(* netbuf_read_wait(R, len): an immediate event if the data is there,       *)
(* otherwise a read of at least what is missing and at most what fits.  It  *)
(* can fail at each step; the room that was made by then stays.             *)
netbuf_read_wait(len) ==
  /\ R # NULL /\ ~Busy
  /\ want' = consumed + len
  /\ \/ /\ Buffered >= len
        /\ R' = [R EXCEPT !.immediate = TRUE]
        /\ UNCHANGED <<mem, rd>>
     \/ /\ Buffered < len
        /\ LET room == MakeRoom(len)
               datalen == room.bufpos + Buffered
           IN /\ mem' = room.mem
              /\ R' = [R EXCEPT !.bufpos = room.bufpos, !.datalen = datalen]
              /\ \/ network_read(datalen, Cardinality(DOMAIN room.mem) - datalen,
                                 room.bufpos + len - datalen)
                 \/ UNCHANGED rd
  /\ UNCHANGED <<sent, closed, rcvd, rcall, consumed, due, lost>>

(* netbuf_read_wait_cancel: what the read has delivered goes with it. *)
netbuf_read_wait_cancel ==
  /\ R # NULL
  /\ lost' = lost + (IF rd = NULL THEN 0 ELSE rd.bufpos)
  /\ network_read_cancel
  /\ R' = [R EXCEPT !.immediate = FALSE]
  /\ UNCHANGED <<sent, closed, rcvd, mem, rcall, want, consumed, due>>

(* netbuf_read_consume(R, len): no more than netbuf_read_peek has shown. *)
netbuf_read_consume(len) ==
  /\ R # NULL /\ len <= Buffered
  /\ R' = [R EXCEPT !.bufpos = @ + len]
  /\ consumed' = consumed + len
  /\ UNCHANGED <<sockvars, rcall, want, due, lost>>

(* netbuf_read_free: not while a wait is in progress. *)
netbuf_read_free ==
  /\ R # NULL /\ ~Busy
  /\ R' = NULL
  /\ UNCHANGED <<sockvars, rcall, want, consumed, due, lost>>
----------------------------------------------------------------------------
(* callback_success, run by the immediate event. *)
callback_success ==
  /\ R # NULL /\ R.immediate
  /\ R' = [R EXCEPT !.immediate = FALSE]
  /\ rcall' = 0
  /\ due' = want
  /\ UNCHANGED <<sockvars, want, consumed, lost>>

(* callback_read, called by network_read with the number of bytes read, 0   *)
(* or -1; NULL stands for no call.  Bytes that came before an end of file   *)
(* or a failure are not counted in.                                         *)
callback_read(lenread) ==
  IF lenread = NULL THEN UNCHANGED readervars
  ELSE /\ R' = [R EXCEPT !.datalen = @ + Max({lenread, 0})]
       /\ rcall' = (IF lenread > 0 THEN 0 ELSE IF lenread = 0 THEN 1 ELSE -1)
       /\ due' = (IF lenread > 0 THEN want ELSE due)
       /\ lost' = lost + (rcvd' - rcvd) + rd.bufpos - Max({lenread, 0})
       /\ UNCHANGED <<want, consumed>>

(* The client's callback returns. *)
ReadCallbackReturns ==
  /\ rcall # NULL
  /\ rcall' = NULL
  /\ UNCHANGED <<sockvars, R, want, consumed, due, lost>>

ReadClient ==
  \/ \E len \in WaitLens : netbuf_read_wait(len)
  \/ \E len \in 1 .. MaxBytes : netbuf_read_consume(len)
  \/ netbuf_read_wait_cancel
  \/ netbuf_read_free

ReadLoop ==
  /\ rcall = NULL
  /\ \/ callback_success
     \/ \E given \in {NULL} \cup -1 .. MaxBytes :
          callback_buf_read(given) /\ callback_read(given)

ReadNext ==
  \/ ReadClient
  \/ ReadLoop
  \/ ReadCallbackReturns
  \/ (PeerSends \/ PeerCloses) /\ UNCHANGED readervars

ReadSpec == ReadInit /\ [][ReadNext]_readvars
----------------------------------------------------------------------------
(* A read asks for at least one byte, for no more than fit, and never       *)
(* reaches beyond the buffer: the assertion of network_read holds, and a    *)
(* request can always get what it waits for.                                *)
ReadFits ==
  rd # NULL =>
    /\ R # NULL /\ rd.at = R.datalen
    /\ rd.buflen = buflen - R.datalen
    /\ 0 < rd.minlen /\ rd.minlen <= rd.buflen
    /\ rd.bufpos < rd.minlen

(* What netbuf_read_peek shows is the stream from the first byte that was   *)
(* not consumed on, in order and without a hole unless a wait was cancelled *)
(* or failed half-way; every byte that recv delivered is consumed,          *)
(* buffered, on its way into the buffer or known to be lost; and a client   *)
(* that was told of its data finds it up to the byte it waited for, however *)
(* the buffer was moved and enlarged since and whatever it consumed         *)
(* meanwhile.  A read that is under way has the space it needs.             *)
ReadInOrder ==
  /\ NetbufReadTypeOK /\ ReadFits
  /\ R # NULL =>
       /\ R.bufpos <= R.datalen /\ R.datalen <= buflen
       /\ rcvd = consumed + Buffered + lost + (IF rd = NULL THEN 0 ELSE rd.bufpos)
       /\ \A i \in 1 .. Buffered : mem[R.bufpos + i] >= consumed + i
       /\ \A i \in 1 .. Buffered - 1 : mem[R.bufpos + i] < mem[R.bufpos + i + 1]
       /\ lost = 0 => \A i \in 1 .. Buffered : mem[R.bufpos + i] = consumed + i
       /\ due <= consumed + Buffered
=============================================================================
