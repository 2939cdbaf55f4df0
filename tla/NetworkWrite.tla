----------------------------- MODULE NetworkWrite -----------------------------
(***************************************************************************)
(* Writing to a socket (network/network_write.c): one request at a time    *)
(* sends the bytes of a buffer until enough of them are sent.              *)
(***************************************************************************)
EXTENDS Null, Integers, Sequences, FiniteSetsExt

VARIABLES
  wr,   \* the network_write_cookie, buf being the bytes to write, or NULL
  out   \* the bytes that send has accepted

(* send(2) of the rest of the buffer accepts its first len bytes. *)
send(len) ==
  /\ len \in 1 .. Len(wr.buf) - wr.bufpos
  /\ out' = out \o SubSeq(wr.buf, wr.bufpos + 1, wr.bufpos + len)

(* network_write. *)
network_write(buf, minwrite) == wr' = [buf |-> buf, minlen |-> minwrite, bufpos |-> 0]

(* The assertion of network_write. *)
NonEmpty(buf) == Len(buf) # 0

(* network_write_cancel *)
network_write_cancel == wr' = NULL

(* docallback: the client's callback is given nbytes.  The cookie is freed  *)
(* after it, which may start another request meanwhile, with a cookie of    *)
(* its own: the client decides about wr.                                    *)
docallback_write(given, nbytes) == given = nbytes

(* callback_buf: the socket is writable; given is what the client's         *)
(* callback is given, or NULL if it is not called.  A try-again, and fewer  *)
(* bytes than the client must have written, register the event again; where *)
(* that fails the request fails, and so does one that send fails for.       *)
callback_buf_write(given) ==
  /\ wr # NULL
  /\ \/ given = NULL /\ UNCHANGED <<out, wr>>
     \/ UNCHANGED out /\ docallback_write(given, -1)
     \/ \E len \in 1 .. Len(wr.buf) :
          /\ send(len)
          /\ LET bufpos == wr.bufpos + len
             IN \/ bufpos < wr.minlen /\ given = NULL /\ wr' = [wr EXCEPT !.bufpos = bufpos]
                \/ bufpos < wr.minlen /\ docallback_write(given, -1)
                \/ bufpos >= wr.minlen /\ docallback_write(given, bufpos)
=============================================================================
