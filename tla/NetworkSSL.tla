------------------------------ MODULE NetworkSSL ------------------------------
(***************************************************************************)
(* TLS connections (network_ssl/network_ssl.c): a read and a write request *)
(* share one connection, either of which may have to wait for the socket   *)
(* to become readable or writable, whatever it is that it does.  Event     *)
(* handlers poke the connection, and poke calls back into client code,     *)
(* which starts and cancels requests on the same connection, between the   *)
(* steps of poke:                                                          *)
(*   read, write, setup   the next step of poke                            *)
(*   loop                 the event loop                                   *)
(* How much a request has read or written is left out: a request is        *)
(* finished when the SSL library says so.  The library (OpenSSL) is        *)
(* external and answers what it likes.                                     *)
(***************************************************************************)
EXTENDS Null, Integers

CONSTANTS
  SslReqs,          \* the requests, each a call of network_ssl_read or _write
  StartsFail,       \* the immediate event of a new request may fail to register
  ClosesInCallback  \* clients may close the connection in a callback

ASSUME SslAssumption ==
  /\ NULL \notin SslReqs
  /\ {StartsFail, ClosesInCallback} \subseteq BOOLEAN

VARIABLES
  ctx,         \* the SSL context exists
  ssl,         \* the network_ssl_ctx: its events, or NULL
  rop, wop,    \* its read and write requests: what each waits for, or NULL
  sslpc,       \* the step of poke
  sslcalling,  \* the request whose callback is under way, or NULL
  started,     \* history: the requests whose start succeeded and that have not ended
  stale,       \* history: poke's connection was closed while it was in a callback
  reported     \* history: an error was reported to the event loop since requests
               \* were last idle

sslvars == <<ctx, ssl, rop, wop, sslpc, sslcalling, started, stale, reported>>

(* The network_ssl_ctx: the events it has registered.  A request: needs_r,  *)
(* needs_w and which one it is.                                             *)
SslCtx == [waiting_r : BOOLEAN, waiting_w : BOOLEAN, immediate : BOOLEAN]
SslOp == [id : SslReqs, needs_r : BOOLEAN, needs_w : BOOLEAN]

ASSUME SslNullAssumption == NULL \notin SslCtx /\ NULL \notin SslOp

SslTypeOK ==
  /\ ctx \in BOOLEAN
  /\ ssl \in {NULL} \cup SslCtx
  /\ rop \in {NULL} \cup SslOp /\ wop \in {NULL} \cup SslOp
  /\ sslpc \in {"loop", "read", "write", "setup"}
  /\ sslcalling \in {NULL} \cup SslReqs
  /\ started \subseteq SslReqs /\ stale \in BOOLEAN /\ reported \in BOOLEAN

SslInit ==
  /\ ctx = FALSE /\ ssl = NULL /\ rop = NULL /\ wop = NULL
  /\ sslpc = "loop" /\ sslcalling = NULL
  /\ started = {} /\ stale = FALSE /\ reported = FALSE

Idle(op) == op # NULL /\ ~op.needs_r /\ ~op.needs_w
NeedsR == (rop # NULL /\ rop.needs_r) \/ (wop # NULL /\ wop.needs_r)
NeedsW == (rop # NULL /\ rop.needs_w) \/ (wop # NULL /\ wop.needs_w)
InUse == {op.id : op \in {rop, wop} \ {NULL}} \cup ({sslcalling} \ {NULL})

(* Client code runs in callbacks and, with nothing under way, elsewhere. *)
SslClientRuns == sslpc = "loop" \/ sslcalling # NULL
----------------------------------------------------------------------------
(* init and network_ssl_open: each fails and leaves nothing, or succeeds. *)
init == ctx' \in {ctx, TRUE}

network_ssl_open ==
  /\ SslClientRuns /\ ssl = NULL
  /\ init
  /\ \/ ctx' /\ ssl' = [waiting_r |-> FALSE, waiting_w |-> FALSE, immediate |-> FALSE]
     \/ UNCHANGED ssl
  /\ UNCHANGED <<rop, wop, sslpc, sslcalling, started, stale, reported>>

(* The part network_ssl_read and network_ssl_write have in common: if the   *)
(* immediate event cannot be registered they fail, but the request that     *)
(* was recorded stays.                                                      *)
PokeSoon(x) ==
  \/ ssl' = [ssl EXCEPT !.immediate = TRUE] /\ started' = started \cup {x}
  \/ StartsFail /\ ~ssl.immediate /\ UNCHANGED <<ssl, started>>

NewOp(x) == [id |-> x, needs_r |-> FALSE, needs_w |-> FALSE]

network_ssl_read(x) ==
  /\ SslClientRuns /\ ssl # NULL /\ rop = NULL
  /\ x \notin InUse
  /\ rop' = NewOp(x)
  /\ PokeSoon(x)
  /\ UNCHANGED <<ctx, wop, sslpc, sslcalling, stale, reported>>

network_ssl_write(x) ==
  /\ SslClientRuns /\ ssl # NULL /\ wop = NULL
  /\ x \notin InUse
  /\ wop' = NewOp(x)
  /\ PokeSoon(x)
  /\ UNCHANGED <<ctx, rop, sslpc, sslcalling, stale, reported>>

(* setupevents where registering fails: the events that are not needed were *)
(* cancelled by then, and one of the two may have been registered.          *)
setupevents_fails ==
  /\ \/ NeedsR' /\ ~ssl.waiting_r
     \/ NeedsW' /\ ~ssl.waiting_w
  /\ ssl' = [ssl EXCEPT !.waiting_r = @ /\ NeedsR', !.waiting_w = @ /\ NeedsW']

(* Mutant: an event that nobody needs any more stays. *)
setupevents_keeps ==
  ssl' = [ssl EXCEPT !.waiting_r = @ \/ NeedsR', !.waiting_w = @ \/ NeedsW']

(* setupevents, for the requests as they are after the step: an event is    *)
(* registered just when a request needs it.                                 *)
setupevents == ssl' = [ssl EXCEPT !.waiting_r = NeedsR', !.waiting_w = NeedsW']

(* network_ssl_read_cancel and network_ssl_write_cancel of a request that   *)
(* was started.                                                             *)
network_ssl_read_cancel ==
  /\ SslClientRuns /\ ssl # NULL /\ rop # NULL /\ rop.id \in started
  /\ rop' = NULL /\ started' = started \ {rop.id}
  /\ UNCHANGED <<ctx, wop, sslpc, sslcalling, stale, reported>>
  /\ setupevents

network_ssl_write_cancel ==
  /\ SslClientRuns /\ ssl # NULL /\ wop # NULL /\ wop.id \in started
  /\ wop' = NULL /\ started' = started \ {wop.id}
  /\ UNCHANGED <<ctx, rop, sslpc, sslcalling, stale, reported>>
  /\ setupevents

(* network_ssl_close, which cancels an immediate event, with no requests.   *)
network_ssl_close ==
  /\ SslClientRuns /\ ssl # NULL /\ rop = NULL /\ wop = NULL
  /\ sslcalling # NULL => ClosesInCallback
  /\ ssl' = NULL
  /\ stale' = (sslcalling # NULL)
  /\ reported' = FALSE
  /\ UNCHANGED <<ctx, rop, wop, sslpc, sslcalling, started>>
----------------------------------------------------------------------------
(* ssl_callback_read: the socket is readable; who waited for that may run.  *)
ssl_callback_read ==
  /\ sslpc = "loop" /\ ssl # NULL /\ ssl.waiting_r
  /\ ssl' = [ssl EXCEPT !.waiting_r = FALSE]
  /\ rop' = (IF rop = NULL THEN NULL ELSE [rop EXCEPT !.needs_r = FALSE])
  /\ wop' = (IF wop = NULL THEN NULL ELSE [wop EXCEPT !.needs_r = FALSE])
  /\ sslpc' = "read"
  /\ UNCHANGED <<ctx, sslcalling, started, stale, reported>>

ssl_callback_write ==
  /\ sslpc = "loop" /\ ssl # NULL /\ ssl.waiting_w
  /\ ssl' = [ssl EXCEPT !.waiting_w = FALSE]
  /\ rop' = (IF rop = NULL THEN NULL ELSE [rop EXCEPT !.needs_w = FALSE])
  /\ wop' = (IF wop = NULL THEN NULL ELSE [wop EXCEPT !.needs_w = FALSE])
  /\ sslpc' = "read"
  /\ UNCHANGED <<ctx, sslcalling, started, stale, reported>>

ssl_callback_immediate ==
  /\ sslpc = "loop" /\ ssl # NULL /\ ssl.immediate
  /\ ssl' = [ssl EXCEPT !.immediate = FALSE]
  /\ sslpc' = "read"
  /\ UNCHANGED <<ctx, rop, wop, sslcalling, started, stale, reported>>

(* Mutant: the request is cleared after its callback. *)
doread_clears_late ==
  /\ rop' \in {rop, [rop EXCEPT !.needs_r = TRUE], [rop EXCEPT !.needs_w = TRUE]}
  /\ sslcalling' = IF rop' = rop THEN rop.id ELSE NULL
  /\ started' = started \ {sslcalling'}

(* docallback: the request is cleared, then its callback is called. *)
ssl_docallback_read == rop' = NULL /\ sslcalling' = rop.id /\ started' = started \ {rop.id}
ssl_docallback_write == wop' = NULL /\ sslcalling' = wop.id /\ started' = started \ {wop.id}

(* doread and dowrite: the library finishes the request, or fails it, or    *)
(* says what it waits for.                                                  *)
doread ==
  \/ ssl_docallback_read
  \/ /\ rop' \in {[rop EXCEPT !.needs_r = TRUE], [rop EXCEPT !.needs_w = TRUE]}
     /\ UNCHANGED <<sslcalling, started>>

dowrite ==
  \/ ssl_docallback_write
  \/ /\ wop' \in {[wop EXCEPT !.needs_r = TRUE], [wop EXCEPT !.needs_w = TRUE]}
     /\ UNCHANGED <<sslcalling, started>>

(* poke.  After a callback it goes on with the connection it was given. *)
poke_read ==
  /\ sslpc = "read" /\ sslcalling = NULL /\ ~stale
  /\ sslpc' = "write"
  /\ IF Idle(rop) THEN doread ELSE UNCHANGED <<rop, sslcalling, started>>
  /\ UNCHANGED <<ctx, ssl, wop, stale, reported>>

poke_write ==
  /\ sslpc = "write" /\ sslcalling = NULL /\ ~stale
  /\ sslpc' = "setup"
  /\ IF Idle(wop) THEN dowrite ELSE UNCHANGED <<wop, sslcalling, started>>
  /\ UNCHANGED <<ctx, ssl, rop, stale, reported>>

poke_setup ==
  /\ sslpc = "setup" /\ sslcalling = NULL /\ ~stale
  /\ sslpc' = "loop"
  /\ UNCHANGED <<ctx, rop, wop, sslcalling, started, stale>>
  /\ \/ setupevents /\ UNCHANGED reported
     \/ setupevents_fails /\ reported' = TRUE

(* A callback returns zero, and poke goes on; or not, or the signal handler *)
(* cannot be changed, and poke ends there with an error.                    *)
SslCallbackReturns ==
  /\ sslcalling # NULL
  /\ sslcalling' = NULL
  /\ UNCHANGED <<ctx, ssl, rop, wop, sslpc, started, stale, reported>>

SslCallbackFails ==
  /\ sslcalling # NULL
  /\ sslcalling' = NULL /\ sslpc' = "loop" /\ stale' = FALSE /\ reported' = TRUE
  /\ UNCHANGED <<ctx, ssl, rop, wop, started>>

SslSignalFails ==
  /\ sslpc \in {"read", "write"} /\ sslcalling = NULL /\ ~stale
  /\ Idle(IF sslpc = "read" THEN rop ELSE wop)
  /\ sslpc' = "loop" /\ reported' = TRUE
  /\ UNCHANGED <<ctx, ssl, rop, wop, sslcalling, started, stale>>

SslClient ==
  \/ network_ssl_open \/ network_ssl_close
  \/ \E x \in SslReqs : network_ssl_read(x) \/ network_ssl_write(x)
  \/ network_ssl_read_cancel \/ network_ssl_write_cancel

SslLoop ==
  \/ ssl_callback_read \/ ssl_callback_write \/ ssl_callback_immediate
  \/ poke_read \/ poke_write \/ poke_setup
  \/ SslCallbackReturns \/ SslCallbackFails \/ SslSignalFails

SslNext == SslClient \/ SslLoop

SslSpec == SslInit /\ [][SslNext]_sslvars
----------------------------------------------------------------------------
(* In the event loop an event is registered just when a request waits for   *)
(* it, and a request that was started and waits for neither has the         *)
(* immediate event to run it: none is left behind, unless an error was      *)
(* reported to the loop.  So without requests there are no events, as       *)
(* network_ssl_close asserts.                                               *)
NoRequestStranded ==
  /\ SslTypeOK
  /\ ssl # NULL /\ sslpc = "loop" =>
       /\ ssl.waiting_r => NeedsR
       /\ ssl.waiting_w => NeedsW
       /\ ~reported =>
            /\ NeedsR => ssl.waiting_r
            /\ NeedsW => ssl.waiting_w
            /\ \A op \in {rop, wop} : Idle(op) /\ op.id \in started => ssl.immediate

(* network_ssl.h: network_ssl_read and _write "Behave as network_read()"    *)
(* and _write: one callback for each request that was started, none for one *)
(* whose start failed.                                                      *)
SslPromise == INSTANCE Request WITH
  Cookies <- SslReqs, waiting <- started, calling <- sslcalling
SslOneCallback == SslPromise!Spec

(* network_ssl.h: network_ssl_close "cannot be called while there are       *)
(* network_ssl_read() or network_ssl_write() operations pending", and so    *)
(* may be called in the callback of the last one; http_request_cancel does. *)
(* poke goes on only with a connection that is open.                        *)
PokesOpenConnection == stale => sslcalling # NULL
=============================================================================
