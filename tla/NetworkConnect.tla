---------------------------- MODULE NetworkConnect ----------------------------
(***************************************************************************)
(* Connecting (network/network_connect.c): a request tries its addresses   *)
(* in turn, each with a socket of its own, a network event that says that  *)
(* the attempt has ended, and a timer if a timeout was asked for.          *)
(*                                                                         *)
(* The event sources appear as what the event loop modules show of them:   *)
(* an event that was registered runs at most once and not after it was     *)
(* cancelled, one event at a time, in an order the kernel and the clock    *)
(* decide.  A socket that was closed is given out again by the kernel.     *)
(***************************************************************************)
EXTENDS Null, Naturals, FiniteSets

CONSTANTS
  Cookies,   \* the connect_cookie structures
  Fds,       \* the descriptors the kernel gives out
  MaxAddrs,  \* the longest list of addresses
  MaxStarts  \* how many requests clients start

ASSUME ConnectAssumption ==
  /\ NULL \notin Cookies \cup Fds
  /\ MaxAddrs \in Nat
  /\ MaxStarts \in Nat

VARIABLES
  cookies,     \* the allocated cookies
  writer,      \* who waits for each descriptor to become writable, or NULL
  timers,      \* the cookies with a registered timer
  immediates,  \* the cookies with a registered immediate event
  open,        \* the open descriptors
  held,        \* those of them that clients were given
  calling,     \* the cookie whose upstream callback is under way, or NULL
  starts       \* number of requests started so far

connectvars == <<cookies, writer, timers, immediates, open, held, calling, starts>>

(* A connect_cookie; sas is the number of addresses that are left, and      *)
(* cookie_timeo, cookie_immediate say that the pointer is not NULL.         *)
ConnectCookie ==
  [sas : 0 .. MaxAddrs, s : Fds \cup {NULL}, timeo_enabled : BOOLEAN,
   cookie_timeo : BOOLEAN, cookie_immediate : BOOLEAN]

Waiting == DOMAIN cookies \ {calling}

ConnectTypeOK ==
  /\ DOMAIN cookies \subseteq Cookies
  /\ \A x \in DOMAIN cookies : cookies[x] \in ConnectCookie
  /\ writer \in [Fds -> Cookies \cup {NULL}]
  /\ timers \subseteq Cookies
  /\ immediates \subseteq Cookies
  /\ open \subseteq Fds
  /\ held \subseteq open
  /\ calling \in DOMAIN cookies \cup {NULL}
  /\ starts \in 0 .. MaxStarts

ConnectInit ==
  /\ cookies = [x \in {} |-> NULL]
  /\ writer = [f \in Fds |-> NULL]
  /\ timers = {}
  /\ immediates = {}
  /\ open = {}
  /\ held = {}
  /\ calling = NULL
  /\ starts = 0
----------------------------------------------------------------------------
(* What the functions below work on: the cookie C, the registered events    *)
(* and the open descriptors.                                                *)
ConnectState(C) ==
  [C |-> C, writer |-> writer, timers |-> timers, immediates |-> immediates, open |-> open]

CloseSocket(w) == [w EXCEPT !.open = @ \ {w.C.s}]

(* sock_connect_bind_nb fails for the first addresses of the list, and      *)
(* gives a socket for the next one unless the list is at its end.           *)
Skipped(w) ==
  {[w EXCEPT !.C.sas = left, !.C.s = IF left = w.C.sas THEN @ ELSE NULL] :
     left \in 0 .. w.C.sas}

sock_connect_bind_nb(w) ==
  {[w EXCEPT !.C.s = f, !.open = @ \cup {f}] : f \in Fds \ w.open}

(* tryconnect, for the cookie x: the states in which it succeeds. *)
Launched(x, w) ==
  LET v == [w EXCEPT !.C.cookie_timeo = w.C.timeo_enabled,
                     !.timers = IF w.C.timeo_enabled THEN @ \cup {x} ELSE @]
  IN IF w.writer[w.C.s] = NULL THEN {[v EXCEPT !.writer[w.C.s] = x]} ELSE {}

GaveUp(x, w) ==
  [w EXCEPT !.C.cookie_immediate = TRUE, !.immediates = @ \cup {x}]

(* Mutant: the loop gives up at the first address that fails. *)
tryconnect_once(x, w) ==
  IF w.C.sas = 0 THEN {GaveUp(x, w)}
  ELSE {GaveUp(x, w)} \cup UNION {Launched(x, v) : v \in sock_connect_bind_nb(w)}

tryconnect(x, w) ==
  UNION {IF u.C.sas = 0 THEN {GaveUp(x, u)}
         ELSE UNION {Launched(x, v) : v \in sock_connect_bind_nb(u)} : u \in Skipped(w)}

(* Mutant: the socket stays open. *)
tryconnect_fails_leaks(x, w) ==
  UNION {IF u.C.sas = 0 THEN {u} ELSE sock_connect_bind_nb(u) : u \in Skipped(w)}

(* tryconnect fails, an event could not be registered: the states it leaves *)
(* behind.  The timer, if it was set, is cancelled and the socket closed.   *)
(* cookie_timeo and s keep their values.                                    *)
tryconnect_fails(x, w) ==
  LET Failed(v) == {[CloseSocket(v) EXCEPT !.C.cookie_timeo = t] :
                      t \in {FALSE, v.C.timeo_enabled}}
  IN UNION {IF u.C.sas = 0 THEN {u}
            ELSE UNION {Failed(v) : v \in sock_connect_bind_nb(u)} : u \in Skipped(w)}
----------------------------------------------------------------------------
(* The state w, in which x is waiting, becomes the current one. *)
Install(x, w) ==
  /\ cookies' = [y \in DOMAIN cookies \cup {x} |-> IF y = x THEN w.C ELSE cookies[y]]
  /\ writer' = w.writer
  /\ timers' = w.timers
  /\ immediates' = w.immediates
  /\ open' = w.open

Wait(x, w) ==
  /\ Install(x, w)
  /\ UNCHANGED <<held, calling>>

(* docallback: the upstream callback is called and handed the socket.       *)
docallback(x, w) ==
  /\ Install(x, w)
  /\ calling' = x
  /\ held' = held \cup ({w.C.s} \ {NULL})

(* Mutant: the cookie is not freed. *)
docallback_return_leaks ==
  /\ calling # NULL
  /\ calling' = NULL
  /\ UNCHANGED <<cookies, writer, timers, immediates, open, held, starts>>

(* The upstream callback returns and the cookie is freed.  *)
docallback_return ==
  /\ calling # NULL
  /\ cookies' = [y \in DOMAIN cookies \ {calling} |-> cookies[y]]
  /\ calling' = NULL
  /\ UNCHANGED <<writer, timers, immediates, open, held, starts>>

(* Mutant: the failed address is tried again, for ever. *)
dofailed_same_address(x, w) ==
  LET v == [CloseSocket(w) EXCEPT !.C.s = NULL]
  IN \/ \E u \in tryconnect(x, v) : Wait(x, u)
     \/ \E u \in tryconnect_fails(x, v) : docallback(x, [u EXCEPT !.C.s = NULL])

(* dofailed: go on to the next address.  If that is not possible the        *)
(* upstream callback is called with -1.                                     *)
dofailed(x, w) ==
  LET v == [CloseSocket(w) EXCEPT !.C.s = NULL, !.C.sas = @ - 1]
  IN \/ \E u \in tryconnect(x, v) : Wait(x, u)
     \/ \E u \in tryconnect_fails(x, v) : docallback(x, [u EXCEPT !.C.s = NULL])

(* The beginning of callback_connect: stop waiting for the timer. *)
TimerStopped(x, w) ==
  IF w.C.cookie_timeo
  THEN [w EXCEPT !.timers = @ \ {x}, !.C.cookie_timeo = FALSE]
  ELSE w

(* callback_connect, run by the loop for the network event of f.  The       *)
(* attempt has succeeded; has failed; or its outcome cannot be found out.   *)
callback_connect(f) ==
  LET x == writer[f]
      w == TimerStopped(x, [ConnectState(cookies[x]) EXCEPT !.writer[f] = NULL])
  IN /\ calling = NULL
     /\ x # NULL
     /\ \/ docallback(x, w)
        \/ dofailed(x, w)
        \/ docallback(x, [CloseSocket(w) EXCEPT !.C.s = NULL])
     /\ UNCHANGED starts

(* Mutant: the socket is still waited for. *)
callback_timeo_still_waits(x) ==
  LET w == [ConnectState(cookies[x]) EXCEPT !.timers = @ \ {x}, !.C.cookie_timeo = FALSE]
  IN /\ calling = NULL
     /\ x \in timers
     /\ dofailed(x, w)
     /\ UNCHANGED starts

(* callback_timeo, run by the loop for the timer of x. *)
callback_timeo(x) ==
  LET w == [ConnectState(cookies[x]) EXCEPT !.timers = @ \ {x}, !.C.cookie_timeo = FALSE,
                                     !.writer[cookies[x].s] = NULL]
  IN /\ calling = NULL
     /\ x \in timers
     /\ dofailed(x, w)
     /\ UNCHANGED starts

(* docallback, run by the loop for the immediate event of x. *)
callback_immediate(x) ==
  /\ calling = NULL
  /\ x \in immediates
  /\ docallback(x, [ConnectState(cookies[x]) EXCEPT !.immediates = @ \ {x}])
  /\ UNCHANGED starts
----------------------------------------------------------------------------
(* network_connect, network_connect_bind and network_connect_timeo with n   *)
(* addresses.                                                               *)
NewCookie(n, timeo) ==
  [sas |-> n, s |-> NULL, timeo_enabled |-> timeo, cookie_timeo |-> FALSE,
   cookie_immediate |-> FALSE]

network_connect_internal(x, n, timeo) ==
  /\ starts < MaxStarts
  /\ x \notin DOMAIN cookies
  /\ \E w \in tryconnect(x, ConnectState(NewCookie(n, timeo))) : Wait(x, w)
  /\ starts' = starts + 1

(* It fails and returns NULL: what tryconnect changed is undone again. *)
network_connect_internal_fails(x, n, timeo) ==
  /\ x \notin DOMAIN cookies
  /\ \E w \in tryconnect_fails(x, ConnectState(NewCookie(n, timeo))) :
       /\ writer' = w.writer
       /\ timers' = w.timers
       /\ immediates' = w.immediates
       /\ open' = w.open
  /\ UNCHANGED <<cookies, held, calling, starts>>

(* network_connect_cancel, called from the main program or from the         *)
(* callback of another request.                                             *)
network_connect_cancel(x) ==
  LET C == cookies[x]
  IN /\ x \in Waiting
     /\ timers' = IF C.cookie_timeo THEN timers \ {x} ELSE timers
     /\ immediates' = IF C.cookie_immediate THEN immediates \ {x} ELSE immediates
     /\ IF C.s # NULL
        THEN /\ writer' = [writer EXCEPT ![C.s] = NULL]
             /\ open' = open \ {C.s}
        ELSE UNCHANGED <<writer, open>>
     /\ cookies' = [y \in DOMAIN cookies \ {x} |-> cookies[y]]
     /\ UNCHANGED <<held, calling, starts>>

(* A client closes a socket it was given. *)
ClientClose(f) ==
  /\ f \in held
  /\ held' = held \ {f}
  /\ open' = open \ {f}
  /\ UNCHANGED <<cookies, writer, timers, immediates, calling, starts>>
----------------------------------------------------------------------------
ConnectNext ==
  \/ \E x \in Cookies :
       \/ \E n \in 0 .. MaxAddrs, timeo \in BOOLEAN :
            \/ network_connect_internal(x, n, timeo)
            \/ network_connect_internal_fails(x, n, timeo)
       \/ network_connect_cancel(x)
       \/ callback_timeo(x)
       \/ callback_immediate(x)
  \/ \E f \in Fds : callback_connect(f) \/ ClientClose(f)
  \/ docallback_return

ConnectSpec == ConnectInit /\ [][ConnectNext]_connectvars

(* Time passes and the loop runs: timers and immediate events are run, and  *)
(* upstream callbacks return.  Nothing is assumed of the sockets.           *)
ConnectFairness ==
  /\ \A x \in Cookies : WF_connectvars(callback_timeo(x)) /\ WF_connectvars(callback_immediate(x))
  /\ WF_connectvars(docallback_return)

FairConnectSpec == ConnectSpec /\ ConnectFairness
----------------------------------------------------------------------------
(* The assertions of network_connect_cancel hold whenever it may be called. *)
CancelAssertions ==
  \A x \in Waiting : cookies[x].cookie_immediate <=> cookies[x].s = NULL

(* The events that are registered are those the waiting cookies know of: no *)
(* event runs on a cookie that was freed or is being called back, every     *)
(* waiting request has an event that can end it, and can be cancelled.      *)
EventsMatchCookies ==
  /\ ConnectTypeOK
  /\ CancelAssertions
  /\ timers = {x \in Waiting : cookies[x].cookie_timeo}
  /\ immediates = {x \in Waiting : cookies[x].cookie_immediate}
  /\ \A f \in Fds : writer[f] # NULL => writer[f] \in Waiting /\ cookies[writer[f]].s = f
  /\ \A x \in Waiting : cookies[x].s # NULL => writer[cookies[x].s] = x

(* Every open socket belongs to one waiting request or to a client: none is *)
(* leaked, closed under its owner, or closed twice.                         *)
SocketsAccounted ==
  /\ open = held \cup ({cookies[x].s : x \in Waiting} \ {NULL})
  /\ \A x \in Waiting : cookies[x].s \notin held
  /\ \A x, y \in Waiting : cookies[x].s = cookies[y].s => x = y \/ cookies[x].s = NULL

(* A request is given up without a fatal error only when no address is      *)
(* left.                                                                    *)
AllAddressesTried ==
  \A x \in DOMAIN cookies : cookies[x].cookie_immediate => cookies[x].sas = 0

(* Each request ends with one callback or with a cancellation. *)
ConnectPromise == INSTANCE Request WITH waiting <- Waiting
ConnectOneCallback == ConnectPromise!Spec

(* A request with a timeout ends, whatever the network does. *)
TimeoutEnds ==
  \A x \in Cookies :
    (x \in DOMAIN cookies /\ cookies[x].timeo_enabled) ~> (x \notin DOMAIN cookies)
=============================================================================
