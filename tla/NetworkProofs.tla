---------------------------- MODULE NetworkProofs ----------------------------
(***************************************************************************)
(* Proofs about connections: accepting them, making them, requests on a    *)
(* TLS connection, and the buffered reader and writer above them.          *)
(***************************************************************************)
EXTENDS NetworkAccept, NetworkConnect, NetworkSSL, NetbufRead, NetbufWrite,
        FiniteSetTheorems, SequenceTheorems, TLAPS

----------------------------------------------------------------------------
(* Accepting.  An event that waits for a socket belongs to a request that   *)
(* was not called back and is for that socket.                              *)
AcceptIInv ==
  /\ AcceptTypeOK
  /\ \A f \in ListenFds :
       reader[f] # NULL => reader[f] \in Accepting /\ fd[reader[f]] = f

LEMMA AcceptInitOK == AcceptInit => AcceptIInv /\ AcceptPromise!Init
BY DEF AcceptInit, AcceptIInv, AcceptTypeOK, Accepting, AcceptPromise!Init

LEMMA AcceptStep ==
  ASSUME AcceptIInv, [AcceptNext]_acceptvars
  PROVE  AcceptIInv' /\ [AcceptPromise!Next]_<<Accepting, acalling>>
<1> USE AcceptAssumption
<1>0. /\ DOMAIN fd \subseteq AcceptCookies /\ NULL \notin DOMAIN fd
      /\ \A x \in DOMAIN fd : fd[x] \in ListenFds
      /\ reader \in [ListenFds -> AcceptCookies \cup {NULL}]
      /\ acalling \in DOMAIN fd \cup {NULL}
  BY DEF AcceptIInv, AcceptTypeOK
<1>1. ASSUME NEW x \in AcceptCookies, network_accept_cancel(x)
      PROVE  AcceptIInv' /\ AcceptPromise!Next
  <2>1. /\ x \in DOMAIN fd /\ x # acalling /\ acalling' = acalling
        /\ reader' = [reader EXCEPT ![fd[x]] = NULL]
        /\ DOMAIN fd' = DOMAIN fd \ {x}
        /\ \A y \in DOMAIN fd' : fd'[y] = fd[y]
    BY <1>1 DEF network_accept_cancel, FreeCookie, Accepting
  <2>2. AcceptTypeOK'
    BY <2>1, <1>0 DEF AcceptTypeOK
  <2>3. Accepting' = Accepting \ {x} /\ x \in Accepting
    BY <2>1 DEF Accepting
  <2>4. \A f \in ListenFds : reader'[f] # NULL =>
          reader'[f] = reader[f] /\ reader[f] # x
    BY <2>1, <1>0 DEF AcceptIInv
  <2>5. AcceptIInv'
    BY <2>1, <2>2, <2>3, <2>4 DEF AcceptIInv, Accepting
  <2> QED BY <2>1, <2>3, <2>5 DEF AcceptPromise!Next, AcceptPromise!Cancel
<1>2. ASSUME NEW x \in AcceptCookies, NEW f \in ListenFds, network_accept(x, f)
      PROVE  AcceptIInv' /\ AcceptPromise!Next
  <2>1. /\ x \notin DOMAIN fd /\ reader[f] = NULL /\ acalling' = acalling
        /\ reader' = [reader EXCEPT ![f] = x]
        /\ DOMAIN fd' = DOMAIN fd \cup {x} /\ fd'[x] = f
        /\ \A y \in DOMAIN fd : fd'[y] = fd[y]
    BY <1>2 DEF network_accept
  <2>2. x # acalling
    BY <2>1, <1>0
  <2>3. AcceptTypeOK'
    BY <2>1, <1>0 DEF AcceptTypeOK
  <2>4. Accepting' = Accepting \cup {x} /\ x \notin Accepting
    BY <2>1, <2>2 DEF Accepting
  <2>5. AcceptIInv'
    BY <2>1, <2>3, <2>4, <1>0 DEF AcceptIInv, Accepting
  <2> QED BY <2>1, <2>2, <2>4, <2>5 DEF AcceptPromise!Next, AcceptPromise!Start
<1>3. ASSUME NEW f \in ListenFds, callback_accept(f)
      PROVE  AcceptIInv' /\ AcceptPromise!Next
  <2>1. /\ acalling = NULL /\ reader[f] # NULL /\ acalling' = reader[f] /\ fd' = fd
        /\ reader' = [reader EXCEPT ![f] = NULL]
    BY <1>3 DEF callback_accept
  <2>2. reader[f] \in Accepting /\ reader[f] \in DOMAIN fd /\ fd[reader[f]] = f
    BY <2>1 DEF AcceptIInv, Accepting
  <2>3. Accepting' = Accepting \ {reader[f]}
    BY <2>1, <1>0 DEF Accepting
  <2>4. AcceptTypeOK'
    BY <2>1, <2>2, <1>0 DEF AcceptTypeOK
  <2>5. \A g \in ListenFds : reader'[g] # NULL =>
          reader'[g] = reader[g] /\ reader[g] # reader[f]
    BY <2>1, <2>2, <1>0 DEF AcceptIInv
  <2>6. AcceptIInv'
    BY <2>1, <2>3, <2>4, <2>5 DEF AcceptIInv
  <2> QED BY <2>1, <2>2, <2>3, <2>6, <1>0 DEF AcceptPromise!Next, AcceptPromise!Call
<1>4. ASSUME NEW f \in ListenFds, callback_accept_tryagain(f)
      PROVE  AcceptIInv' /\ UNCHANGED <<Accepting, acalling>>
  <2>1. UNCHANGED <<fd, acalling>> /\ reader' \in {reader, [reader EXCEPT ![f] = NULL]}
    BY <1>4 DEF callback_accept_tryagain
  <2>2. UNCHANGED Accepting
    BY <2>1 DEF Accepting
  <2>3. AcceptTypeOK'
    BY <2>1, <1>0 DEF AcceptTypeOK
  <2>4. \A g \in ListenFds : reader'[g] # NULL => reader'[g] = reader[g]
    BY <2>1, <1>0
  <2> QED BY <2>1, <2>2, <2>3, <2>4 DEF AcceptIInv
<1>5. ASSUME callback_accept_return PROVE AcceptIInv' /\ AcceptPromise!Next
  <2>1. /\ acalling # NULL /\ acalling' = NULL /\ reader' = reader
        /\ DOMAIN fd' = DOMAIN fd \ {acalling}
        /\ \A y \in DOMAIN fd' : fd'[y] = fd[y]
    BY <1>5 DEF callback_accept_return, FreeCookie
  <2>2. Accepting' = Accepting
    BY <2>1, <1>0 DEF Accepting
  <2>3. AcceptTypeOK'
    BY <2>1, <1>0 DEF AcceptTypeOK
  <2>4. AcceptIInv'
    BY <2>1, <2>2, <2>3 DEF AcceptIInv, Accepting
  <2> QED BY <2>1, <2>2, <2>4 DEF AcceptPromise!Next, AcceptPromise!Return
<1>6. CASE UNCHANGED acceptvars
  <2>1. UNCHANGED <<fd, reader, acalling>>
    BY <1>6 DEF acceptvars
  <2> QED BY <2>1 DEF AcceptIInv, AcceptTypeOK, Accepting
<1> QED BY <1>1, <1>2, <1>3, <1>4, <1>5, <1>6 DEF AcceptNext

(* For any number of requests and sockets: a call of network_accept that    *)
(* succeeds ends with one call of its callback, or with network_accept_     *)
(* cancel and none; callback_accept never runs for a request that has       *)
(* ended.                                                                   *)
THEOREM AcceptRefines == AcceptSpec => AcceptOneCallback
<1>1. AcceptIInv => AcceptTypeOK
  BY DEF AcceptIInv
<1>2. AcceptIInv /\ [AcceptNext]_acceptvars => AcceptIInv'
  BY AcceptStep
<1>3. AcceptIInv /\ [AcceptNext]_acceptvars => [AcceptPromise!Next]_<<Accepting, acalling>>
  BY AcceptStep
<1> QED BY <1>1, <1>2, <1>3, AcceptInitOK, PTL DEF AcceptSpec, AcceptOneCallback, AcceptPromise!Spec
----------------------------------------------------------------------------
(* TLS.  NoRequestStranded is about the event loop; the induction needs     *)
(* what the steps of poke rely on.  Which request is which:                 *)
SslIds ==
  /\ \A x \in started : (rop # NULL /\ rop.id = x) \/ (wop # NULL /\ wop.id = x)
  /\ rop # NULL /\ wop # NULL => rop.id # wop.id
  /\ rop # NULL => rop.id # sslcalling
  /\ wop # NULL => wop.id # sslcalling
  /\ ~StartsFail => /\ rop # NULL => rop.id \in started
                    /\ wop # NULL => wop.id \in started

(* where a connection and a callback may be missing:                        *)
SslControl ==
  /\ ssl = NULL => rop = NULL /\ wop = NULL
  /\ sslpc # "loop" => ssl # NULL \/ stale
  /\ sslpc = "loop" => ~stale
  /\ sslcalling # NULL => sslpc \in {"write", "setup"}

(* and that an event is not kept for nobody at any time, while those that   *)
(* are needed may be missing until poke is over; a request that poke has    *)
(* passed and that could run was started since, by a callback.              *)
SslEvents ==
  ssl # NULL =>
    /\ ssl.waiting_r => NeedsR
    /\ ssl.waiting_w => NeedsW
    /\ sslpc = "loop" /\ ~reported =>
         (NeedsR => ssl.waiting_r) /\ (NeedsW => ssl.waiting_w)
    /\ sslpc \in {"write", "setup"} \/ (sslpc = "loop" /\ ~reported) =>
         (Idle(rop) /\ rop.id \in started => ssl.immediate)
    /\ sslpc = "setup" \/ (sslpc = "loop" /\ ~reported) =>
         (Idle(wop) /\ wop.id \in started => ssl.immediate)

SslIInv == SslTypeOK /\ SslIds /\ SslControl /\ SslEvents

LEMMA SslInitOK == SslInit => SslIInv
BY DEF SslInit, SslIInv, SslTypeOK, SslIds, SslControl, SslEvents

(* The requests and the connection are records with the fields they should  *)
(* have, in every state the invariant allows.                               *)
LEMMA SslRecords ==
  ASSUME SslTypeOK
  PROVE  /\ ssl # NULL => /\ ssl \in SslCtx
                          /\ ssl.waiting_r \in BOOLEAN /\ ssl.waiting_w \in BOOLEAN
                          /\ ssl.immediate \in BOOLEAN
         /\ rop # NULL => /\ rop \in SslOp /\ rop.id \in SslReqs
                          /\ rop.needs_r \in BOOLEAN /\ rop.needs_w \in BOOLEAN
         /\ wop # NULL => /\ wop \in SslOp /\ wop.id \in SslReqs
                          /\ wop.needs_r \in BOOLEAN /\ wop.needs_w \in BOOLEAN
BY DEF SslTypeOK, SslCtx, SslOp

(* network_ssl_open and network_ssl_close: a new connection has no events,  *)
(* and only a connection without requests is closed.                        *)
LEMMA SslOpenClose ==
  ASSUME SslIInv, network_ssl_open \/ network_ssl_close
  PROVE  SslIInv'
<1> USE SslAssumption, SslNullAssumption
<1>1. CASE network_ssl_open
  <2>1. /\ ssl = NULL /\ rop = NULL /\ wop = NULL /\ ctx' \in BOOLEAN
        /\ UNCHANGED <<rop, wop, sslpc, sslcalling, started, stale, reported>>
    BY <1>1 DEF network_ssl_open, init, SslIInv, SslControl, SslTypeOK
  <2>2. CASE ssl' = ssl
    <3>1. SslTypeOK'
      BY <2>1, <2>2 DEF SslIInv, SslTypeOK
    <3> QED BY <2>1, <2>2, <3>1 DEF SslIInv, SslIds, SslControl, SslEvents
  <2>3. CASE ssl' = [waiting_r |-> FALSE, waiting_w |-> FALSE, immediate |-> FALSE]
    <3>1. ssl' \in SslCtx /\ ~ssl'.waiting_r /\ ~ssl'.waiting_w
      BY <2>3 DEF SslCtx
    <3>2. SslTypeOK'
      BY <2>1, <3>1 DEF SslIInv, SslTypeOK
    <3>3. SslEvents'
      BY <2>1, <3>1 DEF SslEvents, NeedsR, NeedsW, Idle
    <3>4. SslControl' /\ SslIds'
      BY <2>1, <3>1 DEF SslIInv, SslControl, SslIds
    <3> QED BY <3>2, <3>3, <3>4 DEF SslIInv
  <2> QED BY <2>2, <2>3, <1>1 DEF network_ssl_open
<1>2. CASE network_ssl_close
  <2>1. /\ ssl # NULL /\ rop = NULL /\ wop = NULL /\ ssl' = NULL
        /\ stale' = (sslcalling # NULL) /\ reported' = FALSE
        /\ sslpc = "loop" \/ sslcalling # NULL
        /\ UNCHANGED <<ctx, rop, wop, sslpc, sslcalling, started>>
    BY <1>2 DEF network_ssl_close, SslClientRuns
  <2>2. SslTypeOK'
    BY <2>1 DEF SslIInv, SslTypeOK
  <2>3. SslControl'
    <3>1. sslpc = "loop" => sslcalling = NULL
      BY DEF SslIInv, SslControl
    <3>2. stale' <=> sslcalling # NULL
      BY <2>1
    <3> QED BY <2>1, <3>1, <3>2 DEF SslIInv, SslControl
  <2>4. SslIds' /\ SslEvents'
    BY <2>1 DEF SslIInv, SslIds, SslEvents
  <2> QED BY <2>2, <2>3, <2>4 DEF SslIInv
<1> QED BY <1>1, <1>2
(* network_ssl_read: the new request needs nothing yet, and has the        *)
(* immediate event if its start succeeded.                                  *)
LEMMA SslStartRead ==
  ASSUME SslIInv, NEW x \in SslReqs, network_ssl_read(x)
  PROVE  /\ SslIInv'
         /\ x \notin started /\ x # sslcalling /\ sslcalling' = sslcalling
         /\ started' = started \cup {x} \/ (StartsFail /\ started' = started)
<1> USE SslAssumption, SslNullAssumption
<1>0. /\ ssl # NULL /\ rop = NULL /\ rop' = NewOp(x) /\ x \notin InUse /\ PokeSoon(x)
      /\ UNCHANGED <<ctx, wop, sslpc, sslcalling, stale, reported>>
  BY DEF network_ssl_read
<1>1. /\ rop' \in SslOp /\ rop' # NULL /\ rop'.id = x /\ ~rop'.needs_r /\ ~rop'.needs_w
  <2>1. NewOp(x) \in SslOp /\ NewOp(x).id = x /\ ~NewOp(x).needs_r /\ ~NewOp(x).needs_w
    BY DEF NewOp, SslOp
  <2> QED BY <2>1, <1>0
<1>2. x # sslcalling /\ (wop # NULL => wop.id # x)
  BY <1>0, SslRecords DEF InUse, SslIInv
<1>3. x \notin started
  BY <1>0, <1>2 DEF SslIInv, SslIds
<1>4. /\ ssl' \in SslCtx /\ ssl' # NULL
      /\ ssl'.waiting_r = ssl.waiting_r /\ ssl'.waiting_w = ssl.waiting_w
      /\ \/ ssl'.immediate /\ started' = started \cup {x}
         \/ StartsFail /\ ssl' = ssl /\ started' = started
  <2>1. ssl \in SslCtx
    BY <1>0, SslRecords DEF SslIInv
  <2>2. CASE ssl' = [ssl EXCEPT !.immediate = TRUE] /\ started' = started \cup {x}
    BY <2>1, <2>2 DEF SslCtx
  <2>3. CASE StartsFail /\ UNCHANGED <<ssl, started>>
    BY <2>1, <2>3
  <2> QED BY <2>2, <2>3, <1>0 DEF PokeSoon
<1>5. SslTypeOK'
  BY <1>0, <1>1, <1>4 DEF SslIInv, SslTypeOK
<1>6. SslIds'
  BY <1>0, <1>1, <1>2, <1>3, <1>4 DEF SslIInv, SslIds
<1>7. SslControl'
  BY <1>0, <1>4 DEF SslIInv, SslControl
<1>8. (NeedsR' <=> NeedsR) /\ (NeedsW' <=> NeedsW)
  BY <1>0, <1>1 DEF NeedsR, NeedsW
<1>9. SslEvents'
  <2>1. CASE ssl'.immediate /\ started' = started \cup {x}
    BY <2>1, <1>0, <1>4, <1>8 DEF SslIInv, SslEvents
  <2>2. CASE ssl' = ssl /\ started' = started
    <3>1. ~(rop'.id \in started') /\ (Idle(wop') <=> Idle(wop))
      BY <2>2, <1>0, <1>1, <1>3 DEF Idle
    <3> QED BY <2>2, <3>1, <1>0, <1>4, <1>8 DEF SslIInv, SslEvents
  <2> QED BY <2>1, <2>2, <1>4
<1> QED BY <1>0, <1>2, <1>3, <1>4, <1>5, <1>6, <1>7, <1>9 DEF SslIInv

(* network_ssl_read_cancel: setupevents drops what only this request needed. *)
LEMMA SslCancelRead ==
  ASSUME SslIInv, network_ssl_read_cancel
  PROVE  /\ SslIInv' /\ sslcalling' = sslcalling
         /\ \E x \in started : x \in SslReqs /\ started' = started \ {x}
<1> USE SslAssumption, SslNullAssumption
<1>0. /\ ssl # NULL /\ rop # NULL /\ rop.id \in started
      /\ rop' = NULL /\ started' = started \ {rop.id} /\ setupevents
      /\ UNCHANGED <<ctx, wop, sslpc, sslcalling, stale, reported>>
  BY DEF network_ssl_read_cancel
<1>1. /\ ssl' \in SslCtx /\ ssl' # NULL /\ ssl'.immediate = ssl.immediate
      /\ (ssl'.waiting_r <=> NeedsR') /\ (ssl'.waiting_w <=> NeedsW')
  <2>1. NeedsR' \in BOOLEAN /\ NeedsW' \in BOOLEAN
    BY DEF NeedsR, NeedsW
  <2> HIDE DEF NeedsR, NeedsW
  <2> QED BY <2>1, <1>0, SslRecords DEF setupevents, SslCtx, SslIInv
<1>2. SslTypeOK'
  BY <1>0, <1>1 DEF SslIInv, SslTypeOK
<1>3. SslIds'
  BY <1>0 DEF SslIInv, SslIds
<1>4. SslControl'
  BY <1>0, <1>1 DEF SslIInv, SslControl
<1>5. SslEvents'
  <2>1. ~Idle(rop') /\ (Idle(wop') /\ wop'.id \in started' => Idle(wop) /\ wop.id \in started)
    BY <1>0 DEF Idle
  <2> QED BY <2>1, <1>0, <1>1 DEF SslIInv, SslEvents
<1>6. rop.id \in SslReqs
  BY <1>0, SslRecords DEF SslIInv
<1> QED BY <1>0, <1>2, <1>3, <1>4, <1>5, <1>6 DEF SslIInv

(* network_ssl_write: the new request needs nothing yet, and has the        *)
(* immediate event if its start succeeded.                                  *)
LEMMA SslStartWrite ==
  ASSUME SslIInv, NEW x \in SslReqs, network_ssl_write(x)
  PROVE  /\ SslIInv'
         /\ x \notin started /\ x # sslcalling /\ sslcalling' = sslcalling
         /\ started' = started \cup {x} \/ (StartsFail /\ started' = started)
<1> USE SslAssumption, SslNullAssumption
<1>0. /\ ssl # NULL /\ wop = NULL /\ wop' = NewOp(x) /\ x \notin InUse /\ PokeSoon(x)
      /\ UNCHANGED <<ctx, rop, sslpc, sslcalling, stale, reported>>
  BY DEF network_ssl_write
<1>1. /\ wop' \in SslOp /\ wop' # NULL /\ wop'.id = x /\ ~wop'.needs_r /\ ~wop'.needs_w
  <2>1. NewOp(x) \in SslOp /\ NewOp(x).id = x /\ ~NewOp(x).needs_r /\ ~NewOp(x).needs_w
    BY DEF NewOp, SslOp
  <2> QED BY <2>1, <1>0
<1>2. x # sslcalling /\ (rop # NULL => rop.id # x)
  BY <1>0, SslRecords DEF InUse, SslIInv
<1>3. x \notin started
  BY <1>0, <1>2 DEF SslIInv, SslIds
<1>4. /\ ssl' \in SslCtx /\ ssl' # NULL
      /\ ssl'.waiting_r = ssl.waiting_r /\ ssl'.waiting_w = ssl.waiting_w
      /\ \/ ssl'.immediate /\ started' = started \cup {x}
         \/ StartsFail /\ ssl' = ssl /\ started' = started
  <2>1. ssl \in SslCtx
    BY <1>0, SslRecords DEF SslIInv
  <2>2. CASE ssl' = [ssl EXCEPT !.immediate = TRUE] /\ started' = started \cup {x}
    BY <2>1, <2>2 DEF SslCtx
  <2>3. CASE StartsFail /\ UNCHANGED <<ssl, started>>
    BY <2>1, <2>3
  <2> QED BY <2>2, <2>3, <1>0 DEF PokeSoon
<1>5. SslTypeOK'
  BY <1>0, <1>1, <1>4 DEF SslIInv, SslTypeOK
<1>6. SslIds'
  BY <1>0, <1>1, <1>2, <1>3, <1>4 DEF SslIInv, SslIds
<1>7. SslControl'
  BY <1>0, <1>4 DEF SslIInv, SslControl
<1>8. (NeedsR' <=> NeedsR) /\ (NeedsW' <=> NeedsW)
  BY <1>0, <1>1 DEF NeedsR, NeedsW
<1>9. SslEvents'
  <2>1. CASE ssl'.immediate /\ started' = started \cup {x}
    BY <2>1, <1>0, <1>4, <1>8 DEF SslIInv, SslEvents
  <2>2. CASE ssl' = ssl /\ started' = started
    <3>1. ~(wop'.id \in started') /\ (Idle(rop') <=> Idle(rop))
      BY <2>2, <1>0, <1>1, <1>3 DEF Idle
    <3> QED BY <2>2, <3>1, <1>0, <1>4, <1>8 DEF SslIInv, SslEvents
  <2> QED BY <2>1, <2>2, <1>4
<1> QED BY <1>0, <1>2, <1>3, <1>4, <1>5, <1>6, <1>7, <1>9 DEF SslIInv

(* network_ssl_write_cancel: setupevents drops what only this request needed. *)
LEMMA SslCancelWrite ==
  ASSUME SslIInv, network_ssl_write_cancel
  PROVE  /\ SslIInv' /\ sslcalling' = sslcalling
         /\ \E x \in started : x \in SslReqs /\ started' = started \ {x}
<1> USE SslAssumption, SslNullAssumption
<1>0. /\ ssl # NULL /\ wop # NULL /\ wop.id \in started
      /\ wop' = NULL /\ started' = started \ {wop.id} /\ setupevents
      /\ UNCHANGED <<ctx, rop, sslpc, sslcalling, stale, reported>>
  BY DEF network_ssl_write_cancel
<1>1. /\ ssl' \in SslCtx /\ ssl' # NULL /\ ssl'.immediate = ssl.immediate
      /\ (ssl'.waiting_r <=> NeedsR') /\ (ssl'.waiting_w <=> NeedsW')
  <2>1. NeedsR' \in BOOLEAN /\ NeedsW' \in BOOLEAN
    BY DEF NeedsR, NeedsW
  <2> HIDE DEF NeedsR, NeedsW
  <2> QED BY <2>1, <1>0, SslRecords DEF setupevents, SslCtx, SslIInv
<1>2. SslTypeOK'
  BY <1>0, <1>1 DEF SslIInv, SslTypeOK
<1>3. SslIds'
  BY <1>0 DEF SslIInv, SslIds
<1>4. SslControl'
  BY <1>0, <1>1 DEF SslIInv, SslControl
<1>5. SslEvents'
  <2>1. ~Idle(wop') /\ (Idle(rop') /\ rop'.id \in started' => Idle(rop) /\ rop.id \in started)
    BY <1>0 DEF Idle
  <2> QED BY <2>1, <1>0, <1>1 DEF SslIInv, SslEvents
<1>6. wop.id \in SslReqs
  BY <1>0, SslRecords DEF SslIInv
<1> QED BY <1>0, <1>2, <1>3, <1>4, <1>5, <1>6 DEF SslIInv

(* ssl_callback_read: the event is gone and nobody waits for it any more. *)
LEMMA SslEventRead ==
  ASSUME SslIInv, ssl_callback_read
  PROVE  SslIInv' /\ UNCHANGED <<started, sslcalling>>
<1> USE SslAssumption, SslNullAssumption
<1>0. /\ sslpc = "loop" /\ ssl # NULL /\ ssl' = [ssl EXCEPT !.waiting_r = FALSE]
      /\ rop' = (IF rop = NULL THEN NULL ELSE [rop EXCEPT !.needs_r = FALSE])
      /\ wop' = (IF wop = NULL THEN NULL ELSE [wop EXCEPT !.needs_r = FALSE])
      /\ sslpc' = "read" /\ UNCHANGED <<ctx, sslcalling, started, stale, reported>>
  BY DEF ssl_callback_read
<1>1. /\ ssl' \in SslCtx /\ ssl' # NULL /\ ~ssl'.waiting_r /\ ssl'.waiting_w = ssl.waiting_w
  BY <1>0, SslRecords DEF SslCtx, SslIInv
<1>2. /\ rop' = NULL <=> rop = NULL
      /\ rop # NULL => /\ rop' \in SslOp /\ rop'.id = rop.id
                       /\ ~rop'.needs_r /\ rop'.needs_w = rop.needs_w
  BY <1>0, SslRecords DEF SslOp, SslIInv
<1>3. /\ wop' = NULL <=> wop = NULL
      /\ wop # NULL => /\ wop' \in SslOp /\ wop'.id = wop.id
                       /\ ~wop'.needs_r /\ wop'.needs_w = wop.needs_w
  BY <1>0, SslRecords DEF SslOp, SslIInv
<1>4. SslTypeOK'
  BY <1>0, <1>1, <1>2, <1>3 DEF SslIInv, SslTypeOK
<1>5. SslIds'
  BY <1>0, <1>2, <1>3 DEF SslIInv, SslIds
<1>6. SslControl'
  BY <1>0, <1>1 DEF SslIInv, SslControl
<1>7. NeedsW' <=> NeedsW
  BY <1>2, <1>3 DEF NeedsW
<1>8. SslEvents'
  BY <1>0, <1>1, <1>7 DEF SslIInv, SslEvents
<1> QED BY <1>0, <1>4, <1>5, <1>6, <1>8 DEF SslIInv

(* ssl_callback_write: the event is gone and nobody waits for it any more. *)
LEMMA SslEventWrite ==
  ASSUME SslIInv, ssl_callback_write
  PROVE  SslIInv' /\ UNCHANGED <<started, sslcalling>>
<1> USE SslAssumption, SslNullAssumption
<1>0. /\ sslpc = "loop" /\ ssl # NULL /\ ssl' = [ssl EXCEPT !.waiting_w = FALSE]
      /\ rop' = (IF rop = NULL THEN NULL ELSE [rop EXCEPT !.needs_w = FALSE])
      /\ wop' = (IF wop = NULL THEN NULL ELSE [wop EXCEPT !.needs_w = FALSE])
      /\ sslpc' = "read" /\ UNCHANGED <<ctx, sslcalling, started, stale, reported>>
  BY DEF ssl_callback_write
<1>1. /\ ssl' \in SslCtx /\ ssl' # NULL /\ ~ssl'.waiting_w /\ ssl'.waiting_r = ssl.waiting_r
  BY <1>0, SslRecords DEF SslCtx, SslIInv
<1>2. /\ rop' = NULL <=> rop = NULL
      /\ rop # NULL => /\ rop' \in SslOp /\ rop'.id = rop.id
                       /\ ~rop'.needs_w /\ rop'.needs_r = rop.needs_r
  BY <1>0, SslRecords DEF SslOp, SslIInv
<1>3. /\ wop' = NULL <=> wop = NULL
      /\ wop # NULL => /\ wop' \in SslOp /\ wop'.id = wop.id
                       /\ ~wop'.needs_w /\ wop'.needs_r = wop.needs_r
  BY <1>0, SslRecords DEF SslOp, SslIInv
<1>4. SslTypeOK'
  BY <1>0, <1>1, <1>2, <1>3 DEF SslIInv, SslTypeOK
<1>5. SslIds'
  BY <1>0, <1>2, <1>3 DEF SslIInv, SslIds
<1>6. SslControl'
  BY <1>0, <1>1 DEF SslIInv, SslControl
<1>7. NeedsR' <=> NeedsR
  BY <1>2, <1>3 DEF NeedsR
<1>8. SslEvents'
  BY <1>0, <1>1, <1>7 DEF SslIInv, SslEvents
<1> QED BY <1>0, <1>4, <1>5, <1>6, <1>8 DEF SslIInv

(* poke, the read request: it ends, or then needs something, or did before. *)
LEMMA SslPokeRead ==
  ASSUME SslIInv, poke_read
  PROVE  /\ SslIInv' /\ sslcalling = NULL
         /\ \/ UNCHANGED <<started, sslcalling>>
            \/ \E x \in SslReqs : /\ started' = started \ {x} /\ sslcalling' = x
                                  /\ ~StartsFail => x \in started
<1> USE SslAssumption, SslNullAssumption
<1>0. /\ sslpc = "read" /\ sslcalling = NULL /\ ~stale /\ sslpc' = "write"
      /\ IF Idle(rop) THEN doread ELSE UNCHANGED <<rop, sslcalling, started>>
      /\ UNCHANGED <<ctx, ssl, wop, stale, reported>>
  BY DEF poke_read
<1>1. ssl # NULL
  BY <1>0 DEF SslIInv, SslControl
<1>2. CASE ~Idle(rop)
  <2>1. UNCHANGED <<ctx, ssl, rop, wop, sslcalling, started, stale, reported>>
    BY <1>0, <1>2
  <2>2. SslTypeOK'
    BY <2>1, <1>0 DEF SslIInv, SslTypeOK
  <2>3. SslIds' /\ SslControl'
    BY <2>1, <1>0, <1>1 DEF SslIInv, SslIds, SslControl
  <2>4. SslEvents'
    BY <2>1, <1>0, <1>1, <1>2 DEF SslIInv, SslEvents, NeedsR, NeedsW, Idle
  <2> QED BY <2>1, <2>2, <2>3, <2>4, <1>0 DEF SslIInv
<1>3. CASE Idle(rop)
  <2>0. /\ rop # NULL /\ ~rop.needs_r /\ ~rop.needs_w /\ doread
        /\ rop \in SslOp /\ rop.id \in SslReqs
    BY <1>0, <1>3, SslRecords DEF Idle, SslIInv
  <2>1. CASE rop' = NULL /\ sslcalling' = rop.id /\ started' = started \ {rop.id}
    <3>1. SslTypeOK'
      BY <2>0, <2>1, <1>0 DEF SslIInv, SslTypeOK
    <3>2. SslIds'
      BY <2>0, <2>1, <1>0 DEF SslIInv, SslIds
    <3>3. SslControl'
      BY <2>1, <1>0, <1>1 DEF SslIInv, SslControl
    <3>4. (NeedsR' <=> NeedsR) /\ (NeedsW' <=> NeedsW)
      BY <2>0, <2>1, <1>0 DEF NeedsR, NeedsW
    <3>5. ~Idle(rop')
      BY <2>1 DEF Idle
    <3>6. Idle(wop') /\ wop'.id \in started' => Idle(wop) /\ wop.id \in started
      BY <2>1, <1>0 DEF Idle
    <3>7. SslEvents'
      BY <3>4, <3>5, <3>6, <1>0, <1>1 DEF SslIInv, SslEvents
    <3>8. ~StartsFail => rop.id \in started
      BY <2>0 DEF SslIInv, SslIds
    <3> QED BY <2>0, <2>1, <3>1, <3>2, <3>3, <3>7, <3>8, <1>0 DEF SslIInv
  <2>2. CASE /\ rop' \in {[rop EXCEPT !.needs_r = TRUE], [rop EXCEPT !.needs_w = TRUE]}
             /\ UNCHANGED <<sslcalling, started>>
    <3>0. /\ rop' \in SslOp /\ rop' # NULL /\ rop'.id = rop.id
          /\ rop'.needs_r \/ rop'.needs_w
      BY <2>0, <2>2 DEF SslOp
    <3>1. SslTypeOK'
      BY <3>0, <2>2, <1>0 DEF SslIInv, SslTypeOK
    <3>2. SslIds'
      BY <2>0, <3>0, <2>2, <1>0 DEF SslIInv, SslIds
    <3>3. SslControl'
      BY <2>2, <1>0, <1>1 DEF SslIInv, SslControl
    <3>4. (NeedsR => NeedsR') /\ (NeedsW => NeedsW')
      BY <2>0, <1>0 DEF NeedsR, NeedsW
    <3>5. ~Idle(rop')
      BY <3>0 DEF Idle
    <3>6. Idle(wop') /\ wop'.id \in started' => Idle(wop) /\ wop.id \in started
      BY <2>2, <1>0 DEF Idle
    <3>7. SslEvents'
      BY <3>4, <3>5, <3>6, <1>0, <1>1 DEF SslIInv, SslEvents
    <3> QED BY <2>2, <3>1, <3>2, <3>3, <3>7, <1>0 DEF SslIInv
  <2> QED BY <2>0, <2>1, <2>2 DEF doread, ssl_docallback_read
<1> QED BY <1>2, <1>3

(* poke, the write request: it ends, or then needs something, or did before. *)
LEMMA SslPokeWrite ==
  ASSUME SslIInv, poke_write
  PROVE  /\ SslIInv' /\ sslcalling = NULL
         /\ \/ UNCHANGED <<started, sslcalling>>
            \/ \E x \in SslReqs : /\ started' = started \ {x} /\ sslcalling' = x
                                  /\ ~StartsFail => x \in started
<1> USE SslAssumption, SslNullAssumption
<1>0. /\ sslpc = "write" /\ sslcalling = NULL /\ ~stale /\ sslpc' = "setup"
      /\ IF Idle(wop) THEN dowrite ELSE UNCHANGED <<wop, sslcalling, started>>
      /\ UNCHANGED <<ctx, ssl, rop, stale, reported>>
  BY DEF poke_write
<1>1. ssl # NULL
  BY <1>0 DEF SslIInv, SslControl
<1>2. CASE ~Idle(wop)
  <2>1. UNCHANGED <<ctx, ssl, rop, wop, sslcalling, started, stale, reported>>
    BY <1>0, <1>2
  <2>2. SslTypeOK'
    BY <2>1, <1>0 DEF SslIInv, SslTypeOK
  <2>3. SslIds' /\ SslControl'
    BY <2>1, <1>0, <1>1 DEF SslIInv, SslIds, SslControl
  <2>4. SslEvents'
    BY <2>1, <1>0, <1>1, <1>2 DEF SslIInv, SslEvents, NeedsR, NeedsW, Idle
  <2> QED BY <2>1, <2>2, <2>3, <2>4, <1>0 DEF SslIInv
<1>3. CASE Idle(wop)
  <2>0. /\ wop # NULL /\ ~wop.needs_r /\ ~wop.needs_w /\ dowrite
        /\ wop \in SslOp /\ wop.id \in SslReqs
    BY <1>0, <1>3, SslRecords DEF Idle, SslIInv
  <2>1. CASE wop' = NULL /\ sslcalling' = wop.id /\ started' = started \ {wop.id}
    <3>1. SslTypeOK'
      BY <2>0, <2>1, <1>0 DEF SslIInv, SslTypeOK
    <3>2. SslIds'
      BY <2>0, <2>1, <1>0 DEF SslIInv, SslIds
    <3>3. SslControl'
      BY <2>1, <1>0, <1>1 DEF SslIInv, SslControl
    <3>4. (NeedsR' <=> NeedsR) /\ (NeedsW' <=> NeedsW)
      BY <2>0, <2>1, <1>0 DEF NeedsR, NeedsW
    <3>5. ~Idle(wop')
      BY <2>1 DEF Idle
    <3>6. Idle(rop') /\ rop'.id \in started' => Idle(rop) /\ rop.id \in started
      BY <2>1, <1>0 DEF Idle
    <3>7. SslEvents'
      BY <3>4, <3>5, <3>6, <1>0, <1>1 DEF SslIInv, SslEvents
    <3>8. ~StartsFail => wop.id \in started
      BY <2>0 DEF SslIInv, SslIds
    <3> QED BY <2>0, <2>1, <3>1, <3>2, <3>3, <3>7, <3>8, <1>0 DEF SslIInv
  <2>2. CASE /\ wop' \in {[wop EXCEPT !.needs_r = TRUE], [wop EXCEPT !.needs_w = TRUE]}
             /\ UNCHANGED <<sslcalling, started>>
    <3>0. /\ wop' \in SslOp /\ wop' # NULL /\ wop'.id = wop.id
          /\ wop'.needs_r \/ wop'.needs_w
      BY <2>0, <2>2 DEF SslOp
    <3>1. SslTypeOK'
      BY <3>0, <2>2, <1>0 DEF SslIInv, SslTypeOK
    <3>2. SslIds'
      BY <2>0, <3>0, <2>2, <1>0 DEF SslIInv, SslIds
    <3>3. SslControl'
      BY <2>2, <1>0, <1>1 DEF SslIInv, SslControl
    <3>4. (NeedsR => NeedsR') /\ (NeedsW => NeedsW')
      BY <2>0, <1>0 DEF NeedsR, NeedsW
    <3>5. ~Idle(wop')
      BY <3>0 DEF Idle
    <3>6. Idle(rop') /\ rop'.id \in started' => Idle(rop) /\ rop.id \in started
      BY <2>2, <1>0 DEF Idle
    <3>7. SslEvents'
      BY <3>4, <3>5, <3>6, <1>0, <1>1 DEF SslIInv, SslEvents
    <3> QED BY <2>2, <3>1, <3>2, <3>3, <3>7, <1>0 DEF SslIInv
  <2> QED BY <2>0, <2>1, <2>2 DEF dowrite, ssl_docallback_write
<1> QED BY <1>2, <1>3
(* poke, the events: each is registered just when a request needs it, or an *)
(* error is reported.                                                       *)
LEMMA SslPokeSetup ==
  ASSUME SslIInv, poke_setup
  PROVE  SslIInv' /\ UNCHANGED <<started, sslcalling>>
<1> USE SslAssumption, SslNullAssumption
<1>0. /\ sslpc = "setup" /\ sslcalling = NULL /\ ~stale /\ sslpc' = "loop"
      /\ UNCHANGED <<ctx, rop, wop, sslcalling, started, stale>>
      /\ \/ setupevents /\ UNCHANGED reported
         \/ setupevents_fails /\ reported' = TRUE
  BY DEF poke_setup
<1>1. ssl # NULL /\ ssl \in SslCtx
  BY <1>0, SslRecords DEF SslIInv, SslControl
<1>2. NeedsR' \in BOOLEAN /\ NeedsW' \in BOOLEAN
  BY DEF NeedsR, NeedsW
<1>3. /\ ssl' \in SslCtx /\ ssl' # NULL /\ ssl'.immediate = ssl.immediate
      /\ reported' \in BOOLEAN
      /\ ssl'.waiting_r => NeedsR'
      /\ ssl'.waiting_w => NeedsW'
      /\ ~reported' => (NeedsR' => ssl'.waiting_r) /\ (NeedsW' => ssl'.waiting_w) /\ ~reported
  <2>1. CASE setupevents /\ UNCHANGED reported
    <3>1. reported' \in BOOLEAN
      BY <2>1 DEF SslIInv, SslTypeOK
    <3>2. /\ ssl' \in SslCtx /\ ssl'.immediate = ssl.immediate
          /\ ssl'.waiting_r = NeedsR' /\ ssl'.waiting_w = NeedsW'
      BY <2>1, <1>1, <1>2 DEF setupevents, SslCtx
    <3> QED BY <3>1, <3>2, <2>1
  <2>2. CASE setupevents_fails /\ reported' = TRUE
    <3>1. (ssl.waiting_r /\ NeedsR') \in BOOLEAN /\ (ssl.waiting_w /\ NeedsW') \in BOOLEAN
      OBVIOUS
    <3>2. /\ ssl' \in SslCtx /\ ssl'.immediate = ssl.immediate
          /\ ssl'.waiting_r = (ssl.waiting_r /\ NeedsR')
          /\ ssl'.waiting_w = (ssl.waiting_w /\ NeedsW')
      BY <2>2, <1>1, <1>2, <3>1 DEF setupevents_fails, SslCtx
    <3>3. reported' \in BOOLEAN /\ reported'
      BY <2>2
    <3> QED BY <3>2, <3>3
  <2> QED BY <2>1, <2>2, <1>0
<1>4. SslTypeOK'
  BY <1>0, <1>3 DEF SslIInv, SslTypeOK
<1>5. SslIds' /\ SslControl'
  BY <1>0, <1>3 DEF SslIInv, SslIds, SslControl
<1>6. SslEvents'
  <2>1. (Idle(rop') <=> Idle(rop)) /\ (Idle(wop') <=> Idle(wop))
    BY <1>0 DEF Idle
  <2> QED BY <2>1, <1>0, <1>1, <1>3 DEF SslIInv, SslEvents
<1> QED BY <1>0, <1>4, <1>5, <1>6 DEF SslIInv

(* The other steps of the loop: the immediate event, whose callback starts  *)
(* poke, the return of a client's callback, and the ways poke may end early.*)
LEMMA SslOther ==
  ASSUME SslIInv,
         ssl_callback_immediate \/ SslCallbackReturns \/ SslCallbackFails \/ SslSignalFails
  PROVE  /\ SslIInv' /\ UNCHANGED started
         /\ \/ UNCHANGED sslcalling
            \/ sslcalling # NULL /\ sslcalling' = NULL
<1> USE SslAssumption, SslNullAssumption
<1>1. CASE ssl_callback_immediate
  <2>0. /\ sslpc = "loop" /\ ssl # NULL /\ ssl' = [ssl EXCEPT !.immediate = FALSE]
        /\ sslpc' = "read" /\ UNCHANGED <<ctx, rop, wop, sslcalling, started, stale, reported>>
    BY <1>1 DEF ssl_callback_immediate
  <2>1. /\ ssl' \in SslCtx /\ ssl' # NULL
        /\ ssl'.waiting_r = ssl.waiting_r /\ ssl'.waiting_w = ssl.waiting_w
    BY <2>0, SslRecords DEF SslCtx, SslIInv
  <2>2. SslTypeOK'
    BY <2>0, <2>1 DEF SslIInv, SslTypeOK
  <2>3. SslIds' /\ SslControl'
    BY <2>0, <2>1 DEF SslIInv, SslIds, SslControl
  <2>4. SslEvents'
    BY <2>0, <2>1 DEF SslIInv, SslEvents, NeedsR, NeedsW
  <2> QED BY <2>0, <2>2, <2>3, <2>4 DEF SslIInv
<1>2. CASE SslCallbackReturns
  <2>0. /\ sslcalling # NULL /\ sslcalling' = NULL
        /\ UNCHANGED <<ctx, ssl, rop, wop, sslpc, started, stale, reported>>
    BY <1>2 DEF SslCallbackReturns
  <2>1. SslTypeOK'
    BY <2>0 DEF SslIInv, SslTypeOK
  <2>2. SslIds'
    BY <2>0, SslRecords DEF SslIInv, SslIds
  <2>3. SslControl' /\ SslEvents'
    BY <2>0 DEF SslIInv, SslControl, SslEvents, NeedsR, NeedsW, Idle
  <2> QED BY <2>0, <2>1, <2>2, <2>3 DEF SslIInv
<1>3. CASE SslCallbackFails
  <2>0. /\ sslcalling # NULL /\ sslcalling' = NULL /\ sslpc' = "loop"
        /\ stale' \in BOOLEAN /\ ~stale' /\ reported' \in BOOLEAN /\ reported'
        /\ UNCHANGED <<ctx, ssl, rop, wop, started>>
    BY <1>3 DEF SslCallbackFails
  <2>1. SslTypeOK'
    BY <2>0 DEF SslIInv, SslTypeOK
  <2>2. SslIds'
    BY <2>0, SslRecords DEF SslIInv, SslIds
  <2>3. SslControl' /\ SslEvents'
    BY <2>0 DEF SslIInv, SslControl, SslEvents, NeedsR, NeedsW, Idle
  <2> QED BY <2>0, <2>1, <2>2, <2>3 DEF SslIInv
<1>4. CASE SslSignalFails
  <2>0. /\ sslcalling = NULL /\ ~stale /\ sslpc' = "loop" /\ reported' \in BOOLEAN /\ reported'
        /\ UNCHANGED <<ctx, ssl, rop, wop, sslcalling, started, stale>>
    BY <1>4 DEF SslSignalFails
  <2>1. SslTypeOK'
    BY <2>0 DEF SslIInv, SslTypeOK
  <2>2. SslIds' /\ SslControl'
    BY <2>0 DEF SslIInv, SslIds, SslControl
  <2>3. SslEvents'
    BY <2>0 DEF SslIInv, SslEvents, NeedsR, NeedsW, Idle
  <2> QED BY <2>0, <2>1, <2>2, <2>3 DEF SslIInv
<1> QED BY <1>1, <1>2, <1>3, <1>4

LEMMA SslNextOK == SslIInv /\ [SslNext]_sslvars => SslIInv'
<1> SUFFICES ASSUME SslIInv, [SslNext]_sslvars PROVE SslIInv'
  OBVIOUS
<1>1. CASE SslClient
  BY <1>1, SslOpenClose, SslStartRead, SslStartWrite, SslCancelRead, SslCancelWrite
     DEF SslClient
<1>2. CASE SslLoop
  BY <1>2, SslEventRead, SslEventWrite, SslPokeRead, SslPokeWrite, SslPokeSetup, SslOther
     DEF SslLoop
<1>3. CASE UNCHANGED sslvars
  BY <1>3 DEF sslvars, SslIInv, SslTypeOK, SslIds, SslControl, SslEvents, NeedsR, NeedsW, Idle
<1> QED BY <1>1, <1>2, <1>3 DEF SslNext

(* However read and write requests are started, cancelled and called back   *)
(* between the steps of poke, closing the connection there included, and    *)
(* even if the start of some of them fails: in the event loop no request    *)
(* that was started is left without the event that will run it, unless an   *)
(* error was reported to the loop, and no event is left without a request.  *)
THEOREM SslNoneStranded == SslSpec => []NoRequestStranded
<1>1. SslIInv => NoRequestStranded
  BY DEF SslIInv, SslEvents, NoRequestStranded
<1> QED BY <1>1, SslInitOK, SslNextOK, PTL DEF SslSpec

LEMMA SslStep ==
  ASSUME ~StartsFail, SslIInv, [SslNext]_sslvars
  PROVE  [SslPromise!Next]_<<started, sslcalling>>
<1> SUFFICES ASSUME ~UNCHANGED <<started, sslcalling>> PROVE SslPromise!Next
  OBVIOUS
<1>1. CASE SslClient
  <2>1. CASE network_ssl_open \/ network_ssl_close
    BY <2>1 DEF network_ssl_open, network_ssl_close
  <2>2. ASSUME NEW x \in SslReqs, network_ssl_read(x) \/ network_ssl_write(x)
        PROVE  SslPromise!Next
    <3>1. x \notin started /\ x # sslcalling /\ sslcalling' = sslcalling
          /\ started' = started \cup {x}
      BY <2>2, SslStartRead, SslStartWrite
    <3> QED BY <3>1 DEF SslPromise!Next, SslPromise!Start
  <2>3. CASE network_ssl_read_cancel \/ network_ssl_write_cancel
    <3>1. sslcalling' = sslcalling /\ \E x \in started : x \in SslReqs /\ started' = started \ {x}
      BY <2>3, SslCancelRead, SslCancelWrite
    <3> QED BY <3>1 DEF SslPromise!Next, SslPromise!Cancel
  <2> QED BY <1>1, <2>1, <2>2, <2>3 DEF SslClient
<1>2. CASE SslLoop
  <2>1. CASE ssl_callback_read \/ ssl_callback_write \/ poke_setup
    BY <2>1, SslEventRead, SslEventWrite, SslPokeSetup
  <2>2. CASE poke_read \/ poke_write
    <3>1. PICK x \in SslReqs : /\ sslcalling = NULL /\ started' = started \ {x}
                               /\ sslcalling' = x /\ x \in started
      BY <2>2, SslPokeRead, SslPokeWrite
    <3> QED BY <3>1 DEF SslPromise!Next, SslPromise!Call
  <2>3. CASE ssl_callback_immediate \/ SslCallbackReturns \/ SslCallbackFails \/ SslSignalFails
    BY <2>3, SslOther DEF SslPromise!Next, SslPromise!Return
  <2> QED BY <1>2, <2>1, <2>2, <2>3 DEF SslLoop
<1>3. CASE UNCHANGED sslvars
  BY <1>3 DEF sslvars
<1> QED BY <1>1, <1>2, <1>3 DEF SslNext

(* As long as every start succeeds, requests on a TLS connection keep the   *)
(* promise of network.h: one call of the callback for each, or a            *)
(* cancellation and none.  The hypothesis is needed: network_ssl_read and   *)
(* network_ssl_write leave a request behind that they failed to start.      *)
THEOREM SslRefines ==
  ASSUME ~StartsFail
  PROVE  SslSpec => SslOneCallback
<1>1. SslIInv /\ [SslNext]_sslvars => [SslPromise!Next]_<<started, sslcalling>>
  BY SslStep
<1>2. SslInit => SslPromise!Init
  BY DEF SslInit, SslPromise!Init
<1> QED BY <1>1, <1>2, SslInitOK, SslNextOK, PTL DEF SslSpec, SslOneCallback, SslPromise!Spec
----------------------------------------------------------------------------
(* Connecting.  A cookie that waits has a socket and an address to try, or  *)
(* an immediate event and no address left.                                  *)
CookieOK(C) ==
  /\ C \in ConnectCookie
  /\ C.cookie_immediate <=> C.s = NULL
  /\ C.cookie_timeo => C.s # NULL
  /\ C.s # NULL => C.sas > 0
  /\ C.cookie_immediate => C.sas = 0

(* The cookies ck of the requests in Q own the events and sockets there     *)
(* are, those in he excepted, which are the clients'.  The functions of     *)
(* network_connect.c take a cookie out of this and put it back in: it holds *)
(* for the other requests in between, so Q, the cookies, the events and the *)
(* sockets are parameters.                                                  *)
Owns(ck, Q, wt, ti, im, op, he) ==
  /\ Q \subseteq Cookies /\ \A y \in Q : CookieOK(ck[y])
  /\ wt \in [Fds -> Cookies \cup {NULL}]
  /\ ti \subseteq Cookies /\ im \subseteq Cookies /\ op \subseteq Fds /\ he \subseteq op
  /\ \A y \in Cookies : y \in ti <=> y \in Q /\ ck[y].cookie_timeo
  /\ \A y \in Cookies : y \in im <=> y \in Q /\ ck[y].cookie_immediate
  /\ \A f \in Fds : wt[f] # NULL => wt[f] \in Q /\ ck[wt[f]].s = f
  /\ \A y \in Q : ck[y].s # NULL => wt[ck[y].s] = y
  /\ \A f \in Fds : f \in op <=> f \in he \/ wt[f] # NULL
  /\ \A f \in he : wt[f] = NULL

ConnectIInv ==
  /\ DOMAIN cookies \subseteq Cookies
  /\ \A x \in DOMAIN cookies : cookies[x] \in ConnectCookie
  /\ calling \in DOMAIN cookies \cup {NULL}
  /\ starts \in 0 .. MaxStarts
  /\ AllAddressesTried
  /\ Owns(cookies, Waiting, writer, timers, immediates, open, held)
(* Only the cookies of the requests in Q matter. *)
LEMMA OwnsSame ==
  ASSUME NEW ck, NEW Q, NEW wt, NEW ti, NEW im, NEW op, NEW he,
         Owns(ck, Q, wt, ti, im, op, he),
         NEW c2, \A y \in Q : c2[y] = ck[y]
  PROVE  Owns(c2, Q, wt, ti, im, op, he)
BY DEF Owns

(* The request x, with the socket f, is taken out: its event and its timer  *)
(* are gone, and the socket was closed or given to a client.                *)
Released(ck, Q, wt, ti, im, op, he, x, f) ==
  /\ Owns(ck, Q \ {x}, [wt EXCEPT ![f] = NULL], ti \ {x}, im, op \ {f}, he)
  /\ Owns(ck, Q \ {x}, [wt EXCEPT ![f] = NULL], ti \ {x}, im, op, he \cup {f})

(* A request that had a socket is taken out. *)
LEMMA OwnsRelease ==
  ASSUME NEW ck, NEW Q, NEW wt, NEW ti, NEW im, NEW op, NEW he,
         Owns(ck, Q, wt, ti, im, op, he),
         NEW x \in Q, NEW f, f = ck[x].s, f # NULL
  PROVE  /\ f \in Fds /\ f \in op /\ f \notin he /\ wt[f] = x
         /\ Released(ck, Q, wt, ti, im, op, he, x, f)
<1> USE ConnectAssumption
<1> DEFINE w2 == [wt EXCEPT ![f] = NULL]
<1>1. /\ f \in Fds /\ wt[f] = x /\ x \in Cookies /\ ~ck[x].cookie_immediate
      /\ wt \in [Fds -> Cookies \cup {NULL}]
  BY DEF Owns, CookieOK, ConnectCookie
<1>2. f \in op /\ f \notin he
  BY <1>1 DEF Owns
<1>3. /\ w2 \in [Fds -> Cookies \cup {NULL}] /\ w2[f] = NULL
      /\ \A g \in Fds : g # f => w2[g] = wt[g]
  BY <1>1
<1> HIDE DEF w2
<1>4. \A g \in Fds : w2[g] # NULL => w2[g] \in Q \ {x} /\ ck[w2[g]].s = g
  BY <1>1, <1>3 DEF Owns
<1>5. \A y \in Q \ {x} : ck[y].s # NULL => w2[ck[y].s] = y
  <2> SUFFICES ASSUME NEW y \in Q \ {x}, ck[y].s # NULL PROVE w2[ck[y].s] = y
    OBVIOUS
  <2>1. wt[ck[y].s] = y /\ ck[y].s \in Fds
    BY DEF Owns, CookieOK, ConnectCookie
  <2> QED BY <2>1, <1>1, <1>3
<1>6. /\ \A y \in Cookies : y \in ti \ {x} <=> y \in Q \ {x} /\ ck[y].cookie_timeo
      /\ \A y \in Cookies : y \in im <=> y \in Q \ {x} /\ ck[y].cookie_immediate
  BY <1>1 DEF Owns
<1>7. Owns(ck, Q \ {x}, w2, ti \ {x}, im, op \ {f}, he)
  BY <1>2, <1>3, <1>4, <1>5, <1>6 DEF Owns
<1>8. Owns(ck, Q \ {x}, w2, ti \ {x}, im, op, he \cup {f})
  BY <1>2, <1>3, <1>4, <1>5, <1>6 DEF Owns
<1> QED BY <1>1, <1>2, <1>7, <1>8 DEF w2, Released

(* A request that had an immediate event is taken out. *)
LEMMA OwnsReleaseImmediate ==
  ASSUME NEW ck, NEW Q, NEW wt, NEW ti, NEW im, NEW op, NEW he,
         Owns(ck, Q, wt, ti, im, op, he),
         NEW x \in Q, ck[x].s = NULL
  PROVE  x \notin ti /\ Owns(ck, Q \ {x}, wt, ti, im \ {x}, op, he)
<1> USE ConnectAssumption
<1>1. x \in Cookies /\ ~ck[x].cookie_timeo /\ ck[x].cookie_immediate /\ x \notin ti
  BY DEF Owns, CookieOK
<1>2. \A g \in Fds : wt[g] # x
  BY <1>1 DEF Owns
<1>3. /\ \A y \in Cookies : y \in ti <=> y \in Q \ {x} /\ ck[y].cookie_timeo
      /\ \A y \in Cookies : y \in im \ {x} <=> y \in Q \ {x} /\ ck[y].cookie_immediate
  BY <1>1 DEF Owns
<1>4. /\ \A g \in Fds : wt[g] # NULL => wt[g] \in Q \ {x} /\ ck[wt[g]].s = g
      /\ \A y \in Q \ {x} : CookieOK(ck[y]) /\ (ck[y].s # NULL => wt[ck[y].s] = y)
  BY <1>2 DEF Owns
<1> QED BY <1>1, <1>3, <1>4 DEF Owns

(* A request is put in with a new socket, its event and perhaps its timer. *)
LEMMA OwnsLaunch ==
  ASSUME NEW ck, NEW Q, NEW wt, NEW ti, NEW im, NEW op, NEW he,
         Owns(ck, Q, wt, ti, im, op, he),
         NEW x \in Cookies, x \notin Q, CookieOK(ck[x]),
         NEW f \in Fds, f \notin op, ck[x].s = f
  PROVE  Owns(ck, Q \cup {x}, [wt EXCEPT ![f] = x],
              IF ck[x].cookie_timeo THEN ti \cup {x} ELSE ti, im, op \cup {f}, he)
<1> USE ConnectAssumption
<1> DEFINE w2 == [wt EXCEPT ![f] = x]
           t2 == IF ck[x].cookie_timeo THEN ti \cup {x} ELSE ti
<1>1. /\ wt \in [Fds -> Cookies \cup {NULL}] /\ wt[f] = NULL /\ f \notin he /\ x # NULL
      /\ f # NULL /\ ~ck[x].cookie_immediate
  BY DEF Owns, CookieOK
<1>2. /\ w2 \in [Fds -> Cookies \cup {NULL}] /\ w2[f] = x
      /\ \A g \in Fds : g # f => w2[g] = wt[g]
  BY <1>1
<1>3. /\ t2 \subseteq Cookies
      /\ \A y \in Cookies : y \in t2 <=> y \in Q \cup {x} /\ ck[y].cookie_timeo
  BY <1>1 DEF Owns
<1> HIDE DEF w2, t2
<1>4. \A g \in Fds : w2[g] # NULL => w2[g] \in Q \cup {x} /\ ck[w2[g]].s = g
  BY <1>1, <1>2 DEF Owns
<1>5. \A y \in Q \cup {x} : ck[y].s # NULL => w2[ck[y].s] = y
  <2>1. ASSUME NEW y \in Q, ck[y].s # NULL PROVE w2[ck[y].s] = y
    <3>1. wt[ck[y].s] = y /\ ck[y].s \in Fds /\ y # NULL
      BY <2>1 DEF Owns, CookieOK, ConnectCookie
    <3> QED BY <3>1, <1>1, <1>2
  <2> QED BY <2>1, <1>2
<1>6. \A y \in Cookies : y \in im <=> y \in Q \cup {x} /\ ck[y].cookie_immediate
  BY <1>1 DEF Owns
<1>7. /\ \A g \in Fds : g \in op \cup {f} <=> g \in he \/ w2[g] # NULL
      /\ \A g \in he : w2[g] = NULL
  BY <1>1, <1>2 DEF Owns
<1>8. Q \cup {x} \subseteq Cookies /\ \A y \in Q \cup {x} : CookieOK(ck[y])
  BY DEF Owns
<1> QED BY <1>2, <1>3, <1>4, <1>5, <1>6, <1>7, <1>8 DEF Owns, w2, t2

(* A request is put in with an immediate event. *)
LEMMA OwnsGaveUp ==
  ASSUME NEW ck, NEW Q, NEW wt, NEW ti, NEW im, NEW op, NEW he,
         Owns(ck, Q, wt, ti, im, op, he),
         NEW x \in Cookies, x \notin Q, CookieOK(ck[x]), ck[x].s = NULL
  PROVE  Owns(ck, Q \cup {x}, wt, ti, im \cup {x}, op, he)
<1>1. ck[x].cookie_immediate /\ ~ck[x].cookie_timeo
  BY DEF CookieOK
<1>2. /\ \A y \in Cookies : y \in ti <=> y \in Q \cup {x} /\ ck[y].cookie_timeo
      /\ \A y \in Cookies : y \in im \cup {x} <=> y \in Q \cup {x} /\ ck[y].cookie_immediate
  BY <1>1 DEF Owns
<1>3. /\ \A g \in Fds : wt[g] # NULL => wt[g] \in Q \cup {x} /\ ck[wt[g]].s = g
      /\ \A y \in Q \cup {x} : CookieOK(ck[y]) /\ (ck[y].s # NULL => wt[ck[y].s] = y)
  BY DEF Owns
<1> QED BY <1>2, <1>3 DEF Owns
(* What the functions work on, and the cookie of a request that has neither *)
(* socket nor events, which is how tryconnect finds it.                     *)
WorkState ==
  [C : ConnectCookie, writer : [Fds -> Cookies \cup {NULL}], timers : SUBSET Cookies,
   immediates : SUBSET Cookies, open : SUBSET Fds]

Plain(C) ==
  C \in ConnectCookie /\ C.s = NULL /\ ~C.cookie_timeo /\ ~C.cookie_immediate

(* A work state whose cookie alone was changed. *)
SameWork(v, w) ==
  /\ v \in WorkState
  /\ v.writer = w.writer /\ v.timers = w.timers /\ v.immediates = w.immediates

(* tryconnect skips addresses, and the rest of the cookie stays.            *)
LEMMA SkippedFacts ==
  ASSUME NEW w \in WorkState, Plain(w.C), NEW u \in Skipped(w)
  PROVE  SameWork(u, w) /\ u.open = w.open /\ Plain(u.C)
<1>1. PICK left \in 0 .. w.C.sas :
        u = [w EXCEPT !.C.sas = left, !.C.s = IF left = w.C.sas THEN @ ELSE NULL]
  BY DEF Skipped
<1>2. /\ w.C.sas \in 0 .. MaxAddrs /\ w.C.timeo_enabled \in BOOLEAN /\ w.C.s = NULL
      /\ w.C \in [sas : 0 .. MaxAddrs, s : Fds \cup {NULL}, timeo_enabled : BOOLEAN,
                  cookie_timeo : BOOLEAN, cookie_immediate : BOOLEAN]
      /\ ~w.C.cookie_timeo /\ ~w.C.cookie_immediate
  BY DEF Plain, ConnectCookie
<1>3. left \in 0 .. MaxAddrs
  BY <1>2, ConnectAssumption
<1>4. u = [w EXCEPT !.C = [w.C EXCEPT !.sas = left, !.s = NULL]]
  BY <1>1, <1>2 DEF WorkState
<1>5. [w.C EXCEPT !.sas = left, !.s = NULL] \in ConnectCookie
  BY <1>2, <1>3 DEF ConnectCookie
<1>6. Plain([w.C EXCEPT !.sas = left, !.s = NULL])
  BY <1>2, <1>5 DEF Plain
<1> HIDE DEF Plain
<1> QED BY <1>4, <1>5, <1>6 DEF SameWork, WorkState

(* It opens a socket. *)
LEMMA BindFacts ==
  ASSUME NEW w \in WorkState, Plain(w.C), NEW v \in sock_connect_bind_nb(w)
  PROVE  \E f \in Fds \ w.open :
           /\ SameWork(v, w) /\ v.open = w.open \cup {f}
           /\ v.C \in ConnectCookie /\ v.C.s = f /\ v.C.sas = w.C.sas
           /\ v.C.timeo_enabled = w.C.timeo_enabled
           /\ ~v.C.cookie_timeo /\ ~v.C.cookie_immediate
<1>1. PICK f \in Fds \ w.open : v = [w EXCEPT !.C.s = f, !.open = @ \cup {f}]
  BY DEF sock_connect_bind_nb
<1> DEFINE D == [w.C EXCEPT !.s = f]
<1>2. v = [w EXCEPT !.C = D, !.open = w.open \cup {f}]
  BY <1>1 DEF WorkState
<1>3. /\ D \in ConnectCookie /\ D.s = f /\ D.sas = w.C.sas /\ D.timeo_enabled = w.C.timeo_enabled
      /\ ~D.cookie_timeo /\ ~D.cookie_immediate
  BY DEF Plain, ConnectCookie
<1> HIDE DEF D
<1>4. SameWork(v, w) /\ v.C = D /\ v.open = w.open \cup {f}
  BY <1>2, <1>3 DEF SameWork, WorkState
<1> QED BY <1>3, <1>4

(* What tryconnect makes of w when it succeeds: the request has given up    *)
(* all addresses and has an immediate event, or has a new socket, its       *)
(* event, and the timer its cookie says it has.                             *)
Tried(x, w, u) ==
  \/ /\ u.C.s = NULL
     /\ u.writer = w.writer /\ u.timers = w.timers /\ u.open = w.open
     /\ u.immediates = w.immediates \cup {x}
  \/ \E f \in Fds \ w.open :
       /\ u.C.s = f
       /\ u.writer = [w.writer EXCEPT ![f] = x]
       /\ u.timers = (IF u.C.cookie_timeo THEN w.timers \cup {x} ELSE w.timers)
       /\ u.immediates = w.immediates /\ u.open = w.open \cup {f}

LEMMA TryConnectFacts ==
  ASSUME NEW w \in WorkState, Plain(w.C), NEW x \in Cookies, NEW u \in tryconnect(x, w)
  PROVE  CookieOK(u.C) /\ Tried(x, w, u)
<1> USE ConnectAssumption
<1>1. PICK k \in Skipped(w) :
        u \in IF k.C.sas = 0 THEN {GaveUp(x, k)}
              ELSE UNION {Launched(x, v) : v \in sock_connect_bind_nb(k)}
  BY DEF tryconnect
<1>2. SameWork(k, w) /\ k.open = w.open /\ Plain(k.C)
  BY SkippedFacts
<1>3. CASE k.C.sas = 0
  <2>1. u = [k EXCEPT !.C.cookie_immediate = TRUE, !.immediates = @ \cup {x}]
    BY <1>1, <1>3 DEF GaveUp
  <2> DEFINE D == [k.C EXCEPT !.cookie_immediate = TRUE]
  <2>2. u = [k EXCEPT !.C = D, !.immediates = k.immediates \cup {x}]
    BY <2>1, <1>2 DEF SameWork, WorkState
  <2>3. CookieOK(D) /\ D.s = NULL
    BY <1>2, <1>3 DEF Plain, ConnectCookie, CookieOK
  <2> HIDE DEF D
  <2>4. u.C = D /\ u.writer = w.writer /\ u.timers = w.timers /\ u.open = w.open
        /\ u.immediates = w.immediates \cup {x}
    BY <2>2, <1>2 DEF SameWork, WorkState
  <2> QED BY <2>3, <2>4 DEF Tried
<1>4. CASE k.C.sas # 0
  <2>1. PICK v \in sock_connect_bind_nb(k) : u \in Launched(x, v)
    BY <1>1, <1>4
  <2>2. k \in WorkState
    BY <1>2 DEF SameWork
  <2>3. PICK f \in Fds \ k.open :
           /\ SameWork(v, k) /\ v.open = k.open \cup {f}
           /\ v.C \in ConnectCookie /\ v.C.s = f /\ v.C.sas = k.C.sas
           /\ v.C.timeo_enabled = k.C.timeo_enabled
           /\ ~v.C.cookie_timeo /\ ~v.C.cookie_immediate
    BY <1>2, <2>2, BindFacts
  <2> DEFINE D == [v.C EXCEPT !.cookie_timeo = v.C.timeo_enabled]
             T == IF v.C.timeo_enabled THEN v.timers \cup {x} ELSE v.timers
             z == [v EXCEPT !.C.cookie_timeo = v.C.timeo_enabled, !.timers = T]
  <2>4. u = [z EXCEPT !.writer[v.C.s] = x]
    BY <2>1 DEF Launched
  <2>5. z = [v EXCEPT !.C = D, !.timers = T]
    BY <2>3 DEF SameWork, WorkState
  <2>6. /\ D \in ConnectCookie /\ D.s = f /\ D.sas = k.C.sas /\ ~D.cookie_immediate
        /\ D.cookie_timeo = v.C.timeo_enabled
    BY <2>3 DEF ConnectCookie
  <2>7. k.C.sas \in Nat /\ f # NULL
    BY <1>2 DEF Plain, ConnectCookie
  <2>8. CookieOK(D)
    BY <2>6, <2>7, <1>4 DEF CookieOK
  <2>9. T = IF D.cookie_timeo THEN w.timers \cup {x} ELSE w.timers
    BY <2>3, <2>6, <1>2 DEF SameWork
  <2> HIDE DEF D, T
  <2>10. z.C = D /\ z.timers = T /\ z.writer = v.writer /\ z.open = v.open
         /\ z.immediates = v.immediates
    BY <2>5, <2>3 DEF SameWork, WorkState
  <2>11. /\ u.C = z.C /\ u.timers = z.timers /\ u.open = z.open /\ u.immediates = z.immediates
         /\ u.writer = [z.writer EXCEPT ![f] = x]
    <3>1. DOMAIN v = {"C", "writer", "timers", "immediates", "open"}
      BY <2>3 DEF SameWork, WorkState
    <3> QED BY <2>3, <2>4, <2>5, <3>1
  <2>12. /\ u.C = D /\ u.timers = T /\ u.open = w.open \cup {f} /\ u.immediates = w.immediates
         /\ u.writer = [w.writer EXCEPT ![f] = x] /\ f \in Fds \ w.open
    BY <2>3, <2>10, <2>11, <1>2 DEF SameWork
  <2> QED BY <2>6, <2>8, <2>9, <2>12 DEF Tried
<1> QED BY <1>3, <1>4

(* tryconnect, when it fails: nothing is left but the cookie. *)
LEMMA TryConnectFailsFacts ==
  ASSUME NEW w \in WorkState, Plain(w.C), NEW x \in Cookies, NEW u \in tryconnect_fails(x, w)
  PROVE  /\ SameWork(u, w) /\ u.open = w.open
         /\ u.C \in ConnectCookie /\ ~u.C.cookie_immediate
<1> DEFINE Failed(v) == {[CloseSocket(v) EXCEPT !.C.cookie_timeo = t] :
                           t \in {FALSE, v.C.timeo_enabled}}
<1>1. PICK k \in Skipped(w) :
        u \in IF k.C.sas = 0 THEN {k} ELSE UNION {Failed(v) : v \in sock_connect_bind_nb(k)}
  BY DEF tryconnect_fails
<1>2. SameWork(k, w) /\ k.open = w.open /\ Plain(k.C) /\ k \in WorkState
  BY SkippedFacts DEF SameWork
<1>3. CASE k.C.sas = 0
  BY <1>1, <1>2, <1>3 DEF Plain, SameWork
<1>4. CASE k.C.sas # 0
  <2>1. PICK v \in sock_connect_bind_nb(k) : u \in Failed(v)
    BY <1>1, <1>4
  <2>2. PICK f \in Fds \ k.open :
           /\ SameWork(v, k) /\ v.open = k.open \cup {f}
           /\ v.C \in ConnectCookie /\ v.C.s = f /\ v.C.sas = k.C.sas
           /\ v.C.timeo_enabled = k.C.timeo_enabled
           /\ ~v.C.cookie_timeo /\ ~v.C.cookie_immediate
    BY <1>2, BindFacts
  <2>3. PICK t \in {FALSE, v.C.timeo_enabled} : u = [CloseSocket(v) EXCEPT !.C.cookie_timeo = t]
    BY <2>1
  <2>4. t \in BOOLEAN
    BY <2>2 DEF ConnectCookie
  <2> DEFINE D == [v.C EXCEPT !.cookie_timeo = t]
  <2>5. D \in ConnectCookie /\ ~D.cookie_immediate
    BY <2>2, <2>4 DEF ConnectCookie
  <2>6. u = [v EXCEPT !.open = v.open \ {v.C.s}, !.C = D]
    BY <2>2, <2>3 DEF CloseSocket, SameWork, WorkState
  <2> HIDE DEF D
  <2>7. SameWork(u, v) /\ u.C = D /\ u.open = v.open \ {f}
    BY <2>2, <2>5, <2>6 DEF SameWork, WorkState
  <2>8. u.open = w.open
    BY <2>2, <2>7, <1>2
  <2> QED BY <2>2, <2>5, <2>7, <2>8, <1>2 DEF SameWork
<1> QED BY <1>3, <1>4
(* The current state as a work state. *)
LEMMA ConnectStateFacts ==
  ASSUME ConnectIInv, NEW C \in ConnectCookie
  PROVE  /\ ConnectState(C) \in WorkState
         /\ ConnectState(C).C = C /\ ConnectState(C).writer = writer
         /\ ConnectState(C).timers = timers /\ ConnectState(C).immediates = immediates
         /\ ConnectState(C).open = open
BY DEF ConnectState, WorkState, ConnectIInv, Owns

LEMMA InstallFacts ==
  ASSUME NEW x, NEW w, Install(x, w)
  PROVE  /\ DOMAIN cookies' = DOMAIN cookies \cup {x} /\ cookies'[x] = w.C
         /\ \A y \in DOMAIN cookies : y # x => cookies'[y] = cookies[y]
         /\ writer' = w.writer /\ timers' = w.timers /\ immediates' = w.immediates
         /\ open' = w.open
BY DEF Install

(* A request that tryconnect has put back, or in, waits.                    *)
LEMMA WaitOK ==
  ASSUME ConnectIInv, NEW x \in Cookies, x # calling,
         NEW w \in WorkState, Plain(w.C),
         Owns(cookies, Waiting \ {x}, w.writer, w.timers, w.immediates, w.open, held),
         NEW u \in tryconnect(x, w), Wait(x, u), starts' \in 0 .. MaxStarts
  PROVE  ConnectIInv' /\ Waiting' = Waiting \cup {x} /\ calling' = calling
<1> DEFINE Q == Waiting \ {x}
<1>1. /\ DOMAIN cookies' = DOMAIN cookies \cup {x} /\ cookies'[x] = u.C
      /\ \A y \in DOMAIN cookies : y # x => cookies'[y] = cookies[y]
      /\ writer' = u.writer /\ timers' = u.timers /\ immediates' = u.immediates
      /\ open' = u.open /\ held' = held /\ calling' = calling
  BY InstallFacts DEF Wait
<1>2. CookieOK(u.C)
  BY TryConnectFacts
<1>3. Waiting' = Waiting \cup {x} /\ Waiting' = Q \cup {x} /\ x \notin Q
  BY <1>1 DEF Waiting
<1>4. \A y \in Q : cookies'[y] = cookies[y]
  BY <1>1 DEF Waiting
<1> HIDE DEF Q
<1>5. Owns(cookies', Q, w.writer, w.timers, w.immediates, w.open, held)
  BY <1>4, OwnsSame DEF Q
<1>6. CookieOK(cookies'[x])
  BY <1>1, <1>2
<1>7. Owns(cookies', Waiting', writer', timers', immediates', open', held')
  <2>1. CASE /\ u.C.s = NULL
             /\ u.writer = w.writer /\ u.timers = w.timers /\ u.open = w.open
             /\ u.immediates = w.immediates \cup {x}
    <3>1. Owns(cookies', Q \cup {x}, w.writer, w.timers, w.immediates \cup {x}, w.open, held)
      BY <2>1, <1>1, <1>3, <1>5, <1>6, OwnsGaveUp
    <3> QED BY <3>1, <2>1, <1>1, <1>3
  <2>2. ASSUME NEW f \in Fds \ w.open, u.C.s = f,
               u.writer = [w.writer EXCEPT ![f] = x],
               u.timers = (IF u.C.cookie_timeo THEN w.timers \cup {x} ELSE w.timers),
               u.immediates = w.immediates, u.open = w.open \cup {f}
        PROVE  Owns(cookies', Waiting', writer', timers', immediates', open', held')
    <3>1. Owns(cookies', Q \cup {x}, [w.writer EXCEPT ![f] = x],
               IF cookies'[x].cookie_timeo THEN w.timers \cup {x} ELSE w.timers,
               w.immediates, w.open \cup {f}, held)
      <4>1. f \in Fds /\ f \notin w.open /\ cookies'[x].s = f
        BY <2>2, <1>1
      <4> QED BY ONLY <4>1, <1>3, <1>5, <1>6, x \in Cookies, OwnsLaunch
    <3>2. timers' = IF cookies'[x].cookie_timeo THEN w.timers \cup {x} ELSE w.timers
      BY ONLY <2>2, <1>1
    <3>3. /\ writer' = [w.writer EXCEPT ![f] = x] /\ immediates' = w.immediates
          /\ open' = w.open \cup {f} /\ held' = held /\ Waiting' = Q \cup {x}
      BY ONLY <2>2, <1>1, <1>3
    <3> QED BY ONLY <3>1, <3>2, <3>3
  <2>3. Tried(x, w, u)
    BY TryConnectFacts
  <2> QED BY ONLY <2>1, <2>2, <2>3 DEF Tried
<1>8. u.C \in ConnectCookie /\ (u.C.cookie_immediate => u.C.sas = 0)
  BY <1>2 DEF CookieOK
<1>9. AllAddressesTried'
  BY <1>1, <1>8 DEF AllAddressesTried, ConnectIInv
<1>10. /\ DOMAIN cookies' \subseteq Cookies
       /\ \A y \in DOMAIN cookies' : cookies'[y] \in ConnectCookie
       /\ calling' \in DOMAIN cookies' \cup {NULL}
  BY <1>1, <1>8 DEF ConnectIInv
<1> QED BY <1>1, <1>3, <1>7, <1>9, <1>10 DEF ConnectIInv

(* A request whose upstream callback is called no longer waits. *)
LEMMA CallOK ==
  ASSUME ConnectIInv, NEW x \in Waiting, calling = NULL,
         NEW u, u.C \in ConnectCookie, u.C.cookie_immediate => u.C.sas = 0,
         docallback(x, u), UNCHANGED starts,
         Owns(cookies, Waiting \ {x}, u.writer, u.timers, u.immediates, u.open,
              held \cup ({u.C.s} \ {NULL}))
  PROVE  ConnectIInv' /\ Waiting' = Waiting \ {x} /\ calling' = x
<1> USE ConnectAssumption
<1>1. /\ DOMAIN cookies' = DOMAIN cookies \cup {x} /\ cookies'[x] = u.C
      /\ \A y \in DOMAIN cookies : y # x => cookies'[y] = cookies[y]
      /\ writer' = u.writer /\ timers' = u.timers /\ immediates' = u.immediates
      /\ open' = u.open /\ held' = held \cup ({u.C.s} \ {NULL}) /\ calling' = x
  BY InstallFacts DEF docallback
<1>2. /\ x \in DOMAIN cookies /\ DOMAIN cookies' = DOMAIN cookies /\ x # NULL
      /\ DOMAIN cookies \subseteq Cookies
  BY <1>1 DEF Waiting, ConnectIInv
<1>3. Waiting' = Waiting \ {x} /\ Waiting = DOMAIN cookies
  BY <1>1, <1>2 DEF Waiting
<1>4. \A y \in Waiting \ {x} : cookies'[y] = cookies[y]
  BY <1>1, <1>3
<1>5. Owns(cookies', Waiting \ {x}, writer', timers', immediates', open', held')
  BY <1>1, <1>4, OwnsSame
<1>6. AllAddressesTried'
  BY <1>1, <1>2 DEF AllAddressesTried, ConnectIInv
<1>7. \A y \in DOMAIN cookies' : cookies'[y] \in ConnectCookie
  BY <1>1, <1>2 DEF ConnectIInv
<1>8. starts' \in 0 .. MaxStarts
  BY DEF ConnectIInv
<1> QED BY <1>1, <1>2, <1>3, <1>5, <1>6, <1>7, <1>8 DEF ConnectIInv

(* dofailed: the socket is closed, and the request waits for its next       *)
(* attempt or is called back.                                               *)
LEMMA DoFailedOK ==
  ASSUME ConnectIInv, NEW x \in Waiting, calling = NULL, UNCHANGED starts,
         NEW w \in WorkState, w.C.sas > 0, ~w.C.cookie_timeo, ~w.C.cookie_immediate,
         Owns(cookies, Waiting \ {x}, w.writer, w.timers, w.immediates, w.open \ {w.C.s}, held),
         dofailed(x, w)
  PROVE  /\ ConnectIInv'
         /\ \/ Waiting' = Waiting /\ calling' = calling
            \/ Waiting' = Waiting \ {x} /\ calling' = x
<1> USE ConnectAssumption
<1> DEFINE D == [w.C EXCEPT !.s = NULL, !.sas = w.C.sas - 1]
           v == [CloseSocket(w) EXCEPT !.C.s = NULL, !.C.sas = @ - 1]
<1>1. v = [w EXCEPT !.open = w.open \ {w.C.s}, !.C = D]
  BY DEF CloseSocket, WorkState, ConnectCookie
<1>2. w.C \in ConnectCookie
  BY DEF WorkState
<1>3. w.C.sas - 1 \in 0 .. MaxAddrs
  BY <1>2 DEF ConnectCookie
<1>4. Plain(D)
  BY <1>2, <1>3 DEF Plain, ConnectCookie
<1> HIDE DEF D
<1>5. v \in WorkState /\ v.C = D /\ v.writer = w.writer /\ v.timers = w.timers
      /\ v.immediates = w.immediates /\ v.open = w.open \ {w.C.s}
  <2> DEFINE o == w.open \ {w.C.s}
  <2>1. D \in ConnectCookie
    BY <1>4 DEF Plain
  <2>2. o \in SUBSET Fds
    BY DEF WorkState
  <2>3. v = [w EXCEPT !.open = o, !.C = D]
    BY <1>1
  <2>4. w \in WorkState
    OBVIOUS
  <2> HIDE DEF v, o
  <2>5. v \in WorkState /\ v.C = D /\ v.writer = w.writer /\ v.timers = w.timers
        /\ v.immediates = w.immediates /\ v.open = o
    BY ONLY <2>1, <2>2, <2>3, <2>4 DEF WorkState
  <2> QED BY ONLY <2>5 DEF o
<1>6. /\ \/ \E u \in tryconnect(x, v) : Wait(x, u)
         \/ \E u \in tryconnect_fails(x, v) : docallback(x, [u EXCEPT !.C.s = NULL])
  BY DEF dofailed
<1> HIDE DEF v
<1>7. x \in Cookies /\ x # calling /\ starts' \in 0 .. MaxStarts
  BY DEF ConnectIInv, Waiting
<1>8. Owns(cookies, Waiting \ {x}, v.writer, v.timers, v.immediates, v.open, held)
  BY <1>5
<1>9. Plain(v.C)
  BY <1>4, <1>5
<1>10. ASSUME NEW u \in tryconnect(x, v), Wait(x, u)
       PROVE  ConnectIInv' /\ Waiting' = Waiting \cup {x} /\ calling' = calling
  BY <1>5, <1>7, <1>8, <1>9, <1>10, WaitOK
<1>11. ASSUME NEW u \in tryconnect_fails(x, v), docallback(x, [u EXCEPT !.C.s = NULL])
       PROVE  ConnectIInv' /\ Waiting' = Waiting \ {x} /\ calling' = x
  <2>1. /\ SameWork(u, v) /\ u.open = v.open
        /\ u.C \in ConnectCookie /\ ~u.C.cookie_immediate
    BY <1>5, <1>7, <1>9, TryConnectFailsFacts
  <2> DEFINE E == [u.C EXCEPT !.s = NULL]
             k == [u EXCEPT !.C.s = NULL]
  <2>2. k = [u EXCEPT !.C = E]
    BY <2>1 DEF SameWork, WorkState
  <2>3. E \in ConnectCookie /\ ~E.cookie_immediate /\ E.s = NULL
    BY <2>1 DEF ConnectCookie
  <2> HIDE DEF E
  <2>4. /\ k.C = E /\ k.writer = v.writer /\ k.timers = v.timers
        /\ k.immediates = v.immediates /\ k.open = v.open
    BY <2>1, <2>2 DEF SameWork, WorkState
  <2>5. docallback(x, k)
    BY <1>11
  <2> HIDE DEF k
  <2>6. held \cup ({k.C.s} \ {NULL}) = held
    BY <2>3, <2>4
  <2>7. Owns(cookies, Waiting \ {x}, k.writer, k.timers, k.immediates, k.open,
             held \cup ({k.C.s} \ {NULL}))
    BY <2>4, <2>6, <1>8
  <2> QED BY <2>3, <2>4, <2>5, <2>7, CallOK
<1> QED BY <1>6, <1>10, <1>11
----------------------------------------------------------------------------
(* The actions.  Each keeps ConnectIInv and is a step of Request, or none.  *)
ConnectStepOK == ConnectIInv' /\ [ConnectPromise!Next]_<<Waiting, calling>>

LEMMA ConnectInitOK == ConnectInit => ConnectIInv /\ ConnectPromise!Init
<1> SUFFICES ASSUME ConnectInit PROVE ConnectIInv /\ ConnectPromise!Init
  OBVIOUS
<1>1. DOMAIN cookies = {} /\ Waiting = {} /\ 0 \in 0 .. MaxStarts
  BY ConnectAssumption DEF ConnectInit, Waiting
<1> QED BY <1>1 DEF ConnectInit, ConnectIInv, AllAddressesTried, Owns, ConnectPromise!Init

(* network_connect_internal puts a new request in. *)
LEMMA ConnectStartOK ==
  ASSUME ConnectIInv, NEW x \in Cookies, NEW n \in 0 .. MaxAddrs, NEW timeo \in BOOLEAN,
         network_connect_internal(x, n, timeo)
  PROVE  ConnectStepOK
<1> USE ConnectAssumption
<1> DEFINE N == NewCookie(n, timeo)
<1>1. N \in ConnectCookie /\ Plain(N)
  BY DEF NewCookie, ConnectCookie, Plain
<1> HIDE DEF N
<1>2. x \notin DOMAIN cookies /\ starts < MaxStarts /\ starts' = starts + 1
  BY DEF network_connect_internal
<1>3. x # calling /\ x \notin Waiting /\ Waiting \ {x} = Waiting
  BY <1>2 DEF ConnectIInv, Waiting
<1>4. starts' \in 0 .. MaxStarts
  BY <1>2 DEF ConnectIInv
<1>5. PICK u \in tryconnect(x, ConnectState(N)) : Wait(x, u)
  BY DEF network_connect_internal, N
<1> DEFINE w == ConnectState(N)
<1>6. /\ w \in WorkState /\ w.C = N /\ w.writer = writer /\ w.timers = timers
      /\ w.immediates = immediates /\ w.open = open
  BY <1>1, ConnectStateFacts
<1> HIDE DEF w
<1>7. Owns(cookies, Waiting \ {x}, w.writer, w.timers, w.immediates, w.open, held)
  BY <1>3, <1>6 DEF ConnectIInv
<1>8. u \in tryconnect(x, w)
  BY <1>5 DEF w
<1>9. ConnectIInv' /\ Waiting' = Waiting \cup {x} /\ calling' = calling
  BY <1>1, <1>3, <1>4, <1>5, <1>6, <1>7, <1>8, WaitOK
<1> QED BY <1>3, <1>9 DEF ConnectStepOK, ConnectPromise!Next, ConnectPromise!Start

(* When it fails, nothing has changed. *)
LEMMA ConnectStartFailsOK ==
  ASSUME ConnectIInv, NEW x \in Cookies, NEW n \in 0 .. MaxAddrs, NEW timeo \in BOOLEAN,
         network_connect_internal_fails(x, n, timeo)
  PROVE  ConnectStepOK
<1> USE ConnectAssumption
<1> DEFINE N == NewCookie(n, timeo)
<1>1. N \in ConnectCookie /\ Plain(N)
  BY DEF NewCookie, ConnectCookie, Plain
<1> HIDE DEF N
<1>2. PICK u \in tryconnect_fails(x, ConnectState(N)) :
        writer' = u.writer /\ timers' = u.timers /\ immediates' = u.immediates /\ open' = u.open
  BY DEF network_connect_internal_fails, N
<1>3. SameWork(u, ConnectState(N)) /\ u.open = ConnectState(N).open
  BY <1>1, ConnectStateFacts, TryConnectFailsFacts
<1>4. /\ UNCHANGED <<cookies, writer, timers, immediates, open, held, calling, starts>>
  BY <1>1, <1>2, <1>3, ConnectStateFacts DEF SameWork, network_connect_internal_fails
<1> QED BY <1>4 DEF ConnectStepOK, ConnectIInv, AllAddressesTried, Owns, Waiting

(* A cookie is freed that owns nothing. *)
LEMMA FreeOK ==
  ASSUME ConnectIInv, NEW x, DOMAIN cookies' = DOMAIN cookies \ {x},
         \A y \in DOMAIN cookies' : cookies'[y] = cookies[y],
         calling' \in DOMAIN cookies' \cup {NULL}, UNCHANGED starts,
         Owns(cookies, Waiting', writer', timers', immediates', open', held')
  PROVE  ConnectIInv'
<1>1. Owns(cookies', Waiting', writer', timers', immediates', open', held')
  <2>1. \A y \in Waiting' : cookies'[y] = cookies[y]
    BY DEF Waiting
  <2> QED BY <2>1, OwnsSame
<1> QED BY <1>1 DEF ConnectIInv, AllAddressesTried

(* A waiting request with a socket is taken out of the current state. *)
LEMMA ReleaseSocket ==
  ASSUME ConnectIInv, NEW x \in Waiting, NEW f \in Fds, cookies[x].s = f
  PROVE  /\ f # NULL
         /\ Owns(cookies, Waiting \ {x}, [writer EXCEPT ![f] = NULL], timers \ {x}, immediates,
                 open \ {f}, held)
         /\ Owns(cookies, Waiting \ {x}, [writer EXCEPT ![f] = NULL], timers \ {x}, immediates,
                 open, held \cup {f})
<1>1. Owns(cookies, Waiting, writer, timers, immediates, open, held) /\ f # NULL
  BY ConnectAssumption DEF ConnectIInv
<1>2. Released(cookies, Waiting, writer, timers, immediates, open, held, x, f)
  BY ONLY <1>1, x \in Waiting, f = cookies[x].s, OwnsRelease
<1> QED BY <1>1, <1>2 DEF Released

LEMMA ConnectCancelOK ==
  ASSUME ConnectIInv, NEW x \in Cookies, network_connect_cancel(x)
  PROVE  ConnectStepOK
<1> USE ConnectAssumption
<1> DEFINE C == cookies[x]
<1>1. /\ x \in Waiting /\ held' = held /\ calling' = calling /\ starts' = starts
      /\ timers' = (IF C.cookie_timeo THEN timers \ {x} ELSE timers)
      /\ immediates' = (IF C.cookie_immediate THEN immediates \ {x} ELSE immediates)
      /\ DOMAIN cookies' = DOMAIN cookies \ {x}
      /\ \A y \in DOMAIN cookies' : cookies'[y] = cookies[y]
  BY DEF network_connect_cancel
<1>2. /\ C.s # NULL => writer' = [writer EXCEPT ![C.s] = NULL] /\ open' = open \ {C.s}
      /\ C.s = NULL => writer' = writer /\ open' = open
  BY DEF network_connect_cancel
<1>3. Owns(cookies, Waiting, writer, timers, immediates, open, held)
  BY DEF ConnectIInv
<1>4. /\ x \in timers <=> C.cookie_timeo
      /\ x \in immediates <=> C.cookie_immediate
      /\ C.cookie_immediate <=> C.s = NULL
  BY <1>1, <1>3 DEF Owns, CookieOK
<1>5. timers' = timers \ {x} /\ immediates' = immediates \ {x}
  BY <1>1, <1>4
<1>6. Waiting' = Waiting \ {x} /\ calling' \in DOMAIN cookies' \cup {NULL}
  BY <1>1 DEF Waiting, ConnectIInv
<1>7. Owns(cookies, Waiting', writer', timers', immediates', open', held')
  <2>1. CASE C.s # NULL
    <3>1. Owns(cookies, Waiting \ {x}, [writer EXCEPT ![C.s] = NULL], timers \ {x},
               immediates, open \ {C.s}, held)
      <4>1. cookies[x].s \in Fds
        BY <1>1, <1>3, <2>1 DEF Owns, CookieOK, ConnectCookie
      <4> QED BY <4>1, <1>1, ReleaseSocket
    <3>2. immediates' = immediates
      BY <2>1, <1>4, <1>5
    <3> QED BY <3>1, <3>2, <2>1, <1>1, <1>2, <1>5, <1>6
  <2>2. CASE C.s = NULL
    <3>1. x \notin timers
          /\ Owns(cookies, Waiting \ {x}, writer, timers, immediates \ {x}, open, held)
      BY <1>1, <1>3, <2>2, OwnsReleaseImmediate
    <3>2. timers' = timers
      BY <3>1, <1>5
    <3> QED BY <3>1, <3>2, <2>2, <1>1, <1>2, <1>5, <1>6
  <2> QED BY <2>1, <2>2
<1>8. ConnectIInv'
  BY <1>1, <1>6, <1>7, FreeOK
<1> QED BY <1>1, <1>6, <1>8 DEF ConnectStepOK, ConnectPromise!Next, ConnectPromise!Cancel

(* callback_connect has a request whose socket it no longer waits for, and  *)
(* whose timer is gone; callback_timeo gets there the same way.             *)
Stopped(x, f, w) ==
  /\ w \in WorkState
  /\ w.C.s = f /\ w.C.sas > 0 /\ ~w.C.cookie_timeo /\ ~w.C.cookie_immediate
  /\ w.writer = [writer EXCEPT ![f] = NULL] /\ w.timers = timers \ {x}
  /\ w.immediates = immediates /\ w.open = open

LEMMA StoppedFacts ==
  ASSUME ConnectIInv, NEW x \in Waiting, NEW f \in Fds, cookies[x].s = f, calling = NULL
  PROVE  /\ Stopped(x, f, TimerStopped(x, [ConnectState(cookies[x]) EXCEPT !.writer[f] = NULL]))
         /\ Stopped(x, f, [ConnectState(cookies[x]) EXCEPT
                             !.timers = @ \ {x}, !.C.cookie_timeo = FALSE,
                             !.writer[cookies[x].s] = NULL])
<1> USE ConnectAssumption
<1> DEFINE C == cookies[x]
           D == [C EXCEPT !.cookie_timeo = FALSE]
           b == ConnectState(C)
           w == [b EXCEPT !.writer[f] = NULL]
           wt == [writer EXCEPT ![f] = NULL]
<1>1. CookieOK(C) /\ C \in ConnectCookie /\ x \in Cookies /\ f # NULL
      /\ (x \in timers <=> C.cookie_timeo)
  BY DEF ConnectIInv, Owns, CookieOK
<1>2. C.sas > 0 /\ ~C.cookie_immediate
  BY <1>1 DEF CookieOK
<1>3. /\ D \in ConnectCookie /\ D.s = f /\ D.sas = C.sas /\ ~D.cookie_immediate
      /\ ~D.cookie_timeo
  BY <1>1, <1>2 DEF ConnectCookie
<1>4. writer \in [Fds -> Cookies \cup {NULL}] /\ wt \in [Fds -> Cookies \cup {NULL}]
  BY DEF ConnectIInv, Owns
<1>5. /\ b \in WorkState /\ b.C = C /\ b.writer = writer /\ b.timers = timers
      /\ b.immediates = immediates /\ b.open = open
  BY <1>1, ConnectStateFacts
<1> HIDE DEF b, wt, D
<1>6. w = [b EXCEPT !.writer = wt]
  BY <1>5 DEF WorkState, wt
<1>7. /\ w \in WorkState /\ w.C = C /\ w.writer = wt /\ w.timers = timers
      /\ w.immediates = immediates /\ w.open = open
  BY <1>4, <1>5, <1>6 DEF WorkState
<1> HIDE DEF w
<1>8. Stopped(x, f, TimerStopped(x, w))
  <2>1. CASE C.cookie_timeo
    <3> DEFINE z == [w EXCEPT !.timers = @ \ {x}, !.C.cookie_timeo = FALSE]
    <3>1. TimerStopped(x, w) = z
      BY <2>1, <1>7 DEF TimerStopped
    <3>2. z = [w EXCEPT !.timers = timers \ {x}, !.C = D]
      BY <1>7 DEF WorkState, D
    <3> HIDE DEF z
    <3>3. /\ z \in WorkState /\ z.C = D /\ z.writer = wt /\ z.timers = timers \ {x}
          /\ z.immediates = immediates /\ z.open = open
      BY <3>2, <1>3, <1>7 DEF WorkState
    <3> QED BY <3>1, <3>3, <1>2, <1>3 DEF Stopped, wt
  <2>2. CASE ~C.cookie_timeo
    <3>1. TimerStopped(x, w) = w /\ timers = timers \ {x}
      BY <2>2, <1>1, <1>7 DEF TimerStopped
    <3> QED BY <3>1, <2>2, <1>2, <1>7 DEF Stopped, wt
  <2> QED BY <2>1, <2>2
<1>9. Stopped(x, f, [b EXCEPT !.timers = @ \ {x}, !.C.cookie_timeo = FALSE, !.writer[C.s] = NULL])
  <2> DEFINE z == [b EXCEPT !.timers = @ \ {x}, !.C.cookie_timeo = FALSE, !.writer[C.s] = NULL]
  <2>1. z = [b EXCEPT !.timers = timers \ {x}, !.C = D, !.writer = wt]
    BY <1>5 DEF WorkState, D, wt
  <2> HIDE DEF z
  <2>2. /\ z \in WorkState /\ z.C = D /\ z.writer = wt /\ z.timers = timers \ {x}
        /\ z.immediates = immediates /\ z.open = open
    BY <2>1, <1>3, <1>4, <1>5 DEF WorkState
  <2>3. Stopped(x, f, z)
    BY <2>2, <1>2, <1>3 DEF Stopped, wt
  <2> QED BY <2>3 DEF z
<1> QED BY <1>8, <1>9 DEF b, w

(* The others' events and sockets, in such a state: f was closed, or is     *)
(* handed over.                                                             *)
LEMMA StoppedOwns ==
  ASSUME ConnectIInv, NEW x \in Waiting, NEW f \in Fds, cookies[x].s = f,
         NEW w, Stopped(x, f, w)
  PROVE  /\ f # NULL
         /\ Owns(cookies, Waiting \ {x}, w.writer, w.timers, w.immediates, w.open \ {f}, held)
         /\ Owns(cookies, Waiting \ {x}, w.writer, w.timers, w.immediates, w.open,
                 held \cup {f})
BY ReleaseSocket DEF Stopped

(* The outcome of an attempt that failed. *)
LEMMA StoppedFailed ==
  ASSUME ConnectIInv, NEW x \in Waiting, NEW f \in Fds, cookies[x].s = f, calling = NULL,
         NEW w, Stopped(x, f, w), dofailed(x, w), UNCHANGED starts
  PROVE  ConnectStepOK
<1>1. Owns(cookies, Waiting \ {x}, w.writer, w.timers, w.immediates, w.open \ {w.C.s}, held)
  BY StoppedOwns DEF Stopped
<1>2. /\ ConnectIInv'
      /\ \/ Waiting' = Waiting /\ calling' = calling
         \/ Waiting' = Waiting \ {x} /\ calling' = x
  BY <1>1, DoFailedOK DEF Stopped
<1>3. x \in Cookies
  BY DEF Waiting, ConnectIInv
<1> QED BY <1>2, <1>3 DEF ConnectStepOK, ConnectPromise!Next, ConnectPromise!Call

LEMMA CallbackConnectOK ==
  ASSUME ConnectIInv, NEW f \in Fds, callback_connect(f)
  PROVE  ConnectStepOK
<1> USE ConnectAssumption
<1> DEFINE x == writer[f]
           w == TimerStopped(x, [ConnectState(cookies[x]) EXCEPT !.writer[f] = NULL])
<1>1. /\ calling = NULL /\ x # NULL /\ starts' = starts
      /\ \/ docallback(x, w)
         \/ dofailed(x, w)
         \/ docallback(x, [CloseSocket(w) EXCEPT !.C.s = NULL])
  BY DEF callback_connect
<1>2. x \in Waiting /\ cookies[x].s = f
  BY <1>1 DEF ConnectIInv, Owns
<1>3. Stopped(x, f, w)
  BY <1>1, <1>2, StoppedFacts
<1>4. x \in Cookies
  BY <1>2 DEF Waiting, ConnectIInv
<1> HIDE DEF w, x
<1>5. /\ f # NULL
      /\ Owns(cookies, Waiting \ {x}, w.writer, w.timers, w.immediates, w.open \ {f}, held)
      /\ Owns(cookies, Waiting \ {x}, w.writer, w.timers, w.immediates, w.open, held \cup {f})
  BY <1>2, <1>3, StoppedOwns
<1>6. /\ w \in WorkState /\ w.C \in ConnectCookie /\ w.C.s = f /\ ~w.C.cookie_immediate
      /\ ~w.C.cookie_timeo
  BY <1>3 DEF Stopped, WorkState
<1>7. CASE docallback(x, w)
  <2>1. held \cup ({w.C.s} \ {NULL}) = held \cup {f}
    BY <1>5, <1>6
  <2>2. ConnectIInv' /\ Waiting' = Waiting \ {x} /\ calling' = x
    BY <2>1, <1>1, <1>2, <1>5, <1>6, <1>7, CallOK
  <2> QED BY <2>2, <1>1, <1>2, <1>4 DEF ConnectStepOK, ConnectPromise!Next, ConnectPromise!Call
<1>8. CASE dofailed(x, w)
  BY <1>1, <1>2, <1>3, <1>8, StoppedFailed
<1>9. CASE docallback(x, [CloseSocket(w) EXCEPT !.C.s = NULL])
  <2> DEFINE D == [w.C EXCEPT !.s = NULL]
             z == [CloseSocket(w) EXCEPT !.C.s = NULL]
  <2>1. z = [w EXCEPT !.open = w.open \ {f}, !.C = D]
    BY <1>6 DEF CloseSocket, WorkState
  <2>2. D \in ConnectCookie /\ ~D.cookie_immediate /\ D.s = NULL
    BY <1>6 DEF ConnectCookie
  <2> HIDE DEF D, z
  <2>3. /\ z.C = D /\ z.writer = w.writer /\ z.timers = w.timers
        /\ z.immediates = w.immediates /\ z.open = w.open \ {f}
    BY <2>1, <1>6 DEF WorkState
  <2>4. held \cup ({z.C.s} \ {NULL}) = held
    BY <2>2, <2>3
  <2>5. docallback(x, z)
    BY <1>9 DEF z
  <2>6. ConnectIInv' /\ Waiting' = Waiting \ {x} /\ calling' = x
    BY <2>2, <2>3, <2>4, <2>5, <1>1, <1>2, <1>5, CallOK
  <2> QED BY <2>6, <1>1, <1>2, <1>4 DEF ConnectStepOK, ConnectPromise!Next, ConnectPromise!Call
<1> QED BY <1>1, <1>7, <1>8, <1>9

LEMMA CallbackTimeoOK ==
  ASSUME ConnectIInv, NEW x \in Cookies, callback_timeo(x)
  PROVE  ConnectStepOK
<1> DEFINE w == [ConnectState(cookies[x]) EXCEPT !.timers = @ \ {x}, !.C.cookie_timeo = FALSE,
                                                 !.writer[cookies[x].s] = NULL]
<1>1. calling = NULL /\ x \in timers /\ starts' = starts /\ dofailed(x, w)
  BY DEF callback_timeo
<1>2. x \in Waiting /\ cookies[x].s # NULL /\ cookies[x].s \in Fds
  BY <1>1 DEF ConnectIInv, Owns, CookieOK, ConnectCookie
<1>3. Stopped(x, cookies[x].s, w)
  BY <1>1, <1>2, StoppedFacts
<1> HIDE DEF w
<1> QED BY <1>1, <1>2, <1>3, StoppedFailed

LEMMA CallbackImmediateOK ==
  ASSUME ConnectIInv, NEW x \in Cookies, callback_immediate(x)
  PROVE  ConnectStepOK
<1> USE ConnectAssumption
<1> DEFINE w == [ConnectState(cookies[x]) EXCEPT !.immediates = @ \ {x}]
<1>1. calling = NULL /\ x \in immediates /\ starts' = starts /\ docallback(x, w)
  BY DEF callback_immediate
<1>2. /\ x \in Waiting /\ cookies[x].s = NULL /\ cookies[x] \in ConnectCookie
      /\ cookies[x].sas = 0
  BY <1>1 DEF ConnectIInv, Owns, CookieOK
<1>3. /\ w.C = cookies[x] /\ w.writer = writer /\ w.timers = timers
      /\ w.immediates = immediates \ {x} /\ w.open = open
  BY DEF ConnectState
<1> HIDE DEF w
<1>4. Owns(cookies, Waiting \ {x}, writer, timers, immediates \ {x}, open, held)
  BY <1>2, OwnsReleaseImmediate DEF ConnectIInv
<1>5. held \cup ({w.C.s} \ {NULL}) = held
  BY <1>2, <1>3
<1>6. ConnectIInv' /\ Waiting' = Waiting \ {x} /\ calling' = x
  BY <1>1, <1>2, <1>3, <1>4, <1>5, CallOK
<1> QED BY <1>1, <1>2, <1>6 DEF ConnectStepOK, ConnectPromise!Next, ConnectPromise!Call

(* A client closes a socket; the upstream callback returns. *)
LEMMA ClientCloseOK ==
  ASSUME ConnectIInv, NEW f \in Fds, ClientClose(f)
  PROVE  ConnectStepOK
<1>1. /\ f \in held /\ held' = held \ {f} /\ open' = open \ {f}
      /\ UNCHANGED <<cookies, writer, timers, immediates, calling, starts>>
  BY DEF ClientClose
<1>2. Waiting' = Waiting
  BY <1>1 DEF Waiting
<1>3. Owns(cookies, Waiting, writer, timers, immediates, open \ {f}, held \ {f})
  BY <1>1 DEF ConnectIInv, Owns
<1> QED BY <1>1, <1>2, <1>3 DEF ConnectStepOK, ConnectIInv, AllAddressesTried

LEMMA DocallbackReturnOK ==
  ASSUME ConnectIInv, docallback_return
  PROVE  ConnectStepOK
<1> USE ConnectAssumption
<1>1. /\ calling # NULL /\ calling' = NULL /\ DOMAIN cookies' = DOMAIN cookies \ {calling}
      /\ \A y \in DOMAIN cookies' : cookies'[y] = cookies[y]
      /\ UNCHANGED <<writer, timers, immediates, open, held, starts>>
  BY DEF docallback_return
<1>2. Waiting' = Waiting
  BY <1>1 DEF Waiting, ConnectIInv
<1>3. Owns(cookies, Waiting', writer', timers', immediates', open', held')
  BY <1>1, <1>2 DEF ConnectIInv
<1>4. ConnectIInv'
  BY <1>1, <1>3, FreeOK
<1> QED BY <1>1, <1>2, <1>4 DEF ConnectStepOK, ConnectPromise!Next, ConnectPromise!Return

LEMMA ConnectStep ==
  ConnectIInv /\ [ConnectNext]_connectvars => ConnectStepOK
<1> SUFFICES ASSUME ConnectIInv, [ConnectNext]_connectvars PROVE ConnectStepOK
  OBVIOUS
<1>1. CASE UNCHANGED connectvars
  BY <1>1 DEF connectvars, ConnectStepOK, ConnectIInv, AllAddressesTried, Owns, Waiting
<1>2. CASE ConnectNext
  BY <1>2, ConnectStartOK, ConnectStartFailsOK, ConnectCancelOK, CallbackTimeoOK,
     CallbackImmediateOK, CallbackConnectOK, ClientCloseOK, DocallbackReturnOK DEF ConnectNext
<1> QED BY <1>1, <1>2

(* For any number of requests, addresses and sockets, in whatever order     *)
(* attempts end, time out or are cancelled: the registered events are       *)
(* exactly those the waiting cookies know of, none of them runs on a cookie *)
(* that was freed, and the assertions of network_connect_cancel hold.       *)
THEOREM ConnectEvents == ConnectSpec => []EventsMatchCookies
<1> USE ConnectAssumption
<1>1. ASSUME ConnectIInv PROVE EventsMatchCookies
  <2>1. /\ CancelAssertions
        /\ timers = {x \in Waiting : cookies[x].cookie_timeo}
        /\ immediates = {x \in Waiting : cookies[x].cookie_immediate}
        /\ \A f \in Fds : writer[f] # NULL => writer[f] \in Waiting /\ cookies[writer[f]].s = f
        /\ \A x \in Waiting : cookies[x].s # NULL => writer[cookies[x].s] = x
    BY <1>1 DEF ConnectIInv, Owns, CookieOK, CancelAssertions
  <2>2. ConnectTypeOK
    BY <1>1 DEF ConnectIInv, Owns, ConnectTypeOK
  <2> QED BY <2>1, <2>2 DEF EventsMatchCookies
<1>2. ConnectIInv /\ [ConnectNext]_connectvars => ConnectIInv'
  BY ConnectStep DEF ConnectStepOK
<1> QED BY <1>1, <1>2, ConnectInitOK, PTL DEF ConnectSpec

(* Every open socket is a client's or belongs to exactly one waiting        *)
(* request: no path through tryconnect, dofailed, a timeout or a cancel     *)
(* leaks a socket or closes one that its owner still uses.                  *)
THEOREM ConnectSockets == ConnectSpec => []SocketsAccounted
<1> USE ConnectAssumption
<1>1. ASSUME ConnectIInv PROVE SocketsAccounted
  <2>1. Owns(cookies, Waiting, writer, timers, immediates, open, held)
    BY <1>1 DEF ConnectIInv
  <2>2. \A x \in Waiting : cookies[x].s \in Fds \cup {NULL}
    BY <2>1 DEF Owns, CookieOK, ConnectCookie
  <2>3. \A x, y \in Waiting : cookies[x].s = cookies[y].s => x = y \/ cookies[x].s = NULL
    BY <2>1 DEF Owns
  <2>4. \A x \in Waiting : cookies[x].s \notin held
    BY <2>1, <2>2 DEF Owns
  <2>5. \A f : f \in open <=> f \in held \/ (f # NULL /\ \E x \in Waiting : f = cookies[x].s)
    BY <2>1, <2>2 DEF Owns
  <2>6. open = held \cup ({cookies[x].s : x \in Waiting} \ {NULL})
    BY <2>1, <2>2, <2>5 DEF Owns
  <2> QED BY <2>3, <2>4, <2>6 DEF SocketsAccounted
<1>2. ConnectIInv /\ [ConnectNext]_connectvars => ConnectIInv'
  BY ConnectStep DEF ConnectStepOK
<1> QED BY <1>1, <1>2, ConnectInitOK, PTL DEF ConnectSpec

(* tryconnect gives a request up without a fatal error only when its list   *)
(* of addresses is at its end.                                              *)
THEOREM ConnectAddresses == ConnectSpec => []AllAddressesTried
<1>1. ConnectIInv => AllAddressesTried
  BY DEF ConnectIInv
<1>2. ConnectIInv /\ [ConnectNext]_connectvars => ConnectIInv'
  BY ConnectStep DEF ConnectStepOK
<1> QED BY <1>1, <1>2, ConnectInitOK, PTL DEF ConnectSpec

(* network_connect keeps the promise of network.h: one call of the upstream *)
(* callback for each request, or network_connect_cancel and none.           *)
THEOREM ConnectRefines == ConnectSpec => ConnectOneCallback
<1>1. ConnectIInv /\ [ConnectNext]_connectvars =>
        ConnectIInv' /\ [ConnectPromise!Next]_<<Waiting, calling>>
  BY ConnectStep DEF ConnectStepOK
<1> QED BY <1>1, ConnectInitOK, PTL DEF ConnectSpec, ConnectOneCallback, ConnectPromise!Spec
----------------------------------------------------------------------------

(* The larger and the smaller of two numbers. *)
LEMMA Max2 ==
  ASSUME NEW a \in Int, NEW b \in Int
  PROVE  Max({a, b}) = IF a >= b THEN a ELSE b
<1> DEFINE m == IF a >= b THEN a ELSE b
<1>1. m \in {a, b} /\ \A y \in {a, b} : m >= y
  OBVIOUS
<1>2. \A x \in {a, b} : (\A y \in {a, b} : x >= y) => x = m
  OBVIOUS
<1> QED BY <1>1, <1>2 DEF Max

LEMMA Min2 ==
  ASSUME NEW a \in Int, NEW b \in Int
  PROVE  Min({a, b}) = IF a <= b THEN a ELSE b
<1> DEFINE m == IF a <= b THEN a ELSE b
<1>1. m \in {a, b} /\ \A y \in {a, b} : m =< y
  OBVIOUS
<1>2. \A x \in {a, b} : (\A y \in {a, b} : x =< y) => x = m
  OBVIOUS
<1> QED BY <1>1, <1>2 DEF Min

(* The size of a buffer. *)
LEMMA IntervalSize ==
  ASSUME NEW n \in Nat
  PROVE  Cardinality(1 .. n) = n
BY FS_Interval
----------------------------------------------------------------------------
(* The buffered reader.  The bytes from lo to hi of the memory m, the first *)
(* of which follows byte c of the stream: they increase, none is before its *)
(* place or after top, and if nothing was lost each is the one it should be.*)
Stream(m, lo, hi, c, l, top) ==
  /\ \A i \in lo + 1 .. hi : c + (i - lo) <= m[i] /\ m[i] <= top
  /\ \A i, j \in lo + 1 .. hi : i < j => m[i] < m[j]
  /\ l = 0 => \A i \in lo + 1 .. hi : m[i] = c + (i - lo)

(* What the read under way has put behind the data. *)
Pending == IF rd = NULL THEN 0 ELSE rd.bufpos

PendingOK ==
  /\ rd.at = R.datalen
  /\ rd.buflen = buflen - R.datalen
  /\ 0 < rd.minlen /\ rd.minlen <= rd.buflen
  /\ rd.bufpos < rd.minlen
  /\ want = consumed + Buffered + rd.minlen
  /\ \A j \in 1 .. rd.bufpos : mem[R.datalen + j] = rcvd - rd.bufpos + j

ReaderOK ==
  /\ R.bufpos <= R.datalen /\ R.datalen <= buflen
  /\ rcvd = consumed + Buffered + lost + Pending
  /\ Stream(mem, R.bufpos, R.datalen, consumed, lost, rcvd - Pending)
  /\ due <= consumed + Buffered
  /\ R.immediate => want <= consumed + Buffered
  /\ rd # NULL => PendingOK

MemoryOK ==
  /\ buflen \in Nat /\ DOMAIN mem = 1 .. buflen
  /\ \A i \in DOMAIN mem : mem[i] \in 0 .. MaxBytes

ReadTypes ==
  /\ sent \in 0 .. MaxBytes /\ rcvd \in 0 .. sent /\ closed \in BOOLEAN
  /\ rd \in ReadCookie \cup {NULL}
  /\ R \in Reader \cup {NULL}
  /\ rcall \in {NULL, -1, 0, 1}
  /\ want \in Nat
  /\ consumed \in 0 .. MaxBytes /\ due \in 0 .. MaxBytes /\ lost \in 0 .. MaxBytes

(* The inductive invariant of the reader. *)
ReadIInv ==
  /\ ReadTypes
  /\ MemoryOK
  /\ R # NULL => ReaderOK
  /\ R = NULL => rd = NULL

LEMMA ReadInitOK == ReadInit => ReadIInv
<1> SUFFICES ASSUME ReadInit PROVE ReadIInv
  OBVIOUS
<1> USE ReadAssumption, NetbufReadAssumption DEF ReadInit
<1>1. DOMAIN mem = 1 .. RBUFLEN
  OBVIOUS
<1>2. buflen = RBUFLEN
  BY <1>1, IntervalSize DEF buflen
<1>3. MemoryOK
  BY <1>1, <1>2 DEF MemoryOK
<1>4. R \in Reader
  BY DEF Reader
<1>5. ReaderOK
  BY <1>2, ReadNullAssumption DEF ReaderOK, Stream, Buffered, Pending
<1>6. ReadTypes
  <2>1. sent \in 0 .. MaxBytes /\ rcvd \in 0 .. sent /\ want \in Nat
    OBVIOUS
  <2>2. consumed \in 0 .. MaxBytes /\ due \in 0 .. MaxBytes /\ lost \in 0 .. MaxBytes
    OBVIOUS
  <2>3. closed \in BOOLEAN /\ rd \in ReadCookie \cup {NULL} /\ R \in Reader \cup {NULL}
        /\ rcall \in {NULL, -1, 0, 1}
    BY <1>4, Zenon
  <2> QED BY <2>1, <2>2, <2>3 DEF ReadTypes
<1> QED BY <1>3, <1>5, <1>6 DEF ReadIInv
----------------------------------------------------------------------------
(* The memory that MakeRoom returns holds the data at its new position and  *)
(* has room for what is asked for.                                          *)
LEMMA AtStartOK ==
  ASSUME ReadTypes, MemoryOK, R # NULL, ReaderOK, NEW n \in Nat, Buffered <= n
  PROVE  /\ DOMAIN AtStart(n) = 1 .. n
         /\ \A i \in 1 .. n : AtStart(n)[i] \in 0 .. MaxBytes
         /\ \A i \in 1 .. Buffered : AtStart(n)[i] = mem[R.bufpos + i]
<1> USE ReadAssumption
<1>0. R \in Reader /\ R.bufpos <= R.datalen /\ R.datalen <= buflen /\ buflen \in Nat
  BY DEF ReadTypes, MemoryOK, ReaderOK
<1>1. R.bufpos \in Nat /\ R.datalen \in Nat /\ Buffered \in Nat /\ R.bufpos + Buffered <= buflen
  BY ONLY <1>0 DEF Reader, Buffered
<1>2. \A i \in 1 .. Buffered : R.bufpos + i \in DOMAIN mem
  BY <1>0, <1>1 DEF MemoryOK
<1>3. \A i \in DOMAIN mem : mem[i] \in 0 .. MaxBytes
  BY DEF MemoryOK
<1>4. DOMAIN AtStart(n) = 1 .. n
  BY DEF AtStart
<1>5. \A i \in 1 .. Buffered : i \in 1 .. n /\ AtStart(n)[i] = mem[R.bufpos + i]
  BY ONLY <1>1, n \in Nat, Buffered <= n DEF AtStart
<1>6. \A i \in 1 .. n : AtStart(n)[i] \in 0 .. MaxBytes
  <2> SUFFICES ASSUME NEW i \in 1 .. n PROVE AtStart(n)[i] \in 0 .. MaxBytes
    OBVIOUS
  <2>1. CASE i <= Buffered
    BY <2>1, <1>1, <1>2, <1>3, <1>5
  <2>2. CASE ~(i <= Buffered)
    <3>1. AtStart(n)[i] = IF n = buflen THEN mem[i] ELSE 0
      BY <2>2 DEF AtStart
    <3>2. n = buflen => mem[i] \in 0 .. MaxBytes
      BY <1>3 DEF MemoryOK
    <3> QED BY <3>1, <3>2
  <2> QED BY <2>1, <2>2
<1> QED BY <1>4, <1>5, <1>6

LEMMA MakeRoomOK ==
  ASSUME ReadTypes, MemoryOK, R # NULL, ReaderOK, NEW len \in Nat, Buffered < len,
         NEW room, room = MakeRoom(len)
  PROVE  \E n \in Nat :
           /\ DOMAIN room.mem = 1 .. n
           /\ \A i \in 1 .. n : room.mem[i] \in 0 .. MaxBytes
           /\ room.bufpos \in Nat /\ room.bufpos + len <= n
           /\ \A i \in 1 .. Buffered : room.mem[room.bufpos + i] = mem[R.bufpos + i]
<1>1. R.bufpos \in Nat /\ Buffered \in Nat /\ buflen \in Nat
  BY DEF ReadTypes, MemoryOK, Reader, ReaderOK, Buffered
<1>2. CASE buflen < len
  <2> DEFINE n == ResizedTo(len)
  <2>1. n \in Nat /\ len <= n
    BY <1>1, Max2 DEF ResizedTo
  <2>2. room = [mem |-> AtStart(n), bufpos |-> 0]
    BY <1>2 DEF MakeRoom
  <2> HIDE DEF n
  <2>3. /\ DOMAIN AtStart(n) = 1 .. n
        /\ \A i \in 1 .. n : AtStart(n)[i] \in 0 .. MaxBytes
        /\ \A i \in 1 .. Buffered : AtStart(n)[i] = mem[R.bufpos + i]
    BY <1>1, <2>1, AtStartOK
  <2>4. room.mem = AtStart(n) /\ room.bufpos = 0
    BY <2>2
  <2>5. room.bufpos \in Nat /\ room.bufpos + len <= n
    BY <2>1, <2>4
  <2>6. \A i \in 1 .. Buffered : room.mem[room.bufpos + i] = mem[R.bufpos + i]
    BY <2>3, <2>4, <1>1
  <2> QED BY <2>1, <2>3, <2>4, <2>5, <2>6
<1>3. CASE ~(buflen < len) /\ buflen - R.bufpos < len
  <2>1. room.mem = AtStart(buflen) /\ room.bufpos = 0
    BY <1>3 DEF MakeRoom
  <2>2. /\ DOMAIN AtStart(buflen) = 1 .. buflen
        /\ \A i \in 1 .. buflen : AtStart(buflen)[i] \in 0 .. MaxBytes
        /\ \A i \in 1 .. Buffered : AtStart(buflen)[i] = mem[R.bufpos + i]
    BY <1>1, <1>3, AtStartOK
  <2>3. room.bufpos \in Nat /\ room.bufpos + len <= buflen
    BY <2>1, <1>1, <1>3
  <2>4. \A i \in 1 .. Buffered : room.mem[room.bufpos + i] = mem[R.bufpos + i]
    BY <2>1, <2>2, <1>1
  <2> QED BY <2>1, <2>2, <2>3, <2>4, <1>1
<1>4. CASE ~(buflen < len) /\ ~(buflen - R.bufpos < len)
  <2>1. room.mem = mem /\ room.bufpos = R.bufpos
    BY <1>4 DEF MakeRoom
  <2>2. R.bufpos + len <= buflen
    BY <1>1, <1>4
  <2>3. /\ DOMAIN room.mem = 1 .. buflen
        /\ \A i \in 1 .. buflen : room.mem[i] \in 0 .. MaxBytes
        /\ \A i \in 1 .. Buffered : room.mem[room.bufpos + i] = mem[R.bufpos + i]
    BY <2>1 DEF MemoryOK
  <2> QED BY <2>1, <2>2, <2>3, <1>1
<1> QED BY <1>2, <1>3, <1>4
----------------------------------------------------------------------------
(* The bytes from lo to hi of m are those from lo2 to hi2 of m2. *)
Copied(m, lo, hi, m2, lo2, hi2) ==
  /\ hi2 - lo2 = hi - lo
  /\ \A i \in 1 .. hi - lo : m2[lo2 + i] = m[lo + i]

(* Data that is moved is still the same stream. *)
LEMMA StreamMoved ==
  ASSUME NEW m, NEW lo \in Nat, NEW hi \in Nat, NEW c \in Nat, NEW l \in Nat, NEW top \in Int,
         lo <= hi, Stream(m, lo, hi, c, l, top),
         NEW m2, NEW lo2 \in Nat, NEW hi2 \in Nat, Copied(m, lo, hi, m2, lo2, hi2)
  PROVE  Stream(m2, lo2, hi2, c, l, top)
<1> USE DEF Copied
<1>1. \A i \in lo2 + 1 .. hi2 : i - lo2 + lo \in lo + 1 .. hi /\ m2[i] = m[i - lo2 + lo]
  <2> SUFFICES ASSUME NEW i \in lo2 + 1 .. hi2
               PROVE  i - lo2 + lo \in lo + 1 .. hi /\ m2[i] = m[i - lo2 + lo]
    OBVIOUS
  <2>1. i - lo2 \in 1 .. hi - lo
    OBVIOUS
  <2>2. m2[lo2 + (i - lo2)] = m[lo + (i - lo2)]
    BY <2>1
  <2>3. lo2 + (i - lo2) = i /\ lo + (i - lo2) = i - lo2 + lo
    OBVIOUS
  <2> QED BY <2>1, <2>2, <2>3
<1>2. \A i \in lo2 + 1 .. hi2 : c + (i - lo2) <= m2[i] /\ m2[i] <= top
  <2> SUFFICES ASSUME NEW i \in lo2 + 1 .. hi2 PROVE c + (i - lo2) <= m2[i] /\ m2[i] <= top
    OBVIOUS
  <2>1. c + ((i - lo2 + lo) - lo) <= m[i - lo2 + lo] /\ m[i - lo2 + lo] <= top
    BY <1>1 DEF Stream
  <2> QED BY <2>1, <1>1
<1>3. \A i, j \in lo2 + 1 .. hi2 : i < j => m2[i] < m2[j]
  <2> SUFFICES ASSUME NEW i \in lo2 + 1 .. hi2, NEW j \in lo2 + 1 .. hi2, i < j
               PROVE  m2[i] < m2[j]
    OBVIOUS
  <2>1. i - lo2 + lo < j - lo2 + lo
    OBVIOUS
  <2>2. m[i - lo2 + lo] < m[j - lo2 + lo]
    BY <2>1, <1>1 DEF Stream
  <2> QED BY <2>2, <1>1
<1>4. ASSUME l = 0, NEW i \in lo2 + 1 .. hi2 PROVE m2[i] = c + (i - lo2)
  <2>1. m[i - lo2 + lo] = c + ((i - lo2 + lo) - lo)
    BY <1>1, <1>4 DEF Stream
  <2> QED BY <2>1, <1>1
<1> QED BY <1>2, <1>3, <1>4 DEF Stream

(* Data that is consumed leaves the rest of the stream. *)
LEMMA StreamConsumed ==
  ASSUME NEW m, NEW lo \in Nat, NEW hi \in Nat, NEW c \in Nat, NEW l \in Nat, NEW top \in Int,
         Stream(m, lo, hi, c, l, top), NEW k \in Nat, lo + k <= hi
  PROVE  Stream(m, lo + k, hi, c + k, l, top)
<1>1. \A i \in lo + k + 1 .. hi : i \in lo + 1 .. hi /\ c + k + (i - (lo + k)) = c + (i - lo)
  OBVIOUS
<1> QED BY <1>1 DEF Stream

(* Data that was read behind it continues the stream. *)
LEMMA StreamGrows ==
  ASSUME NEW m, NEW lo \in Nat, NEW hi \in Nat, NEW c \in Nat, NEW l \in Nat, NEW top \in Nat,
         lo <= hi, Stream(m, lo, hi, c, l, top), top = c + (hi - lo) + l,
         NEW m2, NEW p \in Nat, \A i \in lo + 1 .. hi : m2[i] = m[i],
         \A j \in 1 .. p : m2[hi + j] = top + j,
         \A i \in lo + 1 .. hi : m[i] \in Nat
  PROVE  Stream(m2, lo, hi + p, c, l, top + p)
<1>1. \A i \in hi + 1 .. hi + p : m2[i] = top + (i - hi)
  <2> SUFFICES ASSUME NEW i \in hi + 1 .. hi + p PROVE m2[i] = top + (i - hi)
    OBVIOUS
  <2>1. i - hi \in 1 .. p /\ hi + (i - hi) = i
    OBVIOUS
  <2>2. m2[hi + (i - hi)] = top + (i - hi)
    BY <2>1
  <2> QED BY <2>1, <2>2
<1>2. \A i \in lo + 1 .. hi + p : i \in lo + 1 .. hi \/ i \in hi + 1 .. hi + p
  OBVIOUS
<1>3. \A i \in lo + 1 .. hi : c + (i - lo) <= m2[i] /\ m2[i] <= top /\ m2[i] \in Nat
  BY DEF Stream
<1>4. \A i \in lo + 1 .. hi + p : c + (i - lo) <= m2[i] /\ m2[i] <= top + p
  BY <1>1, <1>2, <1>3
<1>5. \A i, j \in lo + 1 .. hi + p : i < j => m2[i] < m2[j]
  <2> SUFFICES ASSUME NEW i \in lo + 1 .. hi + p, NEW j \in lo + 1 .. hi + p, i < j
               PROVE  m2[i] < m2[j]
    OBVIOUS
  <2>1. CASE j \in lo + 1 .. hi
    <3>1. i \in lo + 1 .. hi
      BY <2>1
    <3> QED BY <2>1, <3>1 DEF Stream
  <2>2. CASE i \in lo + 1 .. hi /\ j \in hi + 1 .. hi + p
    BY <2>2, <1>1, <1>3
  <2>3. CASE i \in hi + 1 .. hi + p /\ j \in hi + 1 .. hi + p
    BY <2>3, <1>1
  <2> QED BY <2>1, <2>2, <2>3, <1>2
<1>6. ASSUME l = 0, NEW i \in lo + 1 .. hi + p PROVE m2[i] = c + (i - lo)
  <2>1. CASE i \in lo + 1 .. hi
    BY <2>1, <1>6 DEF Stream
  <2>2. CASE i \in hi + 1 .. hi + p
    BY <2>2, <1>1, <1>6
  <2> QED BY <2>1, <2>2, <1>2
<1> QED BY <1>4, <1>5, <1>6 DEF Stream

(* The stream as it was, after bytes were lost behind it. *)
LEMMA StreamLoses ==
  ASSUME NEW m, NEW lo \in Nat, NEW hi \in Nat, NEW c \in Nat, NEW l \in Nat, NEW top \in Nat,
         Stream(m, lo, hi, c, l, top), \A i \in lo + 1 .. hi : m[i] \in Nat,
         NEW m2, \A i \in lo + 1 .. hi : m2[i] = m[i],
         NEW l2 \in Nat, l <= l2, NEW top2 \in Nat, top <= top2
  PROVE  Stream(m2, lo, hi, c, l2, top2)
<1>1. \A i \in lo + 1 .. hi : c + (i - lo) <= m2[i] /\ m2[i] <= top2
  BY DEF Stream
<1>2. \A i, j \in lo + 1 .. hi : i < j => m2[i] < m2[j]
  BY DEF Stream
<1>3. l2 = 0 => \A i \in lo + 1 .. hi : m2[i] = c + (i - lo)
  BY DEF Stream
<1> QED BY <1>1, <1>2, <1>3 DEF Stream
----------------------------------------------------------------------------
(* The numbers of a reader. *)
LEMMA ReaderFacts ==
  ASSUME ReadIInv, R # NULL
  PROVE  /\ R \in Reader /\ R.bufpos \in Nat /\ R.datalen \in Nat /\ R.immediate \in BOOLEAN
         /\ ReaderOK /\ MemoryOK /\ ReadTypes
         /\ buflen \in Nat /\ Buffered \in Nat /\ Pending \in Nat /\ rcvd \in Nat
         /\ consumed \in Nat /\ lost \in Nat /\ due \in Nat /\ want \in Nat
         /\ R.bufpos <= R.datalen /\ R.datalen <= buflen
         /\ \A i \in R.bufpos + 1 .. R.datalen : mem[i] \in Nat
<1> USE ReadAssumption
<1>1. ReaderOK /\ MemoryOK /\ ReadTypes /\ R \in Reader
  BY DEF ReadIInv, ReadTypes
<1>2. R.bufpos \in Nat /\ R.datalen \in Nat /\ R.immediate \in BOOLEAN
  BY <1>1 DEF Reader
<1>3. R.bufpos <= R.datalen /\ R.datalen <= buflen /\ buflen \in Nat
  BY <1>1 DEF ReaderOK, MemoryOK
<1>4. Pending \in Nat
  BY <1>1 DEF ReadTypes, ReadCookie, Pending
<1>5. \A i \in R.bufpos + 1 .. R.datalen : mem[i] \in Nat
  <2>1. \A i \in R.bufpos + 1 .. R.datalen : i \in DOMAIN mem
    BY <1>1, <1>2, <1>3 DEF MemoryOK
  <2> QED BY <2>1, <1>1 DEF MemoryOK
<1>6. rcvd \in Nat /\ consumed \in Nat /\ lost \in Nat /\ due \in Nat /\ want \in Nat
  BY <1>1 DEF ReadTypes
<1> QED BY <1>1, <1>2, <1>3, <1>4, <1>5, <1>6 DEF Buffered

(* The reader and the history change, the socket does not. *)
LEMMA ReadConsumeOK ==
  ASSUME ReadIInv, NEW len \in 1 .. MaxBytes, netbuf_read_consume(len)
  PROVE  ReadIInv'
<1> USE ReadAssumption
<1>1. R # NULL /\ len <= Buffered /\ R' = [R EXCEPT !.bufpos = R.bufpos + len]
      /\ consumed' = consumed + len /\ UNCHANGED <<sent, closed, rcvd, mem, rd, rcall, want, due, lost>>
  BY DEF netbuf_read_consume, sockvars
<1>2. /\ R' \in Reader /\ R'.bufpos = R.bufpos + len /\ R'.datalen = R.datalen
      /\ R'.immediate = R.immediate
  BY <1>1, ReaderFacts DEF Reader
<1>3. Buffered' = Buffered - len /\ Pending' = Pending /\ buflen' = buflen
  BY <1>1, <1>2, ReaderFacts DEF Buffered, Pending, buflen
<1>4. Stream(mem, R.bufpos + len, R.datalen, consumed + len, lost, rcvd - Pending)
  <2>1. rcvd - Pending \in Int /\ len \in Nat /\ R.bufpos + len <= R.datalen
    BY <1>1, ReaderFacts DEF Buffered
  <2>2. Stream(mem, R.bufpos, R.datalen, consumed, lost, rcvd - Pending)
    BY <1>1, ReaderFacts DEF ReaderOK
  <2> QED BY <2>1, <2>2, <1>1, ReaderFacts, StreamConsumed
<1>5. consumed' + Buffered' = consumed + Buffered
  BY <1>1, <1>3, ReaderFacts
<1>6. ReaderOK'
  <2>1. R'.bufpos <= R'.datalen /\ R'.datalen <= buflen'
    BY <1>1, <1>2, <1>3, ReaderFacts DEF Buffered
  <2>2. rcvd' = consumed' + Buffered' + lost' + Pending'
    BY <1>1, <1>3, <1>5, ReaderFacts DEF ReaderOK
  <2>3. Stream(mem', R'.bufpos, R'.datalen, consumed', lost', rcvd' - Pending')
    BY <1>1, <1>2, <1>3, <1>4
  <2>4. due' <= consumed' + Buffered' /\ (R'.immediate => want' <= consumed' + Buffered')
    BY <1>1, <1>2, <1>5, ReaderFacts DEF ReaderOK
  <2>5. rd' # NULL => PendingOK'
    BY <1>1, <1>2, <1>3, <1>5, ReaderFacts DEF ReaderOK, PendingOK
  <2> QED BY <2>1, <2>2, <2>3, <2>4, <2>5 DEF ReaderOK
<1>7. consumed' \in 0 .. MaxBytes
  BY <1>1, ReaderFacts DEF ReaderOK, ReadTypes
<1>8. ReadTypes'
  BY <1>1, <1>2, <1>7, ReaderFacts DEF ReadTypes
<1>9. MemoryOK'
  BY <1>1, <1>3, ReaderFacts DEF MemoryOK
<1> QED BY <1>2, <1>6, <1>8, <1>9, ReaderNullAssumption DEF ReadIInv

LEMMA ReadCancelOK ==
  ASSUME ReadIInv, netbuf_read_wait_cancel
  PROVE  ReadIInv'
<1> USE ReadAssumption
<1>1. R # NULL /\ rd' = NULL /\ R' = [R EXCEPT !.immediate = FALSE] /\ lost' = lost + Pending
      /\ UNCHANGED <<sent, closed, rcvd, mem, rcall, want, consumed, due>>
  BY DEF netbuf_read_wait_cancel, network_read_cancel, Pending
<1>2. /\ R' \in Reader /\ R'.bufpos = R.bufpos /\ R'.datalen = R.datalen
      /\ R'.immediate = FALSE
  BY <1>1, ReaderFacts DEF Reader
<1>3. Buffered' = Buffered /\ Pending' = 0 /\ buflen' = buflen
  BY <1>1, <1>2, ReaderFacts DEF Buffered, Pending, buflen
<1>4. rcvd = consumed + Buffered + lost + Pending
  BY <1>1, ReaderFacts DEF ReaderOK
<1>5. Stream(mem, R.bufpos, R.datalen, consumed, lost', rcvd)
  <2>1. /\ lost' \in Nat /\ lost <= lost' /\ rcvd - Pending \in Nat /\ rcvd - Pending <= rcvd
    BY <1>1, <1>4, ReaderFacts
  <2>2. Stream(mem, R.bufpos, R.datalen, consumed, lost, rcvd - Pending)
    BY <1>1, ReaderFacts DEF ReaderOK
  <2> QED BY <2>1, <2>2, <1>1, ReaderFacts, StreamLoses
<1>6. ReaderOK'
  <2>1. R'.bufpos <= R'.datalen /\ R'.datalen <= buflen'
    BY <1>1, <1>2, <1>3, ReaderFacts
  <2>2. rcvd' = consumed' + Buffered' + lost' + Pending'
    BY <1>1, <1>3, <1>4, ReaderFacts
  <2>3. Stream(mem', R'.bufpos, R'.datalen, consumed', lost', rcvd' - Pending')
    BY <1>1, <1>2, <1>3, <1>5, ReaderFacts
  <2>4. due' <= consumed' + Buffered' /\ ~R'.immediate
    BY <1>1, <1>2, <1>3, ReaderFacts DEF ReaderOK
  <2> QED BY <1>1, <2>1, <2>2, <2>3, <2>4 DEF ReaderOK
<1>7. lost' \in 0 .. MaxBytes
  BY <1>1, <1>4, ReaderFacts DEF ReadTypes
<1>8. ReadTypes'
  BY <1>1, <1>2, <1>7, ReaderFacts DEF ReadTypes
<1>9. MemoryOK'
  BY <1>1, <1>3, ReaderFacts DEF MemoryOK
<1> QED BY <1>2, <1>6, <1>8, <1>9, ReaderNullAssumption DEF ReadIInv

LEMMA ReadFreeOK ==
  ASSUME ReadIInv, netbuf_read_free
  PROVE  ReadIInv'
<1>1. R' = NULL /\ rd = NULL /\ UNCHANGED <<sent, closed, rcvd, mem, rd, rcall, want, consumed, due, lost>>
  BY DEF netbuf_read_free, sockvars, Busy
<1>2. ReadTypes'
  BY <1>1 DEF ReadIInv, ReadTypes
<1>3. MemoryOK'
  BY <1>1 DEF ReadIInv, MemoryOK, buflen
<1> QED BY <1>1, <1>2, <1>3 DEF ReadIInv

LEMMA CallbackSuccessOK ==
  ASSUME ReadIInv, callback_success
  PROVE  ReadIInv'
<1> USE ReadAssumption
<1>1. R # NULL /\ R.immediate /\ R' = [R EXCEPT !.immediate = FALSE] /\ rcall' = 0 /\ due' = want
      /\ UNCHANGED <<sent, closed, rcvd, mem, rd, want, consumed, lost>>
  BY DEF callback_success, sockvars
<1>2. /\ R' \in Reader /\ R'.bufpos = R.bufpos /\ R'.datalen = R.datalen
      /\ R'.immediate = FALSE
  BY <1>1, ReaderFacts DEF Reader
<1>3. Buffered' = Buffered /\ Pending' = Pending /\ buflen' = buflen
  BY <1>1, <1>2, ReaderFacts DEF Buffered, Pending, buflen
<1>4. want <= consumed + Buffered
  BY <1>1, ReaderFacts DEF ReaderOK
<1>5. ReaderOK'
  <2>1. R'.bufpos <= R'.datalen /\ R'.datalen <= buflen'
    BY <1>1, <1>2, <1>3, ReaderFacts
  <2>2. rcvd' = consumed' + Buffered' + lost' + Pending'
    BY <1>1, <1>3, ReaderFacts DEF ReaderOK
  <2>3. Stream(mem', R'.bufpos, R'.datalen, consumed', lost', rcvd' - Pending')
    BY <1>1, <1>2, <1>3, ReaderFacts DEF ReaderOK
  <2>4. due' <= consumed' + Buffered' /\ ~R'.immediate
    BY <1>1, <1>2, <1>3, <1>4
  <2>5. rd' # NULL => PendingOK'
    BY <1>1, <1>2, <1>3, ReaderFacts DEF ReaderOK, PendingOK
  <2> QED BY <2>1, <2>2, <2>3, <2>4, <2>5 DEF ReaderOK
<1>6. due' \in 0 .. MaxBytes
  BY <1>1, <1>4, ReaderFacts DEF ReadTypes, ReaderOK
<1>7. ReadTypes'
  BY <1>1, <1>2, <1>6, ReaderFacts DEF ReadTypes
<1>8. MemoryOK'
  BY <1>1, <1>3, ReaderFacts DEF MemoryOK
<1> QED BY <1>2, <1>5, <1>7, <1>8, ReaderNullAssumption DEF ReadIInv

(* netbuf_read_wait: where a read is started it has room behind the data    *)
(* for what it must get.                                                    *)
LEMMA ReadWaitOK ==
  ASSUME ReadIInv, NEW len \in WaitLens, netbuf_read_wait(len)
  PROVE  ReadIInv'
<1> USE ReadAssumption
<1>1. /\ R # NULL /\ rd = NULL /\ ~R.immediate /\ want' = consumed + len
      /\ UNCHANGED <<sent, closed, rcvd, rcall, consumed, due, lost>>
  BY DEF netbuf_read_wait, Busy
<1>2. len \in Nat /\ Pending = 0 /\ want' \in Nat
  BY <1>1, ReaderFacts, NetbufReadAssumption DEF Pending
<1>3. Stream(mem, R.bufpos, R.datalen, consumed, lost, rcvd) /\ rcvd = consumed + Buffered + lost
  BY <1>1, <1>2, ReaderFacts DEF ReaderOK
<1>4. CASE /\ Buffered >= len
           /\ R' = [R EXCEPT !.immediate = TRUE]
           /\ UNCHANGED <<mem, rd>>
  <2>1. R' \in Reader /\ R'.bufpos = R.bufpos /\ R'.datalen = R.datalen
    BY <1>1, <1>4, ReaderFacts DEF Reader
  <2>2. Buffered' = Buffered /\ Pending' = 0 /\ buflen' = buflen
    BY <1>1, <1>4, <2>1 DEF Buffered, Pending, buflen
  <2>3. ReaderOK'
    BY <1>1, <1>2, <1>3, <1>4, <2>1, <2>2, ReaderFacts DEF ReaderOK
  <2>4. ReadTypes'
    BY <1>1, <1>2, <1>4, <2>1, ReaderFacts DEF ReadTypes
  <2>5. MemoryOK'
    BY <1>1, <1>4, <2>2, ReaderFacts DEF MemoryOK
  <2> QED BY <2>1, <2>3, <2>4, <2>5, ReaderNullAssumption DEF ReadIInv
<1>5. CASE Buffered < len
  <2> DEFINE room == MakeRoom(len)
             datalen == room.bufpos + Buffered
  <2>1. /\ mem' = room.mem
        /\ R' = [R EXCEPT !.bufpos = room.bufpos, !.datalen = datalen]
        /\ \/ network_read(datalen, Cardinality(DOMAIN room.mem) - datalen,
                           room.bufpos + len - datalen)
           \/ UNCHANGED rd
    BY <1>1, <1>2, <1>5, ReaderFacts DEF netbuf_read_wait
  <2>2. PICK n \in Nat :
          /\ DOMAIN room.mem = 1 .. n
          /\ \A i \in 1 .. n : room.mem[i] \in 0 .. MaxBytes
          /\ room.bufpos \in Nat /\ room.bufpos + len <= n
          /\ \A i \in 1 .. Buffered : room.mem[room.bufpos + i] = mem[R.bufpos + i]
    BY <1>1, <1>2, <1>5, ReaderFacts, MakeRoomOK
  <2> HIDE DEF room
  <2>0. Buffered \in Nat
    BY <1>1, ReaderFacts
  <2>3. /\ R' \in Reader /\ R'.bufpos = room.bufpos /\ R'.datalen = datalen
        /\ ~R'.immediate
    <3>1. room.bufpos \in Nat /\ datalen \in Nat
      BY ONLY <2>0, <2>2
    <3>2. R \in Reader /\ ~R.immediate
      BY <1>1, ReaderFacts
    <3> HIDE DEF datalen
    <3> QED BY ONLY <2>1, <3>1, <3>2 DEF Reader
  <2>4. Cardinality(DOMAIN room.mem) = n /\ buflen' = n
    BY <2>1, <2>2, IntervalSize DEF buflen
  <2>5. Buffered' = Buffered /\ Buffered \in Nat
    BY <1>1, <2>2, <2>3, ReaderFacts DEF Buffered
  <2>6. /\ Pending' = 0 /\ rd' \in ReadCookie \cup {NULL}
        /\ rd' # NULL => /\ rd'.at = datalen /\ rd'.buflen = n - datalen
                         /\ rd'.minlen = len - Buffered /\ rd'.bufpos = 0
    <3>1. CASE network_read(datalen, n - datalen, room.bufpos + len - datalen)
      <4>1. rd' = [at |-> datalen, buflen |-> n - datalen,
                   minlen |-> room.bufpos + len - datalen, bufpos |-> 0]
        BY <3>1 DEF network_read
      <4>2. datalen \in Nat /\ n - datalen \in Nat \ {0} /\ len - Buffered \in Nat
            /\ room.bufpos + len - datalen = len - Buffered
        <5> DEFINE b == Buffered
                   q == room.bufpos
        <5>1. b \in Nat /\ q \in Nat /\ len \in Nat /\ b < len /\ q + len <= n
          BY <1>2, <1>5, <2>2, <2>0
        <5> HIDE DEF b, q
        <5>2. q + b \in Nat /\ n - (q + b) \in Nat \ {0} /\ len - b \in Nat
              /\ q + len - (q + b) = len - b
          BY ONLY <5>1, n \in Nat
        <5> QED BY ONLY <5>2 DEF b, q
      <4>3. rd' \in ReadCookie
        BY <4>1, <4>2 DEF ReadCookie
      <4> QED BY <4>1, <4>2, <4>3 DEF Pending
    <3>2. CASE UNCHANGED rd
      BY <3>2, <1>1 DEF Pending
    <3> QED BY <2>1, <2>4, <3>1, <3>2
  <2>7. Stream(mem', R'.bufpos, R'.datalen, consumed, lost, rcvd)
    <3>1. /\ Copied(mem, R.bufpos, R.datalen, mem', R'.bufpos, R'.datalen)
          /\ R'.bufpos \in Nat /\ R'.datalen \in Nat
      <4>1. Buffered = R.datalen - R.bufpos /\ R'.datalen - R'.bufpos = Buffered
        BY <2>0, <2>2, <2>3 DEF Buffered
      <4>2. \A i \in 1 .. Buffered : mem'[R'.bufpos + i] = mem[R.bufpos + i]
        BY ONLY <2>1, <2>2, <2>3
      <4>3. R'.bufpos \in Nat /\ R'.datalen \in Nat
        BY ONLY <2>0, <2>2, <2>3
      <4> QED BY ONLY <4>1, <4>2, <4>3 DEF Copied
    <3>2. /\ R.bufpos \in Nat /\ R.datalen \in Nat /\ consumed \in Nat /\ lost \in Nat
          /\ rcvd \in Int /\ R.bufpos <= R.datalen
      BY <1>1, ReaderFacts
    <3> QED BY ONLY <3>1, <3>2, <1>3, StreamMoved
  <2>8. ReaderOK'
    <3>1. R'.bufpos <= R'.datalen /\ R'.datalen <= buflen'
      BY <1>2, <1>5, <2>2, <2>3, <2>4, <2>5
    <3>2. rcvd' = consumed' + Buffered' + lost' + Pending'
      BY <1>1, <1>3, <2>5, <2>6, ReaderFacts
    <3>3. Stream(mem', R'.bufpos, R'.datalen, consumed', lost', rcvd' - Pending')
      BY <1>1, <2>6, <2>7, ReaderFacts
    <3>4. due' <= consumed' + Buffered'
      BY <1>1, <2>5, ReaderFacts DEF ReaderOK
    <3>5. rd' # NULL => PendingOK'
      <4> SUFFICES ASSUME rd' # NULL PROVE PendingOK'
        OBVIOUS
      <4>1. 0 < rd'.minlen /\ rd'.minlen <= rd'.buflen /\ rd'.bufpos < rd'.minlen
        BY <1>2, <1>5, <2>2, <2>5, <2>6
      <4>2. want' = consumed' + Buffered' + rd'.minlen
        BY <1>1, <1>2, <2>5, <2>6, ReaderFacts
      <4>3. \A j \in 1 .. rd'.bufpos : FALSE
        BY <2>6
      <4> QED BY <2>3, <2>4, <2>6, <4>1, <4>2, <4>3 DEF PendingOK
    <3> QED BY <2>3, <3>1, <3>2, <3>3, <3>4, <3>5 DEF ReaderOK
  <2>9. ReadTypes'
    BY <1>1, <1>2, <2>3, <2>6, ReaderFacts DEF ReadTypes
  <2>10. MemoryOK'
    BY <2>1, <2>2, <2>4 DEF MemoryOK
  <2> QED BY <2>3, <2>8, <2>9, <2>10, ReaderNullAssumption DEF ReadIInv
<1> QED BY <1>4, <1>5 DEF netbuf_read_wait
----------------------------------------------------------------------------
(* recv puts bytes behind what the read has got, and touches nothing else;  *)
(* p is the number of bytes it has got then.                                *)
LEMMA RecvOK ==
  ASSUME ReadIInv, rd # NULL, NEW len \in -1 .. MaxBytes, recv(len),
         NEW k, k = Max({len, 0}), NEW p, p = rd.bufpos + k
  PROVE  /\ k = (IF len >= 0 THEN len ELSE 0) /\ k \in Nat /\ p \in Nat
         /\ DOMAIN mem' = DOMAIN mem /\ buflen' = buflen
         /\ \A i \in DOMAIN mem' : mem'[i] \in 0 .. MaxBytes
         /\ rcvd' = rcvd + k /\ rcvd' \in 0 .. sent
         /\ p <= rd.buflen
         /\ \A i \in R.bufpos + 1 .. R.datalen : mem'[i] = mem[i]
         /\ \A j \in 1 .. p : mem'[R.datalen + j] = (rcvd' - p) + j
<1> USE ReadAssumption
<1>1. R # NULL
  BY DEF ReadIInv
<1>2. PendingOK /\ rd \in ReadCookie
  BY <1>1, ReaderFacts DEF ReaderOK, ReadTypes
<1>3. rd.buflen \in Nat /\ rd.bufpos \in Nat /\ rd.bufpos < rd.buflen /\ rd.at = R.datalen
      /\ rd.buflen = buflen - R.datalen
  BY <1>2 DEF PendingOK, ReadCookie
<1>4. k = (IF len >= 0 THEN len ELSE 0) /\ k \in Nat /\ p \in Nat
  BY <1>3, Max2
<1>5. sent \in Nat /\ sent <= MaxBytes /\ rcvd \in 0 .. sent
  BY <1>1, ReaderFacts DEF ReadTypes
<1>6. \A i \in DOMAIN mem : mem[i] \in 0 .. MaxBytes
  BY <1>1, ReaderFacts DEF MemoryOK
<1>7. \A j \in 1 .. rd.bufpos : mem[R.datalen + j] = rcvd - rd.bufpos + j
  BY <1>2 DEF PendingOK
<1>8. CASE k = 0 /\ UNCHANGED <<mem, rcvd>>
  <2>1. p = rd.bufpos
    BY <1>3, <1>8
  <2>2. \A j \in 1 .. p : mem'[R.datalen + j] = (rcvd' - p) + j
    BY <2>1, <1>3, <1>5, <1>7, <1>8
  <2>3. rcvd' = rcvd + k /\ rcvd' \in 0 .. sent /\ p <= rd.buflen
    BY <1>3, <1>5, <1>8, <2>1
  <2>4. DOMAIN mem' = DOMAIN mem /\ buflen' = buflen
    BY <1>8 DEF buflen
  <2> QED BY <1>4, <1>6, <1>8, <2>2, <2>3, <2>4
<1>9. CASE len >= 1 /\ recv(len)
  <2> DEFINE oplen == rd.buflen - rd.bufpos
             start == rd.at + rd.bufpos
  <2>1. Min({oplen, sent - rcvd}) = IF oplen <= sent - rcvd THEN oplen ELSE sent - rcvd
    BY <1>3, <1>5, Min2
  <2>2. /\ len \in 1 .. Min({oplen, sent - rcvd})
        /\ mem' = [i \in DOMAIN mem |->
                     IF i \in start + 1 .. start + len THEN rcvd + i - start ELSE mem[i]]
        /\ rcvd' = rcvd + len
    BY <1>9 DEF recv
  <2>3. len <= oplen /\ rcvd + len <= sent /\ k = len /\ p = rd.bufpos + len
    BY <1>3, <1>4, <1>5, <1>9, <2>1, <2>2
  <2>4. start \in Nat /\ start = R.datalen + rd.bufpos /\ start + len <= buflen
    BY <1>1, <1>3, <2>3, ReaderFacts
  <2> HIDE DEF start, oplen
  <2>0. DOMAIN mem = 1 .. buflen /\ buflen \in Nat /\ len \in Nat
    BY <1>1, <1>9, ReaderFacts DEF MemoryOK
  <2>5. \A i \in start + 1 .. start + len : i \in DOMAIN mem /\ mem'[i] = rcvd + i - start
    <3>1. \A i \in start + 1 .. start + len : i \in DOMAIN mem
      BY ONLY <2>0, <2>4
    <3> QED BY ONLY <2>2, <3>1
  <2>6. \A i \in DOMAIN mem : mem'[i] \in 0 .. MaxBytes
    <3> SUFFICES ASSUME NEW i \in DOMAIN mem PROVE mem'[i] \in 0 .. MaxBytes
      OBVIOUS
    <3>1. CASE i \in start + 1 .. start + len
      <4>1. rcvd + i - start \in 0 .. MaxBytes
        BY <3>1, <1>5, <1>9, <2>3, <2>4
      <4> QED BY <3>1, <4>1, <2>5
    <3>2. CASE i \notin start + 1 .. start + len
      BY <3>2, <2>2, <1>6
    <3> QED BY <3>1, <3>2
  <2>7. \A i \in 1 .. start : i \in DOMAIN mem /\ mem'[i] = mem[i]
    <3> SUFFICES ASSUME NEW i \in 1 .. start PROVE i \in DOMAIN mem /\ mem'[i] = mem[i]
      OBVIOUS
    <3>1. i \in DOMAIN mem /\ i \notin start + 1 .. start + len
      BY ONLY <2>0, <2>4, i \in 1 .. start
    <3> QED BY <3>1, <2>2
  <2>8. \A i \in R.bufpos + 1 .. R.datalen : mem'[i] = mem[i]
    <3>1. \A i \in R.bufpos + 1 .. R.datalen : i \in 1 .. start
      BY <1>1, <1>3, <2>4, ReaderFacts
    <3> QED BY <3>1, <2>7
  <2>9. \A j \in 1 .. p : mem'[R.datalen + j] = (rcvd' - p) + j
    <3> SUFFICES ASSUME NEW j \in 1 .. p PROVE mem'[R.datalen + j] = (rcvd' - p) + j
      OBVIOUS
    <3>1. rcvd' - p = rcvd - rd.bufpos
      BY <1>3, <1>5, <1>9, <2>2, <2>3
    <3>2. CASE j <= rd.bufpos
      <4>1. R.datalen + j \in 1 .. start /\ j \in 1 .. rd.bufpos
        BY <1>1, <1>3, <1>4, <3>2, <2>4, ReaderFacts
      <4> QED BY <4>1, <2>7, <1>7, <3>1
    <3>3. CASE j > rd.bufpos
      <4>1. R.datalen + j \in start + 1 .. start + len
        BY <1>1, <1>3, <1>4, <1>9, <3>3, <2>3, <2>4, ReaderFacts
      <4>2. mem'[R.datalen + j] = rcvd + (R.datalen + j) - start
        BY <4>1, <2>5
      <4>3. rcvd + (R.datalen + j) - start = (rcvd - rd.bufpos) + j
        BY <1>1, <1>3, <1>4, <1>5, <2>4, ReaderFacts
      <4> QED BY <4>2, <4>3, <3>1
    <3> QED BY <3>2, <3>3, <1>3, <1>4
  <2>10. p <= rd.buflen
    BY <1>3, <1>9, <2>3 DEF oplen
  <2>11. rcvd' = rcvd + k /\ rcvd' \in 0 .. sent
    BY <1>5, <1>9, <2>2, <2>3
  <2>12. DOMAIN mem' = DOMAIN mem /\ buflen' = buflen
    BY <2>2 DEF buflen
  <2> QED BY <1>4, <2>6, <2>8, <2>9, <2>10, <2>11, <2>12
<1>10. (k = 0 /\ UNCHANGED <<mem, rcvd>>) \/ (len >= 1 /\ recv(len))
  BY <1>4 DEF recv
<1> QED BY <1>8, <1>9, <1>10

(* The socket is readable: more of what the read waits for has come, or it  *)
(* ends, and what it has got is added to the data or lost.                  *)
LEMMA ReadableOK ==
  ASSUME ReadIInv, NEW given \in {NULL} \cup -1 .. MaxBytes,
         callback_buf_read(given), callback_read(given)
  PROVE  ReadIInv'
<1> USE ReadAssumption
<1>1. rd # NULL /\ R # NULL /\ UNCHANGED <<sent, closed>>
  BY DEF callback_buf_read, ReadIInv
<1>2. PICK len \in -1 .. MaxBytes :
        /\ recv(len)
        /\ LET bufpos == rd.bufpos + Max({len, 0})
               tryagain == given = NULL /\ rd' = [rd EXCEPT !.bufpos = bufpos]
               failed == docallback_read(given, -1)
           IN \/ len = -1 /\ (tryagain \/ failed)
              \/ len = 0 /\ docallback_read(given, 0)
              \/ len > 0 /\ bufpos < rd.minlen /\ (tryagain \/ failed)
              \/ len > 0 /\ bufpos >= rd.minlen /\ docallback_read(given, bufpos)
  BY DEF callback_buf_read
<1> DEFINE k == Max({len, 0})
           p == rd.bufpos + k
<1>3. /\ k = (IF len >= 0 THEN len ELSE 0) /\ k \in Nat /\ p \in Nat
      /\ DOMAIN mem' = DOMAIN mem /\ buflen' = buflen
      /\ \A i \in DOMAIN mem' : mem'[i] \in 0 .. MaxBytes
      /\ rcvd' = rcvd + k /\ rcvd' \in 0 .. sent
      /\ p <= rd.buflen
      /\ \A i \in R.bufpos + 1 .. R.datalen : mem'[i] = mem[i]
      /\ \A j \in 1 .. p : mem'[R.datalen + j] = (rcvd' - p) + j
  BY <1>1, <1>2, RecvOK
<1>4. /\ PendingOK /\ rd \in ReadCookie /\ rd.bufpos \in Nat /\ rd.minlen \in Nat /\ Pending = rd.bufpos
      /\ rd.buflen \in Nat
  BY <1>1, ReaderFacts DEF ReaderOK, ReadTypes, ReadCookie, Pending
<1>5. \/ given = NULL /\ p < rd.minlen /\ rd' = [rd EXCEPT !.bufpos = p]
      \/ given \in {-1, 0} /\ rd' = NULL
      \/ given = p /\ rd.minlen <= p /\ rd' = NULL
  <2>1. len = -1 => p < rd.minlen
    BY <1>3, <1>4 DEF PendingOK
  <2> HIDE DEF k
  <2> QED BY <1>2, <1>4, <1>3, <2>1 DEF docallback_read, k
<1> HIDE DEF k
<1>6. p = rd.bufpos + k
  OBVIOUS
<1> HIDE DEF p
<1>7. MemoryOK'
  BY <1>1, <1>3, ReaderFacts DEF MemoryOK
<1>8. /\ rcvd' - p = rcvd - Pending /\ rcvd - Pending = consumed + (R.datalen - R.bufpos) + lost
      /\ rcvd - Pending \in Nat /\ rcvd' \in Nat
  BY <1>1, <1>3, <1>4, <1>6, ReaderFacts DEF ReaderOK, Buffered
<1>9. Stream(mem, R.bufpos, R.datalen, consumed, lost, rcvd - Pending)
  BY <1>1, ReaderFacts DEF ReaderOK
<1>10. CASE given = NULL /\ p < rd.minlen /\ rd' = [rd EXCEPT !.bufpos = p]
  <2>1. UNCHANGED <<R, rcall, want, consumed, due, lost>>
    BY <1>10 DEF callback_read, readervars
  <2>2. /\ rd' \in ReadCookie /\ rd'.bufpos = p /\ rd'.at = rd.at /\ rd'.buflen = rd.buflen
        /\ rd'.minlen = rd.minlen
    BY <1>3, <1>4, <1>10 DEF ReadCookie
  <2>3. Pending' = p /\ Buffered' = Buffered
    BY <2>1, <2>2, ReadNullAssumption DEF Pending, Buffered
  <2>4. Stream(mem', R.bufpos, R.datalen, consumed, lost, rcvd - Pending)
    BY <1>1, <1>3, ReaderFacts, <1>9 DEF Stream
  <2>5. ReaderOK'
    <3>1. R'.bufpos <= R'.datalen /\ R'.datalen <= buflen'
      BY <1>1, <1>3, <2>1, ReaderFacts
    <3>2. rcvd' = consumed' + Buffered' + lost' + Pending'
      BY <1>1, <1>3, <1>8, <2>1, <2>3, ReaderFacts DEF Buffered
    <3>3. Stream(mem', R'.bufpos, R'.datalen, consumed', lost', rcvd' - Pending')
      BY <1>8, <2>1, <2>3, <2>4
    <3>4. due' <= consumed' + Buffered' /\ (R'.immediate => want' <= consumed' + Buffered')
      BY <1>1, <2>1, <2>3, ReaderFacts DEF ReaderOK
    <3>5. PendingOK'
      BY <1>3, <1>4, <1>10, <2>1, <2>2, <2>3 DEF PendingOK
    <3> QED BY <3>1, <3>2, <3>3, <3>4, <3>5 DEF ReaderOK
  <2>6. ReadTypes'
    BY <1>1, <1>3, <2>1, <2>2, ReaderFacts DEF ReadTypes
  <2> QED BY <1>1, <1>7, <2>1, <2>5, <2>6 DEF ReadIInv
<1>11. CASE given \in {-1, 0} /\ rd' = NULL
  <2>1. Max({given, 0}) = 0 /\ given # NULL
    BY <1>11, Max2
  <2>2. /\ R' = [R EXCEPT !.datalen = R.datalen + 0] /\ rcall' \in {-1, 0, 1} /\ due' = due
        /\ lost' = lost + (rcvd' - rcvd) + rd.bufpos - 0 /\ UNCHANGED <<want, consumed>>
    BY <1>11, <2>1 DEF callback_read
  <2>3. R' \in Reader /\ R'.bufpos = R.bufpos /\ R'.datalen = R.datalen
        /\ R'.immediate = R.immediate
    BY <1>1, <2>2, ReaderFacts DEF Reader
  <2>4. Pending' = 0 /\ Buffered' = Buffered /\ lost' = lost + p
    BY <1>1, <1>3, <1>4, <1>6, <1>11, <2>2, <2>3, ReaderFacts DEF Pending, Buffered
  <2>5. Stream(mem', R.bufpos, R.datalen, consumed, lost', rcvd')
    <3>1. lost' \in Nat /\ lost <= lost' /\ rcvd - Pending <= rcvd'
      BY <1>1, <1>3, <1>8, <2>4, ReaderFacts
    <3>2. /\ R.bufpos \in Nat /\ R.datalen \in Nat /\ consumed \in Nat /\ lost \in Nat
          /\ \A i \in R.bufpos + 1 .. R.datalen : mem[i] \in Nat
      BY <1>1, ReaderFacts
    <3>3. \A i \in R.bufpos + 1 .. R.datalen : mem'[i] = mem[i]
      BY <1>3
    <3> QED BY ONLY <3>1, <3>2, <3>3, <1>8, <1>9, StreamLoses
  <2>6. rcvd' = consumed' + Buffered' + lost' + Pending'
    BY <1>1, <1>3, <1>8, <2>2, <2>4, ReaderFacts DEF Buffered
  <2>7. ReaderOK'
    <3>1. R'.bufpos <= R'.datalen /\ R'.datalen <= buflen'
      BY <1>1, <1>3, <2>3, ReaderFacts
    <3>2. Stream(mem', R'.bufpos, R'.datalen, consumed', lost', rcvd' - Pending')
      BY <1>8, <2>2, <2>3, <2>4, <2>5
    <3>3. due' <= consumed' + Buffered' /\ (R'.immediate => want' <= consumed' + Buffered')
      BY <1>1, <2>2, <2>3, <2>4, ReaderFacts DEF ReaderOK
    <3> QED BY <1>11, <2>6, <3>1, <3>2, <3>3 DEF ReaderOK
  <2>8. lost' \in 0 .. MaxBytes
    BY <1>1, <1>3, <2>2, <2>4, <2>6, ReaderFacts DEF ReadTypes
  <2>9. ReadTypes'
    BY <1>1, <1>3, <1>11, <2>2, <2>3, <2>8, ReaderFacts DEF ReadTypes
  <2> QED BY <1>7, <1>11, <2>3, <2>7, <2>9, ReaderNullAssumption DEF ReadIInv
<1>12. CASE given = p /\ rd.minlen <= p /\ rd' = NULL
  <2>0. p \in -1 .. MaxBytes
    BY <1>1, <1>3, <1>8, ReaderFacts DEF ReadTypes
  <2>1. p > 0 /\ Max({given, 0}) = p /\ given # NULL
    BY <1>3, <1>4, <1>12, <2>0, Max2 DEF PendingOK
  <2>2. /\ R' = [R EXCEPT !.datalen = R.datalen + p] /\ rcall' = 0 /\ due' = want
        /\ lost' = lost + (rcvd' - rcvd) + rd.bufpos - p /\ UNCHANGED <<want, consumed>>
    BY <1>12, <2>1 DEF callback_read
  <2>3. R' \in Reader /\ R'.bufpos = R.bufpos /\ R'.datalen = R.datalen + p
        /\ R'.immediate = R.immediate
    BY <1>1, <1>3, <2>2, ReaderFacts DEF Reader
  <2>4. Pending' = 0 /\ Buffered' = Buffered + p /\ lost' = lost
    <3>1. Pending' = 0
      BY <1>12 DEF Pending
    <3>2. Buffered' = Buffered + p
      BY <1>1, <1>3, <2>3, ReaderFacts DEF Buffered
    <3>3. lost' = lost
      BY <1>1, <1>3, <1>4, <1>6, <2>2, ReaderFacts
    <3> QED BY <3>1, <3>2, <3>3
  <2>5. Stream(mem', R.bufpos, R.datalen + p, consumed, lost, (rcvd - Pending) + p)
    <3>1. /\ \A i \in R.bufpos + 1 .. R.datalen : mem'[i] = mem[i]
          /\ \A j \in 1 .. p : mem'[R.datalen + j] = (rcvd - Pending) + j
          /\ p \in Nat
      BY <1>3, <1>8
    <3>2. /\ R.bufpos \in Nat /\ R.datalen \in Nat /\ consumed \in Nat /\ lost \in Nat
          /\ R.bufpos <= R.datalen /\ \A i \in R.bufpos + 1 .. R.datalen : mem[i] \in Nat
      BY <1>1, ReaderFacts
    <3> QED BY ONLY <3>1, <3>2, <1>8, <1>9, StreamGrows
  <2>6. rcvd' = consumed' + Buffered' + lost' + Pending'
    <3>1. Buffered = R.datalen - R.bufpos /\ Buffered \in Nat
      BY <1>1, ReaderFacts DEF Buffered
    <3>2. rcvd' - p = consumed + Buffered + lost
      BY <3>1, <1>8
    <3>3. consumed \in Nat /\ lost \in Nat /\ p \in Nat /\ rcvd' \in Nat
      BY <1>1, <1>3, <1>8, ReaderFacts
    <3>4. consumed' = consumed
      BY <2>2
    <3> QED BY ONLY <3>1, <3>2, <3>3, <3>4, <2>4
  <2>7. want <= consumed + Buffered + p
    BY <1>1, <1>3, <1>4, <1>12, ReaderFacts DEF PendingOK
  <2>8. ReaderOK'
    <3>1. R'.bufpos <= R'.datalen /\ R'.datalen <= buflen'
      BY <1>1, <1>3, <1>4, <2>3, ReaderFacts DEF PendingOK
    <3>2. Stream(mem', R'.bufpos, R'.datalen, consumed', lost', rcvd' - Pending')
      <4>1. (rcvd - Pending) + p = rcvd' - Pending'
        BY <1>3, <1>8, <2>4
      <4> QED BY <4>1, <2>2, <2>3, <2>4, <2>5
    <3>3. due' <= consumed' + Buffered' /\ (R'.immediate => want' <= consumed' + Buffered')
      BY <1>1, <1>3, <2>2, <2>4, <2>7, ReaderFacts
    <3> QED BY <1>12, <2>6, <3>1, <3>2, <3>3 DEF ReaderOK
  <2>9. due' \in 0 .. MaxBytes /\ lost' \in 0 .. MaxBytes
    BY <1>1, <1>3, <2>2, <2>4, <2>6, <2>7, ReaderFacts DEF ReadTypes
  <2>10. ReadTypes'
    BY <1>1, <1>3, <1>12, <2>2, <2>3, <2>9, ReaderFacts DEF ReadTypes
  <2> QED BY <1>7, <1>12, <2>3, <2>8, <2>10, ReaderNullAssumption DEF ReadIInv
<1> QED BY <1>5, <1>10, <1>11, <1>12

(* The peer sends or closes, or a callback returns. *)
LEMMA ReadOtherOK ==
  ASSUME ReadIInv,
         ((PeerSends \/ PeerCloses) /\ UNCHANGED readervars) \/ ReadCallbackReturns
         \/ UNCHANGED readvars
  PROVE  ReadIInv'
<1> USE ReadAssumption
<1>1. /\ UNCHANGED <<rcvd, mem, rd, R, want, consumed, due, lost>> /\ rcall' \in {NULL, rcall}
      /\ (sent < MaxBytes /\ sent' = sent + 1) \/ sent' = sent
      /\ closed' = TRUE \/ closed' = closed
  BY Zenon DEF PeerSends, PeerCloses, readervars, readvars, sockvars, ReadCallbackReturns
<1>2. ReadTypes'
  <2>1. sent' \in 0 .. MaxBytes /\ rcvd' \in 0 .. sent'
    BY <1>1 DEF ReadIInv, ReadTypes
  <2>2. closed' \in BOOLEAN
    BY <1>1, Zenon DEF ReadIInv, ReadTypes
  <2>3. rcall' \in {NULL, -1, 0, 1}
    BY <1>1 DEF ReadIInv, ReadTypes
  <2> QED BY <1>1, <2>1, <2>2, <2>3 DEF ReadIInv, ReadTypes
<1>3. MemoryOK' /\ buflen' = buflen
  BY <1>1 DEF ReadIInv, MemoryOK, buflen
<1>4. R # NULL => ReaderOK'
  BY <1>1, <1>3 DEF ReadIInv, ReaderOK, PendingOK, Buffered, Pending
<1> QED BY <1>1, <1>2, <1>3, <1>4 DEF ReadIInv

LEMMA ReadNextOK == ReadIInv /\ [ReadNext]_readvars => ReadIInv'
<1> SUFFICES ASSUME ReadIInv, [ReadNext]_readvars PROVE ReadIInv'
  OBVIOUS
<1>1. CASE ReadClient
  BY <1>1, ReadWaitOK, ReadConsumeOK, ReadCancelOK, ReadFreeOK DEF ReadClient
<1>2. CASE ReadLoop
  BY <1>2, CallbackSuccessOK, ReadableOK DEF ReadLoop
<1>3. CASE ((PeerSends \/ PeerCloses) /\ UNCHANGED readervars) \/ ReadCallbackReturns
           \/ UNCHANGED readvars
  BY <1>3, ReadOtherOK
<1> QED BY <1>1, <1>2, <1>3 DEF ReadNext

LEMMA ReadIInvImplies == ReadIInv => ReadInOrder
<1> SUFFICES ASSUME ReadIInv PROVE ReadInOrder
  OBVIOUS
<1> USE ReadAssumption
<1>1. NetbufReadTypeOK
  BY DEF ReadIInv, ReadTypes, MemoryOK, NetbufReadTypeOK
<1>2. ReadFits
  BY DEF ReadIInv, ReaderOK, PendingOK, ReadFits
<1>3. ASSUME R # NULL
      PROVE  /\ \A i \in 1 .. Buffered : mem[R.bufpos + i] >= consumed + i
             /\ \A i \in 1 .. Buffered - 1 : mem[R.bufpos + i] < mem[R.bufpos + i + 1]
             /\ lost = 0 => \A i \in 1 .. Buffered : mem[R.bufpos + i] = consumed + i
  <2>1. Stream(mem, R.bufpos, R.datalen, consumed, lost, rcvd - Pending)
    BY <1>3, ReaderFacts DEF ReaderOK
  <2>2. \A i \in 1 .. Buffered : /\ R.bufpos + i \in R.bufpos + 1 .. R.datalen
                                 /\ (R.bufpos + i) - R.bufpos = i
                                 /\ mem[R.bufpos + i] \in Nat
    BY <1>3, ReaderFacts DEF Buffered
  <2>3. \A i \in 1 .. Buffered : mem[R.bufpos + i] >= consumed + i
    BY <1>3, <2>1, <2>2, ReaderFacts DEF Stream
  <2>4. \A i \in 1 .. Buffered - 1 : mem[R.bufpos + i] < mem[R.bufpos + i + 1]
    <3> SUFFICES ASSUME NEW i \in 1 .. Buffered - 1
                 PROVE  mem[R.bufpos + i] < mem[R.bufpos + i + 1]
      OBVIOUS
    <3>1. /\ R.bufpos + i \in R.bufpos + 1 .. R.datalen
          /\ R.bufpos + i + 1 \in R.bufpos + 1 .. R.datalen
          /\ R.bufpos + i < R.bufpos + i + 1
      BY <1>3, ReaderFacts DEF Buffered
    <3> QED BY <3>1, <2>1 DEF Stream
  <2>5. lost = 0 => \A i \in 1 .. Buffered : mem[R.bufpos + i] = consumed + i
    BY <2>1, <2>2 DEF Stream
  <2> QED BY <2>3, <2>4, <2>5
<1>4. ASSUME R # NULL
      PROVE  /\ R.bufpos <= R.datalen /\ R.datalen <= buflen
             /\ rcvd = consumed + Buffered + lost + (IF rd = NULL THEN 0 ELSE rd.bufpos)
             /\ due <= consumed + Buffered
  BY <1>4, ReaderFacts DEF ReaderOK, Pending
<1> QED BY <1>1, <1>2, <1>3, <1>4 DEF ReadInOrder

(* netbuf_read_peek shows the stream in order, from the first byte that was *)
(* not consumed on and without a hole unless a wait was cancelled or failed *)
(* half-way; no byte is unaccounted for; a client that was told of its data *)
(* finds it; and a read under way fits its buffer: for every initial size   *)
(* of the buffer, every sequence of waits and every way in which the bytes  *)
(* arrive.                                                                  *)
THEOREM ReaderCorrect == ReadSpec => []ReadInOrder
BY ReadInitOK, ReadNextOK, ReadIInvImplies, PTL DEF ReadSpec
----------------------------------------------------------------------------
(* The buffered writer.  The buffers bufs of a queue that holds bytes of    *)
(* the stream up to byte n; only the last may be empty.                     *)
BufsOK(bufs, n) ==
  /\ bufs \in Seq(WriteBuf)
  /\ \A i \in 1 .. Len(bufs) : bufs[i].data \in Seq(1 .. n)
  /\ \A i \in 1 .. Len(bufs) : Len(bufs[i].data) <= bufs[i].buflen

OnlyLastEmpty(bufs) == \A i \in 1 .. Len(bufs) : bufs[i].data = <<>> => i = Len(bufs)

NoneEmpty(bufs) == \A i \in 1 .. Len(bufs) : bufs[i].data # <<>>

LEMMA BufFacts ==
  ASSUME NEW bufs, NEW n \in Nat, BufsOK(bufs, n), NEW i \in 1 .. Len(bufs)
  PROVE  /\ bufs[i] \in WriteBuf /\ bufs[i].buflen \in Nat
         /\ bufs[i].data \in Seq(1 .. n) /\ Len(bufs[i].data) \in Nat
         /\ bufs[i].data # <<>> <=> Len(bufs[i].data) > 0
         /\ \A j \in 1 .. Len(bufs[i].data) : bufs[i].data[j] \in 1 .. n
<1>1. bufs[i] \in WriteBuf
  BY ElementOfSeq DEF BufsOK
<1>2. bufs[i].buflen \in Nat
  BY <1>1 DEF WriteBuf
<1>3. bufs[i].data \in Seq(1 .. n)
  BY DEF BufsOK
<1> DEFINE d == bufs[i].data
<1> HIDE DEF d
<1>4. d \in Seq(1 .. n)
  BY <1>3 DEF d
<1>5. Len(d) \in Nat /\ \A j \in 1 .. Len(d) : d[j] \in 1 .. n
  BY <1>4, LenProperties, ElementOfSeq
<1>6. d # <<>> <=> Len(d) > 0
  BY <1>4, EmptySeq
<1> QED BY <1>1, <1>2, <1>3, <1>5, <1>6 DEF d

(* Positions in the stream are numbers up to its end. *)
LEMMA BeforeBound ==
  ASSUME NEW bufs, NEW n \in Nat, BufsOK(bufs, n), NEW i \in Nat \ {0}
  PROVE  Before(bufs, i, n) \in 0 .. n
<1>1. Len(bufs) \in Nat
  BY LenProperties DEF BufsOK
<1>2. CASE i <= Len(bufs) /\ bufs[i].data # <<>>
  <2>1. i \in 1 .. Len(bufs)
    BY <1>1, <1>2
  <2>2. bufs[i].data[1] \in 1 .. n
    BY <1>2, <2>1, BufFacts
  <2> QED BY <1>2, <2>2 DEF Before
<1>3. CASE ~(i <= Len(bufs) /\ bufs[i].data # <<>>)
  BY <1>3 DEF Before
<1> QED BY <1>2, <1>3

(* A buffer is added to the queue, with nothing in it. *)
LEMMA QueuedAppend ==
  ASSUME NEW bufs, NEW n \in Nat, BufsOK(bufs, n), Queued(bufs, n),
         NEW wb \in WriteBuf, wb.data = <<>>
  PROVE  /\ Queued(Append(bufs, wb), n)
         /\ Before(Append(bufs, wb), 1, n) = Before(bufs, 1, n)
<1> DEFINE b2 == Append(bufs, wb)
<1>1. bufs \in Seq(WriteBuf) /\ Len(bufs) \in Nat /\ DOMAIN bufs = 1 .. Len(bufs)
  BY LenProperties DEF BufsOK
<1>2. /\ b2 \in Seq(WriteBuf) /\ Len(b2) = Len(bufs) + 1
      /\ \A i \in 1 .. Len(bufs) : b2[i] = bufs[i]
      /\ b2[Len(bufs) + 1] = wb
  BY <1>1, AppendProperties
<1>3. DOMAIN b2 = 1 .. Len(bufs) + 1
  BY <1>2, LenProperties
<1> HIDE DEF b2
<1>4. \A i \in 1 .. Len(bufs) + 2 : Before(b2, i, n) = Before(bufs, i, n)
  <2> SUFFICES ASSUME NEW i \in 1 .. Len(bufs) + 2
               PROVE  Before(b2, i, n) = Before(bufs, i, n)
    OBVIOUS
  <2>1. CASE i <= Len(bufs)
    <3>1. b2[i] = bufs[i] /\ i <= Len(b2)
      BY <1>1, <1>2, <2>1
    <3> QED BY <3>1, <2>1 DEF Before
  <2>2. CASE i = Len(bufs) + 1
    BY <1>1, <1>2, <2>2 DEF Before
  <2>3. CASE i = Len(bufs) + 2
    BY <1>1, <1>2, <2>3 DEF Before
  <2> QED BY <1>1, <2>1, <2>2, <2>3
<1>5. Before(bufs, Len(bufs) + 1, n) = n /\ Before(bufs, Len(bufs) + 2, n) = n
  BY <1>1 DEF Before
<1>6. ASSUME NEW i \in DOMAIN b2
      PROVE  /\ Run(b2[i].data, Before(b2, i, n))
             /\ Before(b2, i, n) + Len(b2[i].data) = Before(b2, i + 1, n)
  <2>1. CASE i \in 1 .. Len(bufs)
    <3>1. Before(b2, i, n) = Before(bufs, i, n) /\ Before(b2, i + 1, n) = Before(bufs, i + 1, n)
      BY <1>1, <1>4, <2>1
    <3> QED BY <3>1, <1>1, <1>2, <2>1 DEF Queued
  <2>2. CASE i = Len(bufs) + 1
    <3>1. b2[i].data = <<>> /\ Len(b2[i].data) = 0
      BY <1>2, <2>2, EmptySeq
    <3>2. Before(b2, i, n) = n /\ Before(b2, i + 1, n) = n
      BY <1>1, <1>4, <1>5, <2>2
    <3> QED BY <3>1, <3>2 DEF Run
  <2> QED BY <1>1, <1>3, <1>6, <2>1, <2>2
<1> QED BY <1>1, <1>4, <1>6 DEF Queued, b2

(* The first buffer is taken out of the queue. *)
LEMMA QueuedTail ==
  ASSUME NEW bufs, NEW n \in Nat, BufsOK(bufs, n), Queued(bufs, n), bufs # <<>>,
         NEW b2, b2 = Tail(bufs)
  PROVE  /\ BufsOK(b2, n) /\ Queued(b2, n)
         /\ Before(b2, 1, n) = Before(bufs, 2, n)
         /\ Head(bufs) = bufs[1] /\ 1 \in 1 .. Len(bufs)
         /\ OnlyLastEmpty(bufs) => OnlyLastEmpty(b2)
<1>1. bufs \in Seq(WriteBuf) /\ Len(bufs) \in Nat \ {0} /\ DOMAIN bufs = 1 .. Len(bufs)
  BY LenProperties, EmptySeq DEF BufsOK
<1>2. /\ b2 \in Seq(WriteBuf) /\ Len(b2) = Len(bufs) - 1
      /\ \A i \in 1 .. Len(b2) : b2[i] = bufs[i + 1]
  BY <1>1, HeadTailProperties
<1>3. DOMAIN b2 = 1 .. Len(bufs) - 1
  BY <1>2, LenProperties
<1>4. Head(bufs) = bufs[1]
  BY <1>1
<1>5. \A i \in 1 .. Len(bufs) : Before(b2, i, n) = Before(bufs, i + 1, n)
  <2> SUFFICES ASSUME NEW i \in 1 .. Len(bufs)
               PROVE  Before(b2, i, n) = Before(bufs, i + 1, n)
    OBVIOUS
  <2>1. i <= Len(b2) <=> i + 1 <= Len(bufs)
    BY <1>1, <1>2
  <2>2. i <= Len(b2) => b2[i] = bufs[i + 1]
    BY <1>1, <1>2
  <2> QED BY <2>1, <2>2 DEF Before
<1>6. ASSUME NEW i \in DOMAIN b2
      PROVE  /\ Run(b2[i].data, Before(b2, i, n))
             /\ Before(b2, i, n) + Len(b2[i].data) = Before(b2, i + 1, n)
  <2>1. i + 1 \in DOMAIN bufs /\ i \in 1 .. Len(bufs) /\ i + 1 \in 1 .. Len(bufs)
    BY <1>1, <1>3, <1>6
  <2>2. b2[i] = bufs[i + 1]
    BY <1>1, <1>2, <1>3, <1>6
  <2>3. Before(b2, i, n) = Before(bufs, i + 1, n) /\ Before(b2, i + 1, n) = Before(bufs, (i + 1) + 1, n)
    BY <2>1, <1>5
  <2> QED BY <2>1, <2>2, <2>3 DEF Queued
<1>7. BufsOK(b2, n)
  BY <1>1, <1>2, <1>3 DEF BufsOK
<1>8. ASSUME OnlyLastEmpty(bufs) PROVE OnlyLastEmpty(b2)
  <2> SUFFICES ASSUME NEW i \in 1 .. Len(b2), b2[i].data = <<>> PROVE i = Len(b2)
    BY DEF OnlyLastEmpty
  <2>1. i + 1 \in 1 .. Len(bufs) /\ bufs[i + 1].data = <<>>
    BY <1>1, <1>2
  <2>2. i + 1 = Len(bufs)
    BY <2>1, <1>8 DEF OnlyLastEmpty
  <2> QED BY <2>2, <1>1, <1>2
<1>9. 1 + 1 = 2 /\ 1 \in 1 .. Len(bufs)
  BY <1>1
<1> QED BY <1>4, <1>5, <1>6, <1>7, <1>8, <1>9 DEF Queued

(* A run is continued. *)
LEMMA RunConcat ==
  ASSUME NEW S, NEW d \in Seq(S), NEW e \in Seq(S), NEW k \in Int,
         Run(d, k), NEW n, k + Len(d) = n, Run(e, n)
  PROVE  d \o e \in Seq(S) /\ Len(d \o e) = Len(d) + Len(e) /\ Run(d \o e, k)
<1> DEFINE f == d \o e
<1>1. /\ f \in Seq(S) /\ Len(f) = Len(d) + Len(e)
      /\ \A i \in 1 .. Len(d) + Len(e) : f[i] = IF i <= Len(d) THEN d[i] ELSE e[i - Len(d)]
  BY ConcatProperties
<1>2. Len(d) \in Nat /\ Len(e) \in Nat
  BY LenProperties
<1> HIDE DEF f
<1>3. ASSUME NEW j \in 1 .. Len(f) PROVE f[j] = k + j
  <2>1. CASE j <= Len(d)
    <3>1. j \in 1 .. Len(d)
      BY <1>1, <1>2, <2>1
    <3> QED BY <3>1, <1>1, <1>2, <2>1 DEF Run
  <2>2. CASE ~(j <= Len(d))
    <3>1. j - Len(d) \in 1 .. Len(e)
      BY <1>1, <1>2, <2>2
    <3>2. e[j - Len(d)] = (k + Len(d)) + (j - Len(d))
      BY <3>1 DEF Run
    <3>3. f[j] = e[j - Len(d)]
      BY <1>1, <1>2, <2>2
    <3> QED BY <3>2, <3>3, <1>1, <1>2
  <2> QED BY <2>1, <2>2
<1> QED BY <1>1, <1>3 DEF Run, f

(* The bytes e are put into the last buffer of the queue. *)
Filled(bufs, e) == [bufs EXCEPT ![Len(bufs)].data = @ \o e]

(* The next bytes of the stream are put into the last buffer of the queue. *)
LEMMA QueuedFill ==
  ASSUME NEW bufs, NEW n \in Nat, BufsOK(bufs, n), Queued(bufs, n), OnlyLastEmpty(bufs),
         bufs # <<>>, NEW len \in Nat \ {0}, n + len <= MaxWritten,
         NEW e \in Seq(1 .. n + len), Len(e) = len, Run(e, n),
         Len(bufs[Len(bufs)].data) + len <= bufs[Len(bufs)].buflen
  PROVE  /\ BufsOK(Filled(bufs, e), n + len) /\ Queued(Filled(bufs, e), n + len)
         /\ Before(Filled(bufs, e), 1, n + len) = Before(bufs, 1, n)
         /\ NoneEmpty(Filled(bufs, e))
         /\ Len(Filled(bufs, e)) = Len(bufs)
<1> USE NetbufWriteAssumption
<1> DEFINE L == Len(bufs)
           m == n + len
           b2 == Filled(bufs, e)
<1>1. bufs \in Seq(WriteBuf) /\ L \in Nat \ {0} /\ DOMAIN bufs = 1 .. L /\ m \in Nat
  BY LenProperties, EmptySeq DEF BufsOK
<1>2. L \in 1 .. L
  BY <1>1
<1> DEFINE d == bufs[L].data
           f == d \o e
           wb == [bufs[L] EXCEPT !.data = f]
<1>3. /\ bufs[L] \in WriteBuf /\ bufs[L].buflen \in Nat /\ d \in Seq(1 .. n) /\ Len(d) \in Nat
      /\ d # <<>> <=> Len(d) > 0
  BY <1>2, BufFacts
<1>4. Before(bufs, L + 1, n) = n
  BY <1>1 DEF Before
<1>5. Run(d, Before(bufs, L, n)) /\ Before(bufs, L, n) + Len(d) = n /\ Before(bufs, L, n) \in 0 .. n
  BY <1>1, <1>2, <1>4, BeforeBound DEF Queued
<1>6. d \in Seq(1 .. m)
  <2>1. 1 .. n \subseteq 1 .. m
    OBVIOUS
  <2> QED BY <2>1, <1>3, SeqMonotonic
<1>7. f \in Seq(1 .. m) /\ Len(f) = Len(d) + len /\ Run(f, Before(bufs, L, n)) /\ f # <<>>
  <2> DEFINE k == Before(bufs, L, n)
  <2>0. k \in Int /\ Run(d, k) /\ k + Len(d) = n /\ f = d \o e /\ e \in Seq(1 .. m)
    BY <1>5
  <2> HIDE DEF d, L, k, f, m
  <2>1. f \in Seq(1 .. m) /\ Len(f) = Len(d) + len /\ Run(f, k)
    <3>1. d \o e \in Seq(1 .. m) /\ Len(d \o e) = Len(d) + Len(e) /\ Run(d \o e, k)
      BY ONLY <2>0, <1>6, Run(e, n), RunConcat
    <3> QED BY <2>0, <3>1
  <2>2. f # <<>>
    BY <2>1, <1>3, EmptySeq
  <2> QED BY <2>1, <2>2 DEF k
<1> HIDE DEF f
<1>8. f[1] = Before(bufs, L, n) + 1
  <2>1. 1 \in 1 .. Len(f)
    BY ONLY <1>3, <1>7, len \in Nat \ {0}
  <2> QED BY ONLY <2>1, <1>7 DEF Run
<1>9. wb \in WriteBuf /\ wb.data = f /\ wb.buflen = bufs[L].buflen
  <2>1. 1 .. m \subseteq 1 .. MaxWritten
    OBVIOUS
  <2>2. f \in Seq(1 .. MaxWritten)
    BY <2>1, <1>7, SeqMonotonic
  <2> QED BY <2>2, <1>3 DEF WriteBuf
<1>10. b2 = [bufs EXCEPT ![L] = wb]
  BY DEF f, Filled
<1> HIDE DEF wb, b2
<1>11. /\ b2 \in Seq(WriteBuf) /\ Len(b2) = L /\ b2[L] = wb
       /\ \A i \in 1 .. L : i # L => b2[i] = bufs[i]
  <2>1. L = Len(bufs)
    OBVIOUS
  <2> HIDE DEF L
  <2>2. /\ [bufs EXCEPT ![L] = wb] \in Seq(WriteBuf) /\ Len([bufs EXCEPT ![L] = wb]) = Len(bufs)
        /\ \A j \in 1 .. Len(bufs) : [bufs EXCEPT ![L] = wb][j] = IF j = L THEN wb ELSE bufs[j]
    BY ONLY <1>1, <1>2, <1>9, <2>1, ExceptSeq
  <2> QED BY ONLY <2>1, <2>2, <1>2, <1>10
<1> HIDE DEF d
<1>12. DOMAIN b2 = 1 .. L /\ b2 # <<>>
  BY <1>1, <1>11, LenProperties, EmptySeq
<1>13. \A i \in 1 .. L : b2[i].data # <<>>
  BY <1>7, <1>9, <1>11 DEF OnlyLastEmpty
<1> HIDE DEF L, m
<1>14. \A i \in 1 .. L : Before(b2, i, m) = Before(bufs, i, n)
  <2> SUFFICES ASSUME NEW i \in 1 .. L PROVE Before(b2, i, m) = Before(bufs, i, n)
    OBVIOUS
  <2>1. Before(b2, i, m) = b2[i].data[1] - 1
    BY <1>11, <1>13 DEF Before
  <2>2. CASE i = L
    <3>1. b2[i].data[1] = Before(bufs, L, n) + 1
      BY <2>2, <1>8, <1>9, <1>11
    <3> QED BY ONLY <2>1, <2>2, <3>1, <1>5, n \in Nat
  <2>3. CASE i # L
    <3>1. bufs[i].data # <<>> /\ b2[i] = bufs[i]
      BY <2>3, <1>11 DEF OnlyLastEmpty, L
    <3> QED BY <3>1, <2>1 DEF Before, L
  <2> QED BY <2>2, <2>3
<1>15. Before(b2, L + 1, m) = m
  BY <1>1, <1>11 DEF Before
<1>16. ASSUME NEW i \in 1 .. L
       PROVE  /\ Run(b2[i].data, Before(b2, i, m))
              /\ Before(b2, i, m) + Len(b2[i].data) = Before(b2, i + 1, m)
  <2>1. CASE i = L
    <3>1. Run(b2[i].data, Before(b2, i, m))
      BY <2>1, <1>2, <1>7, <1>9, <1>11, <1>14
    <3>2. Before(b2, i, m) + Len(b2[i].data) = m
      <4>1. Before(b2, i, m) = Before(bufs, L, n) /\ Len(b2[i].data) = Len(d) + len
        BY <2>1, <1>2, <1>7, <1>9, <1>11, <1>14
      <4>2. Before(bufs, L, n) + Len(d) = n /\ Before(bufs, L, n) \in Nat /\ Len(d) \in Nat
        BY <1>3, <1>5
      <4>3. len \in Nat /\ n \in Nat /\ m = n + len
        BY DEF m
      <4> DEFINE B == Before(b2, i, m)
                 B0 == Before(bufs, L, n)
                 l == Len(b2[i].data)
      <4>4. B = B0 /\ l = Len(d) + len /\ B0 + Len(d) = n /\ B0 \in Nat /\ Len(d) \in Nat
        BY ONLY <4>1, <4>2
      <4> HIDE DEF B, B0, l
      <4>5. B + l = m
        BY ONLY <4>3, <4>4
      <4> QED BY <4>5 DEF B, l
    <3> QED BY <3>1, <3>2, <2>1, <1>15
  <2>2. CASE i # L
    <3>1. i + 1 \in 1 .. L /\ b2[i] = bufs[i]
      BY <2>2, <1>1, <1>11
    <3>2. Run(bufs[i].data, Before(bufs, i, n))
          /\ Before(bufs, i, n) + Len(bufs[i].data) = Before(bufs, i + 1, n)
      BY <1>1 DEF Queued
    <3> QED BY <3>1, <3>2, <1>14
  <2> QED BY <2>1, <2>2
<1>17. BufsOK(b2, m)
  <2>1. ASSUME NEW i \in 1 .. L
        PROVE  b2[i].data \in Seq(1 .. m) /\ Len(b2[i].data) <= b2[i].buflen
    <3>1. CASE i = L
      BY <3>1, <1>7, <1>9, <1>11 DEF L, d
    <3>2. CASE i # L
      <4>1. b2[i] = bufs[i] /\ bufs[i].data \in Seq(1 .. n) /\ Len(bufs[i].data) <= bufs[i].buflen
        BY <3>2, <1>11 DEF BufsOK, L
      <4>2. 1 .. n \subseteq 1 .. m
        BY DEF m
      <4> QED BY <4>1, <4>2, SeqMonotonic
    <3> QED BY <3>1, <3>2
  <2> QED BY <2>1, <1>11 DEF BufsOK
<1>18. Queued(b2, m)
  BY <1>12, <1>16 DEF Queued
<1>19. Before(b2, 1, m) = Before(bufs, 1, n)
  <2>1. 1 \in 1 .. L
    BY ONLY <1>1
  <2> QED BY ONLY <2>1, <1>14
<1>20. NoneEmpty(b2) /\ Len(b2) = L
  BY <1>11, <1>13 DEF NoneEmpty
<1> QED BY ONLY <1>17, <1>18, <1>19, <1>20 DEF m, L, b2
----------------------------------------------------------------------------
(* For a writer V that has not failed, with the cookie c, after the bytes o *)
(* were sent and n bytes handed over: what is left is in its place.         *)
InPlace(V, c, o, n) ==
  /\ Queued(V.buffers, n) /\ OnlyLastEmpty(V.buffers)
  /\ ~V.reserved => NoneEmpty(V.buffers)
  /\ c = NULL => Len(o) = Before(V.buffers, 1, n)
  /\ c # NULL => /\ Run(c.buf, Len(o) - c.bufpos)
                 /\ Len(o) - c.bufpos + Len(c.buf) = Before(V.buffers, 1, n)

(* The writer and its cookie belong together. *)
Paired(V, c) ==
  /\ V \in Writer /\ c \in WriteCookie \cup {NULL}
  /\ c = NULL <=> V.curr = NULL
  /\ c # NULL => /\ c.buf = V.curr.data /\ c.minlen = Len(c.buf)
                 /\ c.bufpos < c.minlen /\ ~V.failed

WriterOK(V, c, o, n) ==
  /\ Paired(V, c)
  /\ BufsOK(V.buffers, n)
  /\ ~V.failed => InPlace(V, c, o, n)

(* The space of a reservation of len bytes. *)
HasSpace(V, len) ==
  /\ V.reserved /\ V.buffers # <<>>
  /\ LastBuf(V).buflen - Len(LastBuf(V).data) >= len

(* Data waits only behind a write, or because one could not be started. *)
NotForgotten(V, c, l) ==
  V.buffers # <<>> /\ c = NULL => V.failed \/ V.reserved \/ l = "failed"

(* The inductive invariant of the writer. *)
WriteIInv ==
  /\ space \in WriteLens \cup {NULL} /\ made \in 0 .. MaxWritten
  /\ fcalls \in Nat /\ launch \in {"ok", "failed", "abort"}
  /\ out \in Seq(Nat) /\ Run(out, 0) /\ Len(out) <= made
  /\ W = NULL => wr = NULL
  /\ launch = "abort" => W = NULL
  /\ W # NULL => /\ WriterOK(W, wr, out, made)
                 /\ fcalls = (IF W.failed THEN 1 ELSE 0)
                 /\ space # NULL => HasSpace(W, space)
                 /\ NotForgotten(W, wr, launch)

LEMMA WriteInitOK == WriteInit => WriteIInv
<1> SUFFICES ASSUME WriteInit PROVE WriteIInv
  OBVIOUS
<1> USE NetbufWriteAssumption DEF WriteInit
<1>1. <<>> \in Seq(Nat) /\ <<>> \in Seq(WriteBuf) /\ Len(<<>>) = 0
  BY EmptySeq
<1>2. /\ W \in Writer /\ ~W.failed /\ ~W.reserved /\ W.buffers = <<>> /\ W.curr = NULL
  BY <1>1 DEF Writer
<1>3. BufsOK(W.buffers, made)
  BY <1>1, <1>2 DEF BufsOK
<1>4. InPlace(W, wr, out, made)
  BY <1>1, <1>2 DEF InPlace, Queued, OnlyLastEmpty, NoneEmpty, Before
<1>5. WriterOK(W, wr, out, made)
  BY <1>2, <1>3, <1>4 DEF WriterOK, Paired
<1>6. Run(out, 0) /\ Len(out) <= made /\ out \in Seq(Nat)
  BY <1>1 DEF Run
<1>7. NotForgotten(W, wr, launch)
  BY <1>2 DEF NotForgotten
<1> QED BY <1>2, <1>5, <1>6, <1>7 DEF WriteIInv

LEMMA WriterFacts ==
  ASSUME NEW V \in Writer
  PROVE  /\ V.reserved \in BOOLEAN /\ V.failed \in BOOLEAN /\ V.buffers \in Seq(WriteBuf)
         /\ V.curr \in WriteBuf \cup {NULL} /\ Len(V.buffers) \in Nat
         /\ V.buffers # <<>> => Len(V.buffers) \in 1 .. Len(V.buffers)
<1>1. V.buffers \in Seq(WriteBuf)
  BY DEF Writer
<1>2. Len(V.buffers) \in Nat /\ (V.buffers # <<>> => Len(V.buffers) \in Nat \ {0})
  BY <1>1, LenProperties, EmptySeq
<1> QED BY <1>1, <1>2 DEF Writer

(* Space is reserved. *)
LEMMA ReservedOK ==
  ASSUME NEW V, NEW c, NEW o, NEW n \in Nat, WriterOK(V, c, o, n), ~V.reserved,
         NEW len \in Nat, NEW U, U = Reserved(V, len)
  PROVE  /\ WriterOK(U, c, o, n) /\ HasSpace(U, len)
         /\ U.failed = V.failed
<1> USE NetbufWriteAssumption
<1>1. V \in Writer /\ Paired(V, c) /\ BufsOK(V.buffers, n)
  BY DEF WriterOK, Paired
<1>2. CASE V.buffers # <<>> /\ LastBuf(V).buflen - Len(LastBuf(V).data) >= len
  <2>1. U = [V EXCEPT !.reserved = TRUE]
    BY <1>2 DEF Reserved
  <2>2. /\ U \in Writer /\ U.reserved /\ U.failed = V.failed /\ U.buffers = V.buffers
        /\ U.curr = V.curr
    BY <2>1, <1>1 DEF Writer
  <2>3. InPlace(V, c, o, n) => InPlace(U, c, o, n)
    BY <2>2 DEF InPlace
  <2>4. Paired(U, c)
    BY <2>2, <1>1 DEF Paired
  <2> QED BY <1>1, <1>2, <2>2, <2>3, <2>4 DEF WriterOK, HasSpace, LastBuf
<1>3. CASE ~(V.buffers # <<>> /\ LastBuf(V).buflen - Len(LastBuf(V).data) >= len)
  <2> DEFINE wb == [buflen |-> Max({len, WBUFLEN}), data |-> <<>>]
             b2 == Append(V.buffers, wb)
  <2>1. U = [V EXCEPT !.reserved = TRUE, !.buffers = b2]
    BY <1>3 DEF Reserved
  <2>2. wb \in WriteBuf /\ wb.data = <<>> /\ wb.buflen \in Nat /\ wb.buflen >= len
    <3>1. Max({len, WBUFLEN}) \in Nat /\ Max({len, WBUFLEN}) >= len
      BY Max2
    <3>2. <<>> \in Seq(1 .. MaxWritten)
      BY EmptySeq
    <3> QED BY <3>1, <3>2 DEF WriteBuf
  <2> HIDE DEF wb
  <2>3. V.buffers \in Seq(WriteBuf) /\ Len(V.buffers) \in Nat
    BY <1>1, WriterFacts
  <2>4. /\ b2 \in Seq(WriteBuf) /\ b2 # <<>> /\ Len(b2) = Len(V.buffers) + 1
        /\ \A i \in 1 .. Len(V.buffers) : b2[i] = V.buffers[i]
        /\ b2[Len(V.buffers) + 1] = wb
    BY <2>2, <2>3, AppendProperties
  <2>5. Queued(V.buffers, n) => Queued(b2, n) /\ Before(b2, 1, n) = Before(V.buffers, 1, n)
    BY <1>1, <2>2, QueuedAppend
  <2> HIDE DEF b2
  <2>6. /\ U \in Writer /\ U.reserved /\ U.failed = V.failed /\ U.buffers = b2
        /\ U.curr = V.curr
    BY <2>1, <2>4, <1>1 DEF Writer
  <2>7. ASSUME NEW i \in 1 .. Len(b2)
        PROVE  i \in 1 .. Len(V.buffers) \/ i = Len(V.buffers) + 1
    BY <2>3, <2>4
  <2>8. BufsOK(b2, n)
    <3>1. <<>> \in Seq(1 .. n) /\ Len(<<>>) = 0
      BY EmptySeq
    <3>2. ASSUME NEW i \in 1 .. Len(b2)
          PROVE  b2[i].data \in Seq(1 .. n) /\ Len(b2[i].data) <= b2[i].buflen
      <4>1. CASE i \in 1 .. Len(V.buffers)
        BY <4>1, <2>4, <1>1 DEF BufsOK
      <4>2. CASE i = Len(V.buffers) + 1
        <5>1. b2[i].data = <<>> /\ b2[i].buflen \in Nat
          BY <4>2, <2>2, <2>4
        <5> QED BY <5>1, <3>1
      <4> QED BY <4>1, <4>2, <2>7
    <3> QED BY <3>2, <2>4 DEF BufsOK
  <2>9. ASSUME InPlace(V, c, o, n) PROVE InPlace(U, c, o, n)
    <3>1. OnlyLastEmpty(b2)
      BY <2>4, <2>7, <2>9 DEF InPlace, NoneEmpty, OnlyLastEmpty
    <3> QED BY <2>9, <2>5, <2>6, <3>1 DEF InPlace
  <2>10. HasSpace(U, len)
    <3>1. LastBuf(U) = wb /\ Len(wb.data) = 0
      BY <2>2, <2>4, <2>6, EmptySeq DEF LastBuf
    <3> QED BY <3>1, <2>2, <2>4, <2>6 DEF HasSpace
  <2>11. Paired(U, c)
    BY <2>6, <1>1 DEF Paired
  <2> QED BY <2>6, <2>8, <2>9, <2>10, <2>11 DEF WriterOK
<1> QED BY <1>2, <1>3

(* The next bytes of the stream. *)
LEMMA NextBytesOK ==
  ASSUME made \in Nat, NEW len \in Nat
  PROVE  /\ NextBytes(len) \in Seq(1 .. made + len) /\ Len(NextBytes(len)) = len
         /\ Run(NextBytes(len), made)
<1> DEFINE e == NextBytes(len)
<1>1. /\ e \in [1 .. len -> 1 .. made + len] /\ DOMAIN e = 1 .. len
      /\ \A i \in 1 .. len : e[i] = made + i
  BY DEF NextBytes
<1> HIDE DEF e
<1>2. e \in Seq(1 .. made + len)
  BY <1>1, SeqDef
<1>3. Len(e) = len
  <2>1. Len(e) \in Nat /\ 1 .. Len(e) = 1 .. len
    BY <1>1, <1>2, LenProperties
  <2> QED BY <2>1
<1> QED BY <1>1, <1>2, <1>3 DEF Run, e

(* A reservation is consumed. *)
LEMMA ConsumedOK ==
  ASSUME NEW V, NEW c, NEW o, made \in Nat, WriterOK(V, c, o, made),
         NEW len \in Nat \ {0}, HasSpace(V, len), made + len <= MaxWritten,
         NEW U, U = Consumed(V, len)
  PROVE  /\ WriterOK(U, c, o, IF V.failed THEN made ELSE made + len)
         /\ ~U.reserved /\ U.failed = V.failed
<1>1. V \in Writer /\ Paired(V, c) /\ BufsOK(V.buffers, made) /\ V.buffers # <<>>
  BY DEF WriterOK, Paired, HasSpace
<1>2. CASE V.failed
  <2>1. U = [V EXCEPT !.reserved = FALSE]
    BY <1>2 DEF Consumed
  <2>2. /\ U \in Writer /\ ~U.reserved /\ U.failed = V.failed /\ U.buffers = V.buffers
        /\ U.curr = V.curr
    BY <2>1, <1>1 DEF Writer
  <2>3. Paired(U, c)
    BY <2>2, <1>1 DEF Paired
  <2> QED BY <1>1, <1>2, <2>2, <2>3 DEF WriterOK
<1>3. CASE ~V.failed
  <2> DEFINE bufs == V.buffers
             e == NextBytes(len)
             b2 == Filled(bufs, e)
             m == made + len
  <2>1. U = [V EXCEPT !.reserved = FALSE, !.buffers = b2]
    BY <1>3 DEF Consumed, Filled
  <2>2. InPlace(V, c, o, made)
    BY <1>3 DEF WriterOK
  <2>3. Queued(bufs, made) /\ OnlyLastEmpty(bufs)
    BY <2>2 DEF InPlace
  <2>4. /\ e \in Seq(1 .. made + len) /\ Len(e) = len /\ Run(e, made)
    BY NextBytesOK
  <2>5. Len(bufs[Len(bufs)].data) + len <= bufs[Len(bufs)].buflen
    <3>1. Len(bufs) \in 1 .. Len(bufs)
      BY <1>1, WriterFacts
    <3>2. bufs[Len(bufs)].buflen \in Nat /\ Len(bufs[Len(bufs)].data) \in Nat
      BY <1>1, <3>1, BufFacts
    <3>3. bufs[Len(bufs)].buflen - Len(bufs[Len(bufs)].data) >= len /\ len \in Nat
      BY DEF HasSpace, LastBuf
    <3> DEFINE x == bufs[Len(bufs)].buflen
               y == Len(bufs[Len(bufs)].data)
    <3>4. x \in Nat /\ y \in Nat /\ x - y >= len /\ len \in Nat
      BY <3>2, <3>3
    <3> HIDE DEF x, y
    <3>5. y + len <= x
      BY ONLY <3>4
    <3> QED BY <3>5 DEF x, y
  <2> HIDE DEF e
  <2>6. /\ BufsOK(b2, m) /\ Queued(b2, m) /\ Before(b2, 1, m) = Before(bufs, 1, made)
        /\ NoneEmpty(b2) /\ Len(b2) = Len(bufs)
    <3>1. BufsOK(bufs, made) /\ bufs # <<>> /\ made + len <= MaxWritten
      BY <1>1
    <3> HIDE DEF bufs
    <3> QED BY <3>1, <2>3, <2>4, <2>5, QueuedFill
  <2>7. b2 \in Seq(WriteBuf)
    BY <2>6 DEF BufsOK
  <2> HIDE DEF b2, m
  <2>8. /\ U \in Writer /\ ~U.reserved /\ U.failed = V.failed /\ U.buffers = b2
        /\ U.curr = V.curr
    BY <2>1, <2>7, <1>1 DEF Writer
  <2>9. InPlace(U, c, o, m)
    BY <2>2, <2>6, <2>8 DEF InPlace, NoneEmpty, OnlyLastEmpty
  <2>10. Paired(U, c)
    BY <2>8, <1>1 DEF Paired
  <2> QED BY <1>3, <2>6, <2>8, <2>9, <2>10 DEF WriterOK, m
<1>4. V.failed \in BOOLEAN
  BY <1>1, WriterFacts
<1> QED BY <1>2, <1>3, <1>4

(* poke starts to write the first buffer where there is one. *)
LEMMA PokeOK ==
  ASSUME NEW V, NEW c, NEW o \in Seq(Nat), NEW n \in Nat, WriterOK(V, c, o, n), ~V.reserved,
         n <= MaxWritten, launch \in {"ok", "failed"}, poke(V, c)
  PROVE  /\ W' # NULL /\ WriterOK(W', wr', o, n) /\ ~W'.reserved /\ W'.failed = V.failed
         /\ launch' \in {"ok", "failed"} /\ NotForgotten(W', wr', launch')
<1>1. V \in Writer /\ Paired(V, c) /\ BufsOK(V.buffers, n)
  BY DEF WriterOK, Paired
<1>2. CASE c # NULL \/ V.buffers = <<>> \/ V.failed
  <2>1. W' = V /\ wr' = c /\ launch' = launch
    BY <1>2 DEF poke
  <2> QED BY <1>1, <1>2, <2>1, WriterNullAssumption DEF NotForgotten
<1>3. CASE ~(c # NULL \/ V.buffers = <<>> \/ V.failed)
  <2> DEFINE bufs == V.buffers
             WB == Head(bufs)
             t == Tail(bufs)
             d == WB.data
  <2>1. c = NULL /\ bufs # <<>> /\ ~V.failed /\ V.curr = NULL
    BY <1>1, <1>3 DEF Paired
  <2>2. InPlace(V, c, o, n)
    BY <2>1 DEF WriterOK
  <2>3. /\ BufsOK(t, n) /\ Queued(t, n) /\ Before(t, 1, n) = Before(bufs, 2, n)
        /\ WB = bufs[1] /\ 1 \in 1 .. Len(bufs) /\ OnlyLastEmpty(t)
    BY <1>1, <2>1, <2>2, QueuedTail DEF InPlace
  <2>4. NoneEmpty(bufs)
    BY <2>2 DEF InPlace
  <2>5. WB \in WriteBuf /\ d \in Seq(1 .. n) /\ Len(d) \in Nat /\ Len(d) > 0
    BY <1>1, <2>3, <2>4, BufFacts DEF NoneEmpty
  <2>6. NoneEmpty(t)
    <3>1. V.buffers \in Seq(WriteBuf) /\ Len(bufs) \in Nat
      BY <1>1, WriterFacts
    <3>2. Len(t) = Len(bufs) - 1 /\ \A i \in 1 .. Len(t) : t[i] = bufs[i + 1]
      BY <3>1, <2>1, HeadTailProperties
    <3>3. \A i \in 1 .. Len(t) : i + 1 \in 1 .. Len(bufs)
      BY <3>1, <3>2
    <3> QED BY <2>4, <3>2, <3>3 DEF NoneEmpty
  <2>7. Len(o) = Before(bufs, 1, n) /\ Len(o) \in Nat
    BY <2>1, <2>2, LenProperties DEF InPlace
  <2>8. Run(d, Len(o)) /\ Len(o) + Len(d) = Before(t, 1, n)
    <3>1. DOMAIN bufs = 1 .. Len(bufs)
      BY <1>1, WriterFacts, LenProperties
    <3>2. Run(bufs[1].data, Before(bufs, 1, n))
          /\ Before(bufs, 1, n) + Len(bufs[1].data) = Before(bufs, 1 + 1, n)
      BY <2>2, <2>3, <3>1 DEF InPlace, Queued
    <3> QED BY <2>3, <2>7, <3>2
  <2>9. CASE /\ network_write(d, Len(d))
             /\ W' = [V EXCEPT !.curr = WB, !.buffers = t]
             /\ launch' = IF NonEmpty(d) THEN "ok" ELSE "empty"
    <3> HIDE DEF WB, t
    <3>1. wr' = [buf |-> d, minlen |-> Len(d), bufpos |-> 0] /\ launch' = "ok"
      BY <2>5, <2>9 DEF network_write, NonEmpty
    <3>2. d \in Seq(1 .. MaxWritten) /\ t \in Seq(WriteBuf)
      BY <2>3, <2>5 DEF WriteBuf, BufsOK
    <3>3. /\ W' \in Writer /\ ~W'.reserved /\ ~W'.failed /\ W'.buffers = t /\ W'.curr = WB
      BY <1>1, <2>1, <2>5, <2>9, <3>2 DEF Writer
    <3> HIDE DEF d
    <3>4. wr' \in WriteCookie /\ wr'.buf = d /\ wr'.minlen = Len(d) /\ wr'.bufpos = 0
      BY <2>5, <3>1, <3>2 DEF WriteCookie
    <3>5. wr' # NULL /\ W'.curr # NULL /\ W' # NULL
      BY <2>5, <3>3, <3>4, WriterNullAssumption
    <3>6. Paired(W', wr')
      BY <2>5, <3>3, <3>4, <3>5 DEF Paired, d
    <3>7. InPlace(W', wr', o, n)
      BY <2>3, <2>6, <2>7, <2>8, <3>3, <3>4, <3>5 DEF InPlace
    <3>8. NotForgotten(W', wr', launch')
      BY <3>5 DEF NotForgotten
    <3>9. BufsOK(W'.buffers, n)
      BY <2>3, <3>3
    <3>10. V.failed \in BOOLEAN /\ W'.failed \in BOOLEAN
      BY <1>1, <3>3, WriterFacts
    <3>11. WriterOK(W', wr', o, n)
      BY <3>6, <3>7, <3>9 DEF WriterOK
    <3> QED BY <2>1, <3>1, <3>3, <3>5, <3>8, <3>10, <3>11
  <2>10. CASE wr' = NULL /\ W' = V /\ launch' = "failed"
    BY <1>1, <2>1, <2>10, WriterNullAssumption DEF NotForgotten
  <2> QED BY <1>3, <2>9, <2>10 DEF poke
<1> QED BY <1>2, <1>3

(* What WriteIInv says of a writer that exists. *)
LEMMA WriteIInvFacts ==
  ASSUME WriteIInv, W # NULL
  PROVE  /\ WriterOK(W, wr, out, made) /\ W \in Writer /\ Paired(W, wr) /\ BufsOK(W.buffers, made)
         /\ made \in Nat /\ made <= MaxWritten /\ out \in Seq(Nat) /\ Len(out) \in Nat
         /\ W.failed \in BOOLEAN
         /\ ~W.reserved => space = NULL
<1>1. WriterOK(W, wr, out, made) /\ made \in 0 .. MaxWritten /\ out \in Seq(Nat)
  BY DEF WriteIInv
<1>2. W \in Writer /\ Paired(W, wr) /\ BufsOK(W.buffers, made)
  BY <1>1 DEF WriterOK, Paired
<1>3. Len(out) \in Nat
  BY <1>1, LenProperties
<1>4. ~W.reserved => space = NULL
  BY DEF WriteIInv, HasSpace
<1>5. W.failed \in BOOLEAN
  BY <1>2, WriterFacts
<1> QED BY <1>1, <1>2, <1>3, <1>4, <1>5, NetbufWriteAssumption

LEMMA WriteReserveOK ==
  ASSUME WriteIInv, NEW len \in WriteLens, netbuf_write_reserve(len)
  PROVE  WriteIInv'
<1> USE NetbufWriteAssumption
<1>1. /\ W # NULL /\ ~W.reserved /\ W' = Reserved(W, len) /\ space' = len
      /\ wr' = wr /\ out' = out /\ fcalls' = fcalls /\ made' = made /\ launch' = launch
  BY DEF netbuf_write_reserve
<1>2. len \in Nat
  OBVIOUS
<1>3. WriterOK(W', wr, out, made) /\ HasSpace(W', len) /\ W'.failed = W.failed
  BY <1>1, <1>2, WriteIInvFacts, ReservedOK
<1>4. NotForgotten(W', wr, launch)
  BY <1>3 DEF NotForgotten, HasSpace
<1>5. W' # NULL
  BY <1>3, WriterNullAssumption DEF WriterOK, Paired
<1>6. fcalls = (IF W'.failed THEN 1 ELSE 0)
  BY <1>1, <1>3 DEF WriteIInv
<1> QED BY <1>1, <1>3, <1>4, <1>5, <1>6 DEF WriteIInv

LEMMA WriteReserveFailsOK ==
  ASSUME WriteIInv, netbuf_write_reserve_fails
  PROVE  WriteIInv'
<1>1. /\ W # NULL /\ ~W.reserved /\ W' = [W EXCEPT !.reserved = TRUE]
      /\ wr' = wr /\ out' = out /\ fcalls' = fcalls /\ made' = made /\ launch' = launch
      /\ space' = space
  BY DEF netbuf_write_reserve_fails
<1>2. /\ W' \in Writer /\ W'.reserved /\ W'.failed = W.failed /\ W'.buffers = W.buffers
      /\ W'.curr = W.curr
  BY <1>1, WriteIInvFacts DEF Writer
<1>3. Paired(W', wr)
  BY <1>1, <1>2, WriteIInvFacts DEF Paired
<1>4. InPlace(W, wr, out, made) => InPlace(W', wr, out, made)
  BY <1>2 DEF InPlace
<1>5. WriterOK(W', wr, out, made)
  BY <1>1, <1>2, <1>3, <1>4, WriteIInvFacts DEF WriterOK
<1>6. W' # NULL /\ space = NULL /\ NotForgotten(W', wr, launch)
  BY <1>1, <1>2, WriteIInvFacts, WriterNullAssumption DEF NotForgotten
<1>7. fcalls = (IF W'.failed THEN 1 ELSE 0)
  BY <1>1, <1>2 DEF WriteIInv
<1> QED BY <1>1, <1>5, <1>6, <1>7 DEF WriteIInv

(* The end of netbuf_write_consume and netbuf_write_write. *)
LEMMA ConsumeOK ==
  ASSUME WriteIInv, W # NULL, NEW V, WriterOK(V, wr, out, made), V.failed = W.failed,
         NEW len \in Nat \ {0}, HasSpace(V, len), made + len <= MaxWritten,
         poke(Consumed(V, len), wr), space' = NULL,
         made' = (IF V.failed THEN made ELSE made + len), out' = out, fcalls' = fcalls
  PROVE  WriteIInv'
<1> DEFINE U == Consumed(V, len)
<1>1. made \in Nat /\ made <= MaxWritten /\ out \in Seq(Nat) /\ Len(out) \in Nat
  BY WriteIInvFacts
<1>2. /\ WriterOK(U, wr, out, made') /\ ~U.reserved /\ U.failed = V.failed
  BY <1>1, ConsumedOK
<1>3. poke(U, wr) /\ launch \in {"ok", "failed"}
  BY DEF WriteIInv
<1>4. made' \in Nat /\ made' <= MaxWritten /\ made <= made'
  BY <1>1
<1> HIDE DEF U
<1>5. /\ W' # NULL /\ WriterOK(W', wr', out, made') /\ ~W'.reserved /\ W'.failed = U.failed
      /\ launch' \in {"ok", "failed"} /\ NotForgotten(W', wr', launch')
  BY <1>1, <1>2, <1>3, <1>4, PokeOK
<1>6. fcalls = (IF W'.failed THEN 1 ELSE 0) /\ fcalls \in Nat
  BY <1>2, <1>5 DEF WriteIInv
<1>7. Run(out, 0) /\ Len(out) <= made'
  <2>1. Run(out, 0) /\ Len(out) <= made
    BY DEF WriteIInv
  <2> QED BY <1>1, <1>4, <2>1
<1>8. made' \in 0 .. MaxWritten
  BY <1>1, <1>4, NetbufWriteAssumption
<1> QED BY <1>1, <1>5, <1>6, <1>7, <1>8 DEF WriteIInv

LEMMA WriteConsumeOK ==
  ASSUME WriteIInv, 0 \notin WriteLens, NEW len \in WriteLens, netbuf_write_consume(len)
  PROVE  WriteIInv'
<1> USE NetbufWriteAssumption
<1>1. /\ W # NULL /\ W.reserved /\ space # NULL /\ len <= space /\ made + len <= MaxWritten
      /\ poke(Consumed(W, len), wr) /\ space' = NULL
      /\ made' = (IF W.failed THEN made ELSE made + len) /\ out' = out /\ fcalls' = fcalls
  BY DEF netbuf_write_consume
<1>2. len \in Nat \ {0} /\ space \in Nat
  BY <1>1 DEF WriteIInv
<1>3. WriterOK(W, wr, out, made) /\ W \in Writer /\ BufsOK(W.buffers, made) /\ made \in Nat
  BY <1>1, WriteIInvFacts
<1>4. HasSpace(W, space)
  BY <1>1 DEF WriteIInv
<1>5. HasSpace(W, len)
  <2>1. Len(W.buffers) \in 1 .. Len(W.buffers)
    BY <1>3, <1>4, WriterFacts DEF HasSpace
  <2>2. LastBuf(W).buflen \in Nat /\ Len(LastBuf(W).data) \in Nat
    BY <1>3, <2>1, BufFacts DEF LastBuf
  <2> QED BY <1>1, <1>2, <1>4, <2>2 DEF HasSpace
<1> QED BY <1>1, <1>2, <1>3, <1>5, ConsumeOK

LEMMA WriteWriteOK ==
  ASSUME WriteIInv, 0 \notin WriteLens, NEW len \in WriteLens, netbuf_write_write(len)
  PROVE  WriteIInv'
<1> USE NetbufWriteAssumption
<1> DEFINE V == Reserved(W, len)
<1>1. /\ W # NULL /\ ~W.reserved /\ ~W.failed /\ made + len <= MaxWritten
      /\ poke(Consumed(V, len), wr) /\ space' = space
      /\ made' = made + len /\ out' = out /\ fcalls' = fcalls
  BY DEF netbuf_write_write
<1>2. len \in Nat \ {0}
  OBVIOUS
<1>3. WriterOK(W, wr, out, made) /\ made \in Nat /\ space = NULL
  BY <1>1, WriteIInvFacts
<1>4. WriterOK(V, wr, out, made) /\ HasSpace(V, len) /\ V.failed = W.failed
  BY <1>1, <1>2, <1>3, ReservedOK
<1> HIDE DEF V
<1>5. made' = IF V.failed THEN made ELSE made + len
  BY <1>1, <1>4
<1> QED BY <1>1, <1>2, <1>3, <1>4, <1>5, ConsumeOK

LEMMA WriteFreeOK ==
  ASSUME WriteIInv, netbuf_write_free
  PROVE  WriteIInv'
BY DEF WriteIInv, netbuf_write_free, network_write_cancel

(* What is left of the buffer being written follows what was sent. *)
LEMMA CookieFacts ==
  ASSUME WriteIInv, W # NULL, wr # NULL
  PROVE  /\ wr \in WriteCookie /\ wr.bufpos \in Nat /\ wr.minlen = Len(wr.buf)
         /\ Len(wr.buf) \in Nat /\ wr.bufpos < Len(wr.buf)
         /\ \A j \in 1 .. Len(wr.buf) : wr.buf[j] \in Nat /\ wr.buf[j] = Len(out) - wr.bufpos + j
         /\ W.curr \in WriteBuf /\ W.curr.data = wr.buf /\ ~W.failed
         /\ InPlace(W, wr, out, made)
         /\ Len(out) - wr.bufpos >= 0
         /\ Before(W.buffers, 1, made) \in 0 .. made
         /\ Len(out) - wr.bufpos + Len(wr.buf) = Before(W.buffers, 1, made)
         /\ Len(wr.buf) <= MaxWritten
<1> USE NetbufWriteAssumption
<1>1. /\ WriterOK(W, wr, out, made) /\ W \in Writer /\ Paired(W, wr) /\ BufsOK(W.buffers, made)
      /\ made \in Nat /\ made <= MaxWritten /\ Len(out) \in Nat
  BY WriteIInvFacts
<1>2. /\ wr \in WriteCookie /\ wr.minlen = Len(wr.buf) /\ wr.bufpos < wr.minlen
      /\ W.curr # NULL /\ W.curr.data = wr.buf /\ ~W.failed
  BY <1>1 DEF Paired
<1>3. wr.buf \in Seq(1 .. MaxWritten) /\ wr.bufpos \in Nat
  BY <1>2 DEF WriteCookie
<1>4. Len(wr.buf) \in Nat /\ \A j \in 1 .. Len(wr.buf) : wr.buf[j] \in 1 .. MaxWritten
  BY <1>3, LenProperties, ElementOfSeq
<1>5. W.curr \in WriteBuf
  BY <1>1, <1>2, WriterFacts
<1>6. InPlace(W, wr, out, made)
  BY <1>1, <1>2 DEF WriterOK
<1>7. /\ \A j \in 1 .. Len(wr.buf) : wr.buf[j] = Len(out) - wr.bufpos + j
      /\ Len(out) - wr.bufpos + Len(wr.buf) = Before(W.buffers, 1, made)
  BY <1>6 DEF InPlace, Run
<1>8. Before(W.buffers, 1, made) \in 0 .. made
  BY <1>1, BeforeBound
<1>9. Len(out) - wr.bufpos >= 0
  <2>1. 1 \in 1 .. Len(wr.buf)
    BY <1>2, <1>3, <1>4
  <2>2. wr.buf[1] >= 1 /\ wr.buf[1] = Len(out) - wr.bufpos + 1
    BY <1>4, <1>7, <2>1
  <2> QED BY <1>1, <1>3, <2>2
<1>10. Len(wr.buf) <= MaxWritten
  BY <1>1, <1>3, <1>4, <1>7, <1>8, <1>9
<1> QED BY <1>2, <1>3, <1>4, <1>5, <1>6, <1>7, <1>8, <1>9, <1>10

(* send sends the next bytes of the stream. *)
LEMMA SendOK ==
  ASSUME WriteIInv, W # NULL, wr # NULL, NEW len, send(len)
  PROVE  /\ len \in Nat /\ len <= Len(wr.buf) - wr.bufpos
         /\ out' \in Seq(Nat) /\ Len(out') = Len(out) + len
         /\ Run(out', 0) /\ Len(out') <= made
<1> DEFINE bp == wr.bufpos
           b == wr.buf
           s == SubSeq(b, bp + 1, bp + len)
<1>1. len \in 1 .. Len(b) - bp /\ out' = out \o s
  BY DEF send
<1>2. /\ bp \in Nat /\ Len(b) \in Nat /\ made \in Nat /\ out \in Seq(Nat) /\ Len(out) \in Nat
      /\ \A j \in 1 .. Len(b) : b[j] \in Nat /\ b[j] = Len(out) - bp + j
      /\ Len(out) - bp + Len(b) <= made
  BY CookieFacts, WriteIInvFacts
<1> HIDE DEF bp, b
<1>3. len \in Nat \ {0} /\ bp + len <= Len(b)
  <2>1. len \in 1 .. Len(b) - bp /\ bp \in Nat /\ Len(b) \in Nat
    BY <1>1, <1>2
  <2> QED BY ONLY <2>1
<1>4. /\ s \in Seq(Nat) /\ Len(s) = len
      /\ \A i \in 1 .. len : s[i] = b[bp + i]
  <2>1. \A i \in bp + 1 .. bp + len : b[i] \in Nat
    BY <1>2, <1>3
  <2>2. /\ s \in Seq(Nat) /\ Len(s) = IF bp + 1 <= bp + len THEN bp + len - (bp + 1) + 1 ELSE 0
        /\ \A i \in 1 .. bp + len - (bp + 1) + 1 : s[i] = b[bp + 1 + i - 1]
    BY <1>2, <1>3, <2>1, SubSeqProperties
  <2> HIDE DEF s
  <2> QED BY <1>2, <1>3, <2>2
<1> HIDE DEF s
<1>5. Run(s, Len(out))
  <2> SUFFICES ASSUME NEW j \in 1 .. len PROVE s[j] = Len(out) + j
    BY <1>4 DEF Run
  <2>1. bp + j \in 1 .. Len(b)
    BY <1>2, <1>3
  <2>2. b[bp + j] = Len(out) - bp + (bp + j)
    BY <1>2, <2>1
  <2> QED BY <1>2, <1>3, <1>4, <2>2
<1>6. Run(out, 0) /\ 0 + Len(out) = Len(out) /\ 0 \in Int
  BY <1>2 DEF WriteIInv
<1>7. out \o s \in Seq(Nat) /\ Len(out \o s) = Len(out) + Len(s) /\ Run(out \o s, 0)
  BY ONLY <1>2, <1>4, <1>5, <1>6, RunConcat
<1>8. Len(out) + len <= made
  BY <1>2, <1>3
<1> QED BY <1>1, <1>3, <1>4, <1>7, <1>8, <1>2 DEF bp, b

(* writbuf is called after a reservation failed: its assertion fails. *)
LEMMA WritbufAbortsOK ==
  ASSUME WriteIInv, W # NULL, W.reserved, NEW given, writbuf(given),
         out' \in Seq(Nat), Run(out', 0), Len(out') <= made
  PROVE  WriteIInv'
<1>1. /\ W' = NULL /\ wr' = NULL /\ launch' = "abort"
      /\ fcalls' = fcalls /\ space' = space /\ made' = made
  BY DEF writbuf
<1>2. /\ made \in 0 .. MaxWritten /\ space \in WriteLens \cup {NULL} /\ fcalls \in Nat
  BY DEF WriteIInv
<1> QED BY <1>1, <1>2 DEF WriteIInv

(* writbuf is told of a failure: nothing is sent after it. *)
LEMMA WritbufFailsOK ==
  ASSUME WriteIInv, W # NULL, ~W.reserved, wr # NULL, writbuf(-1),
         out' \in Seq(Nat), Run(out', 0), Len(out') <= made
  PROVE  WriteIInv'
<1>1. -1 # Len(W.curr.data)
  BY CookieFacts
<1>2. /\ W' = [W EXCEPT !.curr = NULL, !.failed = TRUE] /\ wr' = NULL
      /\ fcalls' = fcalls + 1 /\ launch' = launch /\ space' = space /\ made' = made
  BY <1>1 DEF writbuf
<1>3. W \in Writer /\ BufsOK(W.buffers, made) /\ space = NULL /\ ~W.failed
  BY WriteIInvFacts, CookieFacts
<1>4. W' \in Writer /\ W'.failed /\ W'.buffers = W.buffers /\ W'.curr = NULL
  BY <1>2, <1>3 DEF Writer
<1>5. WriterOK(W', NULL, out', made)
  BY <1>3, <1>4 DEF WriterOK, Paired
<1>6. fcalls' = 1
  BY <1>2, <1>3 DEF WriteIInv
<1>7. W' # NULL /\ NotForgotten(W', NULL, launch)
  BY <1>4, WriterNullAssumption DEF NotForgotten
<1> QED BY <1>2, <1>3, <1>4, <1>5, <1>6, <1>7 DEF WriteIInv

(* writbuf is told that the whole buffer was written: the next one follows. *)
LEMMA WritbufOK ==
  ASSUME WriteIInv, W # NULL, ~W.reserved, wr # NULL, writbuf(Len(wr.buf)),
         out' \in Seq(Nat), Run(out', 0), Len(out') <= made,
         Len(out') = Len(out) - wr.bufpos + Len(wr.buf)
  PROVE  WriteIInv'
<1> DEFINE V == [W EXCEPT !.curr = NULL]
<1>1. /\ poke(V, NULL) /\ fcalls' = fcalls /\ space' = space /\ made' = made
  BY CookieFacts DEF writbuf
<1>2. /\ W \in Writer /\ BufsOK(W.buffers, made) /\ space = NULL /\ ~W.failed
      /\ InPlace(W, wr, out, made) /\ made \in Nat /\ made <= MaxWritten
      /\ Len(out') = Before(W.buffers, 1, made)
  BY WriteIInvFacts, CookieFacts
<1>3. V \in Writer /\ ~V.failed /\ V.buffers = W.buffers /\ V.curr = NULL /\ ~V.reserved
  BY <1>2 DEF Writer
<1> HIDE DEF V
<1>4. InPlace(V, NULL, out', made)
  BY <1>2, <1>3 DEF InPlace
<1>5. WriterOK(V, NULL, out', made)
  BY <1>2, <1>3, <1>4 DEF WriterOK, Paired
<1>6. /\ W' # NULL /\ WriterOK(W', wr', out', made) /\ ~W'.reserved /\ W'.failed = V.failed
      /\ launch' \in {"ok", "failed"} /\ NotForgotten(W', wr', launch')
  <2>1. launch \in {"ok", "failed"}
    BY DEF WriteIInv
  <2> QED BY <1>1, <1>2, <1>3, <1>5, <2>1, PokeOK
<1>7. fcalls = 0 /\ ~W'.failed
  BY <1>2, <1>3, <1>6 DEF WriteIInv
<1>8. made \in 0 .. MaxWritten /\ space \in WriteLens \cup {NULL} /\ fcalls \in Nat
  BY DEF WriteIInv
<1> QED BY <1>1, <1>2, <1>6, <1>7, <1>8 DEF WriteIInv

LEMMA WriteLoopOK ==
  ASSUME WriteIInv, WriteLoop
  PROVE  WriteIInv'
<1> USE NetbufWriteAssumption
<1>1. PICK given \in {NULL} \cup -1 .. MaxWritten :
        /\ callback_buf_write(given)
        /\ IF given = NULL THEN UNCHANGED <<W, space, fcalls, made, launch>> ELSE writbuf(given)
  BY DEF WriteLoop
<1>2. W # NULL /\ wr # NULL
  BY <1>1 DEF WriteLoop, callback_buf_write
<1>3. /\ Len(wr.buf) \in Nat /\ Len(wr.buf) <= MaxWritten /\ wr.bufpos \in Nat
      /\ wr.minlen = Len(wr.buf) /\ wr.bufpos < Len(wr.buf) /\ wr \in WriteCookie
      /\ Len(out) \in Nat
  BY <1>2, CookieFacts, WriteIInvFacts
<1>4. -1 # NULL /\ Len(wr.buf) # NULL
  BY <1>3
<1>5. out \in Seq(Nat) /\ Run(out, 0) /\ Len(out) <= made
  BY DEF WriteIInv
<1>6. CASE given = NULL /\ UNCHANGED <<out, wr>>
  <2>1. UNCHANGED <<wr, out, W, space, fcalls, made, launch>>
    BY <1>1, <1>6
  <2> QED BY <2>1 DEF WriteIInv
<1>7. CASE UNCHANGED out /\ docallback_write(given, -1)
  <2>1. given = -1 /\ writbuf(-1)
    BY <1>1, <1>4, <1>7 DEF docallback_write
  <2>2. out' \in Seq(Nat) /\ Run(out', 0) /\ Len(out') <= made
    BY <1>5, <1>7
  <2>3. CASE W.reserved
    BY <1>2, <2>1, <2>2, <2>3, WritbufAbortsOK
  <2>4. CASE ~W.reserved
    BY <1>2, <2>1, <2>2, <2>4, WritbufFailsOK
  <2> QED BY <2>3, <2>4
<1>8. ASSUME NEW len \in 1 .. Len(wr.buf), send(len),
             LET bufpos == wr.bufpos + len
             IN \/ bufpos < wr.minlen /\ given = NULL /\ wr' = [wr EXCEPT !.bufpos = bufpos]
                \/ bufpos < wr.minlen /\ docallback_write(given, -1)
                \/ bufpos >= wr.minlen /\ docallback_write(given, bufpos)
      PROVE  WriteIInv'
  <2> DEFINE bufpos == wr.bufpos + len
  <2>1. /\ len \in Nat /\ len <= Len(wr.buf) - wr.bufpos
        /\ out' \in Seq(Nat) /\ Len(out') = Len(out) + len
        /\ Run(out', 0) /\ Len(out') <= made
    BY <1>2, <1>8, SendOK
  <2>2. CASE bufpos < wr.minlen /\ given = NULL /\ wr' = [wr EXCEPT !.bufpos = bufpos]
    <3>1. UNCHANGED <<W, space, fcalls, made, launch>>
      BY <1>1, <2>2
    <3>0. bufpos \in Nat
      BY <1>3, <2>1
    <3> HIDE DEF bufpos
    <3>2. /\ wr' \in WriteCookie /\ wr'.buf = wr.buf /\ wr'.minlen = wr.minlen
          /\ wr'.bufpos = bufpos /\ wr'.bufpos < wr'.minlen /\ wr' # NULL
      <4>1. wr' \in WriteCookie /\ wr'.buf = wr.buf /\ wr'.minlen = wr.minlen /\ wr'.bufpos = bufpos
        BY <1>3, <2>2, <3>0 DEF WriteCookie
      <4> QED BY <4>1, <2>2, WriterNullAssumption
    <3>3. Len(out') - wr'.bufpos = Len(out) - wr.bufpos
      BY <1>3, <2>1, <3>2 DEF bufpos
    <3>4. InPlace(W, wr', out', made)
      BY <1>2, <3>2, <3>3, CookieFacts DEF InPlace
    <3>5. Paired(W, wr')
      BY <1>2, <3>2, WriteIInvFacts DEF Paired
    <3>6. WriterOK(W, wr', out', made)
      BY <1>2, <3>4, <3>5, WriteIInvFacts DEF WriterOK
    <3>7. NotForgotten(W, wr', launch)
      BY <3>2 DEF NotForgotten
    <3> QED BY <1>2, <2>1, <3>1, <3>6, <3>7 DEF WriteIInv
  <2>3. CASE bufpos < wr.minlen /\ docallback_write(given, -1)
    <3>1. given = -1 /\ writbuf(-1)
      BY <1>1, <1>4, <2>3 DEF docallback_write
    <3>2. CASE W.reserved
      BY <1>2, <2>1, <3>1, <3>2, WritbufAbortsOK
    <3>3. CASE ~W.reserved
      BY <1>2, <2>1, <3>1, <3>3, WritbufFailsOK
    <3> QED BY <3>2, <3>3
  <2>4. CASE bufpos >= wr.minlen /\ docallback_write(given, bufpos)
    <3>1. bufpos = Len(wr.buf) /\ Len(out') = Len(out) - wr.bufpos + Len(wr.buf)
      <4> DEFINE L == Len(wr.buf)
                 p == wr.bufpos
                 o == Len(out)
                 o2 == Len(out')
      <4>1. /\ p \in Nat /\ L \in Nat /\ len \in Nat /\ o \in Nat /\ len <= L - p /\ p + len >= L
            /\ o2 = o + len
        BY <1>3, <2>1, <2>4
      <4> HIDE DEF L, p, o, o2
      <4>2. p + len = L /\ o2 = o - p + L
        BY ONLY <4>1
      <4> QED BY <4>2 DEF L, p, o, o2
    <3>2. writbuf(Len(wr.buf))
      BY <1>1, <1>4, <2>4, <3>1 DEF docallback_write
    <3>3. CASE W.reserved
      BY <1>2, <2>1, <3>2, <3>3, WritbufAbortsOK
    <3>4. CASE ~W.reserved
      BY <1>2, <2>1, <3>1, <3>2, <3>4, WritbufOK
    <3> QED BY <3>3, <3>4
  <2> QED BY <1>8, <2>2, <2>3, <2>4
<1> QED BY <1>1, <1>6, <1>7, <1>8 DEF callback_buf_write

LEMMA WriteNextOK ==
  ASSUME 0 \notin WriteLens
  PROVE  WriteIInv /\ [WriteNext]_writevars => WriteIInv'
<1> SUFFICES ASSUME WriteIInv, [WriteNext]_writevars PROVE WriteIInv'
  OBVIOUS
<1>1. CASE WriteClient
  BY <1>1, WriteReserveOK, WriteReserveFailsOK, WriteConsumeOK, WriteWriteOK, WriteFreeOK
     DEF WriteClient
<1>2. CASE WriteLoop
  BY <1>2, WriteLoopOK
<1>3. CASE UNCHANGED writevars
  BY <1>3 DEF writevars, WriteIInv
<1> QED BY <1>1, <1>2, <1>3 DEF WriteNext

LEMMA WriteIInvImplies == WriteIInv => WriteInOrder
<1> SUFFICES ASSUME WriteIInv PROVE WriteInOrder
  OBVIOUS
<1>1. /\ Run(out, 0) /\ Len(out) <= made /\ launch # "empty"
  BY DEF WriteIInv
<1>2. CASE W = NULL
  BY <1>1, <1>2 DEF WriteIInv, WriteInOrder, NetbufWriteTypeOK, WriterConsistent
<1>3. CASE W # NULL
  <2>1. /\ WriterOK(W, wr, out, made) /\ W \in Writer /\ Paired(W, wr) /\ BufsOK(W.buffers, made)
    BY <1>3, WriteIInvFacts
  <2>2. NetbufWriteTypeOK
    BY <2>1 DEF WriteIInv, Paired, NetbufWriteTypeOK
  <2>3. DOMAIN W.buffers = 1 .. Len(W.buffers)
    BY <2>1, WriterFacts, LenProperties
  <2>4. \A i \in DOMAIN W.buffers : Len(W.buffers[i].data) <= W.buffers[i].buflen
    BY <2>1, <2>3 DEF BufsOK
  <2>5. WriterConsistent
    <3>1. /\ fcalls = (IF W.failed THEN 1 ELSE 0)
          /\ space # NULL => HasSpace(W, space)
          /\ NotForgotten(W, wr, launch)
      BY <1>3 DEF WriteIInv
    <3>2. (wr = NULL) = (W.curr = NULL)
      BY <2>1, Zenon DEF Paired
    <3>3. wr # NULL => /\ wr.buf = W.curr.data /\ wr.minlen = Len(wr.buf)
                       /\ wr.bufpos < wr.minlen /\ ~W.failed
      BY <2>1 DEF Paired
    <3> QED BY <1>1, <2>4, <3>1, <3>2, <3>3 DEF WriterConsistent, HasSpace, NotForgotten
  <2> QED BY <1>1, <2>1, <2>2, <2>5 DEF WriteInOrder, WriterOK, InPlace
<1> QED BY <1>2, <1>3

(* What the buffered writer sends is the stream that clients wrote, in      *)
(* order and complete up to the first failure, whatever the sizes of the    *)
(* buffers, however the bytes are reserved and however few of them send     *)
(* accepts; it fails once, curr and write_cookie agree as it asserts, and   *)
(* it forgets no data.  (The assertion of writbuf that no space is reserved *)
(* does fail after a failed reservation; the program ends there.)  The      *)
(* hypothesis is the client's obligation: network_write asserts that it is  *)
(* given something to write, and netbuf_write hands it whatever a           *)
(* reservation was consumed for.                                            *)
THEOREM WriterCorrect ==
  ASSUME 0 \notin WriteLens
  PROVE  WriteSpec => []WriteInOrder
BY WriteInitOK, WriteNextOK, WriteIInvImplies, PTL DEF WriteSpec
==============================================================================
