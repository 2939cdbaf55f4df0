---------------------------- MODULE NetworkAccept ----------------------------
(***************************************************************************)
(* Accepting connections (network/network_accept.c).  The event sources    *)
(* appear as in NetworkConnect: a registered event runs at most once, one  *)
(* at a time.                                                              *)
(***************************************************************************)
EXTENDS Null, Naturals

CONSTANTS
  AcceptCookies,  \* the accept_cookie structures
  ListenFds       \* the listening sockets

ASSUME AcceptAssumption == NULL \notin AcceptCookies

VARIABLES
  fd,       \* the listening socket of each allocated cookie
  reader,   \* who waits for each socket to become readable, or NULL
  acalling   \* the cookie whose upstream callback is under way, or NULL

acceptvars == <<fd, reader, acalling>>

Accepting == DOMAIN fd \ {acalling}

AcceptTypeOK ==
  /\ DOMAIN fd \subseteq AcceptCookies
  /\ \A x \in DOMAIN fd : fd[x] \in ListenFds
  /\ reader \in [ListenFds -> AcceptCookies \cup {NULL}]
  /\ acalling \in DOMAIN fd \cup {NULL}

AcceptInit ==
  /\ fd = [x \in {} |-> NULL]
  /\ reader = [f \in ListenFds |-> NULL]
  /\ acalling = NULL

FreeCookie(x) == fd' = [y \in DOMAIN fd \ {x} |-> fd[y]]
----------------------------------------------------------------------------
(* network_accept.  If it fails, which it does when somebody waits for the  *)
(* socket already, it leaves nothing behind.                                *)
network_accept(x, f) ==
  /\ x \notin DOMAIN fd
  /\ reader[f] = NULL
  /\ fd' = [y \in DOMAIN fd \cup {x} |-> IF y = x THEN f ELSE fd[y]]
  /\ reader' = [reader EXCEPT ![f] = x]
  /\ UNCHANGED acalling

(* network_accept_cancel *)
network_accept_cancel(x) ==
  /\ x \in Accepting
  /\ reader' = [reader EXCEPT ![fd[x]] = NULL]
  /\ FreeCookie(x)
  /\ UNCHANGED acalling

(* callback_accept, run by the loop for the event of f.  accept has given a *)
(* connection or failed: the upstream callback is called.                   *)
callback_accept(f) ==
  /\ acalling = NULL
  /\ reader[f] # NULL
  /\ acalling' = reader[f]
  /\ reader' = [reader EXCEPT ![f] = NULL]
  /\ UNCHANGED fd

(* There was no connection after all: the event is registered again, with   *)
(* nothing changed, or that fails, and the loop is told so.                 *)
callback_accept_tryagain(f) ==
  /\ acalling = NULL
  /\ reader[f] # NULL
  /\ \/ UNCHANGED reader
     \/ reader' = [reader EXCEPT ![f] = NULL]
  /\ UNCHANGED <<fd, acalling>>

(* Mutant: the cookie is not freed. *)
callback_accept_return_leaks ==
  /\ acalling # NULL
  /\ acalling' = NULL
  /\ UNCHANGED <<fd, reader>>

(* The upstream callback returns and the cookie is freed. *)
callback_accept_return ==
  /\ acalling # NULL
  /\ FreeCookie(acalling)
  /\ acalling' = NULL
  /\ UNCHANGED reader

AcceptNext ==
  \/ \E x \in AcceptCookies : network_accept_cancel(x) \/ \E f \in ListenFds : network_accept(x, f)
  \/ \E f \in ListenFds : callback_accept(f) \/ callback_accept_tryagain(f)
  \/ callback_accept_return

AcceptSpec == AcceptInit /\ [][AcceptNext]_acceptvars
----------------------------------------------------------------------------
(* No request ends with two callbacks, or with one after its cancellation. *)
AcceptPromise == INSTANCE Request WITH
  Cookies <- AcceptCookies, waiting <- Accepting, calling <- acalling
AcceptOneCallback == []AcceptTypeOK /\ AcceptPromise!Spec

(* network.h: "When a connection has been accepted or an error occurs,      *)
(* invoke ${callback}(${cookie}, s)": a request that has not been called    *)
(* back is still waiting for its event.                                     *)
ErrorCallsBack ==
  \A x \in Accepting : reader[fd[x]] = x
=============================================================================
