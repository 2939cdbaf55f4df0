---------------------------- MODULE MCConnections ----------------------------
(* Connections, for TLC: how they are made and accepted, the buffered       *)
(* reader and writer over network_read and network_write, TLS, an HTTP      *)
(* request, the immediate events these register, and two processes with     *)
(* their pipe.  Each module has the ones below it as its environment        *)
(* (README.md says how they fit), so each behaviour runs one of them, and   *)
(* which says which one; the others stay in one of their initial states.    *)
EXTENDS NetworkConnect, NetworkAccept, NetbufRead, NetbufWrite, NetworkSSL, Http, IpcSync, EventsImmediate

VARIABLE which

allvars == <<which, connectvars, acceptvars, readvars, writevars, sslvars, httpvars,
             immvars, recvars, ipcvars>>

Init ==
  /\ which \in {"connect", "accept", "read", "write", "ssl", "http", "lists", "ipc"}
  /\ IF which = "http" THEN TRUE ELSE resp = CHOOSE x \in Responses : TRUE
  /\ IF which = "ipc" THEN TRUE ELSE waiter = "child"
  /\ ConnectInit /\ AcceptInit /\ ReadInit /\ WriteInit /\ SslInit /\ HttpInit
  /\ ImmStart /\ IpcInit

Next ==
  /\ UNCHANGED which
  /\ \/ which = "connect" /\ ConnectNext
     \/ which # "connect" /\ UNCHANGED connectvars
  /\ \/ which = "accept" /\ AcceptNext
     \/ which # "accept" /\ UNCHANGED acceptvars
  /\ \/ which = "read" /\ ReadNext
     \/ which # "read" /\ UNCHANGED readvars
  /\ \/ which = "write" /\ WriteNext
     \/ which # "write" /\ UNCHANGED writevars
  /\ \/ which = "ssl" /\ SslNext
     \/ which # "ssl" /\ UNCHANGED sslvars
  /\ \/ which = "http" /\ HttpNext
     \/ which # "http" /\ UNCHANGED httpvars
  /\ \/ which = "lists" /\ ImmNext
     \/ which # "lists" /\ UNCHANGED <<immvars, recvars>>
  /\ \/ which = "ipc" /\ IpcNext
     \/ which # "ipc" /\ UNCHANGED ipcvars

Spec == Init /\ [][Next]_allvars /\ ConnectFairness /\ HttpFairness /\ IpcFairness
----------------------------------------------------------------------------
(* Responses with every way to say where they end, with and without interim *)
(* responses, with bodies below, at and above the limits, and invalid ones. *)
Response(i, e, p) == [interim |-> i, enc |-> e, parts |-> p]
MCResponses ==
  {Response(i, e, p) : i \in {0, 1}, e \in {"clen", "toeof"}, p \in {<<>>, <<2>>, <<4>>, <<5>>}}
    \cup {Response(i, e, <<>>) : i \in {0, 2}, e \in {"bad", "badclen", "204", "longhdr"}}
    \cup {Response(0, e, p) : e \in {"chunked", "badchunk", "longline"},
                              p \in {<<>>, <<1, 1>>, <<2>>, <<1, 5>>, <<7>>}}

(* A chunk that, with the line end after it, does not fit the limit. *)
MCFullChunk == {Response(0, "chunked", <<4>>)}
=============================================================================
