--------------------------- MODULE EventsNetwork ---------------------------
(***************************************************************************)
(* Socket readiness events (events/events_network.c), with the start/stop  *)
(* state of the inter-select clock (events_network_selectstats.c).         *)
(*                                                                         *)
(* S and fds are the two arrays that point at each other: S is indexed by  *)
(* descriptor and holds the registered records and the position in fds;    *)
(* fds is the dense array handed to poll(2).  Both are indexed from 0, as  *)
(* in C.  The poll bits POLLIN and POLLOUT and the operations              *)
(* EVENTS_NETWORK_OP_READ and _WRITE are the members "IN" and "OUT" of     *)
(* Ops, so S[s].ev["IN"] is the source's S[s].reader; POLLERR and POLLHUP, *)
(* which the code never tells apart, are the single bit "ERR".             *)
(***************************************************************************)
EXTENDS EventRec, FiniteSets

CONSTANTS
  MaxFd,      \* descriptors are 0 .. MaxFd - 1
  InitAlloc,  \* initial length of the pollfd allocation (16 in the source)
  SIZE_MAX    \* (size_t)(-1)

ASSUME NetAssumption ==
  /\ MaxFd \in Nat \ {0}
  /\ InitAlloc \in Nat \ {0}
  /\ SIZE_MAX \in Nat
  /\ SIZE_MAX > MaxFd

VARIABLES
  inited,     \* S # NULL: init() has succeeded
  slen,       \* socketlist_getsize(S)
  S,          \* socketrec per descriptor below slen
  fds_alloc,  \* allocated length of fds
  nfds,       \* pollfd structures in use
  fds,        \* the pollfd structures below nfds
  fdscanpos,  \* position to which events_network_get has scanned
  running,    \* the inter-select clock is running
  ready       \* history: the <<descriptor, bit>> pairs poll reported

netvars == <<inited, slen, S, fds_alloc, nfds, fds, fdscanpos, running, ready>>

Fds == 0 .. (MaxFd - 1)
Ops == {"IN", "OUT"}
PollBits == Ops \cup {"ERR"}

SocketRec == [ev : [Ops -> Recs \cup {NULL}], pollpos : Nat]
PollFd == [fd : Fds, events : SUBSET Ops, revents : SUBSET PollBits]

NetTypeOK ==
  /\ inited \in BOOLEAN
  /\ slen \in 0 .. MaxFd
  /\ S \in [0 .. (slen - 1) -> SocketRec]
  /\ fds_alloc \in Nat
  /\ nfds \in Nat
  /\ fds \in [0 .. (nfds - 1) -> PollFd]
  /\ fdscanpos \in Nat
  /\ running \in BOOLEAN
  /\ ready \subseteq Fds \X PollBits

NoSocket == [ev |-> [op \in Ops |-> NULL], pollpos |-> SIZE_MAX]

(* Static storage: S = NULL, every counter 0. *)
NetInit ==
  /\ inited = FALSE
  /\ slen = 0
  /\ S = [i \in 0 .. (0 - 1) |-> NoSocket]
  /\ fds_alloc = 0
  /\ nfds = 0
  /\ fds = [j \in 0 .. (0 - 1) |-> [fd |-> 0, events |-> {}, revents |-> {}]]
  /\ fdscanpos = 0
  /\ running = FALSE
  /\ ready = {}

----------------------------------------------------------------------------
(* Unsigned decrement: 0 - 1 is (size_t)(-1). *)
Pred(n) == IF n = 0 THEN SIZE_MAX ELSE n - 1

(* What init() makes of fds_alloc and fdscanpos when it succeeds.  Its      *)
(* other assignments, an empty S and nfds = 0, change nothing: before       *)
(* initialisation S has no entries and nfds is 0 (AllocationOK).    *)
init_alloc == IF inited THEN fds_alloc ELSE InitAlloc
init_scanpos == IF inited THEN fdscanpos ELSE 0

(* init() fails before (socketlist_init, atexit) or after (malloc of fds)   *)
(* it has assigned the counters.                                            *)
init_fails ==
  /\ ~inited
  /\ \/ UNCHANGED <<fds_alloc, fdscanpos>>
     \/ fds_alloc' = InitAlloc /\ fdscanpos' = 0
  /\ UNCHANGED <<inited, slen, S, nfds, fds, running, ready, recs>>

init_succeeds ==
  inited' = TRUE

(* growsocketlist: the array as register sees it for descriptor s. *)
growsocketlist(s) ==
  IF s < slen THEN S
  ELSE [i \in 0 .. s |-> IF i < slen THEN S[i] ELSE NoSocket]

growsocketlist_len(s) == IF s < slen THEN slen ELSE s + 1

(* events_network_selectstats_startclock: reading the time may fail. *)
startclock == IF running THEN {TRUE} ELSE BOOLEAN

(* growpollfd succeeds: a pollfd for s is initialised at position nfds,     *)
(* the allocation doubling if it is full.                                   *)
growpollfd_fds(s, evs) ==
  [j \in 0 .. nfds |-> IF j = nfds
                       THEN [fd |-> s, events |-> evs, revents |-> {}]
                       ELSE fds[j]]

growpollfd_alloc ==
  IF init_alloc = nfds THEN 2 * init_alloc ELSE init_alloc

(* clearbit(pollpos, bit), on the arrays sock and pf: clear the bit in both *)
(* masks; a pollfd that waits for nothing more leaves the array, and the    *)
(* last pollfd moves into its place.                                        *)
clearbit_leaves(pf, pos, bit) == pf[pos].events \ {bit} = {}

clearbit_nfds(pf, pos, bit) ==
  IF clearbit_leaves(pf, pos, bit) THEN nfds - 1 ELSE nfds

(* Mutants: a bit stays in revents, or the moved pollfd loses its revents. *)
clearbit_fds_revents_stay(pf, pos, bit) ==
  IF clearbit_leaves(pf, pos, bit)
  THEN [j \in 0 .. (nfds - 2) |-> IF j = pos THEN pf[nfds - 1] ELSE pf[j]]
  ELSE [pf EXCEPT ![pos] = [fd |-> pf[pos].fd,
                            events |-> pf[pos].events \ {bit},
                            revents |-> pf[pos].revents]]

clearbit_fds_move_forgets(pf, pos, bit) ==
  IF clearbit_leaves(pf, pos, bit)
  THEN [j \in 0 .. (nfds - 2) |->
          IF j = pos THEN [fd |-> pf[nfds - 1].fd, events |-> pf[nfds - 1].events,
                           revents |-> {}]
          ELSE pf[j]]
  ELSE [pf EXCEPT ![pos] = [fd |-> pf[pos].fd,
                            events |-> pf[pos].events \ {bit},
                            revents |-> pf[pos].revents \ {bit}]]

clearbit_fds(pf, pos, bit) ==
  IF clearbit_leaves(pf, pos, bit)
  THEN [j \in 0 .. (nfds - 2) |-> IF j = pos THEN pf[nfds - 1] ELSE pf[j]]
  ELSE [pf EXCEPT ![pos] = [fd |-> pf[pos].fd,
                            events |-> pf[pos].events \ {bit},
                            revents |-> pf[pos].revents \ {bit}]]

(* Mutants: the moved descriptor, or the one that leaves, keeps its old     *)
(* pollpos.                                                                 *)
clearbit_S_moved_stale(sock, pf, pos, bit) ==
  IF clearbit_leaves(pf, pos, bit)
  THEN [i \in DOMAIN sock |->
          [ev |-> sock[i].ev,
           pollpos |-> IF i = pf[pos].fd THEN SIZE_MAX ELSE sock[i].pollpos]]
  ELSE sock

clearbit_S(sock, pf, pos, bit) ==
  IF clearbit_leaves(pf, pos, bit)
  THEN [i \in DOMAIN sock |->
          [ev |-> sock[i].ev,
           pollpos |-> IF i = pf[pos].fd THEN SIZE_MAX
                       ELSE IF i = pf[nfds - 1].fd THEN pos
                       ELSE sock[i].pollpos]]
  ELSE sock

(* The array S with the record of s for op replaced by x. *)
SetEvent(sock, s, op, x) ==
  [sock EXCEPT ![s] = [ev |-> [sock[s].ev EXCEPT ![op] = x],
                       pollpos |-> sock[s].pollpos]]

(* History: a report for s lasts until its event is taken or cancelled, and *)
(* an error report while s keeps an event in sock.                          *)
Forget(sock, s, op) ==
  {p \in ready : /\ p # <<s, op>>
                 /\ p[1] = s => \E o \in Ops : sock[s].ev[o] # NULL}
----------------------------------------------------------------------------
(* events_network_register(func, cookie, s, op), returning 0: x is the      *)
(* record made for (func, cookie).                                          *)
events_network_register(x, s, op) ==
  LET S1 == SetEvent(growsocketlist(s), s, op, x)
      pos == S1[s].pollpos
  IN /\ growsocketlist(s)[s].ev[op] = NULL
     /\ init_succeeds
     /\ events_mkrec(x)
     /\ slen' = growsocketlist_len(s)
     /\ running' \in IF nfds = 0 THEN startclock ELSE {running}
     /\ fdscanpos' = init_scanpos
     /\ \/ /\ pos = SIZE_MAX
           /\ S' = [S1 EXCEPT ![s] = [ev |-> S1[s].ev, pollpos |-> nfds]]
           /\ fds' = growpollfd_fds(s, {op})
           /\ nfds' = nfds + 1
           /\ fds_alloc' = growpollfd_alloc
        \/ /\ pos # SIZE_MAX
           /\ S' = S1
           /\ fds' = [fds EXCEPT ![pos] =
                        [fd |-> fds[pos].fd,
                         events |-> fds[pos].events \cup {op},
                         revents |-> fds[pos].revents]]
           /\ fds_alloc' = init_alloc
           /\ UNCHANGED nfds
     /\ UNCHANGED <<ready, r>>

(* events_network_register fails after init(): on a bad argument or when    *)
(* the socket list cannot grow; when the record exists (EEXIST) or cannot   *)
(* be allocated; or when growpollfd needs memory and gets none, in which    *)
(* case the new record is freed again.                                      *)
events_network_register_fails(s, op) ==
  /\ init_succeeds
  /\ fds_alloc' = init_alloc
  /\ fdscanpos' = init_scanpos
  /\ \/ UNCHANGED <<slen, S, running>>
     \/ /\ slen' = growsocketlist_len(s)
        /\ S' = growsocketlist(s)
        /\ UNCHANGED running
     \/ /\ growsocketlist(s)[s].ev[op] = NULL
        /\ growsocketlist(s)[s].pollpos = SIZE_MAX
        /\ init_alloc = nfds
        /\ slen' = growsocketlist_len(s)
        /\ S' = growsocketlist(s)
        /\ running' \in IF nfds = 0 THEN startclock ELSE {running}
  /\ UNCHANGED <<nfds, fds, ready, recs, r>>

(* events_network_cancel(s, op), returning 0. *)
events_network_cancel(s, op) ==
  LET S1 == SetEvent(S, s, op, NULL)
      pos == S[s].pollpos
  IN /\ inited
     /\ s < slen
     /\ S[s].ev[op] # NULL
     /\ events_freerec(S[s].ev[op])
     /\ S' = clearbit_S(S1, fds, pos, op)
     /\ fds' = clearbit_fds(fds, pos, op)
     /\ nfds' = clearbit_nfds(fds, pos, op)
     /\ running' = (running /\ nfds' # 0)
     /\ ready' = Forget(S1, s, op)
     /\ UNCHANGED <<inited, slen, fds_alloc, fdscanpos, r>>

(* events_network_cancel(s, op) fails: a bad argument or ENOENT. *)
events_network_cancel_fails(s, op) ==
  /\ s < slen => S[s].ev[op] = NULL
  /\ init_succeeds
  /\ fds_alloc' = init_alloc
  /\ fdscanpos' = init_scanpos
  /\ UNCHANGED <<slen, S, nfds, fds, running, ready, recs, r>>

(* What poll(2) may report: requested bits, and errors at any time. *)
PollResults ==
  {rev \in [0 .. (nfds - 1) -> SUBSET PollBits] :
     \A j \in 0 .. (nfds - 1) : rev[j] \subseteq fds[j].events \cup {"ERR"}}

ReportedReady(rev) ==
  {p \in Fds \X PollBits :
     \E j \in 0 .. (nfds - 1) : fds[j].fd = p[1] /\ p[2] \in rev[j]}

(* events_network_select when poll returns with rev as its result.          *)
(* selectstats_select stops the clock; it is restarted if there are events. *)
events_network_select(rev) ==
  /\ init_succeeds
  /\ fds' = [j \in 0 .. (nfds - 1) |->
               [fd |-> fds[j].fd, events |-> fds[j].events,
                revents |-> rev[j]]]
  /\ ready' = ReportedReady(rev)
  /\ running' \in IF nfds > 0 THEN BOOLEAN ELSE {FALSE}
  /\ fds_alloc' = init_alloc
  /\ fdscanpos' = Pred(nfds)
  /\ UNCHANGED <<slen, S, nfds, recs, r>>

(* poll returns -1 with EINTR while an interrupt is requested: revents      *)
(* keeps what an earlier poll wrote, and the scan restarts all the same.    *)
events_network_select_interrupted ==
  /\ init_succeeds
  /\ running' \in IF nfds > 0 THEN BOOLEAN ELSE {FALSE}
  /\ fds_alloc' = init_alloc
  /\ fdscanpos' = Pred(nfds)
  /\ UNCHANGED <<slen, S, nfds, fds, ready, recs, r>>

(* poll fails: the clock has been stopped and nothing else is touched. *)
events_network_select_fails ==
  /\ init_succeeds
  /\ running' = FALSE
  /\ fds_alloc' = init_alloc
  /\ fdscanpos' = init_scanpos
  /\ UNCHANGED <<slen, S, nfds, fds, ready, recs, r>>

(* An error or a hangup makes every requested operation of a pollfd ready. *)
ErrToOps(p) ==
  IF "ERR" \in p.revents THEN (p.revents \ {"ERR"}) \cup p.events
  ELSE p.revents

(* The positions where the scan of events_network_get can stop. *)
Hits == {j \in 0 .. (nfds - 1) : j <= fdscanpos /\ ErrToOps(fds[j]) \cap Ops # {}}

(* fds after the scan has gone down to position k. *)
Scanned(k) ==
  [j \in 0 .. (nfds - 1) |->
     IF k <= j /\ j <= fdscanpos
     THEN [fd |-> fds[j].fd, events |-> fds[j].events,
           revents |-> ErrToOps(fds[j])]
     ELSE fds[j]]

(* events_network_get stops at position k and takes the reader, or if that  *)
(* is not ready the writer, of the descriptor there.                        *)
events_network_get_hit(k) ==
  LET pf == Scanned(k)
      op == IF "IN" \in pf[k].revents THEN "IN" ELSE "OUT"
      s == pf[k].fd
  IN /\ fdscanpos < nfds
     /\ k \in Hits
     /\ \A j \in Hits : j <= k
     /\ r' = S[s].ev[op]
     /\ S' = clearbit_S(SetEvent(S, s, op, NULL), pf, k, op)
     /\ fds' = clearbit_fds(pf, k, op)
     /\ nfds' = clearbit_nfds(pf, k, op)
     /\ fdscanpos' = k
     /\ running' = (running /\ (r' = NULL \/ nfds' # 0))
     /\ ready' = Forget(SetEvent(S, s, op, NULL), s, op)
     /\ UNCHANGED <<inited, slen, fds_alloc, recs>>

(* events_network_get returns NULL: the scan position is not below nfds, or *)
(* the scan runs off the bottom of the array and wraps.                     *)
events_network_get_none ==
  /\ \/ /\ ~(fdscanpos < nfds)
        /\ UNCHANGED <<fds, fdscanpos>>
     \/ /\ fdscanpos < nfds
        /\ Hits = {}
        /\ fds' = Scanned(0)
        /\ fdscanpos' = SIZE_MAX
  /\ UNCHANGED <<inited, slen, S, fds_alloc, nfds, running, ready, recs, r>>

(* events_network_shutdown, run by atexit: S is freed if no event is left. *)
events_network_shutdown ==
  /\ inited
  /\ nfds = 0
  /\ inited' = FALSE
  /\ slen' = 0
  /\ S' = [i \in 0 .. (0 - 1) |-> NoSocket]
  /\ fds_alloc' = 0
  /\ UNCHANGED <<nfds, fds, fdscanpos, running, ready, recs, r>>
----------------------------------------------------------------------------
(* The component on its own: any client calls, one event loop that takes a  *)
(* record only when it holds none and frees it when its callback is done.   *)
NetClient ==
  \/ \E s \in Fds, op \in Ops :
       \/ \E x \in Recs : events_network_register(x, s, op)
       \/ events_network_register_fails(s, op)
       \/ events_network_cancel(s, op)
       \/ events_network_cancel_fails(s, op)
  \/ init_fails /\ UNCHANGED r
  \/ events_network_shutdown

NetLoop ==
  \/ doevent_end /\ UNCHANGED netvars
  \/ /\ r = NULL
     /\ \/ \E rev \in PollResults : events_network_select(rev)
        \/ events_network_select_interrupted
        \/ events_network_select_fails
        \/ \E k \in 0 .. (nfds - 1) : events_network_get_hit(k)
        \/ events_network_get_none

NetStart == NetInit /\ RecInit

NetSpec ==
  NetStart /\ [][NetClient \/ NetLoop]_<<netvars, recvars>>
----------------------------------------------------------------------------
(* The invariants the comment above the data structures lists, numbered as  *)
(* there.                                                                   *)

(* 1. Initialized entries in S and fds point to each other. *)
PointToEachOther ==
  /\ \A i \in 0 .. (slen - 1) :
       S[i].pollpos # SIZE_MAX =>
         /\ S[i].pollpos < nfds
         /\ fds[S[i].pollpos].fd = i
  /\ \A j \in 0 .. (nfds - 1) :
       /\ fds[j].fd < slen
       /\ S[fds[j].fd].pollpos = j

(* 2 and 3. A descriptor is in the pollfd array iff it has an event. *)
InArrayIffRegistered ==
  \A i \in 0 .. (slen - 1) :
    S[i].pollpos # SIZE_MAX <=> \E op \in Ops : S[i].ev[op] # NULL

(* 4. poll is asked for exactly the registered operations. *)
MasksMatch ==
  \A j \in 0 .. (nfds - 1), op \in Ops :
    op \in fds[j].events <=> S[fds[j].fd].ev[op] # NULL

(* 5. No event is ready that is not wanted. *)
NothingUnwanted ==
  \A j \in 0 .. (nfds - 1) : fds[j].revents \cap Ops \subseteq fds[j].events

(* 6 as the code keeps it: the scan has passed no report.  It starts at     *)
(* position nfds - 1 inclusive, so a returned event is at or below          *)
(* fdscanpos (the comment says below).  That events_network_get will find   *)
(* the report is more: see GetFindsReports.                                 *)
NonePassed ==
  \A j \in 0 .. (nfds - 1) :
    fds[j].revents # {} => j <= fdscanpos /\ fdscanpos # SIZE_MAX

(* What poll reported for a registered event is still noted, in whatever    *)
(* pollfd the descriptor has moved to, until that event is taken or         *)
(* cancelled: swapping pollfds in clearbit loses no report.                 *)
NoReportLost ==
  \A i \in Fds, op \in Ops :
    <<i, op>> \in ready =>
      /\ i < slen
      /\ S[i].pollpos < nfds
      /\ op \in fds[S[i].pollpos].revents

(* And events_network_get takes no event that poll has not reported: a      *)
(* registration made after the event it replaces was taken or cancelled is  *)
(* not run on the old event's readiness.                                    *)
GetOnlyReported ==
  [][r' # NULL /\ r' # r =>
       \E i \in 0 .. (slen - 1), op \in Ops :
         /\ S[i].ev[op] = r'
         /\ <<i, op>> \in ready \/ <<i, "ERR">> \in ready]_<<netvars, recvars>>

(* The same as an invariant: every noted bit is one poll reported. *)
NotedWasReported ==
  \A j \in 0 .. (nfds - 1) : \A b \in fds[j].revents :
    <<fds[j].fd, b>> \in ready \/ <<fds[j].fd, "ERR">> \in ready

(* Every allocated record is registered in exactly one place or is held by  *)
(* the event loop: none is leaked, run twice or freed while registered.     *)
RecordsAccounted ==
  /\ \A x \in recs : x = r \/ \E i \in 0 .. (slen - 1), op \in Ops : S[i].ev[op] = x
  /\ r # NULL => r \in recs
  /\ \A i \in 0 .. (slen - 1), op \in Ops :
       S[i].ev[op] # NULL =>
         /\ S[i].ev[op] \in recs
         /\ S[i].ev[op] # r
         /\ \A k \in 0 .. (slen - 1), o \in Ops :
              S[k].ev[o] = S[i].ev[op] => k = i /\ o = op

(* The inter-select clock runs only while some event is registered, so the  *)
(* time the program spends idle is never counted.                           *)
ClockOnlyWithEvents == running => nfds > 0

(* The assertions of growpollfd on the allocation, and what init() relies   *)
(* on: while S is NULL there is nothing in either array.                    *)
AllocationOK ==
  /\ inited => InitAlloc <= fds_alloc /\ nfds <= fds_alloc
  /\ ~inited => slen = 0 /\ nfds = 0

(* Invariants 1 to 5, within the allocation: S and fds describe the same    *)
(* registrations, however many pollfds clearbit has moved.                  *)
ArraysConsistent ==
  /\ PointToEachOther
  /\ InArrayIffRegistered
  /\ MasksMatch
  /\ NothingUnwanted
  /\ AllocationOK

(* What poll reported, and nothing else, is noted for each descriptor, at a *)
(* position that the scan of events_network_get has not passed, whatever    *)
(* pollfds have moved since.                                                *)
ReportsKept ==
  /\ NonePassed
  /\ NoReportLost
  /\ NotedWasReported

(* S and fds describe the same registrations however many pollfds clearbit  *)
(* has moved, every record is registered in one place or held by the loop,  *)
(* whichever step of a registration failed, and the inter-select clock runs *)
(* only with events.                                                        *)
NetworkConsistent ==
  /\ NetTypeOK /\ RecTypeOK
  /\ ArraysConsistent
  /\ RecordsAccounted
  /\ ClockOnlyWithEvents

=============================================================================
