--------------------------- MODULE EventLoopProofs ---------------------------
(***************************************************************************)
(* Proofs about EventLoop, for any number of records, descriptors and      *)
(* priorities, any delays and any interleaving of callbacks and signals.   *)
(*                                                                         *)
(* The invariant has two halves.  Sources: each of the three event sources *)
(* keeps what its own proofs need, and every record has one owner.  The    *)
(* step lemmas of the sources say what an operation does to the set of     *)
(* records that wait there, which is all the composition needs of them.    *)
(* Control: what holds at each statement of events_run_internal, such as   *)
(* that no immediate event is registered between the call that found none  *)
(* and the next callback.                                                  *)
(***************************************************************************)
EXTENDS EventLoop, EventsNetworkProofs, EventsQueueProofs,
        WellFoundedInduction

(* The records that wait in the first two sources. *)
NetSet == {y \in Recs : InSockets(y)}
ImmSet == {y \in Recs : InLists(y)}

(* Every record of rs is in one of A, B and C or is rr, and in no other. *)
OwnersOK(A, B, C, rs, rr) ==
  \A y \in Recs :
    /\ y \in rs <=> (y = rr \/ y \in A \/ y \in B \/ y \in C)
    /\ ~(y = rr /\ (y \in A \/ y \in B \/ y \in C))
    /\ ~(y \in A /\ (y \in B \/ y \in C))
    /\ ~(y \in B /\ y \in C)

Owners == OwnersOK(NetSet, ImmSet, DOMAIN timers, recs, r)

Sources ==
  /\ RecTypeOK
  /\ NetCore /\ ImmCore /\ TimerCore
  /\ Owners

(* The statements that are reached only while no immediate event waits. *)
Quiet == {"min", "prepoll", "poll", "net", "select0", "net2", "timer"}

(* A wait of timeout from now on, or up to wake, does not miss the first    *)
(* timer, and unless it was capped ends no sooner than that is due.         *)
TimeoutCovers ==
  /\ timeout = -1 => DOMAIN timers = {}
  /\ timeout # -1 /\ timeout < INT_MAX =>
       \E x \in DOMAIN timers : Micros(timers[x].tv) <= Micros(now) + timeout * MSEC

WakeCovers ==
  /\ timeout = -1 => wake = -1
  /\ wake = -1 => DOMAIN timers = {}
  /\ timeout # -1 /\ timeout < INT_MAX =>
       \E x \in DOMAIN timers : Micros(timers[x].tv) <= wake

(* No timer had expired when events_run_internal was entered. *)
NoneExpired == \A x \in DOMAIN timers : ~Expired(x, entry)

(* The status and the history variables at each statement. *)
Status ==
  /\ r # NULL <=> pc = "callback"
  /\ pc \notin {"done", "spin"} => rc = 0
  /\ pc \in {"again", "callback"} => ran
  /\ halt => intr /\ pc \in {"loop", "done", "spin"}

(* What has been looked for and not found, at each statement. *)
Found ==
  /\ pc \in Quiet => NoImmediate
  /\ pc = "net2" => fdscanpos = Pred(nfds)
  /\ pc = "timer" => NoReport
  /\ pc \in {"prepoll", "poll"} => TimeoutCovers
  /\ pc = "poll" => WakeCovers
  /\ pc = "done" /\ ~ran /\ rc = 0 /\ ~intr => NoImmediate /\ NoReport /\ NoneExpired

Control ==
  /\ LoopTypeOK
  /\ Status
  /\ Found
  /\ entry <= Micros(now)

LoopIInv == Sources /\ Control
----------------------------------------------------------------------------
(* Ownership. *)

(* A record that was not allocated is given to one source. *)
LEMMA OwnersAdd ==
  ASSUME NEW A, NEW B, NEW C, NEW rs, NEW rr, OwnersOK(A, B, C, rs, rr),
         NEW x \in Recs, x \notin rs
  PROVE  /\ OwnersOK(A \cup {x}, B, C, rs \cup {x}, rr)
         /\ OwnersOK(A, B \cup {x}, C, rs \cup {x}, rr)
         /\ OwnersOK(A, B, C \cup {x}, rs \cup {x}, rr)
BY DEF OwnersOK

(* A record leaves its source and is freed. *)
LEMMA OwnersFree ==
  ASSUME NEW A, NEW B, NEW C, NEW rs, NEW rr, OwnersOK(A, B, C, rs, rr), NEW x \in Recs
  PROVE  /\ x \in A => OwnersOK(A \ {x}, B, C, rs \ {x}, rr)
         /\ x \in B => OwnersOK(A, B \ {x}, C, rs \ {x}, rr)
         /\ x \in C => OwnersOK(A, B, C \ {x}, rs \ {x}, rr)
BY DEF OwnersOK

(* A record leaves its source to be run. *)
LEMMA OwnersRun ==
  ASSUME NEW A, NEW B, NEW C, NEW rs, OwnersOK(A, B, C, rs, NULL), NEW x \in Recs
  PROVE  /\ x \in A => OwnersOK(A \ {x}, B, C, rs, x)
         /\ x \in B => OwnersOK(A, B \ {x}, C, rs, x)
         /\ x \in C => OwnersOK(A, B, C \ {x}, rs, x)
BY RecsAssumption DEF OwnersOK

(* The record that was run is freed. *)
LEMMA OwnersEnd ==
  ASSUME NEW A, NEW B, NEW C, NEW rs, NEW rr, OwnersOK(A, B, C, rs, rr)
  PROVE  OwnersOK(A, B, C, rs \ {rr}, NULL)
BY RecsAssumption DEF OwnersOK

(* The sources in the next state, from what a step lemma says of each. *)
LEMMA SourcesNext ==
  ASSUME NetCore', ImmCore', TimerCore', recs' \subseteq Recs, r' \in Recs \cup {NULL},
         OwnersOK(NetSet', ImmSet', DOMAIN timers', recs', r')
  PROVE  Sources'
BY DEF Sources, RecTypeOK, Owners

(* What the sources say of the records. *)
LEMMA SourcesFacts ==
  ASSUME Sources
  PROVE  /\ NetCore /\ ImmCore /\ TimerCore
         /\ recs \subseteq Recs /\ r \in Recs \cup {NULL} /\ NULL \notin Recs
         /\ OwnersOK(NetSet, ImmSet, DOMAIN timers, recs, r)
         /\ NetSet \subseteq recs /\ ImmSet \subseteq recs /\ DOMAIN timers \subseteq recs
<1>1. /\ NetCore /\ ImmCore /\ TimerCore
      /\ recs \subseteq Recs /\ r \in Recs \cup {NULL} /\ NULL \notin Recs
      /\ OwnersOK(NetSet, ImmSet, DOMAIN timers, recs, r)
  BY RecsAssumption DEF Sources, RecTypeOK, Owners
<1>2. DOMAIN timers \subseteq Recs
  BY <1>1 DEF TimerCore, TimerTypeOK
<1>3. NetSet \subseteq Recs /\ ImmSet \subseteq Recs
  BY DEF NetSet, ImmSet
<1> QED BY <1>1, <1>2, <1>3 DEF OwnersOK

(* Steps that leave a source alone leave the records in it. *)
LEMMA NetUnchanged ==
  ASSUME NetCore, UNCHANGED netvars
  PROVE  NetCore' /\ NetSet' = NetSet
<1>1. NetCore' /\ \A y : InSockets(y)' <=> InSockets(y)
  BY NetOtherStep
<1> QED BY <1>1 DEF NetSet

LEMMA ImmUnchanged ==
  ASSUME ImmCore, UNCHANGED immvars
  PROVE  ImmCore' /\ ImmSet' = ImmSet
<1>1. ImmCore' /\ \A y : InLists(y)' <=> InLists(y)
  BY ImmOtherStep
<1> QED BY <1>1 DEF ImmSet

LEMMA TimersUnchanged ==
  ASSUME TimerCore, UNCHANGED timervars
  PROVE  TimerCore' /\ timers' = timers
BY TimerQuietStep

(* Nothing of the sources changes. *)
LEMMA SourcesSame ==
  ASSUME Sources, UNCHANGED <<netvars, immvars, timervars, recvars>>
  PROVE  Sources'
<1>1. /\ UNCHANGED netvars /\ UNCHANGED immvars /\ UNCHANGED timervars
      /\ recs' = recs /\ r' = r
  BY DEF recvars
<1>2. NetCore' /\ NetSet' = NetSet /\ ImmCore' /\ ImmSet' = ImmSet /\ TimerCore' /\ timers' = timers
  BY <1>1, SourcesFacts, NetUnchanged, ImmUnchanged, TimersUnchanged
<1> QED BY <1>1, <1>2, SourcesFacts, SourcesNext

(* The clock ticks. *)
LEMMA SourcesTick ==
  ASSUME Sources, ClockTick
  PROVE  Sources'
<1>1. /\ UNCHANGED netvars /\ UNCHANGED immvars /\ Tick /\ UNCHANGED <<Q, timers>>
      /\ recs' = recs /\ r' = r
  BY DEF ClockTick, recvars
<1>2. NetCore' /\ NetSet' = NetSet /\ ImmCore' /\ ImmSet' = ImmSet /\ TimerCore' /\ timers' = timers
  BY <1>1, SourcesFacts, NetUnchanged, ImmUnchanged, TimerQuietStep
<1> QED BY <1>1, <1>2, SourcesFacts, SourcesNext

(* A step of the network source that neither adds nor takes a record. *)
LEMMA SourcesNetSame ==
  ASSUME Sources, NetCore', recs' = recs, r' = r,
         \A y : y # NULL => (InSockets(y)' <=> InSockets(y)),
         UNCHANGED immvars, UNCHANGED timervars
  PROVE  Sources'
<1>1. NetSet' = NetSet
  BY RecsAssumption DEF NetSet
<1>2. ImmCore' /\ ImmSet' = ImmSet /\ TimerCore' /\ timers' = timers
  BY SourcesFacts, ImmUnchanged, TimersUnchanged
<1> QED BY <1>1, <1>2, SourcesFacts, SourcesNext

(* What client code does to the network events. *)
LEMMA SourcesNetworkApi ==
  ASSUME Sources, NetworkApi
  PROVE  Sources' /\ r' = r
<1>0. UNCHANGED immvars /\ UNCHANGED timervars
  BY DEF NetworkApi
<1>1. PICK s \in Fds, op \in Ops :
        \/ \E x \in Recs : events_network_register(x, s, op)
        \/ events_network_register_fails(s, op)
        \/ events_network_cancel(s, op)
        \/ events_network_cancel_fails(s, op)
  BY DEF NetworkApi
<1>2. ImmCore' /\ ImmSet' = ImmSet /\ TimerCore' /\ timers' = timers
  BY <1>0, SourcesFacts, ImmUnchanged, TimersUnchanged
<1>3. ASSUME NEW x \in Recs, events_network_register(x, s, op) PROVE Sources' /\ r' = r
  <2>1. x \notin recs
    BY <1>3 DEF events_network_register, events_mkrec
  <2>2. ~InSockets(x)
    BY <2>1, SourcesFacts DEF NetSet
  <2>3. /\ NetCore' /\ recs' = recs \cup {x} /\ r' = r
        /\ \A y : y # NULL => (InSockets(y)' <=> InSockets(y) \/ y = x)
    BY <2>2, <1>3, SourcesFacts, NetRegisterStep
  <2>4. NetSet' = NetSet \cup {x}
    BY <2>3, RecsAssumption DEF NetSet
  <2>5. OwnersOK(NetSet \cup {x}, ImmSet, DOMAIN timers, recs \cup {x}, r)
    BY <2>1, SourcesFacts, OwnersAdd
  <2>6. recs' \subseteq Recs /\ r' \in Recs \cup {NULL}
    BY <2>3, SourcesFacts
  <2>7. OwnersOK(NetSet', ImmSet', DOMAIN timers', recs', r')
    BY <2>3, <2>4, <2>5, <1>2
  <2> QED BY <2>3, <2>6, <2>7, <1>2, SourcesNext
<1>4. ASSUME events_network_register_fails(s, op) PROVE Sources' /\ r' = r
  <2>1. /\ NetCore' /\ recs' = recs /\ r' = r
        /\ \A y : y # NULL => (InSockets(y)' <=> InSockets(y))
    BY <1>4, SourcesFacts, NetRegisterFailsStep
  <2> QED BY <2>1, <1>0, SourcesNetSame
<1>5. ASSUME events_network_cancel(s, op) PROVE Sources' /\ r' = r
  <2> DEFINE x == S[s].ev[op]
  <2>1. /\ NetCore' /\ s < slen /\ x # NULL
        /\ recs' = recs \ {x} /\ r' = r
        /\ \A y : y # NULL => (InSockets(y)' <=> InSockets(y) /\ y # x)
    BY <1>5, SourcesFacts, NetCancelStep
  <2>2. x \in Recs /\ InSockets(x)
    <3>1. s \in 0 .. (slen - 1) /\ S \in [0 .. (slen - 1) -> SocketRec]
      BY <2>1, SourcesFacts, NetAssumption DEF NetCore, Arrays, ArraysOK, ArraysTyped, Fds
    <3>2. S[s].ev \in [Ops -> Recs \cup {NULL}]
      BY <3>1 DEF SocketRec
    <3> QED BY <2>1, <3>1, <3>2 DEF InSockets
  <2> HIDE DEF x
  <2>3. NetSet' = NetSet \ {x} /\ x \in NetSet
    BY <2>1, <2>2, RecsAssumption DEF NetSet
  <2>4. OwnersOK(NetSet \ {x}, ImmSet, DOMAIN timers, recs \ {x}, r)
    BY <2>2, <2>3, SourcesFacts, OwnersFree
  <2>5. recs' \subseteq Recs /\ r' \in Recs \cup {NULL}
    BY <2>1, SourcesFacts
  <2>6. OwnersOK(NetSet', ImmSet', DOMAIN timers', recs', r')
    BY <2>1, <2>3, <2>4, <1>2
  <2> QED BY <2>1, <2>5, <2>6, <1>2, SourcesNext
<1>6. ASSUME events_network_cancel_fails(s, op) PROVE Sources' /\ r' = r
  <2>1. NetCore' /\ recs' = recs /\ r' = r /\ \A y : InSockets(y)' <=> InSockets(y)
    BY <1>6, SourcesFacts, NetQuietStep
  <2> QED BY <2>1, <1>0, SourcesNetSame
<1> QED BY <1>1, <1>3, <1>4, <1>5, <1>6

(* What client code does to the immediate events. *)
LEMMA SourcesImmediateApi ==
  ASSUME Sources, ImmediateApi
  PROVE  Sources' /\ r' = r
<1>0. UNCHANGED netvars /\ UNCHANGED timervars
  BY DEF ImmediateApi
<1>1. PICK x \in Recs : (\E p \in Prios : events_immediate_register(x, p))
                        \/ events_immediate_cancel(x)
  BY DEF ImmediateApi
<1>2. NetCore' /\ NetSet' = NetSet /\ TimerCore' /\ timers' = timers
  BY <1>0, SourcesFacts, NetUnchanged, TimersUnchanged
<1>3. ASSUME NEW p \in Prios, events_immediate_register(x, p) PROVE Sources' /\ r' = r
  <2>1. x \notin recs
    BY <1>3 DEF events_immediate_register, events_mkrec
  <2>2. ~InLists(x)
    BY <2>1, SourcesFacts DEF ImmSet
  <2>3. /\ ImmCore' /\ recs' = recs \cup {x} /\ r' = r
        /\ \A y : InLists(y)' <=> InLists(y) \/ y = x
    BY <2>2, <1>3, SourcesFacts, ImmRegisterStep
  <2>4. ImmSet' = ImmSet \cup {x}
    BY <2>3 DEF ImmSet
  <2>5. OwnersOK(NetSet, ImmSet \cup {x}, DOMAIN timers, recs \cup {x}, r)
    BY <2>1, SourcesFacts, OwnersAdd
  <2>6. recs' \subseteq Recs /\ r' \in Recs \cup {NULL}
    BY <2>3, SourcesFacts
  <2>7. OwnersOK(NetSet', ImmSet', DOMAIN timers', recs', r')
    BY <2>3, <2>4, <2>5, <1>2
  <2> QED BY <2>3, <2>6, <2>7, <1>2, SourcesNext
<1>4. ASSUME events_immediate_cancel(x) PROVE Sources' /\ r' = r
  <2>1. /\ ImmCore' /\ InLists(x) /\ recs' = recs \ {x} /\ r' = r
        /\ \A y : InLists(y)' <=> InLists(y) /\ y # x
    BY <1>4, SourcesFacts, ImmCancelStep
  <2>3. ImmSet' = ImmSet \ {x} /\ x \in ImmSet
    BY <2>1 DEF ImmSet
  <2>4. OwnersOK(NetSet, ImmSet \ {x}, DOMAIN timers, recs \ {x}, r)
    BY <2>3, SourcesFacts, OwnersFree
  <2>5. recs' \subseteq Recs /\ r' \in Recs \cup {NULL}
    BY <2>1, SourcesFacts
  <2>6. OwnersOK(NetSet', ImmSet', DOMAIN timers', recs', r')
    BY <2>1, <2>3, <2>4, <1>2
  <2> QED BY <2>1, <2>5, <2>6, <1>2, SourcesNext
<1> QED BY <1>1, <1>3, <1>4

(* What client code does to the timers. *)
LEMMA SourcesTimerApi ==
  ASSUME Sources, TimerApi
  PROVE  Sources' /\ r' = r /\ now' = now
<1>0. UNCHANGED netvars /\ UNCHANGED immvars
  BY DEF TimerApi
<1>1. \/ \E x \in Recs, timeo \in Timeos : events_timer_register(x, timeo)
      \/ \E x \in DOMAIN timers : events_timer_cancel(x) \/ events_timer_reset(x)
      \/ events_timer_register_fails
  BY DEF TimerApi
<1>2. NetCore' /\ NetSet' = NetSet /\ ImmCore' /\ ImmSet' = ImmSet
  BY <1>0, SourcesFacts, NetUnchanged, ImmUnchanged
<1>3. now' = now
  BY <1>1 DEF events_timer_register, events_timer_cancel, events_timer_reset,
              events_timer_register_fails
<1>4. ASSUME NEW x \in Recs, NEW timeo \in Timeos, events_timer_register(x, timeo)
      PROVE  Sources' /\ r' = r
  <2>1. /\ TimerCore' /\ x \notin recs /\ recs' = recs \cup {x} /\ r' = r
        /\ DOMAIN timers' = DOMAIN timers \cup {x}
    BY <1>4, SourcesFacts, TimerRegisterStep
  <2>2. OwnersOK(NetSet, ImmSet, DOMAIN timers \cup {x}, recs \cup {x}, r)
    BY <2>1, SourcesFacts, OwnersAdd
  <2>3. recs' \subseteq Recs /\ r' \in Recs \cup {NULL}
    BY <2>1, SourcesFacts
  <2>4. OwnersOK(NetSet', ImmSet', DOMAIN timers', recs', r')
    BY <2>1, <2>2, <1>2
  <2> QED BY <2>1, <2>3, <2>4, <1>2, SourcesNext
<1>5. ASSUME NEW x \in DOMAIN timers, events_timer_cancel(x) PROVE Sources' /\ r' = r
  <2>0. x \in Recs
    BY SourcesFacts
  <2>1. /\ TimerCore' /\ r' = r /\ recs' = recs \ {x}
        /\ DOMAIN timers' = DOMAIN timers \ {x}
    BY <2>0, <1>5, SourcesFacts, TimerCancelStep
  <2>2. OwnersOK(NetSet, ImmSet, DOMAIN timers \ {x}, recs \ {x}, r)
    BY <2>0, SourcesFacts, OwnersFree
  <2>3. recs' \subseteq Recs /\ r' \in Recs \cup {NULL}
    BY <2>1, SourcesFacts
  <2>4. OwnersOK(NetSet', ImmSet', DOMAIN timers', recs', r')
    BY <2>1, <2>2, <1>2
  <2> QED BY <2>1, <2>3, <2>4, <1>2, SourcesNext
<1>6. ASSUME NEW x \in DOMAIN timers, events_timer_reset(x) PROVE Sources' /\ r' = r
  <2>0. x \in Recs
    BY SourcesFacts
  <2>1. TimerCore' /\ recs' = recs /\ r' = r /\ DOMAIN timers' = DOMAIN timers
    BY <2>0, <1>6, SourcesFacts, TimerResetStep
  <2> QED BY <2>1, <1>2, SourcesFacts, SourcesNext
<1>7. ASSUME events_timer_register_fails PROVE Sources' /\ r' = r
  <2>1. TimerCore' /\ timers' = timers
    BY <1>7, SourcesFacts, TimerQuietStep
  <2>2. recs' = recs /\ r' = r
    BY <1>7 DEF events_timer_register_fails
  <2> QED BY <2>1, <2>2, <1>2, SourcesFacts, SourcesNext
<1> QED BY <1>1, <1>3, <1>4, <1>5, <1>6, <1>7

(* events_immediate_get hands out a record, or finds the lists empty. *)
LEMMA SourcesGetImmediate ==
  ASSUME Sources, r = NULL, UNCHANGED netvars, UNCHANGED timervars,
         NEW q \in Prios, events_immediate_get(q)
  PROVE  Sources' /\ r' \in ImmSet
<1>1. /\ ImmCore' /\ r' \in Recs /\ InLists(r') /\ recs' = recs
      /\ \A y : InLists(y)' <=> InLists(y) /\ y # r'
  BY SourcesFacts, ImmGetStep
<1>2. NetCore' /\ NetSet' = NetSet /\ TimerCore' /\ timers' = timers
  BY SourcesFacts, NetUnchanged, TimersUnchanged
<1>3. ImmSet' = ImmSet \ {r'} /\ r' \in ImmSet
  BY <1>1 DEF ImmSet
<1>4. OwnersOK(NetSet, ImmSet, DOMAIN timers, recs, NULL)
  BY SourcesFacts
<1>5. OwnersOK(NetSet, ImmSet \ {r'}, DOMAIN timers, recs, r')
  BY <1>1, <1>3, <1>4, OwnersRun
<1>6. OwnersOK(NetSet', ImmSet', DOMAIN timers', recs', r')
  BY <1>1, <1>2, <1>3, <1>5
<1> QED BY <1>1, <1>2, <1>3, <1>6, SourcesFacts, SourcesNext

LEMMA SourcesNoImmediate ==
  ASSUME Sources, UNCHANGED netvars, UNCHANGED timervars, events_immediate_get_none
  PROVE  Sources' /\ NoImmediate' /\ r' = r
<1>1. /\ ImmCore' /\ heads' = heads /\ recs' = recs /\ r' = r
      /\ \A p \in Prios : heads[p] = << >>
      /\ \A y : InLists(y)' <=> InLists(y)
  BY SourcesFacts, ImmGetNoneStep
<1>2. NetCore' /\ NetSet' = NetSet /\ TimerCore' /\ timers' = timers
  BY SourcesFacts, NetUnchanged, TimersUnchanged
<1>3. ImmSet' = ImmSet
  BY <1>1 DEF ImmSet
<1>4. NoImmediate'
  BY <1>1 DEF NoImmediate
<1> QED BY <1>1, <1>2, <1>3, <1>4, SourcesFacts, SourcesNext

(* events_network_get hands out a record, or finds no report. *)
LEMMA SourcesGetNetwork ==
  ASSUME Sources, r = NULL, UNCHANGED immvars, UNCHANGED timervars,
         NEW k \in 0 .. (nfds - 1), events_network_get_hit(k)
  PROVE  Sources' /\ r' \in NetSet
<1>1. /\ NetCore' /\ recs' = recs /\ r' \in Recs /\ InSockets(r')
      /\ \A y : y # NULL => (InSockets(y)' <=> InSockets(y) /\ y # r')
  BY SourcesFacts, NetGetHitStep
<1>2. ImmCore' /\ ImmSet' = ImmSet /\ TimerCore' /\ timers' = timers
  BY SourcesFacts, ImmUnchanged, TimersUnchanged
<1>3. NetSet' = NetSet \ {r'} /\ r' \in NetSet
  BY <1>1, RecsAssumption DEF NetSet
<1>4. OwnersOK(NetSet, ImmSet, DOMAIN timers, recs, NULL)
  BY SourcesFacts
<1>5. OwnersOK(NetSet \ {r'}, ImmSet, DOMAIN timers, recs, r')
  BY <1>1, <1>3, <1>4, OwnersRun
<1>6. OwnersOK(NetSet', ImmSet', DOMAIN timers', recs', r')
  BY <1>1, <1>2, <1>3, <1>5
<1> QED BY <1>1, <1>2, <1>3, <1>6, SourcesFacts, SourcesNext

LEMMA SourcesNoNetwork ==
  ASSUME Sources, UNCHANGED immvars, UNCHANGED timervars, events_network_get_none
  PROVE  Sources' /\ r' = r /\ (fdscanpos = Pred(nfds) => NoReport')
<1>1. /\ NetCore' /\ recs' = recs /\ r' = r
      /\ fdscanpos < nfds => \A j \in 0 .. (nfds' - 1) : fds'[j].revents = {}
      /\ \A y : InSockets(y)' <=> InSockets(y)
  BY SourcesFacts, NetGetNoneStep
<1>2. Sources'
  BY <1>1, SourcesNetSame
<1>3. ASSUME fdscanpos = Pred(nfds) PROVE NoReport'
  <2>1. nfds \in Nat /\ nfds' = nfds
    BY SourcesFacts, NetAssumption
       DEF NetCore, Arrays, ArraysOK, ArraysTyped, events_network_get_none
  <2>2. CASE nfds = 0
    BY <2>1, <2>2 DEF NoReport
  <2>3. CASE nfds # 0
    <3>1. fdscanpos < nfds
      BY <1>3, <2>1, <2>3 DEF Pred
    <3> QED BY <3>1, <1>1 DEF NoReport
  <2> QED BY <2>2, <2>3
<1> QED BY <1>1, <1>2, <1>3

(* events_network_select, whatever poll returns, moves no record. *)
LEMMA SourcesSelect ==
  ASSUME Sources, UNCHANGED immvars, UNCHANGED timervars,
         \/ \E rev \in PollResults : events_network_select(rev)
         \/ events_network_select_interrupted
         \/ events_network_select_fails
         \/ init_fails /\ UNCHANGED r
  PROVE  Sources' /\ r' = r
<1>1. NetCore' /\ recs' = recs /\ r' = r /\ \A y : InSockets(y)' <=> InSockets(y)
  BY SourcesFacts, NetSelectStep, NetQuietStep
<1> QED BY <1>1, SourcesNetSame

(* An empty result of poll is one of its results. *)
LEMMA EmptyPollResult == [j \in 0 .. (nfds - 1) |-> {}] \in PollResults
BY DEF PollResults

(* events_timer_get hands out a record. *)
LEMMA SourcesGetTimer ==
  ASSUME Sources, r = NULL, UNCHANGED netvars, UNCHANGED immvars,
         NEW x \in Recs, events_timer_get(x)
  PROVE  Sources' /\ r' = x /\ x \in DOMAIN timers
<1>1. /\ TimerCore' /\ x \in DOMAIN timers /\ r' = x /\ recs' = recs
      /\ DOMAIN timers' = DOMAIN timers \ {x}
  BY SourcesFacts, TimerGetStep
<1>2. NetCore' /\ NetSet' = NetSet /\ ImmCore' /\ ImmSet' = ImmSet
  BY SourcesFacts, NetUnchanged, ImmUnchanged
<1>4. OwnersOK(NetSet, ImmSet, DOMAIN timers, recs, NULL)
  BY SourcesFacts
<1>5. OwnersOK(NetSet, ImmSet, DOMAIN timers \ {x}, recs, x)
  BY <1>1, <1>4, OwnersRun
<1>6. OwnersOK(NetSet', ImmSet', DOMAIN timers', recs', r')
  BY <1>1, <1>2, <1>5
<1> QED BY <1>1, <1>2, <1>6, SourcesFacts, SourcesNext

(* The callback has returned. *)
LEMMA SourcesEnd ==
  ASSUME Sources, UNCHANGED netvars, UNCHANGED immvars, UNCHANGED timervars, doevent_end
  PROVE  Sources' /\ r' = NULL
<1>1. r # NULL /\ recs' = recs \ {r} /\ r' = NULL
  BY DEF doevent_end, events_freerec
<1>2. NetCore' /\ NetSet' = NetSet /\ ImmCore' /\ ImmSet' = ImmSet /\ TimerCore' /\ timers' = timers
  BY SourcesFacts, NetUnchanged, ImmUnchanged, TimersUnchanged
<1>3. OwnersOK(NetSet, ImmSet, DOMAIN timers, recs \ {r}, NULL)
  BY SourcesFacts, OwnersEnd
<1>4. OwnersOK(NetSet', ImmSet', DOMAIN timers', recs', r')
  BY <1>1, <1>2, <1>3
<1>5. recs' \subseteq Recs
  BY <1>1, SourcesFacts
<1> QED BY <1>1, <1>2, <1>4, <1>5, SourcesNext
----------------------------------------------------------------------------
(* The wait. *)

(* A set of natural numbers has a least element. *)
LEMMA LeastNatural ==
  ASSUME NEW T, T \subseteq Nat, T # {}
  PROVE  \E m \in T : \A k \in T : m <= k
<1> DEFINE R == OpToRel(<, Nat)
<1>1. IsWellFoundedOn(R, Nat)
  BY NatLessThanWellFounded
<1>2. \A a, b \in Nat : a < b => <<a, b>> \in R
  BY DEF OpToRel
<1> HIDE DEF R
<1>3. PICK m \in T : \A k \in T : ~(<<k, m>> \in R)
  BY <1>1, WFMin
<1>4. ASSUME NEW k \in T PROVE m <= k
  <2>1. m \in Nat /\ k \in Nat
    OBVIOUS
  <2>2. ~(k < m)
    BY <2>1, <1>2, <1>3
  <2> QED BY <2>1, <2>2
<1> QED BY <1>4

(* If there are timers, one of them is the earliest. *)
LEMMA EarliestExists ==
  ASSUME TimerCore, DOMAIN timers # {}
  PROVE  /\ Earliest # {}
         /\ \A x \in Earliest : /\ x \in DOMAIN timers /\ timers[x].tv \in Times
                                /\ \A y \in DOMAIN timers :
                                     Micros(timers[x].tv) <= Micros(timers[y].tv)
<1> DEFINE T == {Micros(timers[x].tv) : x \in DOMAIN timers}
<1>1. \A x \in DOMAIN timers : timers[x].tv \in Times /\ Micros(timers[x].tv) \in Nat
  BY MicrosType DEF TimerCore, TimerTypeOK, TimerRec
<1>2. T \subseteq Nat /\ T # {}
  BY <1>1
<1>3. PICK m \in T : \A k \in T : m <= k
  <2> HIDE DEF T
  <2> QED BY <1>2, LeastNatural
<1>4. PICK x \in DOMAIN timers : Micros(timers[x].tv) = m
  OBVIOUS
<1>5. ASSUME NEW y \in DOMAIN timers PROVE ~Later(timers[x].tv, timers[y].tv)
  <2>1. Micros(timers[x].tv) <= Micros(timers[y].tv)
    BY <1>3, <1>4
  <2> QED BY <2>1, <1>1, LaterMicros
<1>6. x \in Earliest
  BY <1>5 DEF Earliest
<1>7. ASSUME NEW y \in Earliest
      PROVE  /\ y \in DOMAIN timers
             /\ \A z \in DOMAIN timers : Micros(timers[y].tv) <= Micros(timers[z].tv)
  <2>1. y \in DOMAIN timers /\ \A z \in DOMAIN timers : ~Later(timers[y].tv, timers[z].tv)
    BY DEF Earliest
  <2> QED BY <2>1, <1>1, LaterMicros
<1> QED BY <1>1, <1>6, <1>7

(* Division rounds down. *)
LEMMA DivBounds ==
  ASSUME NEW a \in Nat, NEW b \in Nat \ {0}
  PROVE  a \div b \in Nat /\ (a \div b) * b <= a /\ a < (a \div b) * b + b
OBVIOUS

(* A second is a whole number of milliseconds. *)
LEMMA MillisInSecond ==
  USEC \div MSEC \in Nat /\ (USEC \div MSEC) * MSEC = USEC
<1>1. USEC \in Nat \ {0} /\ MSEC \in Nat \ {0} /\ USEC % MSEC = 0
  BY TimerAssumption, LoopAssumption
<1> QED BY <1>1

(* The timeout of poll is no shorter than the wait it was computed from,    *)
(* unless it was capped.                                                    *)
LEMMA PollTimeoutOK ==
  ASSUME NEW tv \in Times
  PROVE  /\ PollTimeout(tv) \in Nat
         /\ PollTimeout(tv) < INT_MAX => Micros(tv) <= PollTimeout(tv) * MSEC
<1> DEFINE k == USEC \div MSEC
           up == (tv.tv_usec + MSEC - 1) \div MSEC
           sec == tv.tv_sec
<1>1. /\ USEC \in Nat /\ MSEC \in Nat \ {0} /\ INT_MAX \in Nat /\ NULL \notin Times
      /\ tv.tv_sec \in Nat /\ tv.tv_usec \in Nat
  BY TimerAssumption, LoopAssumption, TimesFields
<1>2. k \in Nat /\ k * MSEC = USEC
  BY MillisInSecond
<1>3. up \in Nat /\ tv.tv_usec <= up * MSEC
  <2>1. tv.tv_usec + MSEC - 1 \in Nat
    BY <1>1
  <2>2. up \in Nat /\ tv.tv_usec + MSEC - 1 < up * MSEC + MSEC
    BY <2>1, <1>1, DivBounds
  <2> HIDE DEF up
  <2>3. up * MSEC \in Nat
    BY <2>2, <1>1
  <2> QED BY <2>2, <2>3, <1>1
<1>4. tv # NULL
  BY <1>1
<1>5. CASE sec >= INT_MAX \div k
  BY <1>1, <1>4, <1>5 DEF PollTimeout
<1>6. CASE ~(sec >= INT_MAX \div k)
  <2>1. PollTimeout(tv) = sec * k + up
    BY <1>4, <1>6 DEF PollTimeout
  <2> HIDE DEF k, up, sec
  <2>2. sec \in Nat
    BY <1>1 DEF sec
  <2>3. sec * k \in Nat /\ up * MSEC \in Nat /\ sec * USEC \in Nat
    BY <2>2, <1>1, <1>2, <1>3
  <2>4. (sec * k + up) * MSEC = sec * USEC + up * MSEC
    <3>1. (sec * k + up) * MSEC = (sec * k) * MSEC + up * MSEC
      BY <2>2, <2>3, <1>1, <1>2, <1>3
    <3>2. (sec * k) * MSEC = sec * (k * MSEC)
      BY <2>2, <1>1, <1>2
    <3> QED BY <3>1, <3>2, <1>2
  <2>5. Micros(tv) = sec * USEC + tv.tv_usec
    BY DEF Micros, sec
  <2> QED BY <2>1, <2>3, <2>4, <2>5, <1>1, <1>3
<1> QED BY <1>5, <1>6

(* events_timer_min gives poll a timeout that covers the first timer. *)
LEMMA TimerMinCovers ==
  ASSUME TimerCore, NEW tv \in events_timer_min, timeout' = PollTimeout(tv),
         timers' = timers, now' = now
  PROVE  timeout' \in Nat \cup {-1} /\ TimeoutCovers'
<1>0. now \in Times /\ MSEC \in Nat /\ INT_MAX \in Nat
  BY LoopAssumption DEF TimerCore, TimerTypeOK
<1>1. CASE DOMAIN timers = {}
  <2>1. Earliest = {}
    BY <1>1 DEF Earliest
  <2>2. tv = NULL
    BY <2>1 DEF events_timer_min
  <2>3. timeout' = -1
    BY <2>2 DEF PollTimeout
  <2> QED BY <2>3, <1>1 DEF TimeoutCovers
<1>2. CASE DOMAIN timers # {}
  <2>1. /\ Earliest # {}
        /\ \A x \in Earliest : x \in DOMAIN timers /\ timers[x].tv \in Times
    BY <1>2, EarliestExists
  <2>2. PICK x \in Earliest : tv = TimeUntil(timers[x].tv)
    BY <2>1 DEF events_timer_min
  <2> DEFINE d == timers[x].tv
  <2>3. x \in DOMAIN timers /\ d \in Times
    BY <2>1
  <2>4. /\ tv \in Times
        /\ Micros(now) > Micros(d) => tv = Zero
        /\ ~(Micros(now) > Micros(d)) => Micros(now) + Micros(tv) = Micros(d)
    BY <2>2, <2>3, <1>0, WaitExact
  <2>5. PollTimeout(tv) \in Nat /\ (PollTimeout(tv) < INT_MAX => Micros(tv) <= PollTimeout(tv) * MSEC)
    BY <2>4, PollTimeoutOK
  <2>6. timeout' \in Nat
    BY <2>5
  <2>7. Micros(now) \in Nat /\ Micros(d) \in Nat /\ Micros(tv) \in Nat /\ timeout' * MSEC \in Nat
    BY <2>3, <2>4, <2>6, <1>0, MicrosType
  <2>8. ASSUME timeout' < INT_MAX PROVE Micros(d) <= Micros(now) + timeout' * MSEC
    <3>1. Micros(tv) <= timeout' * MSEC
      BY <2>5, <2>8
    <3> HIDE DEF d
    <3> QED BY <3>1, <2>4, <2>7
  <2>9. timeout' # -1
    BY <2>6
  <2> QED BY <2>3, <2>6, <2>8, <2>9 DEF TimeoutCovers
<1> QED BY <1>1, <1>2

(* poll starts, or starts again, with the same timeout. *)
LEMMA DeadlineCovers ==
  ASSUME TimerCore, timeout \in Nat \cup {-1}, TimeoutCovers, wake' = Deadline,
         timeout' = timeout, timers' = timers, now' = now
  PROVE  wake' \in Nat \cup {-1} /\ WakeCovers' /\ TimeoutCovers'
<1>1. Micros(now) \in Nat /\ MSEC \in Nat
  BY MicrosType, LoopAssumption DEF TimerCore, TimerTypeOK
<1>2. TimeoutCovers'
  BY DEF TimeoutCovers
<1>3. CASE timeout = -1
  BY <1>2, <1>3 DEF Deadline, TimeoutCovers, WakeCovers
<1>4. CASE timeout # -1
  <2>1. timeout \in Nat /\ timeout * MSEC \in Nat
    BY <1>1, <1>4
  <2>2. wake' = Micros(now) + timeout * MSEC /\ wake' \in Nat
    BY <1>1, <1>4, <2>1 DEF Deadline
  <2> QED BY <1>2, <1>4, <2>2 DEF TimeoutCovers, WakeCovers
<1> QED BY <1>3, <1>4

(* Where events_timer_get finds nothing, no timer has expired. *)
LEMMA GetNoneMeans ==
  ASSUME TimerCore, events_timer_get_none, NEW t \in Nat, t <= Micros(now)
  PROVE  \A x \in DOMAIN timers : ~Expired(x, t)
<1> SUFFICES ASSUME NEW x \in DOMAIN timers PROVE ~Expired(x, t)
  OBVIOUS
<1>1. PICK e \in Earliest : TRUE
  BY EarliestExists
<1>2. /\ timers[e].tv \in Times /\ Micros(timers[e].tv) <= Micros(timers[x].tv)
      /\ timers[x].tv \in Times /\ now \in Times
  BY <1>1, EarliestExists DEF TimerCore, TimerTypeOK, TimerRec
<1>3. Micros(timers[e].tv) > Micros(now)
  BY <1>1, <1>2, LaterMicros DEF events_timer_get_none
<1>4. Micros(timers[e].tv) \in Nat /\ Micros(timers[x].tv) \in Nat /\ Micros(now) \in Nat
  BY <1>2, MicrosType
<1> QED BY <1>2, <1>3, <1>4 DEF Expired

(* Time only goes forward. *)
LEMMA TickMicros ==
  ASSUME now \in Times, Tick
  PROVE  Micros(now) \in Nat /\ Micros(now') \in Nat /\ Micros(now) <= Micros(now')
<1>1. now' \in Times /\ ~Later(now, now')
  BY TickForward
<1>2. Micros(now) \in Nat /\ Micros(now') \in Nat
  BY <1>1, MicrosType
<1>3. ~(Micros(now) > Micros(now'))
  BY <1>1, LaterMicros
<1> QED BY <1>2, <1>3
----------------------------------------------------------------------------
(* Control. *)

(* Nothing that was looked for has changed. *)
LEMMA LookedForSame ==
  /\ heads' = heads => (NoImmediate' <=> NoImmediate)
  /\ fds' = fds /\ nfds' = nfds => (NoReport' <=> NoReport)
  /\ timers' = timers /\ entry' = entry => (NoneExpired' <=> NoneExpired)
  /\ timers' = timers /\ now' = now /\ timeout' = timeout => (TimeoutCovers' <=> TimeoutCovers)
  /\ timers' = timers /\ wake' = wake /\ timeout' = timeout => (WakeCovers' <=> WakeCovers)
<1>1. ASSUME heads' = heads PROVE NoImmediate' <=> NoImmediate
  BY <1>1 DEF NoImmediate
<1>2. ASSUME fds' = fds, nfds' = nfds PROVE NoReport' <=> NoReport
  BY <1>2 DEF NoReport
<1>3. ASSUME timers' = timers, entry' = entry PROVE NoneExpired' <=> NoneExpired
  BY <1>3 DEF NoneExpired, Expired
<1>4. ASSUME timers' = timers, now' = now, timeout' = timeout PROVE TimeoutCovers' <=> TimeoutCovers
  BY <1>4 DEF TimeoutCovers
<1>5. ASSUME timers' = timers, wake' = wake, timeout' = timeout PROVE WakeCovers' <=> WakeCovers
  BY <1>5 DEF WakeCovers
<1> QED BY <1>1, <1>2, <1>3, <1>4, <1>5

(* Client code runs only where nothing is claimed of the sources. *)
LEMMA ControlClient ==
  ASSUME Control, pc \in {"out", "callback"},
         UNCHANGED <<pc, cont, mode, rc, eintr, timeout, wake, limit, entry, ran, halt>>,
         done' \in BOOLEAN, intr' \in BOOLEAN, r' = r, now' = now
  PROVE  Control'
<1>1. LoopTypeOK'
  BY DEF Control, LoopTypeOK
<1>2. Status'
  BY DEF Control, Status
<1>3. Found'
  BY DEF Found, Quiet
<1> QED BY <1>1, <1>2, <1>3 DEF Control

(* The steps of Client. *)
LEMMA ClientOK ==
  ASSUME LoopIInv, Client
  PROVE  LoopIInv'
<1>0. Sources /\ Control /\ LoopTypeOK /\ pc \in {"out", "callback"}
  BY DEF LoopIInv, Control, Client
<1>1. CASE NetworkApi
  <2>1. Sources' /\ r' = r
    BY <1>0, <1>1, SourcesNetworkApi
  <2>2. UNCHANGED loopvars /\ now' = now
    BY <1>1 DEF NetworkApi, timervars
  <2>3. Control'
    BY <2>1, <2>2, <1>0, ControlClient DEF loopvars, LoopTypeOK
  <2> QED BY <2>1, <2>3 DEF LoopIInv
<1>2. CASE ImmediateApi
  <2>1. Sources' /\ r' = r
    BY <1>0, <1>2, SourcesImmediateApi
  <2>2. UNCHANGED loopvars /\ now' = now
    BY <1>2 DEF ImmediateApi, timervars
  <2>3. Control'
    BY <2>1, <2>2, <1>0, ControlClient DEF loopvars, LoopTypeOK
  <2> QED BY <2>1, <2>3 DEF LoopIInv
<1>3. CASE TimerApi
  <2>1. Sources' /\ r' = r /\ now' = now
    BY <1>0, <1>3, SourcesTimerApi
  <2>2. UNCHANGED loopvars
    BY <1>3 DEF TimerApi
  <2>3. Control'
    BY <2>1, <2>2, <1>0, ControlClient DEF loopvars, LoopTypeOK
  <2> QED BY <2>1, <2>3 DEF LoopIInv
<1>4. CASE SetDone \/ events_interrupt
  <2>1. /\ UNCHANGED <<pc, cont, mode, rc, eintr, timeout, wake, limit, entry, ran, halt>>
        /\ UNCHANGED <<netvars, immvars, timervars, recvars>>
    BY <1>4 DEF SetDone, events_interrupt
  <2>2. done' \in BOOLEAN /\ intr' \in BOOLEAN
    BY <1>0, <1>4 DEF SetDone, events_interrupt, LoopTypeOK
  <2>3. Sources'
    BY <2>1, <1>0, SourcesSame
  <2>4. r' = r /\ now' = now
    BY <2>1 DEF recvars, timervars
  <2>5. Control'
    BY <2>1, <2>2, <2>4, <1>0, ControlClient
  <2> QED BY <2>3, <2>5 DEF LoopIInv
<1> QED BY <1>1, <1>2, <1>3, <1>4 DEF Client

(* The steps that touch the loop's own variables only. *)
LEMMA ControlSame ==
  ASSUME UNCHANGED <<netvars, immvars, timervars, recvars>>
  PROVE  /\ heads' = heads /\ fds' = fds /\ nfds' = nfds /\ fdscanpos' = fdscanpos
         /\ timers' = timers /\ now' = now /\ r' = r
         /\ NoImmediate' <=> NoImmediate
         /\ NoReport' <=> NoReport
<1>1. /\ heads' = heads /\ fds' = fds /\ nfds' = nfds /\ fdscanpos' = fdscanpos
      /\ timers' = timers /\ now' = now /\ r' = r
  BY DEF netvars, immvars, timervars, recvars
<1> QED BY <1>1, LookedForSame

(* A signal arrives. *)
LEMMA SignalsOK ==
  ASSUME LoopIInv, Signal \/ OtherSignal
  PROVE  LoopIInv'
<1>0. Sources /\ LoopTypeOK /\ Status /\ Found /\ entry <= Micros(now)
  BY DEF LoopIInv, Control
<1>1. /\ UNCHANGED <<netvars, immvars, timervars, recvars>>
      /\ UNCHANGED <<pc, cont, mode, done, rc, timeout, wake, limit, entry, ran, halt>>
      /\ intr => intr'
  BY DEF Signal, OtherSignal
<1>2. intr' \in BOOLEAN
  BY <1>0 DEF Signal, OtherSignal, LoopTypeOK
<1>3. eintr' \in BOOLEAN
  <2>1. CASE Signal
    BY <2>1 DEF Signal
  <2>2. CASE OtherSignal
    BY <2>2 DEF OtherSignal
  <2> QED BY <2>1, <2>2
<1>4. LoopTypeOK'
  BY <1>0, <1>1, <1>2, <1>3 DEF LoopTypeOK
<1>5. /\ fdscanpos' = fdscanpos /\ nfds' = nfds /\ r' = r /\ now' = now
      /\ (NoImmediate' <=> NoImmediate) /\ (NoReport' <=> NoReport)
      /\ (NoneExpired' <=> NoneExpired)
      /\ (TimeoutCovers' <=> TimeoutCovers) /\ (WakeCovers' <=> WakeCovers)
  BY <1>1, ControlSame, LookedForSame
<1>6. Status'
  BY <1>0, <1>1, <1>5 DEF Status
<1>7. Found'
  BY <1>0, <1>1, <1>5 DEF Found, Quiet
<1>8. Sources'
  BY <1>0, <1>1, SourcesSame
<1> QED BY <1>0, <1>1, <1>4, <1>5, <1>6, <1>7, <1>8 DEF LoopIInv, Control

(* Time passes. *)
LEMMA ClockTickOK ==
  ASSUME LoopIInv, ClockTick
  PROVE  LoopIInv'
<1>0. Sources /\ LoopTypeOK /\ Status /\ Found /\ entry <= Micros(now)
  BY DEF LoopIInv, Control
<1>1. /\ UNCHANGED loopvars /\ Tick /\ timers' = timers /\ r' = r
      /\ heads' = heads /\ fds' = fds /\ nfds' = nfds /\ fdscanpos' = fdscanpos
  BY DEF ClockTick, netvars, immvars, recvars
<1>2. Micros(now) \in Nat /\ Micros(now') \in Nat /\ Micros(now) <= Micros(now')
  BY <1>0, <1>1, SourcesFacts, TickMicros DEF TimerCore, TimerTypeOK
<1>3. LoopTypeOK'
  BY <1>0, <1>1 DEF LoopTypeOK, loopvars
<1>4. /\ (NoImmediate' <=> NoImmediate) /\ (NoReport' <=> NoReport)
      /\ (NoneExpired' <=> NoneExpired) /\ (WakeCovers' <=> WakeCovers)
  BY <1>1, LookedForSame DEF loopvars
<1>5. TimeoutCovers => TimeoutCovers'
  <2> SUFFICES ASSUME TimeoutCovers PROVE TimeoutCovers'
    OBVIOUS
  <2>1. timeout' = timeout /\ timeout \in Nat \cup {-1} /\ MSEC \in Nat
    BY <1>0, <1>1, LoopAssumption DEF loopvars, LoopTypeOK
  <2>2. CASE timeout = -1
    BY <2>1, <2>2, <1>1 DEF TimeoutCovers
  <2>3. CASE timeout # -1
    <3>1. timeout * MSEC \in Nat
      BY <2>1, <2>3
    <3>2. ASSUME NEW x \in DOMAIN timers, Micros(timers[x].tv) <= Micros(now) + timeout * MSEC
          PROVE  Micros(timers[x].tv) <= Micros(now') + timeout * MSEC
      <4>1. Micros(timers[x].tv) \in Nat
        BY <1>0, SourcesFacts, MicrosType DEF TimerCore, TimerTypeOK, TimerRec
      <4> QED BY <3>1, <3>2, <4>1, <1>2
    <3> QED BY <2>1, <2>3, <3>2, <1>1 DEF TimeoutCovers
  <2> QED BY <2>2, <2>3
<1>6. Status'
  BY <1>0, <1>1 DEF Status, loopvars
<1>7. Found'
  BY <1>0, <1>1, <1>4, <1>5 DEF Found, Quiet, loopvars
<1>8. entry' \in Nat /\ entry' = entry
  BY <1>0, <1>1 DEF loopvars, LoopTypeOK
<1>9. entry' <= Micros(now')
  BY <1>0, <1>2, <1>8
<1>10. Sources'
  BY <1>0, SourcesTick
<1> QED BY <1>3, <1>6, <1>7, <1>9, <1>10 DEF LoopIInv, Control

(* What the invariant says before a step of the loop. *)
LEMMA LoopFacts ==
  ASSUME LoopIInv
  PROVE  /\ Sources /\ TimerCore /\ now \in Times /\ Micros(now) \in Nat
         /\ LoopTypeOK /\ Status /\ Found /\ entry <= Micros(now)
<1>1. Sources /\ LoopTypeOK /\ Status /\ Found /\ entry <= Micros(now)
  BY DEF LoopIInv, Control
<1>2. TimerCore
  BY <1>1, SourcesFacts
<1>3. now \in Times
  BY <1>2 DEF TimerCore, TimerTypeOK
<1> QED BY <1>1, <1>2, <1>3, MicrosType

(* The calls and returns of events_run and events_spin. *)
LEMMA CallsOK ==
  ASSUME LoopIInv, Call \/ Spin \/ Return
  PROVE  LoopIInv'
<1>0. /\ Sources /\ Micros(now) \in Nat
      /\ LoopTypeOK /\ Status /\ Found /\ entry <= Micros(now)
  BY LoopFacts
<1>1. UNCHANGED <<netvars, immvars, timervars, recvars>>
  BY DEF Call, Spin, Return
<1>2. Sources' /\ now' = now /\ r' = r
  BY <1>0, <1>1, SourcesSame, ControlSame
<1>3. CASE Call
  <2>1. /\ pc = "out" /\ pc' \in {"first", "spin"} /\ mode' \in {"run", "spin"}
        /\ entry' = Micros(now)
        /\ UNCHANGED <<cont, done, rc, intr, eintr, timeout, wake, limit, ran, halt>>
    BY <1>3 DEF Call
  <2>2. LoopTypeOK'
    BY <2>1, <1>0 DEF LoopTypeOK
  <2>3. Status' /\ Found'
    BY <2>1, <1>0, <1>2 DEF Status, Found, Quiet
  <2>4. entry' <= Micros(now')
    BY <2>1, <1>0, <1>2
  <2> QED BY <2>2, <2>3, <2>4, <1>2 DEF LoopIInv, Control
<1>4. CASE Spin
  <2>1. pc = "spin" /\ UNCHANGED <<cont, mode, done, eintr, timeout, wake, limit>>
    BY <1>4 DEF Spin
  <2>2. \/ /\ ~done /\ rc = 0 /\ ~intr
           /\ pc' = "first" /\ entry' = Micros(now) /\ ran' = FALSE
           /\ UNCHANGED <<intr, halt, rc>>
        \/ Leave
    BY <1>4 DEF Spin
  <2>3. LoopTypeOK'
    <3>1. /\ pc' \in {"out", "spin", "first"} /\ rc' \in {-1, 0, 1} /\ entry' \in Nat
          /\ intr' \in BOOLEAN /\ ran' \in BOOLEAN /\ halt' \in BOOLEAN
      <4>1. CASE Leave
        BY <4>1 DEF Leave
      <4>2. CASE ~Leave
        BY <4>2, <2>2, <1>0 DEF LoopTypeOK
      <4> QED BY <4>1, <4>2
    <3> QED BY <3>1, <2>1, <1>0 DEF LoopTypeOK
  <2>4. Status' /\ Found'
    BY <2>1, <2>2, <1>0, <1>2 DEF Status, Found, Quiet, Leave
  <2>5. entry' <= Micros(now')
    BY <2>2, <1>0, <1>2 DEF Leave
  <2> QED BY <2>3, <2>4, <2>5, <1>2 DEF LoopIInv, Control
<1>5. CASE Return
  <2>1. pc = "done" /\ UNCHANGED <<cont, mode, done, eintr, timeout, wake, limit>>
    BY <1>5 DEF Return
  <2>2. \/ Leave
        \/ pc' = "spin" /\ UNCHANGED <<rc, intr, entry, ran, halt>>
    BY <1>5 DEF Return
  <2>3. LoopTypeOK'
    <3>1. /\ pc' \in {"out", "spin", "first"} /\ rc' \in {-1, 0, 1} /\ entry' \in Nat
          /\ intr' \in BOOLEAN /\ ran' \in BOOLEAN /\ halt' \in BOOLEAN
      <4>1. CASE Leave
        BY <4>1 DEF Leave
      <4>2. CASE ~Leave
        BY <4>2, <2>2, <1>0 DEF LoopTypeOK
      <4> QED BY <4>1, <4>2
    <3> QED BY <3>1, <2>1, <1>0 DEF LoopTypeOK
  <2>4. Status' /\ Found'
    BY <2>1, <2>2, <1>0, <1>2 DEF Status, Found, Quiet, Leave
  <2>5. entry' <= Micros(now')
    BY <2>2, <1>0, <1>2 DEF Leave
  <2> QED BY <2>3, <2>4, <2>5, <1>2 DEF LoopIInv, Control
<1> QED BY <1>3, <1>4, <1>5

(* A callback begins. *)
LEMMA RunEventOK ==
  ASSUME LoopIInv, pc \notin {"done", "spin", "loop", "callback"},
         NEW l \in {"again", "loop"}, RunEvent(l),
         Sources', r' \in Recs, now' = now
  PROVE  LoopIInv'
<1>0. LoopTypeOK /\ Status /\ entry <= Micros(now)
  BY LoopFacts
<1>1. /\ pc' = "callback" /\ cont' = l /\ ran' = TRUE
      /\ UNCHANGED <<mode, done, rc, intr, eintr, timeout, wake, limit, entry, halt>>
  BY DEF RunEvent
<1>2. LoopTypeOK'
  BY <1>0, <1>1 DEF LoopTypeOK
<1>3. Status'
  BY <1>0, <1>1, RecsAssumption DEF Status
<1>4. Found'
  BY <1>1 DEF Found, Quiet
<1>5. entry' <= Micros(now')
  BY <1>0, <1>1
<1> QED BY <1>2, <1>3, <1>4, <1>5 DEF LoopIInv, Control

(* The loop goes to l with status c. *)
LEMMA GotoOK ==
  ASSUME LoopIInv, pc \notin {"done", "spin", "callback"},
         NEW l \in {"min", "loop", "imm", "net", "select0", "net2", "timer", "done"},
         NEW c \in {-1, 0}, c # 0 => l = "done", halt => l = "done",
         pc' = l, rc' = c,
         UNCHANGED <<cont, mode, done, intr, entry, ran, halt>>,
         eintr' \in BOOLEAN, timeout' \in Nat \cup {-1}, wake' \in Nat \cup {-1},
         limit' \in Nat \cup {-1},
         Sources', r' = r, now' = now,
         l \in Quiet => NoImmediate',
         l = "net2" => fdscanpos' = Pred(nfds'),
         l = "timer" => NoReport',
         l = "done" /\ ~ran /\ c = 0 /\ ~intr => NoImmediate' /\ NoReport' /\ NoneExpired'
  PROVE  LoopIInv'
<1>0. LoopTypeOK /\ Status /\ entry <= Micros(now)
  BY LoopFacts
<1>1. LoopTypeOK'
  BY <1>0 DEF LoopTypeOK
<1>2. Status'
  BY <1>0 DEF Status
<1>3. Found'
  BY DEF Found
<1>4. entry' <= Micros(now')
  BY <1>0
<1> QED BY <1>1, <1>2, <1>3, <1>4 DEF LoopIInv, Control

(* The parts of Goto that GotoOK asks for. *)
LEMMA GotoMeans ==
  ASSUME LoopTypeOK, NEW l, NEW c, Goto(l, c)
  PROVE  /\ pc' = l /\ rc' = c
         /\ UNCHANGED <<cont, mode, done, intr, entry, ran, halt>>
         /\ eintr' \in BOOLEAN /\ timeout' \in Nat \cup {-1} /\ wake' \in Nat \cup {-1}
         /\ limit' \in Nat \cup {-1}
<1>1. /\ pc' = l /\ rc' = c
      /\ UNCHANGED <<cont, mode, done, intr, eintr, timeout, wake, limit, entry, ran, halt>>
  BY DEF Goto
<1> QED BY <1>1 DEF LoopTypeOK

(* The same of EndPoll. *)
LEMMA EndPollMeans ==
  ASSUME NEW l, NEW c, EndPoll(l, c)
  PROVE  /\ pc' = l /\ rc' = c
         /\ UNCHANGED <<cont, mode, done, intr, entry, ran, halt>>
         /\ eintr' \in BOOLEAN /\ timeout' \in Nat \cup {-1} /\ wake' \in Nat \cup {-1}
         /\ limit' \in Nat \cup {-1}
         /\ UNCHANGED immvars /\ UNCHANGED timervars
<1>1. /\ pc' = l /\ rc' = c /\ eintr' = FALSE /\ timeout' = -1 /\ wake' = -1 /\ limit' = -1
      /\ UNCHANGED <<cont, mode, done, intr, entry, ran, halt>>
      /\ UNCHANGED immvars /\ UNCHANGED timervars
  BY DEF EndPoll
<1> QED BY <1>1

(* The three calls of events_immediate_get. *)
LEMMA GetImmediateOK ==
  ASSUME LoopIInv, GetImmediate
  PROVE  LoopIInv'
<1>0. Sources /\ LoopTypeOK /\ Status
  BY LoopFacts
<1>1. UNCHANGED netvars /\ UNCHANGED timervars /\ now' = now
  BY DEF GetImmediate, timervars
<1>2. pc \in {"first", "again", "imm"}
  BY DEF GetImmediate
<1>3. r = NULL /\ rc = 0 /\ halt = FALSE
  BY <1>0, <1>2 DEF Status, LoopTypeOK
<1>4. ASSUME NEW q \in Prios, events_immediate_get(q), NEW l \in {"again", "loop"}, RunEvent(l)
      PROVE  LoopIInv'
  <2>1. Sources' /\ r' \in Recs
    BY <1>0, <1>1, <1>3, <1>4, SourcesGetImmediate DEF ImmSet
  <2> QED BY <2>1, <1>1, <1>2, <1>4, RunEventOK
<1>5. ASSUME events_immediate_get_none, NEW l \in {"min", "done", "net"}, Goto(l, rc),
             l = "done" => pc = "again"
      PROVE  LoopIInv'
  <2>1. Sources' /\ NoImmediate' /\ r' = r
    BY <1>0, <1>1, <1>5, SourcesNoImmediate
  <2>2. l = "done" => ran
    BY <1>0, <1>5 DEF Status
  <2>3. Goto(l, 0)
    BY <1>3, <1>5
  <2>4. /\ pc' = l /\ rc' = 0
        /\ UNCHANGED <<cont, mode, done, intr, entry, ran, halt>>
        /\ eintr' \in BOOLEAN /\ timeout' \in Nat \cup {-1} /\ wake' \in Nat \cup {-1}
        /\ limit' \in Nat \cup {-1}
    BY <2>3, <1>0, GotoMeans
  <2> QED BY <2>1, <2>2, <2>4, <1>1, <1>2, <1>3, GotoOK
<1> QED BY <1>4, <1>5 DEF GetImmediate

(* events_timer_min. *)
LEMMA TimerMinOK ==
  ASSUME LoopIInv, TimerMin
  PROVE  LoopIInv'
<1>0. /\ Sources /\ TimerCore /\ LoopTypeOK /\ Status /\ Found /\ entry <= Micros(now)
  BY LoopFacts
<1>1. /\ pc = "min"
      /\ UNCHANGED <<cont, mode, done, intr, eintr, wake, limit, entry, ran, halt>>
      /\ UNCHANGED <<netvars, immvars, timervars, recvars>>
  BY DEF TimerMin
<1>2. Sources' /\ now' = now /\ timers' = timers /\ r' = r /\ (NoImmediate' <=> NoImmediate)
  BY <1>0, <1>1, SourcesSame, ControlSame
<1>3. ASSUME NEW tv \in events_timer_min, timeout' = PollTimeout(tv), pc' = "prepoll", rc' = rc
      PROVE  LoopIInv'
  <2>1. timeout' \in Nat \cup {-1} /\ TimeoutCovers'
    BY <1>0, <1>2, <1>3, TimerMinCovers
  <2>2. LoopTypeOK'
    BY <2>1, <1>0, <1>1, <1>3 DEF LoopTypeOK
  <2>3. Status' /\ Found'
    BY <2>1, <1>0, <1>1, <1>2, <1>3 DEF Status, Found, Quiet
  <2> QED BY <2>2, <2>3, <1>0, <1>1, <1>2 DEF LoopIInv, Control
<1>4. ASSUME pc' = "done", rc' = -1, timeout' = timeout
      PROVE  LoopIInv'
  <2>1. LoopTypeOK'
    BY <1>0, <1>1, <1>4 DEF LoopTypeOK
  <2>2. Status' /\ Found'
    BY <1>0, <1>1, <1>2, <1>4 DEF Status, Found, Quiet
  <2> QED BY <2>1, <2>2, <1>0, <1>1, <1>2 DEF LoopIInv, Control
<1> QED BY <1>3, <1>4 DEF TimerMin

(* poll starts, or init() fails before it. *)
LEMMA StartPollOK ==
  ASSUME LoopIInv, StartPoll
  PROVE  LoopIInv'
<1>0. /\ Sources /\ TimerCore /\ LoopTypeOK /\ Status /\ Found /\ entry <= Micros(now)
  BY LoopFacts
<1>1. /\ pc = "prepoll"
      /\ UNCHANGED <<cont, mode, done, intr, eintr, entry, ran, halt>>
      /\ UNCHANGED immvars /\ UNCHANGED timervars /\ timers' = timers /\ now' = now
      /\ heads' = heads
  BY DEF StartPoll, timervars, immvars
<1>2. NoImmediate' /\ timeout \in Nat \cup {-1} /\ TimeoutCovers
  BY <1>0, <1>1, LookedForSame DEF Found, Quiet, LoopTypeOK
<1>3. CASE /\ pc' = "poll" /\ wake' = Deadline /\ limit' = Deadline
           /\ UNCHANGED <<rc, timeout, netvars, recvars>>
  <2>1. wake' \in Nat \cup {-1} /\ WakeCovers' /\ TimeoutCovers'
    BY <1>0, <1>1, <1>2, <1>3, DeadlineCovers
  <2>2. Sources' /\ r' = r
    BY <1>0, <1>1, <1>3, SourcesSame DEF recvars
  <2>3. limit' \in Nat \cup {-1}
    BY <2>1, <1>3
  <2>4. LoopTypeOK'
    BY <2>1, <2>3, <1>0, <1>1, <1>3 DEF LoopTypeOK
  <2>5. Status' /\ Found'
    BY <2>1, <2>2, <1>0, <1>1, <1>2, <1>3 DEF Status, Found, Quiet
  <2> QED BY <2>2, <2>4, <2>5, <1>0, <1>1 DEF LoopIInv, Control
<1>4. CASE /\ init_fails /\ UNCHANGED r
           /\ pc' = "done" /\ rc' = -1 /\ timeout' = -1 /\ UNCHANGED <<wake, limit>>
  <2>1. Sources' /\ r' = r
    BY <1>0, <1>1, <1>4, SourcesSelect
  <2>2. LoopTypeOK'
    BY <1>0, <1>1, <1>4 DEF LoopTypeOK
  <2>3. Status' /\ Found'
    BY <2>1, <1>0, <1>1, <1>4 DEF Status, Found, Quiet
  <2> QED BY <2>1, <2>2, <2>3, <1>0, <1>1 DEF LoopIInv, Control
<1> QED BY <1>3, <1>4 DEF StartPoll

(* poll returns. *)
LEMMA PollReturnsOK ==
  ASSUME LoopIInv, PollReady \/ PollTimesOut \/ PollInterrupted \/ PollFails
  PROVE  LoopIInv'
<1>0. /\ Sources /\ TimerCore /\ LoopTypeOK /\ Status /\ Found /\ entry <= Micros(now)
  BY LoopFacts
<1>1. pc = "poll"
  BY DEF PollReady, PollTimesOut, PollInterrupted, PollFails
<1>2. rc = 0 /\ halt = FALSE /\ NoImmediate /\ TimeoutCovers /\ timeout \in Nat \cup {-1}
  BY <1>0, <1>1 DEF Status, LoopTypeOK, Found, Quiet
<1>3. ASSUME NEW l \in {"loop", "done"}, NEW c \in {-1, 0}, l = "done" <=> c = -1, EndPoll(l, c),
             \/ \E rev \in PollResults : events_network_select(rev)
             \/ events_network_select_interrupted
             \/ events_network_select_fails
      PROVE  LoopIInv'
  <2>1. /\ pc' = l /\ rc' = c
        /\ UNCHANGED <<cont, mode, done, intr, entry, ran, halt>>
        /\ eintr' \in BOOLEAN /\ timeout' \in Nat \cup {-1} /\ wake' \in Nat \cup {-1}
        /\ limit' \in Nat \cup {-1}
        /\ UNCHANGED immvars /\ UNCHANGED timervars
    BY <1>3, EndPollMeans
  <2>2. Sources' /\ r' = r
    BY <2>1, <1>0, <1>3, SourcesSelect
  <2>3. now' = now
    BY <2>1 DEF timervars
  <2> QED BY <2>1, <2>2, <2>3, <1>1, <1>2, <1>3, GotoOK DEF Quiet
<1>4. CASE PollReady
  <2>1. EndPoll("loop", 0) /\ \E rev \in PollResults : events_network_select(rev)
    BY <1>2, <1>4 DEF PollReady
  <2> QED BY <2>1, <1>3
<1>5. CASE PollTimesOut
  <2>1. EndPoll("loop", 0) /\ \E rev \in PollResults : events_network_select(rev)
    BY <1>2, <1>5, EmptyPollResult DEF PollTimesOut
  <2> QED BY <2>1, <1>3
<1>6. CASE PollFails
  <2>1. EndPoll("done", -1) /\ events_network_select_fails
    BY <1>6 DEF PollFails
  <2> QED BY <2>1, <1>3
<1>7. CASE events_network_select_interrupted /\ EndPoll("loop", rc)
  <2>1. EndPoll("loop", 0)
    BY <1>2, <1>7
  <2> QED BY <2>1, <1>3, <1>7
<1>8. CASE /\ wake' = Deadline /\ eintr' = FALSE
           /\ UNCHANGED <<pc, cont, mode, done, rc, intr, timeout, limit, entry, ran, halt>>
           /\ UNCHANGED <<netvars, immvars, timervars, recvars>>
  <2>1. Sources' /\ now' = now /\ timers' = timers /\ r' = r /\ (NoImmediate' <=> NoImmediate)
    BY <1>0, <1>8, SourcesSame, ControlSame
  <2>2. wake' \in Nat \cup {-1} /\ WakeCovers' /\ TimeoutCovers'
    BY <2>1, <1>0, <1>2, <1>8, DeadlineCovers
  <2>3. LoopTypeOK'
    <3>1. eintr' \in BOOLEAN
      BY <1>8, Zenon
    <3> QED BY <3>1, <2>2, <1>0, <1>8 DEF LoopTypeOK
  <2>4. Status' /\ Found'
    BY <2>1, <2>2, <1>0, <1>1, <1>2, <1>8 DEF Status, Found, Quiet
  <2> QED BY <2>1, <2>3, <2>4, <1>0, <1>8 DEF LoopIInv, Control
<1> QED BY <1>4, <1>5, <1>6, <1>7, <1>8 DEF PollInterrupted

(* The top of the do loop. *)
LEMMA TestInterruptOK ==
  ASSUME LoopIInv, TestInterrupt
  PROVE  LoopIInv'
<1>0. Sources /\ LoopTypeOK /\ Status
  BY LoopFacts
<1>1. /\ pc = "loop" /\ UNCHANGED <<netvars, immvars, timervars, recvars>>
      /\ Goto(IF intr THEN "done" ELSE "imm", rc)
  BY DEF TestInterrupt
<1>2. Sources' /\ now' = now /\ r' = r
  BY <1>0, <1>1, SourcesSame, ControlSame
<1>3. rc = 0 /\ (halt => intr)
  BY <1>0, <1>1 DEF Status
<1>4. ASSUME NEW l \in {"done", "imm"}, Goto(l, 0), l = "done" <=> intr PROVE LoopIInv'
  <2>1. /\ pc' = l /\ rc' = 0
        /\ UNCHANGED <<cont, mode, done, intr, entry, ran, halt>>
        /\ eintr' \in BOOLEAN /\ timeout' \in Nat \cup {-1} /\ wake' \in Nat \cup {-1}
        /\ limit' \in Nat \cup {-1}
    BY <1>0, <1>4, GotoMeans
  <2> QED BY <2>1, <1>1, <1>2, <1>3, <1>4, GotoOK DEF Quiet
<1>5. CASE intr
  BY <1>1, <1>3, <1>4, <1>5
<1>6. CASE ~intr
  BY <1>1, <1>3, <1>4, <1>6
<1> QED BY <1>5, <1>6

(* The two calls of events_network_get, and the select between them. *)
LEMMA GetNetworkOK ==
  ASSUME LoopIInv, GetNetwork \/ SelectZero
  PROVE  LoopIInv'
<1>0. Sources /\ LoopTypeOK /\ Status /\ Found
  BY LoopFacts
<1>1. /\ UNCHANGED immvars /\ UNCHANGED timervars /\ now' = now /\ heads' = heads
      /\ pc \in {"net", "net2", "select0"}
  BY DEF GetNetwork, SelectZero, immvars, timervars
<1>2. /\ r = NULL /\ rc = 0 /\ halt = FALSE /\ NoImmediate'
      /\ pc = "net2" => fdscanpos = Pred(nfds)
  BY <1>0, <1>1, LookedForSame DEF Status, LoopTypeOK, Found, Quiet
<1>3. ASSUME NEW k \in 0 .. (nfds - 1), events_network_get_hit(k), RunEvent("loop")
      PROVE  LoopIInv'
  <2>1. Sources' /\ r' \in Recs
    BY <1>0, <1>1, <1>2, <1>3, SourcesGetNetwork DEF NetSet
  <2> QED BY <2>1, <1>1, <1>3, RunEventOK
<1>4. ASSUME NEW l \in {"select0", "net2", "timer", "done"}, NEW c \in {-1, 0}, Goto(l, c),
             l = "done" <=> c = -1,
             Sources', r' = r, l = "net2" => fdscanpos' = Pred(nfds'), l = "timer" => NoReport'
      PROVE  LoopIInv'
  <2>1. /\ pc' = l /\ rc' = c
        /\ UNCHANGED <<cont, mode, done, intr, entry, ran, halt>>
        /\ eintr' \in BOOLEAN /\ timeout' \in Nat \cup {-1} /\ wake' \in Nat \cup {-1}
        /\ limit' \in Nat \cup {-1}
    BY <1>0, <1>4, GotoMeans
  <2> QED BY <2>1, <1>1, <1>2, <1>4, GotoOK
<1>5. CASE pc = "net" /\ events_network_get_none /\ Goto("select0", rc)
  <2>1. Sources' /\ r' = r
    BY <1>0, <1>1, <1>5, SourcesNoNetwork
  <2>2. Goto("select0", 0)
    BY <1>2, <1>5
  <2> QED BY <2>1, <2>2, <1>4
<1>6. CASE pc = "net2" /\ events_network_get_none /\ Goto("timer", rc)
  <2>1. Sources' /\ r' = r /\ NoReport'
    BY <1>0, <1>1, <1>2, <1>6, SourcesNoNetwork
  <2>2. Goto("timer", 0)
    BY <1>2, <1>6
  <2> QED BY <2>1, <2>2, <1>4
<1>7. CASE SelectZero
  <2>1. CASE (\E rev \in PollResults : events_network_select(rev)) /\ Goto("net2", rc)
    <3>1. Sources' /\ r' = r
      BY <1>0, <1>1, <2>1, SourcesSelect
    <3>2. fdscanpos' = Pred(nfds')
      BY <2>1 DEF events_network_select
    <3>3. Goto("net2", 0)
      BY <1>2, <2>1
    <3> QED BY <3>1, <3>2, <3>3, <1>4
  <2>2. CASE events_network_select_interrupted /\ Goto("net2", rc)
    <3>1. Sources' /\ r' = r
      BY <1>0, <1>1, <2>2, SourcesSelect
    <3>2. fdscanpos' = Pred(nfds')
      BY <2>2 DEF events_network_select_interrupted
    <3>3. Goto("net2", 0)
      BY <1>2, <2>2
    <3> QED BY <3>1, <3>2, <3>3, <1>4
  <2>3. CASE events_network_select_fails /\ Goto("done", -1)
    <3>1. Sources' /\ r' = r
      BY <1>0, <1>1, <2>3, SourcesSelect
    <3> QED BY <3>1, <2>3, <1>4
  <2> QED BY <2>1, <2>2, <2>3, <1>7 DEF SelectZero
<1> QED BY <1>3, <1>5, <1>6, <1>7 DEF GetNetwork

(* events_timer_get. *)
LEMMA GetTimerOK ==
  ASSUME LoopIInv, GetTimer
  PROVE  LoopIInv'
<1>0. /\ Sources /\ TimerCore /\ LoopTypeOK /\ Status /\ Found /\ entry <= Micros(now)
  BY LoopFacts
<1>1. /\ UNCHANGED netvars /\ UNCHANGED immvars /\ pc = "timer"
      /\ fds' = fds /\ nfds' = nfds /\ heads' = heads
  BY DEF GetTimer, netvars, immvars
<1>2. r = NULL /\ rc = 0 /\ halt = FALSE /\ NoImmediate' /\ NoReport'
  BY <1>0, <1>1, LookedForSame DEF Status, LoopTypeOK, Found, Quiet
<1>3. ASSUME NEW x \in Recs, events_timer_get(x), RunEvent("loop") PROVE LoopIInv'
  <2>1. Sources' /\ r' \in Recs
    BY <1>0, <1>1, <1>2, <1>3, SourcesGetTimer
  <2>2. now' = now
    BY <1>3 DEF events_timer_get
  <2> QED BY <2>1, <2>2, <1>1, <1>3, RunEventOK
<1>4. ASSUME NEW c \in {-1, 0}, Goto("done", c), UNCHANGED timervars, recs' = recs, r' = r,
             c = 0 => NoneExpired
      PROVE  LoopIInv'
  <2>1. /\ pc' = "done" /\ rc' = c
        /\ UNCHANGED <<cont, mode, done, intr, entry, ran, halt>>
        /\ eintr' \in BOOLEAN /\ timeout' \in Nat \cup {-1} /\ wake' \in Nat \cup {-1}
        /\ limit' \in Nat \cup {-1}
    BY <1>0, <1>4, GotoMeans
  <2>2. now' = now /\ timers' = timers
    BY <1>4 DEF timervars
  <2>3. NoneExpired' <=> NoneExpired
    BY <2>1, <2>2, LookedForSame
  <2>4. Sources'
    BY <1>0, <1>1, <1>4, SourcesSame DEF recvars
  <2> QED BY <2>1, <2>2, <2>3, <2>4, <1>1, <1>2, <1>4, GotoOK DEF Quiet
<1>5. CASE events_timer_get_none /\ Goto("done", rc)
  <2>1. UNCHANGED timervars /\ recs' = recs /\ r' = r
    BY <1>5 DEF events_timer_get_none
  <2>2. NoneExpired
    BY <1>0, <1>5, GetNoneMeans DEF NoneExpired, LoopTypeOK
  <2>3. Goto("done", 0)
    BY <1>2, <1>5
  <2> QED BY <2>1, <2>2, <2>3, <1>4
<1>6. CASE Goto("done", -1) /\ UNCHANGED <<timervars, recvars>>
  <2>1. UNCHANGED timervars /\ recs' = recs /\ r' = r
    BY <1>6 DEF recvars
  <2> QED BY <2>1, <1>4, <1>6
<1> QED BY <1>3, <1>5, <1>6 DEF GetTimer

(* A callback returns. *)
LEMMA EndCallbackOK ==
  ASSUME LoopIInv, NEW v \in {0, 1}, EndCallback(v)
  PROVE  LoopIInv'
<1>0. /\ Sources /\ LoopTypeOK /\ Status /\ entry <= Micros(now)
  BY LoopFacts
<1>1. /\ pc = "callback" /\ doevent_end /\ rc' = v /\ cont' = "loop" /\ halt' = intr
      /\ pc' = IF v # 0 \/ (cont = "again" /\ intr) THEN "done" ELSE cont
      /\ UNCHANGED <<mode, done, intr, eintr, timeout, wake, limit, entry, ran>>
      /\ UNCHANGED netvars /\ UNCHANGED immvars /\ UNCHANGED timervars /\ now' = now
  BY DEF EndCallback, timervars
<1>2. Sources' /\ r' = NULL
  BY <1>0, <1>1, SourcesEnd
<1>3. ran /\ cont \in {"again", "loop"} /\ intr \in BOOLEAN
  BY <1>0, <1>1 DEF Status, LoopTypeOK
<1>4. /\ pc' \in {"done", "again", "loop"}
      /\ v # 0 => pc' = "done"
      /\ intr => pc' \in {"done", "loop"}
  BY <1>1, <1>3
<1>5. LoopTypeOK'
  BY <1>0, <1>1, <1>3, <1>4 DEF LoopTypeOK
<1>6. Status'
  BY <1>1, <1>2, <1>3, <1>4 DEF Status
<1>7. Found'
  BY <1>1, <1>3, <1>4 DEF Found, Quiet
<1> QED BY <1>0, <1>1, <1>2, <1>5, <1>6, <1>7 DEF LoopIInv, Control

(* Every step keeps the invariant. *)
LEMMA LoopNextOK == LoopIInv /\ [LoopNext]_allvars => LoopIInv'
<1> SUFFICES ASSUME LoopIInv, [LoopNext]_allvars PROVE LoopIInv'
  OBVIOUS
<1>1. CASE LoopStep
  <2>1. CASE Spin \/ Return
    BY <2>1, CallsOK
  <2>2. CASE PollTimesOut \/ PollInterrupted
    BY <2>2, PollReturnsOK
  <2>3. CASE GetNetwork \/ SelectZero
    BY <2>3, GetNetworkOK
  <2> QED BY <1>1, <2>1, <2>2, <2>3, GetImmediateOK, TimerMinOK, StartPollOK, TestInterruptOK,
             GetTimerOK, EndCallbackOK DEF LoopStep
<1>2. CASE PollReady \/ PollFails
  BY <1>2, PollReturnsOK
<1>3. CASE Call
  BY <1>3, CallsOK
<1>4. CASE Signal \/ OtherSignal
  BY <1>4, SignalsOK
<1>5. CASE UNCHANGED allvars
  <2>1. UNCHANGED loopvars /\ UNCHANGED <<netvars, immvars, timervars, recvars>>
    BY <1>5 DEF allvars
  <2>2. Sources /\ LoopTypeOK /\ Status /\ Found /\ entry <= Micros(now)
    BY LoopFacts
  <2>3. /\ fdscanpos' = fdscanpos /\ nfds' = nfds /\ r' = r /\ now' = now
        /\ (NoImmediate' <=> NoImmediate) /\ (NoReport' <=> NoReport)
        /\ (NoneExpired' <=> NoneExpired)
        /\ (TimeoutCovers' <=> TimeoutCovers) /\ (WakeCovers' <=> WakeCovers)
    BY <2>1, ControlSame, LookedForSame DEF loopvars
  <2>4. LoopTypeOK' /\ Status'
    BY <2>1, <2>2, <2>3 DEF LoopTypeOK, Status, loopvars
  <2>5. Found'
    BY <2>1, <2>2, <2>3 DEF Found, Quiet, loopvars
  <2>6. entry' <= Micros(now')
    BY <2>1, <2>2, <2>3 DEF loopvars
  <2>7. Sources'
    BY <2>1, <2>2, SourcesSame
  <2> QED BY <2>4, <2>5, <2>6, <2>7 DEF LoopIInv, Control
<1> QED BY <1>1, <1>2, <1>3, <1>4, <1>5, ClientOK, ClockTickOK DEF LoopNext

(* The invariant holds at first. *)
LEMMA LoopInitOK == LoopStart => LoopIInv
<1> SUFFICES ASSUME LoopInit, NetInit, ImmInit, TimerInit, RecInit PROVE LoopIInv
  BY DEF LoopStart
<1>1. /\ NetCore /\ ImmCore /\ TimerCore /\ DOMAIN timers = {}
      /\ \A y : ~InSockets(y) /\ ~InLists(y)
  BY NetInitOK, ImmInitOK, TimerInitOK
<1>2. recs = {} /\ r = NULL /\ NULL \notin Recs
  BY RecsAssumption DEF RecInit
<1>3. NetSet = {} /\ ImmSet = {}
  BY <1>1 DEF NetSet, ImmSet
<1>4. Owners
  BY <1>1, <1>2, <1>3 DEF Owners, OwnersOK
<1>5. Sources
  BY <1>1, <1>2, <1>4 DEF Sources, RecTypeOK
<1>6. LoopTypeOK
  BY DEF LoopInit, LoopTypeOK
<1>7. Status /\ Found
  BY <1>2 DEF LoopInit, Status, Found, Quiet
<1>8. now \in Times /\ entry = 0
  BY <1>1 DEF TimerCore, TimerTypeOK, LoopInit
<1>9. entry <= Micros(now)
  BY <1>8, MicrosType
<1> QED BY <1>5, <1>6, <1>7, <1>9 DEF LoopIInv, Control

(* The inductive invariant always holds. *)
LEMMA LoopInductive == LoopSpec => []LoopIInv
BY LoopInitOK, LoopNextOK, PTL DEF LoopSpec
----------------------------------------------------------------------------
(* The predicates of EventLoop say the same of a record. *)
LEMMA OwnersMean ==
  ASSUME NEW x \in Recs
  PROVE  (InNetwork(x) <=> x \in NetSet) /\ (InImmediate(x) <=> x \in ImmSet)
<1>1. InNetwork(x) <=> InSockets(x)
  BY DEF InNetwork, InSockets
<1>2. InImmediate(x) <=> InLists(x)
  BY DEF InImmediate, InLists, PositionsOf
<1> QED BY <1>1, <1>2 DEF NetSet, ImmSet

(* Through every interleaving of the main program, callbacks and signals,   *)
(* each allocated record waits in exactly one source or is being run: no    *)
(* callback is lost, run twice, or run after it was cancelled.              *)
THEOREM LoopCorrect == LoopSpec => []LoopConsistent
<1>1. LoopIInv => LoopConsistent
  <2> SUFFICES ASSUME LoopIInv PROVE LoopConsistent
    OBVIOUS
  <2>1. LoopTypeOK /\ Status /\ Sources
    BY LoopFacts
  <2>2. NetCore /\ ImmCore /\ TimerCore /\ RecTypeOK /\ Owners
    BY <2>1 DEF Sources
  <2>3. NetTypeOK
    BY <2>2 DEF NetCore, RestTyped, Arrays, ArraysOK, ArraysTyped, NetTypeOK
  <2>4. ImmTypeOK /\ TimerTypeOK
    BY <2>2 DEF ImmCore, TimerCore
  <2>5. OneOwner
    <3>1. r # NULL <=> pc = "callback"
      BY <2>1 DEF Status
    <3>2. ASSUME NEW x \in Recs
          PROVE  /\ x \in recs <=> x = r \/ InNetwork(x) \/ InImmediate(x) \/ InTimers(x)
                 /\ ~(x = r /\ (InNetwork(x) \/ InImmediate(x) \/ InTimers(x)))
                 /\ ~(InNetwork(x) /\ (InImmediate(x) \/ InTimers(x)))
                 /\ ~(InImmediate(x) /\ InTimers(x))
      BY <2>2, OwnersMean DEF Owners, OwnersOK, InTimers
    <3> QED BY <3>1, <3>2 DEF OneOwner
  <2> QED BY <2>1, <2>2, <2>3, <2>4, <2>5 DEF LoopConsistent
<1> QED BY <1>1, LoopInductive, PTL

(* "If there are runnable events, events_run() is guaranteed to run at      *)
(* least one", whatever signals and failures there are.                     *)
THEOREM RunsOneCorrect == LoopSpec => []RunsOne
<1>1. LoopIInv => RunsOne
  BY LoopFacts DEF Found, NoneExpired, RunsOne
<1> QED BY <1>1, LoopInductive, PTL

(* The loop never sleeps while it has an event to run, nor without a        *)
(* timeout while a timer is registered.                                     *)
THEOREM BlocksCorrect == LoopSpec => []BlocksOnlyWhenIdle
<1>1. LoopIInv => BlocksOnlyWhenIdle
  BY LoopFacts DEF Found, Quiet, WakeCovers, BlocksOnlyWhenIdle
<1> QED BY <1>1, LoopInductive, PTL

(* A record is taken out of a source in three places only. *)
LEMMA TakesFrom ==
  ASSUME LoopIInv, [LoopNext]_allvars, NEW x \in Recs, r' = x, r # x
  PROVE  \/ pc \in {"first", "again", "imm"} /\ x \in ImmSet
         \/ pc \in {"net", "net2"} /\ x \in NetSet
         \/ pc = "timer" /\ x \in DOMAIN timers
<1>0. Sources /\ Status
  BY LoopFacts
<1>1. x # NULL
  BY RecsAssumption
<1>2. CASE GetImmediate
  <2>1. /\ pc \in {"first", "again", "imm"} /\ UNCHANGED netvars /\ UNCHANGED timervars
        /\ (\E q \in Prios : events_immediate_get(q)) \/ events_immediate_get_none
    BY <1>2 DEF GetImmediate
  <2>2. r = NULL
    BY <2>1, <1>0 DEF Status
  <2>3. CASE events_immediate_get_none
    BY <2>3 DEF events_immediate_get_none
  <2> QED BY <2>1, <2>2, <2>3, <1>0, SourcesGetImmediate
<1>3. CASE GetNetwork
  <2>1. /\ pc \in {"net", "net2"} /\ UNCHANGED immvars /\ UNCHANGED timervars
        /\ (\E k \in 0 .. (nfds - 1) : events_network_get_hit(k)) \/ events_network_get_none
    BY <1>3 DEF GetNetwork
  <2>2. r = NULL
    BY <2>1, <1>0 DEF Status
  <2>3. CASE events_network_get_none
    BY <2>3 DEF events_network_get_none
  <2> QED BY <2>1, <2>2, <2>3, <1>0, SourcesGetNetwork
<1>4. CASE GetTimer
  <2>1. /\ pc = "timer" /\ UNCHANGED netvars /\ UNCHANGED immvars
        /\ (\E y \in Recs : events_timer_get(y)) \/ r' = r
    BY <1>4 DEF GetTimer, events_timer_get_none, recvars
  <2>2. r = NULL
    BY <2>1, <1>0 DEF Status
  <2> QED BY <2>1, <2>2, <1>0, SourcesGetTimer
<1>5. ASSUME NEW v \in {0, 1}, EndCallback(v) PROVE FALSE
  BY <1>1, <1>5 DEF EndCallback, doevent_end
<1>6. CASE Client
  BY <1>0, <1>6, SourcesNetworkApi, SourcesImmediateApi, SourcesTimerApi
     DEF Client, SetDone, events_interrupt, recvars
<1>7. CASE Spin \/ Return \/ TimerMin \/ TestInterrupt \/ Call \/ Signal \/ OtherSignal
  BY <1>7 DEF Spin, Return, TimerMin, TestInterrupt, Call, Signal, OtherSignal, recvars
<1>8. CASE StartPoll
  BY <1>8 DEF StartPoll, recvars
<1>9. CASE PollTimesOut \/ PollReady
  BY <1>9 DEF PollTimesOut, PollReady, events_network_select
<1>10. CASE PollInterrupted
  BY <1>10 DEF PollInterrupted, events_network_select_interrupted, recvars
<1>11. CASE PollFails
  BY <1>11 DEF PollFails, events_network_select_fails
<1>12. CASE SelectZero
  BY <1>12 DEF SelectZero, events_network_select, events_network_select_interrupted,
               events_network_select_fails
<1>13. CASE ClockTick
  BY <1>13 DEF ClockTick, recvars
<1>14. CASE UNCHANGED allvars
  BY <1>14 DEF allvars, recvars
<1> QED BY <1>2, <1>3, <1>4, <1>5, <1>6, <1>7, <1>8, <1>9, <1>10, <1>11, <1>12, <1>13, <1>14
        DEF LoopNext, LoopStep

(* Immediate events come first, then network events, then timers, also when *)
(* callbacks register new events of every kind.                             *)
THEOREM PriorityCorrect == LoopSpec => PriorityOrder
<1>1. ASSUME LoopIInv, [LoopNext]_allvars, NEW x \in recs, Takes(x)
      PROVE  /\ InNetwork(x) => NoImmediate
             /\ InTimers(x) => NoImmediate /\ NoReport
  <2>1. x \in Recs /\ Found /\ OwnersOK(NetSet, ImmSet, DOMAIN timers, recs, r)
    BY <1>1, LoopFacts, SourcesFacts
  <2>2. \/ pc \in {"first", "again", "imm"} /\ x \in ImmSet
        \/ pc \in {"net", "net2"} /\ x \in NetSet
        \/ pc = "timer" /\ x \in DOMAIN timers
    BY <1>1, <2>1, TakesFrom DEF Takes
  <2>3. (InNetwork(x) <=> x \in NetSet) /\ (InTimers(x) <=> x \in DOMAIN timers)
    BY <2>1, OwnersMean DEF InTimers
  <2> QED BY <2>1, <2>2, <2>3 DEF OwnersOK, Found, Quiet
<1>2. LoopIInv /\ [LoopNext]_allvars =>
        [\A x \in recs : Takes(x) =>
           /\ InNetwork(x) => NoImmediate
           /\ InTimers(x) => NoImmediate /\ NoReport]_allvars
  BY <1>1
<1> QED BY <1>2, LoopInductive, PTL DEF LoopSpec, PriorityOrder

(* No event is run after a callback that failed, or after an interrupt that *)
(* was requested before the current one had finished.                       *)
THEOREM StopsCorrect == LoopSpec => StopsAfterCurrentEvent
<1>1. ASSUME LoopIInv, [LoopNext]_allvars, NEW x \in recs, Takes(x)
      PROVE  rc = 0 /\ ~halt
  <2>1. x \in Recs /\ Status
    BY <1>1, LoopFacts, SourcesFacts
  <2>2. pc \in {"first", "again", "imm", "net", "net2", "timer"}
    BY <1>1, <2>1, TakesFrom DEF Takes
  <2> QED BY <2>1, <2>2 DEF Status
<1>2. LoopIInv /\ [LoopNext]_allvars => [(\E x \in recs : Takes(x)) => rc = 0 /\ ~halt]_allvars
  BY <1>1
<1> QED BY <1>2, LoopInductive, PTL DEF LoopSpec, StopsAfterCurrentEvent

(* Rounding a timeout up to a millisecond is enough: when poll times out,   *)
(* the timer it waited for is due.                                          *)
THEOREM TimeoutCorrect == LoopSpec => TimeoutMeansExpired
<1>1. ASSUME LoopIInv, PollTimesOut, timeout < INT_MAX
      PROVE  \E x \in DOMAIN timers : Expired(x, Micros(now))
  <2>1. pc = "poll" /\ wake # -1 /\ Micros(now) >= wake
    BY <1>1 DEF PollTimesOut
  <2>2. TimerCore /\ LoopTypeOK /\ TimeoutCovers /\ WakeCovers /\ Micros(now) \in Nat
    BY <2>1, <1>1, LoopFacts DEF Found
  <2>3. wake \in Nat
    BY <2>1, <2>2 DEF LoopTypeOK
  <2>4. CASE timeout # -1
    <3>1. PICK x \in DOMAIN timers : Micros(timers[x].tv) <= wake
      BY <2>2, <2>4, <1>1 DEF WakeCovers
    <3>2. Micros(timers[x].tv) \in Nat
      BY <2>2, MicrosType DEF TimerCore, TimerTypeOK, TimerRec
    <3> QED BY <3>1, <3>2, <2>1, <2>2, <2>3 DEF Expired
  <2>5. timeout # -1
    BY <2>1, <2>2 DEF WakeCovers
  <2> QED BY <2>4, <2>5
<1>2. LoopIInv /\ [LoopNext]_allvars =>
        [PollTimesOut /\ timeout < INT_MAX =>
           \E x \in DOMAIN timers : Expired(x, Micros(now))]_allvars
  BY <1>1
<1> QED BY <1>2, LoopInductive, PTL DEF LoopSpec, TimeoutMeansExpired
=============================================================================
