------------------------------ MODULE EventLoop ------------------------------
(***************************************************************************)
(* The event loop (events/events.c): events_run and events_spin over the   *)
(* three event sources, which share the event records and the record r     *)
(* that events_run_internal holds.  Client code runs in two places, the    *)
(* main program between calls of the loop and the callback of r, and calls *)
(* any operation of any source there.  Signals arrive at any time; the     *)
(* handler may call events_interrupt.  The clock ticks at any time.        *)
(*                                                                         *)
(* pc names the statement of events_run_internal that is next:             *)
(*   first, again   events_immediate_get at the top and in the while loop  *)
(*   min, prepoll   events_timer_min; the start of events_network_select   *)
(*   poll           inside poll(2)                                         *)
(*   loop           the test of interrupt_requested in the do loop         *)
(*   imm, net, select0, net2, timer   the sources in their order           *)
(*   callback       inside the callback of r                               *)
(*   done           return; spin: the condition of events_spin's loop      *)
(*   out            the main program, outside the loop                     *)
(***************************************************************************)
EXTENDS EventsNetwork, EventsImmediate, EventsTimer

CONSTANTS
  MSEC,     \* microseconds in a millisecond (1000 in the source)
  INT_MAX   \* largest timeout of poll, in milliseconds

ASSUME LoopAssumption ==
  /\ MSEC \in Nat \ {0}
  /\ USEC % MSEC = 0
  /\ INT_MAX \in Nat
  /\ NULL \notin Times

VARIABLES
  pc,
  cont,     \* where a callback returns to: "again" or "loop"
  mode,     \* which function was called: "run" or "spin"
  done,     \* *done of events_spin
  rc,       \* status of events_run_internal and events_spin
  intr,     \* interrupt_requested
  eintr,    \* a signal has interrupted poll
  timeout,  \* the timeout given to poll in milliseconds, -1 for none
  wake,     \* when poll times out, in microseconds, -1 for never
  limit,    \* history: when the first poll of this select times out
  entry,    \* history: the time events_run_internal was entered
  ran,      \* history: it has run an event
  halt      \* history: a callback returned with an interrupt requested

loopvars == <<pc, cont, mode, done, rc, intr, eintr, timeout, wake, limit, entry, ran, halt>>
allvars == <<loopvars, netvars, immvars, timervars, recvars>>

LoopTypeOK ==
  /\ pc \in {"out", "spin", "first", "again", "min", "prepoll", "poll", "loop", "imm", "net",
             "select0", "net2", "timer", "callback", "done"}
  /\ cont \in {"again", "loop"}
  /\ mode \in {"run", "spin"}
  /\ done \in BOOLEAN
  /\ rc \in {-1, 0, 1}
  /\ intr \in BOOLEAN
  /\ eintr \in BOOLEAN
  /\ timeout \in Nat \cup {-1}
  /\ wake \in Nat \cup {-1}
  /\ limit \in Nat \cup {-1}
  /\ entry \in Nat
  /\ ran \in BOOLEAN
  /\ halt \in BOOLEAN

LoopInit ==
  /\ pc = "out"
  /\ cont = "loop"
  /\ mode = "run"
  /\ done = FALSE
  /\ rc = 0
  /\ intr = FALSE
  /\ eintr = FALSE
  /\ timeout = -1
  /\ wake = -1
  /\ limit = -1
  /\ entry = 0
  /\ ran = FALSE
  /\ halt = FALSE

(* Mutants: rounded down to a millisecond; no timeout at all. *)
PollTimeout_rounds_down(tv) ==
  IF tv = NULL THEN -1
  ELSE IF tv.tv_sec >= INT_MAX \div (USEC \div MSEC) THEN INT_MAX
  ELSE tv.tv_sec * (USEC \div MSEC) + tv.tv_usec \div MSEC

PollTimeout_blocks(tv) == -1

(* The conversion of a timeval to poll's timeout: rounded up to a           *)
(* millisecond, with a cap.                                                 *)
PollTimeout(tv) ==
  IF tv = NULL THEN -1
  ELSE IF tv.tv_sec >= INT_MAX \div (USEC \div MSEC) THEN INT_MAX
  ELSE tv.tv_sec * (USEC \div MSEC) + (tv.tv_usec + MSEC - 1) \div MSEC

(* When a poll that starts now times out. *)
Deadline == IF timeout = -1 THEN -1 ELSE Micros(now) + timeout * MSEC

(* The bound on the clock: clients ask for no deadline beyond it. *)
RoomFor(timeo) == Micros(now) + Micros(timeo) <= MaxTime
----------------------------------------------------------------------------
(* Client code: the operations of the three sources, events_interrupt, and  *)
(* the flag that events_spin watches.                                       *)
NetworkApi ==
  /\ \E s \in Fds, op \in Ops :
       \/ \E x \in Recs : events_network_register(x, s, op)
       \/ events_network_register_fails(s, op)
       \/ events_network_cancel(s, op)
       \/ events_network_cancel_fails(s, op)
  /\ UNCHANGED <<loopvars, immvars, timervars>>

ImmediateApi ==
  /\ \E x \in Recs : (\E p \in Prios : events_immediate_register(x, p))
                     \/ events_immediate_cancel(x)
  /\ UNCHANGED <<loopvars, netvars, timervars>>

TimerApi ==
  /\ \/ \E x \in Recs, timeo \in Timeos :
          RoomFor(timeo) /\ events_timer_register(x, timeo)
     \/ \E x \in DOMAIN timers :
          \/ events_timer_cancel(x)
          \/ RoomFor(timers[x].tv_orig) /\ events_timer_reset(x)
     \/ events_timer_register_fails
  /\ UNCHANGED <<loopvars, netvars, immvars>>

SetDone ==
  /\ done' \in BOOLEAN
  /\ UNCHANGED <<pc, cont, mode, rc, intr, eintr, timeout, wake, limit, entry, ran, halt>>
  /\ UNCHANGED <<netvars, immvars, timervars, recvars>>

(* events_interrupt, called by client code. *)
events_interrupt ==
  /\ intr' = TRUE
  /\ UNCHANGED <<pc, cont, mode, done, rc, eintr, timeout, wake, limit, entry, ran, halt>>
  /\ UNCHANGED <<netvars, immvars, timervars, recvars>>

Client ==
  /\ pc \in {"out", "callback"}
  /\ NetworkApi \/ ImmediateApi \/ TimerApi \/ SetDone \/ events_interrupt

(* A signal whose handler calls events_interrupt.  A poll under way will    *)
(* return EINTR.                                                            *)
Signal ==
  /\ ~intr
  /\ intr' = TRUE
  /\ eintr' = (pc = "poll")
  /\ UNCHANGED <<pc, cont, mode, done, rc, timeout, wake, limit, entry, ran, halt>>
  /\ UNCHANGED <<netvars, immvars, timervars, recvars>>

(* A signal whose handler does not, while poll is under way and has not     *)
(* timed out.  The clock's bound leaves room for poll to start again.       *)
OtherSignal ==
  /\ pc = "poll"
  /\ ~eintr
  /\ wake # -1 => Micros(now) < wake /\ Deadline <= MaxTime
  /\ eintr' = TRUE
  /\ UNCHANGED <<pc, cont, mode, done, rc, intr, timeout, wake, limit, entry, ran, halt>>
  /\ UNCHANGED <<netvars, immvars, timervars, recvars>>

(* Time passes, beyond the bound only while poll waits for it. *)
ClockTick ==
  /\ Micros(now) < MaxTime \/ (pc = "poll" /\ Micros(now) < wake)
  /\ Tick
  /\ UNCHANGED <<loopvars, netvars, immvars, Q, timers, recvars>>
----------------------------------------------------------------------------
(* The loop. *)

(* Go to l with status c; nothing else of the loop's state changes. *)
Goto(l, c) ==
  /\ pc' = l
  /\ rc' = c
  /\ UNCHANGED <<cont, mode, done, intr, eintr, timeout, wake, limit, entry, ran, halt>>

(* doevent(r) begins: its callback will return to l. *)
RunEvent(l) ==
  /\ pc' = "callback"
  /\ cont' = l
  /\ ran' = TRUE
  /\ UNCHANGED <<mode, done, rc, intr, eintr, timeout, wake, limit, entry, halt>>

(* Mutant: events_run waits before it looks for immediate events. *)
Call_waits_first ==
  /\ pc = "out"
  /\ \/ mode' = "run" /\ pc' = "min"
     \/ mode' = "spin" /\ pc' = "spin"
  /\ entry' = Micros(now)
  /\ UNCHANGED <<cont, done, rc, intr, eintr, timeout, wake, limit, ran, halt>>
  /\ UNCHANGED <<netvars, immvars, timervars, recvars>>

(* events_run and events_spin are called by the main program. *)
Call ==
  /\ pc = "out"
  /\ \/ mode' = "run" /\ pc' = "first"
     \/ mode' = "spin" /\ pc' = "spin"
  /\ entry' = Micros(now)
  /\ UNCHANGED <<cont, done, rc, intr, eintr, timeout, wake, limit, ran, halt>>
  /\ UNCHANGED <<netvars, immvars, timervars, recvars>>

(* events_run or events_spin resets interrupt_requested and returns rc to   *)
(* the main program.                                                        *)
Leave ==
  /\ pc' = "out"
  /\ intr' = FALSE
  /\ rc' = 0
  /\ halt' = FALSE
  /\ entry' = 0
  /\ ran' = FALSE

(* The loop of events_spin: go round again, or reset interrupt_requested    *)
(* and return.                                                              *)
Spin ==
  /\ pc = "spin"
  /\ IF ~done /\ rc = 0 /\ ~intr
     THEN /\ pc' = "first"
          /\ entry' = Micros(now)
          /\ ran' = FALSE
          /\ UNCHANGED <<intr, halt>>
          /\ UNCHANGED rc
     ELSE Leave
  /\ UNCHANGED <<cont, mode, done, eintr, timeout, wake, limit>>
  /\ UNCHANGED <<netvars, immvars, timervars, recvars>>

(* events_run_internal returns, to events_run or to events_spin. *)
Return ==
  /\ pc = "done"
  /\ IF mode = "run" THEN Leave
     ELSE pc' = "spin" /\ UNCHANGED <<rc, intr, entry, ran, halt>>
  /\ UNCHANGED <<cont, mode, done, eintr, timeout, wake, limit>>
  /\ UNCHANGED <<netvars, immvars, timervars, recvars>>

(* The three calls of events_immediate_get. *)
GetImmediate ==
  /\ \/ pc = "first" /\ (\/ (\E q \in Prios : events_immediate_get(q)) /\ RunEvent("again")
                         \/ events_immediate_get_none /\ Goto("min", rc))
     \/ pc = "again" /\ (\/ (\E q \in Prios : events_immediate_get(q)) /\ RunEvent("again")
                         \/ events_immediate_get_none /\ Goto("done", rc))
     \/ pc = "imm" /\ (\/ (\E q \in Prios : events_immediate_get(q)) /\ RunEvent("loop")
                       \/ events_immediate_get_none /\ Goto("net", rc))
  /\ UNCHANGED <<netvars, timervars>>

(* events_timer_min, which fails without memory or time; its result is      *)
(* converted to the timeout of poll.                                        *)
TimerMin ==
  /\ pc = "min"
  /\ \/ /\ \E tv \in events_timer_min : timeout' = PollTimeout(tv)
        /\ pc' = "prepoll"
        /\ UNCHANGED rc
     \/ /\ DOMAIN timers # {}
        /\ pc' = "done"
        /\ rc' = -1
        /\ UNCHANGED timeout
  /\ UNCHANGED <<cont, mode, done, intr, eintr, wake, limit, entry, ran, halt>>
  /\ UNCHANGED <<netvars, immvars, timervars, recvars>>

(* poll starts; init() may have failed before.  Nothing tests               *)
(* interrupt_requested between its last test and this point.                *)
StartPoll ==
  /\ pc = "prepoll"
  /\ \/ /\ pc' = "poll"
        /\ wake' = Deadline
        /\ limit' = Deadline
        /\ UNCHANGED <<rc, timeout, netvars, recvars>>
     \/ /\ init_fails /\ UNCHANGED r
        /\ pc' = "done"
        /\ rc' = -1
        /\ timeout' = -1
        /\ UNCHANGED <<wake, limit>>
  /\ UNCHANGED <<cont, mode, done, intr, eintr, entry, ran, halt>>
  /\ UNCHANGED <<immvars, timervars>>

(* poll is over: go to l with status c. *)
EndPoll(l, c) ==
  /\ pc' = l
  /\ rc' = c
  /\ eintr' = FALSE
  /\ timeout' = -1
  /\ wake' = -1
  /\ limit' = -1
  /\ UNCHANGED <<cont, mode, done, intr, entry, ran, halt>>
  /\ UNCHANGED <<immvars, timervars>>

(* poll returns a positive number of ready descriptors. *)
PollReady ==
  /\ pc = "poll"
  /\ \E rev \in PollResults :
       /\ \E j \in 0 .. (nfds - 1) : rev[j] # {}
       /\ events_network_select(rev)
  /\ EndPoll("loop", rc)

(* poll times out and returns 0. *)
PollTimesOut ==
  /\ pc = "poll"
  /\ wake # -1
  /\ Micros(now) >= wake
  /\ events_network_select([j \in 0 .. (nfds - 1) |-> {}])
  /\ EndPoll("loop", rc)

(* Mutant: every EINTR starts poll again. *)
PollInterrupted_retries ==
  /\ pc = "poll"
  /\ eintr
  /\ wake' = Deadline
  /\ eintr' = FALSE
  /\ UNCHANGED <<pc, cont, mode, done, rc, intr, timeout, limit, entry, ran, halt>>
  /\ UNCHANGED <<netvars, immvars, timervars, recvars>>

(* poll returns EINTR: an interrupt ends the select, any other signal       *)
(* starts poll again with the same timeout.                                 *)
PollInterrupted ==
  /\ pc = "poll"
  /\ eintr
  /\ \/ intr /\ events_network_select_interrupted /\ EndPoll("loop", rc)
     \/ /\ ~intr
        /\ wake' = Deadline
        /\ eintr' = FALSE
        /\ UNCHANGED <<pc, cont, mode, done, rc, intr, timeout, limit, entry, ran, halt>>
        /\ UNCHANGED <<netvars, immvars, timervars, recvars>>

PollFails ==
  /\ pc = "poll"
  /\ events_network_select_fails
  /\ EndPoll("done", -1)

(* Mutants: the loop does not look at interrupt_requested; it looks for     *)
(* network events first.                                                    *)
TestInterrupt_ignores ==
  /\ pc = "loop"
  /\ Goto("imm", rc)
  /\ UNCHANGED <<netvars, immvars, timervars, recvars>>

TestInterrupt_network_first ==
  /\ pc = "loop"
  /\ Goto(IF intr THEN "done" ELSE "net", rc)
  /\ UNCHANGED <<netvars, immvars, timervars, recvars>>

(* The top of the do loop. *)
TestInterrupt ==
  /\ pc = "loop"
  /\ Goto(IF intr THEN "done" ELSE "imm", rc)
  /\ UNCHANGED <<netvars, immvars, timervars, recvars>>

(* Mutant: no timers are looked for when there are no network events. *)
GetNetwork_no_timers ==
  /\ \/ pc \in {"net", "net2"} /\ (\E k \in 0 .. (nfds - 1) : events_network_get_hit(k)) /\ RunEvent("loop")
     \/ pc = "net" /\ events_network_get_none /\ Goto("select0", rc)
     \/ pc = "net2" /\ events_network_get_none /\ Goto("done", rc)
  /\ UNCHANGED <<immvars, timervars>>

(* The two calls of events_network_get. *)
GetNetwork ==
  /\ \/ pc \in {"net", "net2"} /\ (\E k \in 0 .. (nfds - 1) : events_network_get_hit(k)) /\ RunEvent("loop")
     \/ pc = "net" /\ events_network_get_none /\ Goto("select0", rc)
     \/ pc = "net2" /\ events_network_get_none /\ Goto("timer", rc)
  /\ UNCHANGED <<immvars, timervars>>

(* events_network_select with a timeout of zero. *)
SelectZero ==
  /\ pc = "select0"
  /\ \/ (\E rev \in PollResults : events_network_select(rev)) /\ Goto("net2", rc)
     \/ intr /\ events_network_select_interrupted /\ Goto("net2", rc)
     \/ events_network_select_fails /\ Goto("done", -1)
  /\ UNCHANGED <<immvars, timervars>>

(* events_timer_get, which fails when the clock cannot be read. *)
GetTimer ==
  /\ pc = "timer"
  /\ \/ (\E x \in Recs : events_timer_get(x)) /\ RunEvent("loop")
     \/ events_timer_get_none /\ Goto("done", rc)
     \/ Q /\ Goto("done", -1) /\ UNCHANGED <<timervars, recvars>>
  /\ UNCHANGED <<netvars, immvars>>

(* The callback returns v and its record is freed.  A status other than 0   *)
(* ends events_run_internal; in the first loop an interrupt does too.       *)
EndCallback(v) ==
  /\ pc = "callback"
  /\ doevent_end
  /\ rc' = v
  /\ pc' = IF v # 0 \/ (cont = "again" /\ intr) THEN "done" ELSE cont
  /\ cont' = "loop"
  /\ halt' = intr
  /\ UNCHANGED <<mode, done, intr, eintr, timeout, wake, limit, entry, ran>>
  /\ UNCHANGED <<netvars, immvars, timervars>>

(* The steps the loop takes by itself; poll returns by itself when it has   *)
(* been interrupted or has timed out.                                       *)
LoopStep ==
  \/ Spin \/ Return \/ GetImmediate \/ TimerMin \/ StartPoll
  \/ PollTimesOut \/ PollInterrupted
  \/ TestInterrupt \/ GetNetwork \/ SelectZero \/ GetTimer
  \/ \E v \in {0, 1} : EndCallback(v)

LoopNext ==
  \/ LoopStep
  \/ PollReady \/ PollFails
  \/ Call \/ Client
  \/ Signal \/ OtherSignal \/ ClockTick

LoopStart == LoopInit /\ NetInit /\ ImmInit /\ TimerInit /\ RecInit

LoopSpec == LoopStart /\ [][LoopNext]_allvars

(* The loop keeps going, callbacks return and time passes. *)
LoopFairSpec == LoopSpec /\ WF_allvars(LoopStep) /\ WF_allvars(ClockTick)
----------------------------------------------------------------------------
(* The record x waits in a source. *)
InNetwork(x) == \E i \in 0 .. (slen - 1), op \in Ops : S[i].ev[op] = x
InImmediate(x) == \E p \in Prios : PositionsOf(heads[p], x) # {}
InTimers(x) == x \in DOMAIN timers

NoImmediate == \A p \in Prios : heads[p] = << >>
NoReport == \A j \in 0 .. (nfds - 1) : fds[j].revents = {}
Expired(x, t) == Micros(timers[x].tv) <= t

(* A step that takes x out of a source to run it. *)
Takes(x) == r' = x /\ r # x

(* Every allocated record waits in exactly one of the three sources or is   *)
(* the one whose callback runs: no callback is lost, run twice, or run      *)
(* after it was cancelled, whatever callbacks do to each other's events.    *)
OneOwner ==
  /\ \A x \in Recs :
       x \in recs <=> x = r \/ InNetwork(x) \/ InImmediate(x) \/ InTimers(x)
  /\ \A x \in Recs :
       /\ ~(x = r /\ (InNetwork(x) \/ InImmediate(x) \/ InTimers(x)))
       /\ ~(InNetwork(x) /\ (InImmediate(x) \/ InTimers(x)))
       /\ ~(InImmediate(x) /\ InTimers(x))
  /\ r # NULL <=> pc = "callback"

(* The same, with the types of the loop's and the sources' variables. *)
LoopConsistent ==
  /\ LoopTypeOK /\ NetTypeOK /\ ImmTypeOK /\ TimerTypeOK /\ RecTypeOK
  /\ OneOwner

(* The order the comment of events_run promises: a network event runs only  *)
(* when no immediate event is registered, and a timer only when no report   *)
(* of poll is left either.                                                  *)
PriorityOrder ==
  [][\A x \in recs : Takes(x) =>
       /\ InNetwork(x) => NoImmediate
       /\ InTimers(x) => NoImmediate /\ NoReport]_allvars

(* "If there are runnable events, events_run() is guaranteed to run at      *)
(* least one": a run that returns 0 uninterrupted without having run one    *)
(* had no immediate event, no reported one, and no timer that had expired   *)
(* when it was called.                                                      *)
RunsOne ==
  pc = "done" /\ ~ran /\ rc = 0 /\ ~intr =>
    NoImmediate /\ NoReport /\ \A x \in DOMAIN timers : ~Expired(x, entry)

(* The loop blocks in poll only when no immediate event is registered, and  *)
(* with no timeout only when no timer is.                                   *)
BlocksOnlyWhenIdle ==
  pc = "poll" => NoImmediate /\ (wake = -1 => DOMAIN timers = {})

(* When poll times out, the timer it waited for has expired: rounding the   *)
(* timeout never makes the loop spin until the millisecond is over.         *)
TimeoutMeansExpired ==
  [][PollTimesOut /\ timeout < INT_MAX =>
       \E x \in DOMAIN timers : Expired(x, Micros(now))]_allvars

(* "If any event function returns a non-zero result, no further events will *)
(* be run", and likewise after an interrupt requested before the current    *)
(* event has finished: "Halt the event loop after finishing the current     *)
(* event".                                                                  *)
StopsAfterCurrentEvent ==
  [][(\E x \in recs : Takes(x)) => rc = 0 /\ ~halt]_allvars

(* An interrupt requested while a callback runs, or by a signal that finds  *)
(* the loop inside poll, makes the loop return.                             *)
InterruptReturns ==
  (intr /\ (pc = "callback" \/ eintr)) ~> pc = "out"

(* An expired timer makes the loop run some event or return. *)
ExpiredMakesProgress ==
  (pc # "out" /\ \E x \in DOMAIN timers : Expired(x, Micros(now)))
    ~> (pc = "out" \/ r # NULL)

(* events_interrupt as documented, called by the handler of a signal that   *)
(* arrives at any time while the loop runs (and not by the main program or  *)
(* during a callback, after which the loop does look).                      *)
InterruptReturnsAlways ==
  [](pc \in {"out", "callback"} => ~intr) => (intr ~> pc = "out")

(* events_network_get as documented, "return NULL if there are no such      *)
(* events available": when the loop calls it and poll has reported an event *)
(* that is still registered, it finds one.  The code looks for none while   *)
(* fdscanpos is not below nfds.                                             *)
GetFindsReports ==
  pc \in {"net", "net2"} /\ (\E j \in 0 .. (nfds - 1) : ErrToOps(fds[j]) \cap Ops # {})
    => fdscanpos < nfds /\ Hits # {}

(* events_network_select as documented: "waiting up to ${tv} time". *)
WaitBounded == pc = "poll" => wake <= limit
=============================================================================
