----------------------------- MODULE EventsTimer -----------------------------
(***************************************************************************)
(* Timer events (events/events_timer.c) on the timer queue                 *)
(* (datastruct/timerqueue.c).  A timerrec is identified with the event     *)
(* record it carries, so the cookie the client holds is the record itself. *)
(* The queue is a set of timers of which timerqueue_getmin finds any       *)
(* earliest one: what PtrHeap shows of the heap underneath.                *)
(*                                                                         *)
(* Times keep the two fields of struct timeval, because carrying and       *)
(* borrowing between them is what gettimeout and events_timer_min do.      *)
(***************************************************************************)
EXTENDS EventRec

CONSTANTS
  USEC,    \* microseconds in a second (1000000 in the source)
  Timeos,  \* the delays clients ask for
  MaxTime  \* the clock stops after this many microseconds

Times == [tv_sec : Nat, tv_usec : 0 .. (USEC - 1)]

ASSUME TimerAssumption ==
  /\ USEC \in Nat \ {0}
  /\ MaxTime \in Nat
  /\ Timeos \subseteq Times

VARIABLES
  Q,       \* the queue exists
  timers,  \* the registered timers: deadline, initial delay and, as history,
           \* the time of the last register or reset
  now      \* the monotonic clock

timervars == <<Q, timers, now>>

TimerRec == [tv : Times, tv_orig : Times, since : Times]
Zero == [tv_sec |-> 0, tv_usec |-> 0]

TimerTypeOK ==
  /\ Q \in BOOLEAN
  /\ DOMAIN timers \subseteq Recs
  /\ \A x \in DOMAIN timers : timers[x] \in TimerRec
  /\ now \in Times

TimerInit ==
  /\ Q = FALSE
  /\ timers = [x \in {} |-> Zero]
  /\ now = Zero

(* The length of a time in microseconds. *)
Micros(t) == t.tv_sec * USEC + t.tv_usec

(* The clock moves on by a microsecond. *)
Tick ==
  now' = IF now.tv_usec = USEC - 1
         THEN [tv_sec |-> now.tv_sec + 1, tv_usec |-> 0]
         ELSE [tv_sec |-> now.tv_sec, tv_usec |-> now.tv_usec + 1]

(* Mutants: no carry; a carry that does not reach the seconds. *)
gettimeout_no_carry(tdelta) ==
  [tv_sec |-> now.tv_sec + tdelta.tv_sec, tv_usec |-> now.tv_usec + tdelta.tv_usec]

gettimeout_lost_carry(tdelta) ==
  LET usec == now.tv_usec + tdelta.tv_usec
      sec == now.tv_sec + tdelta.tv_sec
  IN IF usec >= USEC THEN [tv_sec |-> sec, tv_usec |-> usec - USEC]
     ELSE [tv_sec |-> sec, tv_usec |-> usec]

(* gettimeout: the current time plus tdelta. *)
gettimeout(tdelta) ==
  LET usec == now.tv_usec + tdelta.tv_usec
      sec == now.tv_sec + tdelta.tv_sec
  IN IF usec >= USEC THEN [tv_sec |-> sec + 1, tv_usec |-> usec - USEC]
     ELSE [tv_sec |-> sec, tv_usec |-> usec]

(* Mutant: only the seconds are compared. *)
Later_seconds(x, y) == x.tv_sec > y.tv_sec

(* tvcmp(x, y) > 0 *)
Later(x, y) ==
  \/ x.tv_sec > y.tv_sec
  \/ x.tv_sec = y.tv_sec /\ x.tv_usec > y.tv_usec

(* What gettimeout makes of a timer with initial delay timeo. *)
StartedNow(timeo) == [tv |-> gettimeout(timeo), tv_orig |-> timeo, since |-> now]

(* The timer queue.  ptrheap_getmin returns any of the earliest timers. *)
Earliest == {x \in DOMAIN timers : \A y \in DOMAIN timers : ~Later(timers[x].tv, timers[y].tv)}

timerqueue_add(x, t) ==
  timers' = [y \in DOMAIN timers \cup {x} |-> IF y = x THEN t ELSE timers[y]]

timerqueue_delete(x) ==
  timers' = [y \in DOMAIN timers \ {x} |-> timers[y]]

timerqueue_increase(x, t) ==
  timers' = [timers EXCEPT ![x] = t]

timerqueue_getptr(x, tv) ==
  /\ x \in Earliest
  /\ ~Later(timers[x].tv, tv)
  /\ timerqueue_delete(x)
----------------------------------------------------------------------------
(* events_timer_register(func, cookie, timeo), and with it                  *)
(* events_timer_register_double: x is the record made for (func, cookie).   *)
events_timer_register(x, timeo) ==
  /\ events_mkrec(x)
  /\ Q' = TRUE
  /\ timerqueue_add(x, StartedNow(timeo))
  /\ UNCHANGED <<now, r>>

(* It fails after the queue was created: no record, no memory or no time    *)
(* to be had.  What had been allocated by then is freed again.  (Without a  *)
(* queue nothing changes.)                                                  *)
events_timer_register_fails ==
  /\ Q' = TRUE
  /\ UNCHANGED <<timers, now, recs, r>>

(* events_timer_cancel(cookie) *)
events_timer_cancel(x) ==
  /\ x \in DOMAIN timers
  /\ timerqueue_delete(x)
  /\ events_freerec(x)
  /\ UNCHANGED <<Q, now, r>>

(* events_timer_reset(cookie); if the clock cannot be read nothing changes. *)
events_timer_reset(x) ==
  /\ x \in DOMAIN timers
  /\ timerqueue_increase(x, StartedNow(timers[x].tv_orig))
  /\ UNCHANGED <<Q, now, recs, r>>

(* Mutant: the microseconds are borrowed and the seconds keep them. *)
TimeUntil_lost_borrow(tv) ==
  IF Later(now, tv) THEN Zero
  ELSE IF tv.tv_usec < now.tv_usec
       THEN [tv_sec |-> tv.tv_sec - now.tv_sec, tv_usec |-> tv.tv_usec - now.tv_usec + USEC]
       ELSE [tv_sec |-> tv.tv_sec - now.tv_sec, tv_usec |-> tv.tv_usec - now.tv_usec]

(* What events_timer_min returns for the earliest deadline tv: how long to  *)
(* wait for it.                                                             *)
TimeUntil(tv) ==
  IF Later(now, tv) THEN Zero
  ELSE IF tv.tv_usec < now.tv_usec
       THEN [tv_sec |-> tv.tv_sec - now.tv_sec - 1, tv_usec |-> tv.tv_usec - now.tv_usec + USEC]
       ELSE [tv_sec |-> tv.tv_sec - now.tv_sec, tv_usec |-> tv.tv_usec - now.tv_usec]

(* events_timer_min: the possible results, NULL if there are no timers. *)
events_timer_min ==
  IF Earliest = {} THEN {NULL} ELSE {TimeUntil(timers[x].tv) : x \in Earliest}

(* events_timer_get returns x, an earliest timer that has expired. *)
events_timer_get(x) ==
  /\ timerqueue_getptr(x, now)
  /\ r' = x
  /\ UNCHANGED <<Q, now, recs>>

(* events_timer_get returns NULL: the earliest timer, if there is one, has  *)
(* not expired.                                                             *)
events_timer_get_none ==
  /\ \A x \in Earliest : Later(timers[x].tv, now)
  /\ UNCHANGED <<timervars, recs, r>>

(* events_timer_shutdown, run by atexit: an empty queue is freed. *)
events_timer_shutdown ==
  /\ Q
  /\ DOMAIN timers = {}
  /\ Q' = FALSE
  /\ UNCHANGED <<timers, now, recs, r>>
----------------------------------------------------------------------------
(* The component on its own, under any client. *)
TimerClient ==
  \/ \E x \in Recs :
       \/ \E timeo \in Timeos : events_timer_register(x, timeo)
       \/ events_timer_cancel(x)
       \/ events_timer_reset(x)
  \/ events_timer_register_fails
  \/ events_timer_shutdown

TimerNext ==
  \/ TimerClient
  \/ r = NULL /\ ((\E x \in Recs : events_timer_get(x)) \/ events_timer_get_none)
  \/ doevent_end /\ UNCHANGED timervars
  \/ Micros(now) < MaxTime /\ Tick /\ UNCHANGED <<Q, timers, recs, r>>

TimerStart == TimerInit /\ RecInit

TimerSpec == TimerStart /\ [][TimerNext]_<<timervars, recvars>>
----------------------------------------------------------------------------
(* A deadline is the time of the last register or reset plus the initial    *)
(* delay, to the microsecond: gettimeout carries correctly.                 *)
DeadlinesExact ==
  \A x \in DOMAIN timers :
    Micros(timers[x].tv) = Micros(timers[x].since) + Micros(timers[x].tv_orig)

(* A timer runs no sooner than its delay after it was registered or last    *)
(* reset, and no timer that was due before it is left behind.               *)
NeverEarlyEarliestFirst ==
  [][\A x \in DOMAIN timers :
       r' = x /\ r # x =>
         /\ Micros(now) >= Micros(timers[x].since) + Micros(timers[x].tv_orig)
         /\ \A y \in DOMAIN timers :
              Micros(timers[x].since) + Micros(timers[x].tv_orig)
                <= Micros(timers[y].since) + Micros(timers[y].tv_orig)]_<<timervars, recvars>>

(* A deadline never moves down: timerqueue_increase, which                  *)
(* events_timer_reset calls, sifts its element down the heap only, and      *)
(* would misplace one whose deadline had decreased.                         *)
ResetOnlyIncreases ==
  [][\A x \in DOMAIN timers \cap DOMAIN timers' :
       ~Later(timers[x].tv, timers'[x].tv)]_<<timervars, recvars>>

(* The wait events_timer_min returns ends exactly at the earliest deadline, *)
(* or is zero if that has passed, and is a proper struct timeval.           *)
WaitEndsAtDeadline ==
  \A x \in Earliest :
    LET w == TimeUntil(timers[x].tv)
    IN /\ w \in Times
       /\ IF Micros(now) > Micros(timers[x].tv) THEN w = Zero
          ELSE Micros(now) + Micros(w) = Micros(timers[x].tv)
       /\ events_timer_min = {w}

(* Every allocated record is a registered timer's or is held by the event   *)
(* loop, never both; there are no timers without a queue.                   *)
TimerRecordsAccounted ==
  /\ recs = DOMAIN timers \cup ({r} \ {NULL})
  /\ r \notin DOMAIN timers
  /\ ~Q => DOMAIN timers = {}

(* Every deadline is exact to the microsecond, through all carries, and     *)
(* every record is a registered timer's or held by the loop.                *)
TimersConsistent ==
  /\ TimerTypeOK /\ RecTypeOK
  /\ DeadlinesExact
  /\ TimerRecordsAccounted
=============================================================================
