------------------------------ MODULE TimedSleep ------------------------------
(***************************************************************************)
(* Wakeable::sleep(millis) (include/RdClientHandler.h) on                  *)
(* Conditional::wait(milliseconds) (src/Conditional.cpp): one thread that  *)
(* sleeps for a time and others that call wakeUp().  Nothing in the        *)
(* program calls it yet; sleep() without a time is in ClientSession.       *)
(*                                                                         *)
(* Time is counted in milliseconds; what tv_nsec holds beyond them never   *)
(* makes a difference to whether it exceeds a second.                      *)
(***************************************************************************)
EXTENDS Naturals

CONSTANTS
  Second,     \* milliseconds in a second
  Millis,     \* the arguments sleep() is called with
  MaxTime     \* bound of the model: the time the clock stops

VARIABLES
  now,        \* CLOCK_REALTIME
  sleeper,    \* "awake", "waiting", "woken" (wants the mutex), or "thrown"
  timewait,   \* the deadline [sec, frac] of the wait
  start,      \* history: the time of the call of sleep()
  millis,     \* its argument
  locked,     \* the mutex is held by the sleeper from one step to another
  sleeping,   \* _sleeping
  signalled,  \* history: the wait has ended before its time
  waker       \* somebody calls wakeUp(): "idle" or "calling"

vars == <<now, sleeper, timewait, start, millis, locked, sleeping, signalled, waker>>

Init ==
  /\ now \in 0 .. Second
  /\ sleeper = "awake"
  /\ timewait = [sec |-> 0, frac |-> 0]
  /\ start = 0
  /\ millis = 0
  /\ locked = FALSE
  /\ sleeping = FALSE
  /\ signalled = FALSE
  /\ waker = "idle"

Tick ==
  /\ now < MaxTime
  /\ now' = now + 1
  /\ UNCHANGED <<sleeper, timewait, start, millis, locked, sleeping, signalled, waker>>

\* Mutant: the seconds of the time to wait are forgotten.
DeadlineWithinSecond(t, ms) ==
  [sec |-> t \div Second, frac |-> (t % Second) + (ms % Second)]

\* tv_sec and tv_nsec are added to separately, and nothing is carried.
Deadline(t, ms) ==
  [sec |-> t \div Second + ms \div Second, frac |-> (t % Second) + (ms % Second)]

\* wait(): pthread_cond_timedwait() releases the mutex, or answers EINVAL to
\* a tv_nsec of a second or more; then the exception leaves wait() and
\* sleep() with the mutex held.
Wait(ms) ==
  /\ timewait' = Deadline(now, ms)
  /\ IF timewait'.frac < Second THEN sleeper' = "waiting" /\ locked' = FALSE
                                ELSE sleeper' = "thrown" /\ locked' = TRUE

Sleep(ms) ==
  /\ sleeper = "awake"
  /\ now + ms <= MaxTime
  /\ start' = now
  /\ millis' = ms
  /\ sleeping' = TRUE
  /\ signalled' = FALSE
  /\ Wait(ms)
  /\ UNCHANGED <<now, waker>>

TimesOut ==
  /\ sleeper = "waiting"
  /\ now >= timewait.sec * Second + timewait.frac
  /\ sleeper' = "woken"
  /\ UNCHANGED <<now, timewait, start, millis, locked, sleeping, signalled, waker>>

SpuriousWakeup ==
  /\ sleeper = "waiting"
  /\ sleeper' = "woken"
  /\ signalled' = TRUE
  /\ UNCHANGED <<now, timewait, start, millis, locked, sleeping, waker>>

\* Mutant: _sleeping is left as it is, and the loop waits once more.
WaitAgain ==
  /\ sleeper = "woken"
  /\ IF sleeping THEN Wait(millis) ELSE sleeper' = "awake" /\ UNCHANGED <<timewait, locked>>
  /\ UNCHANGED <<now, start, millis, sleeping, signalled, waker>>

\* The mutex is taken back; `_sleeping = false' ends the loop after one wait,
\* whatever has ended the wait.
Return ==
  /\ sleeper = "woken"
  /\ sleeping' = FALSE
  /\ sleeper' = "awake"
  /\ UNCHANGED <<now, timewait, start, millis, locked, signalled, waker>>

CallWakeUp ==
  /\ waker = "idle"
  /\ waker' = "calling"
  /\ UNCHANGED <<now, sleeper, timewait, start, millis, locked, sleeping, signalled>>

\* wakeUp(), from lock() to unlock()
WakeUp ==
  /\ waker = "calling"
  /\ ~locked
  /\ waker' = "idle"
  /\ sleeping' = FALSE
  /\ IF sleeper = "waiting" THEN sleeper' = "woken" /\ signalled' = TRUE
                            ELSE UNCHANGED <<sleeper, signalled>>
  /\ UNCHANGED <<now, timewait, start, millis, locked>>

Next ==
  \/ Tick
  \/ \E ms \in Millis : Sleep(ms)
  \/ TimesOut
  \/ SpuriousWakeup
  \/ Return
  \/ CallWakeUp
  \/ WakeUp
  \/ now = MaxTime /\ UNCHANGED vars    \* the clock has stopped

SafeSpec == Init /\ [][Next]_vars

\* Time goes by, and the threads run.
Fairness == WF_vars(Tick) /\ WF_vars(TimesOut) /\ WF_vars(Return) /\ WF_vars(WakeUp)

Spec == SafeSpec /\ Fairness

-----------------------------------------------------------------------------

TypeOK ==
  /\ now \in Nat /\ start \in Nat /\ millis \in Nat
  /\ sleeper \in {"awake", "waiting", "woken", "thrown"}
  /\ timewait \in [sec : Nat, frac : Nat]

\* The fractions of the current second and of the time to wait add up to one.
Carries == (start % Second) + (millis % Second) >= Second

(***************************************************************************)
(* Unless somebody calls wakeUp(), or the wait ends without a reason, a    *)
(* sleep lasts at least as long as it was asked to, over whatever number   *)
(* of seconds.                                                             *)
(***************************************************************************)
NotTooShort ==
  sleeper = "woken" /\ ~signalled => now >= start + millis

\* The inductive invariant: the deadline waited for is that of the call, and
\* the mutex stays locked only after an exception, of which Carries is the
\* only cause.
SleepInv ==
  /\ TypeOK
  /\ sleeper # "awake" => timewait = Deadline(start, millis)
  /\ sleeper \in {"waiting", "woken"} => ~Carries
  /\ sleeper = "thrown" => Carries
  /\ locked <=> sleeper = "thrown"
  /\ NotTooShort

(***************************************************************************)
(* A sleep ends by itself, also when the wakeUp() it is waiting for came   *)
(* too early: the sleep without a time does not (ClientSession).  wakeUp() *)
(* returns.  The exception is a sleep that throws with the mutex held,     *)
(* which happens when the fraction of the current second and that of the   *)
(* time to wait add up to a second.                                        *)
(***************************************************************************)
SleepEnds ==
  /\ sleeper = "waiting" ~> sleeper = "awake"
  /\ waker = "calling" ~> (waker = "idle" \/ (sleeper = "thrown" /\ Carries))
=============================================================================
