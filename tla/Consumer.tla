------------------------------ MODULE Consumer ------------------------------
(***************************************************************************)
(* The Consumer template (include/Consumer.h) over Lockable and            *)
(* Conditional: a thread that takes items from a queue filled by others.   *)
(* EventProcessorAsync is the instance the program runs: its reader adds   *)
(* packets, its handler shuts it down, its own thread executes run().      *)
(*                                                                         *)
(* Critical sections.  add() and the second half of shutdown() hold the    *)
(* mutex from beginning to end without waiting for anything, so each is    *)
(* one step, enabled when the mutex is free.  run() holds it between the   *)
(* evaluation of its wait condition and the wait: the mutex is taken       *)
(* exactly when cpc = "wait", and needs no variable.                       *)
(***************************************************************************)
EXTENDS Naturals, Sequences

CONSTANTS
  Items,        \* what can be queued
  Rejected,     \* the items for which proccess() always throws
  MaxBacklog    \* bound of the model: items in the two queues together

ASSUME ConsumerAssumption ==
  /\ Rejected \subseteq Items
  /\ MaxBacklog \in Nat \ {0}

VARIABLES
  pending,      \* Consumer::pending, filled by add()
  proccesing,   \* Consumer::proccesing, the batch taken by run()
  r,            \* Consumer::r, false once shutdown() was called
  cpc,          \* where the consumer thread is in run()
  stop          \* how far the caller of shutdown() is

vars == <<pending, proccesing, r, cpc, stop>>

(***************************************************************************)
(* "loop": at `while (running())'; "lock": about to take the mutex;        *)
(* "wait": holds it and is about to wait; "blocked": in pthread_cond_wait; *)
(* "woken": taken off the condition, wants the mutex back; "process":      *)
(* working off the batch; "thrown": an exception of proccess() has left    *)
(* run(), which terminates the process.                                    *)
(***************************************************************************)
ConsumerStep == {"loop", "lock", "wait", "blocked", "woken", "process", "exited", "thrown"}

StopStep == {"idle", "signal", "done"}

Init ==
  /\ pending = <<>>
  /\ proccesing = <<>>
  /\ r = TRUE
  /\ cpc = "loop"
  /\ stop = "idle"

Locked == cpc = "wait"

\* pthread_cond_signal with the consumer as the only possible waiter.
Signal == cpc' = IF cpc = "blocked" THEN "woken" ELSE cpc

-----------------------------------------------------------------------------
(* Callers *)

\* Mutant: the item is pushed but the condition is not signalled.
AddUnsignalled(item) ==
  /\ ~Locked
  /\ Len(pending) + Len(proccesing) < MaxBacklog
  /\ pending' = Append(pending, item)
  /\ UNCHANGED <<proccesing, r, cpc, stop>>

\* add(): lock, push, signal, unlock.
Add(item) ==
  /\ ~Locked
  /\ Len(pending) + Len(proccesing) < MaxBacklog
  /\ pending' = Append(pending, item)
  /\ Signal
  /\ UNCHANGED <<proccesing, r, stop>>

\* shutdown(): r becomes false under runningLock, not under the mutex.
StopRunning ==
  /\ stop = "idle"
  /\ stop' = "signal"
  /\ r' = FALSE
  /\ UNCHANGED <<pending, proccesing, cpc>>

\* Mutant: the signal is sent without taking the mutex.
StopSignalUnlocked ==
  /\ stop = "signal"
  /\ stop' = "done"
  /\ Signal
  /\ UNCHANGED <<pending, proccesing, r>>

\* shutdown(): lock, signal, unlock.
StopSignal ==
  /\ ~Locked
  /\ stop = "signal"
  /\ stop' = "done"
  /\ Signal
  /\ UNCHANGED <<pending, proccesing, r>>

-----------------------------------------------------------------------------
(* The consumer thread *)

LoopTest ==
  /\ cpc = "loop"
  /\ cpc' = IF r THEN "lock" ELSE "exited"
  /\ UNCHANGED <<pending, proccesing, r, stop>>

\* With the mutex: `pending.empty() && running()' holds, so wait.
WaitNeeded ==
  /\ cpc \in {"lock", "woken"}
  /\ pending = <<>> /\ r
  /\ cpc' = "wait"
  /\ UNCHANGED <<pending, proccesing, r, stop>>

\* Mutant: only the oldest item is moved, the queue is cleared.
DrainFirstOnly ==
  /\ cpc \in {"lock", "woken"}
  /\ pending # <<>> \/ ~r
  /\ cpc' = "process"
  /\ proccesing' = IF pending = <<>> THEN <<>> ELSE <<Head(pending)>>
  /\ pending' = <<>>
  /\ UNCHANGED <<r, stop>>

\* With the mutex: it does not hold, so move everything to the batch, unlock.
Drain ==
  /\ cpc \in {"lock", "woken"}
  /\ pending # <<>> \/ ~r
  /\ cpc' = "process"
  /\ proccesing' = proccesing \o pending
  /\ pending' = <<>>
  /\ UNCHANGED <<r, stop>>

\* pthread_cond_wait releases the mutex and blocks, in one step.
Wait ==
  /\ cpc = "wait"
  /\ cpc' = "blocked"
  /\ UNCHANGED <<pending, proccesing, r, stop>>

\* POSIX lets a wait end without a signal.
SpuriousWakeup ==
  /\ cpc = "blocked"
  /\ cpc' = "woken"
  /\ UNCHANGED <<pending, proccesing, r, stop>>

\* proccess(front) succeeds and the item is popped.
Process ==
  /\ cpc = "process"
  /\ proccesing # <<>>
  /\ Head(proccesing) \notin Rejected
  /\ proccesing' = Tail(proccesing)
  /\ UNCHANGED <<pending, r, cpc, stop>>

\* proccess(front) throws: for a rejected item, or for any when the input
\* device refuses the event.  run() has no handler.
ProcessThrows ==
  /\ cpc = "process"
  /\ proccesing # <<>>
  /\ cpc' = "thrown"
  /\ UNCHANGED <<pending, proccesing, r, stop>>

\* Mutant: run() goes back to its loop with items of the batch left.
ProcessDoneEarly ==
  /\ cpc = "process"
  /\ cpc' = "loop"
  /\ UNCHANGED <<pending, proccesing, r, stop>>

ProcessDone ==
  /\ cpc = "process"
  /\ proccesing = <<>>
  /\ cpc' = "loop"
  /\ UNCHANGED <<pending, proccesing, r, stop>>

\* The steps run() takes on its own, whatever the other threads do.
Run ==
  \/ LoopTest
  \/ WaitNeeded
  \/ Drain
  \/ Wait
  \/ Process
  \/ ProcessThrows
  \/ ProcessDone

-----------------------------------------------------------------------------

\* The consumer is deleted and a new one constructed.  What is left in
\* `pending' is lost with it: the destructor does not look at the queues.
Renew ==
  /\ pending' = <<>>
  /\ proccesing' = <<>>
  /\ r' = TRUE
  /\ cpc' = "loop"
  /\ stop' = "idle"

\* How the program uses the class: nothing is added once shutdown() has been
\* called, and the object is deleted when its thread has ended.
Next ==
  \/ \E item \in Items : stop = "idle" /\ cpc # "thrown" /\ Add(item)
  \/ cpc # "thrown" /\ StopRunning
  \/ cpc # "thrown" /\ StopSignal
  \/ Run
  \/ SpuriousWakeup
  \/ stop = "done" /\ cpc = "exited" /\ Renew
  \/ cpc = "thrown" /\ UNCHANGED vars    \* the process is gone

SafeSpec == Init /\ [][Next]_vars

(***************************************************************************)
(* The threads keep running.  A signal competes for the mutex with a       *)
(* consumer that may be woken again and again, hence SF: whoever wants a   *)
(* mutex that is released infinitely often gets it.  Nobody is obliged to  *)
(* add, to shut down or to wake up spuriously.                             *)
(***************************************************************************)
Fairness ==
  /\ WF_vars(Run)
  /\ SF_vars(StopSignal)

Spec == SafeSpec /\ Fairness

-----------------------------------------------------------------------------

TypeOK ==
  /\ pending \in Seq(Items)
  /\ proccesing \in Seq(Items)
  /\ r \in BOOLEAN
  /\ cpc \in ConsumerStep
  /\ stop \in StopStep

(***************************************************************************)
(* No wakeup is lost: a consumer that is blocked, or has decided to block, *)
(* has nothing pending, and if it was told to stop the signal that will    *)
(* wake it is still to come.  The mutex around signal() in add() and in    *)
(* shutdown(), and the one held from the test to the wait, make it true.   *)
(***************************************************************************)
NoLostWakeup ==
  cpc \in {"wait", "blocked"} => pending = <<>> /\ (r \/ stop = "signal")

(***************************************************************************)
(* A batch that was taken is worked off: the thread returns to the top of  *)
(* its loop, and ends, only with the batch empty.  What a shutdown loses   *)
(* was added after the last batch was taken.                               *)
(***************************************************************************)
BatchWorkedOff ==
  cpc \notin {"process", "thrown"} => proccesing = <<>>

\* shutdown() is the only reason to end.
StopsOnRequest ==
  /\ r <=> stop = "idle"
  /\ cpc = "exited" => ~r

\* The inductive invariant.
ConsumerInv == TypeOK /\ NoLostWakeup /\ BatchWorkedOff /\ StopsOnRequest

\* A shutdown ends the thread, whenever in its loop it is called.
ShutdownEnds ==
  stop # "idle" ~> cpc \in {"exited", "thrown"}

\* The Consumer is an EventChannel: the batch in progress followed by what is
\* pending is the content of the channel.
Channel == INSTANCE EventChannel WITH
  chan  <- proccesing \o pending,
  phase <- CASE cpc = "thrown" -> "failed"
             [] cpc = "exited" -> "ended"
             [] OTHER -> IF r THEN "open" ELSE "closed"

ImplementsChannel == Channel!Spec
=============================================================================
