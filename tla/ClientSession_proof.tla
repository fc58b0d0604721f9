------------------------- MODULE ClientSession_proof -------------------------
(***************************************************************************)
(* Proofs about the ClientSession module, for every set of buttons and     *)
(* every bound on the queue: the inductive invariant SessionInv, the       *)
(* safety properties that follow from it, and the fact that a session uses *)
(* its threads and its queue the way Thread and Consumer assume, and that  *)
(* it implements RemoteControl.                                            *)
(*                                                                         *)
(* SessionInv has three layers, proved one after the other for each step:  *)
(* the types, what Thread says of the four objects, and the phases, that   *)
(* tie main(), the handler, the workers and the queue together.            *)
(***************************************************************************)
EXTENDS ClientSession, TLAPS

\* The third layer.
Phases ==
  /\ MainPhase
  /\ WriterPhase
  /\ ReaderPhase
  /\ EventsPhase
  /\ HandlerLife
  /\ QueuePhase
  /\ WakeupPhase

\* A step on the Thread object t.
ThreadStep(t) ==
  \/ T!StartCreate(t)
  \/ T!StartMark(t)
  \/ T!RunReturns(t)
  \/ T!Exit(t)
  \/ T!JoinTest(t)
  \/ T!JoinWait(t)

\* A step on the queue.
QueueStep ==
  \/ \E item \in Events : Q!Add(item)
  \/ Q!StopRunning
  \/ Q!StopSignal
  \/ Q!Run
  \/ Q!SpuriousWakeup
  \/ Q!Renew

\* The steps of each thread, its fair ones and the others.
MainSteps == MainAccept \/ MainFails \/ Main
HandlerSteps == (Running("handler") /\ HandlerRead) \/ HandlerWork \/ HandlerEnv
EventsSteps == EventsRun \/ EventsSpuriousWakeup

-----------------------------------------------------------------------------
(* Thread objects and the queue *)

\* A step on one Thread object keeps the invariant of all of them.
LEMMA ThreadStepInv ==
  ASSUME T!ThreadInv, NEW t \in Threads, ThreadStep(t)
  PROVE  T!ThreadInv'
<1> USE DEF T!ThreadInv, T!TypeOK, T!LifeMatchesOwner, T!JoinedMeansReturned,
            T!Life, T!OwnerStep
<1>1. CASE T!StartCreate(t)
  BY <1>1 DEF T!StartCreate
<1>2. CASE T!StartMark(t)
  BY <1>2 DEF T!StartMark
<1>3. CASE T!RunReturns(t)
  BY <1>3 DEF T!RunReturns
<1>4. CASE T!Exit(t)
  BY <1>4 DEF T!Exit
<1>5. CASE T!JoinTest(t)
  BY <1>5 DEF T!JoinTest
<1>6. CASE T!JoinWait(t)
  BY <1>6 DEF T!JoinWait
<1>7. QED
  BY <1>1, <1>2, <1>3, <1>4, <1>5, <1>6 DEF ThreadStep

\* So does the destruction of the session, and a step that leaves them alone.
LEMMA ThreadOtherInv ==
  ASSUME T!ThreadInv, T!Renew(Threads) \/ UNCHANGED threadVars
  PROVE  T!ThreadInv'
BY DEF T!ThreadInv, T!TypeOK, T!LifeMatchesOwner, T!JoinedMeansReturned, T!Renew,
       T!Life, T!OwnerStep, threadVars

\* The types of the sequences a queue is made of.
LEMMA EmptyType ==
  ASSUME NEW S
  PROVE  <<>> \in Seq(S)
OBVIOUS

LEMMA ConcatTypes ==
  ASSUME NEW S, NEW p \in Seq(S), NEW q \in Seq(S)
  PROVE  p \o q \in Seq(S)
OBVIOUS

LEMMA TailTypes ==
  ASSUME NEW S, NEW p \in Seq(S), p # <<>>
  PROVE  Tail(p) \in Seq(S)
OBVIOUS

\* A step on the queue keeps the types of its variables.
LEMMA QueueStepTypes ==
  ASSUME Q!TypeOK, QueueStep
  PROVE  Q!TypeOK'
<1> USE DEF Q!TypeOK, Q!ConsumerStep, Q!StopStep
<1>1. CASE \E item \in Events : Q!Add(item)
  BY <1>1 DEF Q!Add, Q!Signal
<1>2. CASE Q!StopRunning \/ Q!StopSignal
  BY <1>2 DEF Q!StopRunning, Q!StopSignal, Q!Signal
<1>3. CASE Q!Drain
  <2>1. proccesing \o pending \in Seq(Events)
    BY ConcatTypes
  <2>2. QED
    BY <1>3, <2>1, EmptyType DEF Q!Drain
<1>4. CASE Q!Process
  <2>1. Tail(proccesing) \in Seq(Events)
    BY <1>4, TailTypes DEF Q!Process
  <2>2. QED
    BY <1>4, <2>1 DEF Q!Process
<1>5. CASE Q!LoopTest \/ Q!WaitNeeded \/ Q!Wait \/ Q!ProcessThrows \/ Q!ProcessDone
           \/ Q!SpuriousWakeup
  BY <1>5 DEF Q!LoopTest, Q!WaitNeeded, Q!Wait, Q!ProcessThrows, Q!ProcessDone,
              Q!SpuriousWakeup
<1>6. CASE Q!Renew
  BY <1>6, EmptyType DEF Q!Renew
<1>7. QED
  BY <1>1, <1>2, <1>3, <1>4, <1>5, <1>6 DEF QueueStep, Q!Run

\* A step that leaves the queue alone keeps them too.
LEMMA QueueStutterTypes ==
  ASSUME Q!TypeOK, UNCHANGED queueVars
  PROVE  Q!TypeOK'
BY DEF Q!TypeOK, queueVars

-----------------------------------------------------------------------------
(* The steps of main() *)

LEMMA MainInv ==
  ASSUME SessionInv, MainSteps
  PROVE  SessionInv'
<1> USE DEF SessionInv, TypeOK, MainPhase, WriterPhase, ReaderPhase, EventsPhase,
            WorkerPhase, HandlerLife, QueuePhase, WakeupPhase, MainStep, Conn,
            Threads
<1>1. CASE MainAccept \/ MainFails \/ MainDelete
  <2>1. UNCHANGED threadVars /\ UNCHANGED queueVars
    BY <1>1 DEF MainAccept, MainFails, MainDelete
  <2>2. T!ThreadInv' /\ Q!TypeOK'
    BY <2>1, ThreadOtherInv, QueueStutterTypes
  <2> USE <2>2 DEF threadVars, queueVars, T!ThreadInv
  <2>3. CASE MainAccept
    BY <2>3 DEF MainAccept
  <2>4. CASE MainFails
    BY <2>4 DEF MainFails
  <2>5. CASE MainDelete
    BY <2>5 DEF MainDelete
  <2>6. QED
    BY <1>1, <2>3, <2>4, <2>5
<1>2. CASE MainStart
  <2>1. T!ThreadInv' /\ Q!TypeOK'
    BY <1>2, ThreadStepInv, QueueStutterTypes DEF MainStart, ThreadStep
  <2>2. QED
    BY <1>2, <2>1 DEF MainStart, queueVars, T!StartCreate, T!StartMark, T!ThreadInv,
                      T!TypeOK, T!LifeMatchesOwner
<1>3. CASE MainJoin
  <2>1. T!ThreadInv' /\ Q!TypeOK'
    BY <1>3, ThreadStepInv, QueueStutterTypes DEF MainJoin, ThreadStep
  <2>2. QED
    BY <1>3, <2>1 DEF MainJoin, queueVars, T!JoinTest, T!JoinWait, T!ThreadInv,
                      T!TypeOK, T!LifeMatchesOwner
<1>4. CASE MainDestroy
  <2>1. T!ThreadInv' /\ Q!TypeOK'
    BY <1>4, ThreadOtherInv, QueueStepTypes DEF MainDestroy, QueueStep
  <2>2. QED
    BY <1>4, <2>1 DEF MainDestroy, FreshHandler, HandlerStep, WriterStep, ReaderStep,
                      T!Renew, Q!Renew, T!ThreadInv
<1>5. QED
  BY <1>1, <1>2, <1>3, <1>4 DEF MainSteps, Main

-----------------------------------------------------------------------------
(* The steps of the handler *)

\* Those that touch neither a Thread object nor the queue.
LEMMA HandlerLocalInv ==
  ASSUME SessionInv, Running("handler"),
         \/ HandlerRead \/ HandlerAck \/ HandlerSleep \/ HandlerWoken
         \/ HandlerSpuriousWakeup
         \/ HandlerInterrupt("stopWriter", "writer", "joinWriter")
         \/ HandlerInterrupt("stopReader", "reader", "joinReader")
  PROVE  SessionInv'
<1>1. UNCHANGED threadVars /\ UNCHANGED queueVars
  BY DEF HandlerRead, HandlerAck, HandlerSleep, HandlerWoken, HandlerSpuriousWakeup,
         HandlerInterrupt
<1>2. T!ThreadInv' /\ Q!TypeOK'
  BY <1>1, ThreadOtherInv, QueueStutterTypes DEF SessionInv, TypeOK
<1> USE <1>2 DEF SessionInv, TypeOK, MainPhase, WriterPhase, ReaderPhase, EventsPhase,
                WorkerPhase, HandlerLife, QueuePhase, WakeupPhase, HandlerStep, Running,
                threadVars, queueVars, T!ThreadInv
<1>3. CASE HandlerRead
  BY <1>3 DEF HandlerRead
<1>4. CASE HandlerAck
  BY <1>4 DEF HandlerAck
<1>5. CASE HandlerSleep
  BY <1>5 DEF HandlerSleep
<1>6. CASE HandlerWoken
  BY <1>6 DEF HandlerWoken
<1>7. CASE HandlerSpuriousWakeup
  BY <1>7 DEF HandlerSpuriousWakeup
<1>8. CASE HandlerInterrupt("stopWriter", "writer", "joinWriter")
  BY <1>8 DEF HandlerInterrupt
<1>9. CASE HandlerInterrupt("stopReader", "reader", "joinReader")
  BY <1>9 DEF HandlerInterrupt
<1>10. QED
  BY <1>3, <1>4, <1>5, <1>6, <1>7, <1>8, <1>9

\* start() of a worker.
LEMMA HandlerStartInv ==
  ASSUME SessionInv, Running("handler"),
         \/ HandlerStart("startWriter", "writer", "startEvents")
         \/ HandlerStart("startEvents", "events", "startReader")
         \/ HandlerStart("startReader", "reader", "sleep")
  PROVE  SessionInv'
<1>1. T!ThreadInv' /\ Q!TypeOK'
  BY ThreadStepInv, QueueStutterTypes
     DEF HandlerStart, ThreadStep, Threads, SessionInv, TypeOK
<1>2. QED
  BY <1>1 DEF HandlerStart, SessionInv, TypeOK, MainPhase, WriterPhase, ReaderPhase,
         EventsPhase, WorkerPhase, HandlerLife, QueuePhase, WakeupPhase, HandlerStep,
         Running, queueVars, Threads, T!StartCreate, T!StartMark, T!ThreadInv,
         T!TypeOK, T!LifeMatchesOwner

\* A start() that fails.
LEMMA HandlerStartFailsInv ==
  ASSUME SessionInv, NEW here, NEW t, HandlerStartFails(here, t)
  PROVE  SessionInv'
<1>1. T!ThreadInv' /\ Q!TypeOK'
  BY ThreadOtherInv, QueueStutterTypes DEF HandlerStartFails, SessionInv, TypeOK
<1>2. QED
  BY <1>1 DEF HandlerStartFails, SessionInv, TypeOK, MainPhase, WriterPhase, ReaderPhase,
         EventsPhase, WorkerPhase, HandlerLife, QueuePhase, WakeupPhase, threadVars,
         queueVars, T!ThreadInv

\* join() of a worker.
LEMMA HandlerJoinInv ==
  ASSUME SessionInv, Running("handler"),
         \/ HandlerJoin("joinWriter", "writer", "stopReader")
         \/ HandlerJoin("joinReader", "reader", "stopEvents")
         \/ HandlerJoin("joinEvents", "events", "done")
  PROVE  SessionInv'
<1>1. T!ThreadInv' /\ Q!TypeOK'
  BY ThreadStepInv, QueueStutterTypes
     DEF HandlerJoin, ThreadStep, Threads, SessionInv, TypeOK
<1>2. QED
  BY <1>1 DEF HandlerJoin, SessionInv, TypeOK, MainPhase, WriterPhase, ReaderPhase,
         EventsPhase, WorkerPhase, HandlerLife, QueuePhase, WakeupPhase, HandlerStep,
         Running, queueVars, Threads, T!JoinTest, T!JoinWait, T!ThreadInv,
         T!TypeOK, T!LifeMatchesOwner

\* The two halves of shutdown().
LEMMA HandlerShutdownInv ==
  ASSUME SessionInv, Running("handler"), HandlerStopEvents \/ HandlerSignalEvents
  PROVE  SessionInv'
<1>1. T!ThreadInv' /\ Q!TypeOK'
  BY ThreadOtherInv, QueueStepTypes
     DEF HandlerStopEvents, HandlerSignalEvents, QueueStep, SessionInv, TypeOK
<1>2. QED
  BY <1>1 DEF HandlerStopEvents, HandlerSignalEvents, Q!StopRunning, Q!StopSignal,
         Q!Signal, SessionInv, TypeOK, MainPhase, WriterPhase, ReaderPhase,
         EventsPhase, WorkerPhase, HandlerLife, QueuePhase, WakeupPhase, HandlerStep,
         Running, threadVars, T!ThreadInv, T!LifeMatchesOwner, Threads

LEMMA HandlerInv ==
  ASSUME SessionInv, HandlerSteps
  PROVE  SessionInv'
BY HandlerLocalInv, HandlerStartInv, HandlerStartFailsInv, HandlerJoinInv, HandlerShutdownInv
   DEF HandlerSteps, HandlerWork, HandlerEnv

-----------------------------------------------------------------------------
(* The steps of the workers *)

LEMMA WriterInv ==
  ASSUME SessionInv, WriterRun
  PROVE  SessionInv'
<1>1. UNCHANGED threadVars /\ UNCHANGED queueVars
  BY DEF WriterRun, WriterCheck, WriterType, WriterFrame, WriterError, WriterWake,
         WriterLocal, WorkerInterruptsItself, WorkerCallsBack
<1>2. T!ThreadInv' /\ Q!TypeOK'
  BY <1>1, ThreadOtherInv, QueueStutterTypes DEF SessionInv, TypeOK
<1> USE <1>1, <1>2 DEF SessionInv, TypeOK, MainPhase, WriterPhase, ReaderPhase,
         EventsPhase, WorkerPhase, HandlerLife, QueuePhase, WakeupPhase, WriterStep,
         HandlerStep, threadVars, queueVars, T!ThreadInv
<1>3. CASE WriterCheck \/ WriterType \/ WriterFrame
  BY <1>3 DEF WriterCheck, WriterType, WriterFrame, WriterLocal
<1>4. CASE WriterError
  BY <1>4 DEF WriterError, WorkerInterruptsItself
<1>5. CASE WriterWake
  <2>1. \/ handler' = handler
        \/ handler = "asleep" /\ handler' = "woken"
    BY <1>5 DEF WriterWake, WorkerCallsBack, WakeUp
  <2>2. TypeOK'
    BY <1>5, <2>1 DEF WriterWake, WorkerCallsBack, WakeUp
  <2>3. QED
    BY <1>5, <2>1, <2>2 DEF WriterWake, WorkerCallsBack, WakeUp
<1>6. QED
  BY <1>3, <1>4, <1>5 DEF WriterRun

LEMMA ReaderInv ==
  ASSUME SessionInv, ReaderRun
  PROVE  SessionInv'
<1> USE DEF SessionInv, TypeOK, MainPhase, WriterPhase, ReaderPhase,
         EventsPhase, WorkerPhase, HandlerLife, QueuePhase, WakeupPhase, ReaderStep,
         HandlerStep, T!ThreadInv
<1>1. CASE ReaderAdd
  <2>1. \E item \in Events : Q!Add(item)
    BY <1>1 DEF ReaderAdd, Events
  <2>2. T!ThreadInv' /\ Q!TypeOK'
    BY <1>1, <2>1, ThreadOtherInv, QueueStepTypes DEF ReaderAdd, QueueStep
  <2>3. life["events"] # "none" /\ life["reader"] = "running"
    BY DEF ReaderRun, Running, T!LifeMatchesOwner, T!JoinedMeansReturned, T!TypeOK, Threads
  <2>4. QED
    BY <1>1, <2>1, <2>2, <2>3 DEF ReaderAdd, Q!Add, Q!Signal, threadVars
<1>2. CASE ReaderCheck \/ ReaderType \/ ReaderKeyboard \/ ReaderBodyFails
           \/ ReaderError \/ ReaderWake
  <2>1. UNCHANGED threadVars /\ UNCHANGED queueVars
    BY <1>2 DEF ReaderCheck, ReaderType, ReaderKeyboard, ReaderBodyFails, ReaderError,
                ReaderWake, ReaderLocal, WorkerInterruptsItself, WorkerCallsBack
  <2>2. T!ThreadInv' /\ Q!TypeOK'
    BY <2>1, ThreadOtherInv, QueueStutterTypes
  <2>3. CASE ReaderCheck \/ ReaderType \/ ReaderKeyboard \/ ReaderBodyFails
    BY <2>2, <2>3 DEF ReaderCheck, ReaderType, ReaderKeyboard, ReaderBodyFails,
                ReaderLocal, AfterType, threadVars, queueVars
  <2>4. CASE ReaderError
    BY <2>2, <2>4 DEF ReaderError, WorkerInterruptsItself, threadVars, queueVars
  <2>5. CASE ReaderWake
    BY <2>2, <2>5 DEF ReaderWake, WorkerCallsBack, WakeUp, threadVars, queueVars
  <2>6. QED
    BY <1>2, <2>3, <2>4, <2>5
<1>3. QED
  BY <1>1, <1>2 DEF ReaderRun

LEMMA EventsInv ==
  ASSUME SessionInv, ~aborted, EventsSteps
  PROVE  SessionInv'
<1>1. T!ThreadInv' /\ Q!TypeOK'
  BY ThreadOtherInv, QueueStepTypes
     DEF EventsSteps, EventsRun, EventsSpuriousWakeup, QueueStep, SessionInv, TypeOK
<1>2. UNCHANGED <<r, stop>> /\ (cpc' = "thrown" => aborted') /\ aborted' \in BOOLEAN
  BY DEF EventsSteps, EventsRun, EventsSpuriousWakeup, SessionInv, TypeOK,
         Q!Run, Q!LoopTest, Q!WaitNeeded, Q!Drain, Q!Wait, Q!Process, Q!ProcessThrows,
         Q!ProcessDone, Q!SpuriousWakeup
<1>3. QED
  BY <1>1, <1>2 DEF EventsSteps, EventsRun, EventsSpuriousWakeup, Running, SessionInv,
         TypeOK, MainPhase, WriterPhase, ReaderPhase, EventsPhase, WorkerPhase,
         HandlerLife, QueuePhase, WakeupPhase, threadVars, T!ThreadInv

-----------------------------------------------------------------------------
(* The ends of the threads and the loss of the link *)

LEMMA ThreadEndsInv ==
  ASSUME SessionInv, NEW t \in Threads, ThreadEnds(t)
  PROVE  SessionInv'
<1>1. T!ThreadInv' /\ Q!TypeOK'
  BY ThreadStepInv, QueueStutterTypes DEF ThreadEnds, ThreadStep, SessionInv, TypeOK
<1>2. QED
  BY <1>1 DEF ThreadEnds, Finished, SessionInv, TypeOK, MainPhase, WriterPhase,
         ReaderPhase, EventsPhase, WorkerPhase, HandlerLife, QueuePhase, WakeupPhase,
         queueVars, Threads, T!RunReturns, T!Exit, T!ThreadInv, T!TypeOK

LEMMA LinkLostInv ==
  ASSUME SessionInv, LinkLost \/ UNCHANGED vars
  PROVE  SessionInv'
<1>1. T!ThreadInv' /\ Q!TypeOK'
  BY ThreadOtherInv, QueueStutterTypes DEF LinkLost, SessionInv, TypeOK, vars
<1>2. QED
  BY <1>1 DEF LinkLost, SessionInv, TypeOK, MainPhase, WriterPhase, ReaderPhase,
         EventsPhase, WorkerPhase, HandlerLife, QueuePhase, WakeupPhase, Conn,
         threadVars, queueVars, vars, T!ThreadInv

-----------------------------------------------------------------------------
(* The invariant and what follows from it *)

LEMMA SessionInvInit == Init => SessionInv
<1> SUFFICES ASSUME Init
             PROVE  SessionInv
  OBVIOUS
<1>1. T!ThreadInv /\ Q!TypeOK
  BY DEF Init, T!Init, Q!Init, T!ThreadInv, T!TypeOK, T!LifeMatchesOwner,
         T!JoinedMeansReturned, T!Life, T!OwnerStep, Q!TypeOK, Q!ConsumerStep, Q!StopStep
<1>2. TypeOK
  BY <1>1 DEF Init, TypeOK, MainStep, HandlerStep, WriterStep, ReaderStep, Conn,
              T!ThreadInv
<1>3. MainPhase /\ WriterPhase /\ ReaderPhase /\ EventsPhase
  BY DEF Init, T!Init, MainPhase, WriterPhase, ReaderPhase, EventsPhase, WorkerPhase, Threads
<1>4. HandlerLife /\ QueuePhase /\ WakeupPhase
  BY DEF Init, T!Init, Q!Init, HandlerLife, QueuePhase, WakeupPhase, Threads
<1>5. QED
  BY <1>1, <1>2, <1>3, <1>4 DEF SessionInv

LEMMA SessionInvInductive == SessionInv /\ [Next]_vars => SessionInv'
BY MainInv, HandlerInv, WriterInv, ReaderInv, EventsInv, ThreadEndsInv, LinkLostInv
   DEF Next, MainSteps, HandlerSteps, EventsSteps

(***************************************************************************)
(* Where main() and the handler are determines how far each Thread object, *)
(* each worker and the queue can be (main.cpp:47-56 and                    *)
(* include/RdClientHandler.h:107-173), in every reachable state.           *)
(***************************************************************************)
THEOREM SessionCorrect == SafeSpec => []SessionInv
BY SessionInvInit, SessionInvInductive, PTL DEF SafeSpec

(***************************************************************************)
(* main() deletes the socket, and the handler with its workers, only when  *)
(* no thread of the session executes run() any more (main.cpp:53-55).      *)
(***************************************************************************)
THEOREM DeleteIsSafe == SafeSpec => []QuiescentBeforeDelete
<1>1. SessionInv => QuiescentBeforeDelete
  <2> SUFFICES ASSUME SessionInv, main \in {"accept", "delete", "destroy"}
               PROVE  \A t \in Threads : ~Running(t)
    BY DEF QuiescentBeforeDelete
  <2> USE DEF SessionInv, MainPhase, T!ThreadInv, T!TypeOK, T!LifeMatchesOwner,
              T!JoinedMeansReturned, Threads, Running
  <2>1. ~Running("handler") /\ handler \in {"handshake", "done"}
    BY DEF HandlerLife
  <2>2. \A t \in Workers : owner[t] \in {"unstarted", "joined"}
    BY <2>1 DEF WriterPhase, ReaderPhase, EventsPhase, WorkerPhase, Workers
  <2>3. QED
    BY <2>1, <2>2 DEF Workers
<1>2. QED
  BY <1>1, SessionCorrect, PTL

(***************************************************************************)
(* The handler leaves sleep() for good (include/RdClientHandler.h:16-22)   *)
(* only when one of the two workers has given up.                          *)
(***************************************************************************)
THEOREM TeardownIsCaused == SafeSpec => []TeardownHasCause
<1>1. SessionInv => TeardownHasCause
  BY DEF SessionInv, WakeupPhase, TeardownHasCause
<1>2. QED
  BY <1>1, SessionCorrect, PTL

-----------------------------------------------------------------------------
(* The session as a user of Thread and Consumer *)

\* main() and ~RdClientHandler() destroy only what has been joined or was
\* never started, the queue only with its thread ended or never started.
LEMMA DestroyAllowed ==
  ASSUME SessionInv, MainDestroy
  PROVE  /\ \A t \in Threads : T!Discardable(t)
         /\ \/ stop = "done" /\ cpc = "exited"
            \/ pending = <<>> /\ proccesing = <<>> /\ r /\ cpc = "loop" /\ stop = "idle"
<1> USE DEF SessionInv, T!ThreadInv, T!TypeOK, T!LifeMatchesOwner, T!JoinedMeansReturned,
            Threads
<1>1. owner["handler"] = "joined"
  BY DEF MainDestroy, MainPhase
<1>2. handler = "done"
  BY <1>1 DEF HandlerLife
<1>3. \A t \in {"writer", "reader", "events"} : owner[t] \in {"unstarted", "joined"}
  BY <1>2 DEF WriterPhase, ReaderPhase, EventsPhase, WorkerPhase
<1>4. \A t \in Threads : T!Discardable(t)
  BY <1>1, <1>3 DEF T!Discardable
<1>5. CASE owner["events"] = "joined"
  BY <1>2, <1>4, <1>5 DEF QueuePhase
<1>6. CASE owner["events"] = "unstarted"
  BY <1>4, <1>6 DEF QueuePhase
<1>7. QED
  BY <1>3, <1>5, <1>6

\* Every step is one on a Thread object, the destruction, or touches none.
LEMMA StepOnThreads ==
  SessionInv /\ [Next]_vars => [T!Next]_(T!vars)
<1> SUFFICES ASSUME SessionInv, [Next]_vars
             PROVE  [T!Next]_(T!vars)
  OBVIOUS
<1>1. ASSUME NEW t \in Threads, ThreadStep(t)
      PROVE  T!Next
  BY <1>1 DEF ThreadStep, T!Next
<1>2. CASE UNCHANGED threadVars
  BY <1>2 DEF threadVars, T!vars
<1>3. CASE MainDestroy
  <2>1. T!Renew(Threads)
    BY <1>3 DEF MainDestroy
  <2>2. \A t \in Threads : T!Discardable(t)
    BY <1>3, DestroyAllowed
  <2>3. Threads \in SUBSET Threads
    OBVIOUS
  <2>4. QED
    BY <2>1, <2>2, <2>3 DEF T!Next
<1>4. CASE MainAccept \/ MainFails \/ MainStart \/ MainJoin \/ MainDelete
  BY <1>1, <1>2, <1>4
     DEF MainAccept, MainFails, MainStart, MainJoin, MainDelete, ThreadStep, Threads
<1>5. CASE HandlerSteps
  <2>1. ASSUME NEW here, NEW t \in Threads, NEW next,
               HandlerStart(here, t, next) \/ HandlerJoin(here, t, next)
        PROVE  ThreadStep(t)
    BY <2>1 DEF HandlerStart, HandlerJoin, ThreadStep
  <2>2. CASE \/ HandlerStart("startWriter", "writer", "startEvents")
             \/ HandlerStart("startEvents", "events", "startReader")
             \/ HandlerStart("startReader", "reader", "sleep")
             \/ HandlerJoin("joinWriter", "writer", "stopReader")
             \/ HandlerJoin("joinReader", "reader", "stopEvents")
             \/ HandlerJoin("joinEvents", "events", "done")
    BY <1>1, <2>1, <2>2 DEF Threads
  <2>3. CASE \/ HandlerRead \/ HandlerAck \/ HandlerSleep \/ HandlerWoken
             \/ HandlerInterrupt("stopWriter", "writer", "joinWriter")
             \/ HandlerInterrupt("stopReader", "reader", "joinReader")
             \/ HandlerStopEvents \/ HandlerSignalEvents
             \/ HandlerEnv
    BY <1>2, <2>3 DEF HandlerRead, HandlerAck, HandlerSleep, HandlerWoken,
       HandlerInterrupt, HandlerStopEvents, HandlerSignalEvents, HandlerEnv,
       HandlerSpuriousWakeup, HandlerStartFails
  <2>4. QED
    BY <1>5, <2>2, <2>3 DEF HandlerSteps, HandlerWork
<1>6. CASE WriterRun \/ LinkLost \/ EventsSteps
  BY <1>2, <1>6 DEF WriterRun, WriterCheck, WriterType, WriterFrame, WriterError,
     WriterWake, WriterLocal, WorkerInterruptsItself, WorkerCallsBack, LinkLost,
     EventsSteps, EventsRun, EventsSpuriousWakeup
<1>7. CASE ReaderRun
  BY <1>2, <1>7 DEF ReaderRun, ReaderCheck, ReaderType, ReaderKeyboard, ReaderAdd,
     ReaderBodyFails, ReaderError, ReaderWake, ReaderLocal, WorkerInterruptsItself,
     WorkerCallsBack
<1>8. CASE \E t \in Threads : ThreadEnds(t)
  BY <1>1, <1>8 DEF ThreadEnds, ThreadStep
<1>9. CASE UNCHANGED vars
  BY <1>2, <1>9 DEF vars
<1>10. QED
  BY <1>3, <1>4, <1>5, <1>6, <1>7, <1>8, <1>9
     DEF Next, Main, HandlerSteps, EventsSteps

(***************************************************************************)
(* Each of the four threads is created once, joined at most once after its *)
(* start() has returned, and destroyed only when it was joined or never    *)
(* started, so that ThreadCorrect and JoinIsSafe hold of them.             *)
(***************************************************************************)
THEOREM ThreadsAreUsedProperly == SafeSpec => UsesThreadsProperly
<1>1. Init => T!Init
  BY DEF Init
<1>2. QED
  BY <1>1, StepOnThreads, SessionCorrect, PTL DEF SafeSpec, UsesThreadsProperly, T!SafeSpec

\* Every step is one on the queue, the destruction, or does not touch it.
LEMMA StepOnQueue ==
  SessionInv /\ [Next]_vars => [Q!Next]_(Q!vars)
<1> SUFFICES ASSUME SessionInv, [Next]_vars
             PROVE  [Q!Next]_(Q!vars)
  OBVIOUS
<1>1. CASE UNCHANGED queueVars
  BY <1>1 DEF queueVars, Q!vars
<1>2. CASE MainDestroy
  <2>1. Q!Renew
    BY <1>2 DEF MainDestroy
  <2>2. \/ stop = "done" /\ cpc = "exited"
        \/ pending = <<>> /\ proccesing = <<>> /\ r /\ cpc = "loop" /\ stop = "idle"
    BY <1>2, DestroyAllowed
  <2>3. r \in BOOLEAN
    BY DEF SessionInv, TypeOK, Q!TypeOK
  <2>4. QED
    BY <2>1, <2>2, <2>3 DEF Q!Next, Q!Renew, Q!vars
<1>3. CASE MainAccept \/ MainFails \/ MainStart \/ MainJoin \/ MainDelete
  BY <1>1, <1>3 DEF MainAccept, MainFails, MainStart, MainJoin, MainDelete
<1>4. CASE ~aborted /\ HandlerSteps
  <2>1. cpc # "thrown"
    BY <1>4 DEF SessionInv, QueuePhase
  <2>2. CASE HandlerStopEvents \/ HandlerSignalEvents
    BY <2>1, <2>2 DEF HandlerStopEvents, HandlerSignalEvents, Q!Next
  <2>3. CASE UNCHANGED queueVars
    BY <1>1, <2>3
  <2>4. HandlerStopEvents \/ HandlerSignalEvents \/ UNCHANGED queueVars
    BY <1>4 DEF HandlerSteps, HandlerWork, HandlerEnv, HandlerRead, HandlerAck,
       HandlerStart, HandlerJoin, HandlerSleep, HandlerWoken, HandlerInterrupt,
       HandlerSpuriousWakeup, HandlerStartFails
  <2>5. QED
    BY <2>2, <2>3, <2>4
<1>5. CASE WriterRun \/ LinkLost
  BY <1>1, <1>5 DEF WriterRun, WriterCheck, WriterType, WriterFrame, WriterError,
     WriterWake, WriterLocal, WorkerInterruptsItself, WorkerCallsBack, LinkLost
<1>6. CASE ~aborted /\ ReaderRun
  <2>1. CASE ReaderAdd
    <3>1. \E item \in Events : Q!Add(item)
      BY <2>1 DEF ReaderAdd, Events
    <3>2. cpc # "thrown"
      BY <1>6 DEF SessionInv, QueuePhase
    <3>3. life["reader"] = "running"
      BY <1>6 DEF ReaderRun, Running
    <3>4. owner["reader"] \notin {"unstarted", "joined"}
      BY <3>3 DEF SessionInv, T!ThreadInv, T!LifeMatchesOwner, T!JoinedMeansReturned, Threads
    <3>5. stop = "idle"
      BY <3>4 DEF SessionInv, ReaderPhase, WorkerPhase, QueuePhase
    <3>6. QED
      BY <3>1, <3>2, <3>5 DEF Q!Next
  <2>2. CASE ~ReaderAdd
    <3>1. UNCHANGED queueVars
      BY <1>6, <2>2 DEF ReaderRun, ReaderCheck, ReaderType, ReaderKeyboard,
         ReaderBodyFails, ReaderError, ReaderWake, ReaderLocal, WorkerInterruptsItself,
         WorkerCallsBack
    <3>2. QED
      BY <1>1, <3>1
  <2>3. QED
    BY <2>1, <2>2
<1>7. CASE EventsSteps
  BY <1>7 DEF EventsSteps, EventsRun, EventsSpuriousWakeup, Q!Next
<1>8. CASE \E t \in Threads : ThreadEnds(t)
  BY <1>1, <1>8 DEF ThreadEnds
<1>9. CASE UNCHANGED vars
  BY <1>1, <1>9 DEF vars
<1>10. QED
  BY <1>2, <1>3, <1>4, <1>5, <1>6, <1>7, <1>8, <1>9
     DEF Next, Main, HandlerSteps, EventsSteps

(***************************************************************************)
(* Nothing is queued once shutdown() was called, shutdown() is called once *)
(* and the event processor is deleted with its thread ended or never       *)
(* started, so that ConsumerCorrect and ConsumerIsChannel hold of it.      *)
(***************************************************************************)
THEOREM QueueIsUsedProperly == SafeSpec => UsesConsumerProperly
<1>1. Init => Q!Init
  BY DEF Init
<1>2. QED
  BY <1>1, StepOnQueue, SessionCorrect, PTL DEF SafeSpec, UsesConsumerProperly, Q!SafeSpec

\* The queue the session uses keeps the invariant of the class.
LEMMA QueueStepKeeps ==
  ASSUME Q!ConsumerInv, QueueStep
  PROVE  Q!ConsumerInv'
<1> USE DEF Q!ConsumerInv, Q!NoLostWakeup, Q!BatchWorkedOff, Q!StopsOnRequest
<1>1. Q!TypeOK /\ Q!TypeOK'
  BY QueueStepTypes
<1> USE DEF Q!TypeOK, Q!ConsumerStep, Q!StopStep
<1>2. CASE \E item \in Events : Q!Add(item)
  BY <1>1, <1>2 DEF Q!Add, Q!Signal, Q!Locked
<1>3. CASE Q!StopRunning
  BY <1>1, <1>3 DEF Q!StopRunning
<1>4. CASE Q!StopSignal
  BY <1>1, <1>4 DEF Q!StopSignal, Q!Signal, Q!Locked
<1>5. CASE Q!LoopTest \/ Q!WaitNeeded \/ Q!Wait
  BY <1>1, <1>5 DEF Q!LoopTest, Q!WaitNeeded, Q!Wait
<1>6. CASE Q!Drain
  BY <1>1, <1>6 DEF Q!Drain
<1>7. CASE Q!Process \/ Q!ProcessThrows \/ Q!ProcessDone
  BY <1>1, <1>7 DEF Q!Process, Q!ProcessThrows, Q!ProcessDone
<1>8. CASE Q!SpuriousWakeup
  BY <1>1, <1>8 DEF Q!SpuriousWakeup
<1>9. CASE Q!Renew
  BY <1>1, <1>9 DEF Q!Renew
<1>10. QED
  BY <1>2, <1>3, <1>4, <1>5, <1>6, <1>7, <1>8, <1>9 DEF QueueStep, Q!Run

(***************************************************************************)
(* In the session the events thread waits (include/Consumer.h:32-34) only  *)
(* with its queue empty and a shutdown() still to signal, if there is one: *)
(* neither the reader's add() nor the handler's shutdown() is missed, and  *)
(* the thread ends only with its batch worked off.                         *)
(***************************************************************************)
THEOREM SessionMissesNoSignal == SafeSpec => [](Q!NoLostWakeup /\ Q!BatchWorkedOff)
<1>1. Q!Init => Q!ConsumerInv
  BY EmptyType DEF Q!Init, Q!ConsumerInv, Q!TypeOK, Q!NoLostWakeup, Q!BatchWorkedOff,
     Q!StopsOnRequest, Q!ConsumerStep, Q!StopStep
<1>2. Q!ConsumerInv /\ [Q!Next]_(Q!vars) => Q!ConsumerInv'
  <2> SUFFICES ASSUME Q!ConsumerInv, [Q!Next]_(Q!vars) PROVE Q!ConsumerInv'
    OBVIOUS
  <2>1. CASE UNCHANGED Q!vars
    BY <2>1 DEF Q!vars, Q!ConsumerInv, Q!TypeOK, Q!NoLostWakeup, Q!BatchWorkedOff, Q!StopsOnRequest
  <2>2. CASE QueueStep
    BY <2>2, QueueStepKeeps
  <2>3. QED
    BY <2>1, <2>2 DEF Q!Next, QueueStep
<1>3. Q!ConsumerInv => Q!NoLostWakeup /\ Q!BatchWorkedOff
  BY DEF Q!ConsumerInv
<1>4. QED
  BY <1>1, <1>2, <1>3, QueueIsUsedProperly, PTL DEF UsesConsumerProperly, Q!SafeSpec

-----------------------------------------------------------------------------
(* The session as the client sees it *)

Serving == {"startWriter", "startEvents", "startReader", "sleep", "asleep", "woken"}

Closing == {"stopWriter", "joinWriter", "stopReader", "joinReader",
            "stopEvents", "signalEvents", "joinEvents"}

\* The phase of a running process, before a step and after it.
LEMMA PhaseNow ==
  ASSUME ~aborted
  PROVE  /\ main = "accept" => Phase = "idle"
         /\ main # "accept" /\ handler \in {"handshake", "ack"} => Phase = "greeting"
         /\ main # "accept" /\ handler \in Serving => Phase = "serving"
         /\ main # "accept" /\ handler \in Closing => Phase = "closing"
         /\ main # "accept" /\ handler = "done" => Phase = "over"
BY DEF Phase, Serving, Closing

\* The same in the state a step leads to.
LEMMA PhaseNext ==
  ASSUME ~aborted'
  PROVE  /\ main' = "accept" => Phase' = "idle"
         /\ main' # "accept" /\ handler' \in {"handshake", "ack"} => Phase' = "greeting"
         /\ main' # "accept" /\ handler' \in Serving => Phase' = "serving"
         /\ main' # "accept" /\ handler' \in Closing => Phase' = "closing"
         /\ main' # "accept" /\ handler' = "done" => Phase' = "over"
BY DEF Phase, Serving, Closing

\* A step that leaves main() and the handler where they are.
LEMMA SamePhase ==
  ASSUME SessionInv, ~aborted, ~aborted', handler' = handler,
         main' = main \/ (main # "accept" /\ main' # "accept")
  PROVE  Phase' = Phase
<1>1. handler \in {"handshake", "ack"} \cup Serving \cup Closing \cup {"done"}
  BY DEF SessionInv, TypeOK, HandlerStep, Serving, Closing
<1>2. QED
  BY <1>1, PhaseNow, PhaseNext

\* Where main() is, and whether somebody works, bounds the handler's label.
LEMMA WhereTheHandlerIs ==
  ASSUME SessionInv
  PROVE  /\ main = "accept" => handler = "handshake"
         /\ main \in {"delete", "destroy"} => handler = "done"
         /\ Running("handler") => main \in {"start", "join"}
         /\ Working => main # "accept" /\ handler \in Serving \cup Closing
<1> USE DEF SessionInv, T!ThreadInv, T!TypeOK, T!LifeMatchesOwner, T!JoinedMeansReturned,
            Threads, Running, MainPhase, HandlerLife, TypeOK, MainStep
<1>1. /\ main = "accept" => handler = "handshake"
      /\ main \in {"delete", "destroy"} => handler = "done"
      /\ Running("handler") => main \in {"start", "join"}
  OBVIOUS
<1>2. ASSUME NEW t \in Workers, Running(t)
      PROVE  handler \in Serving \cup Closing
  <2>1. owner[t] \notin {"unstarted", "joined"}
    BY <1>2 DEF Workers
  <2>2. handler \notin {"handshake", "ack", "done"}
    BY <2>1 DEF Workers, WriterPhase, ReaderPhase, EventsPhase, WorkerPhase
  <2>3. QED
    BY <2>2 DEF HandlerStep, Serving, Closing
<1>3. handler \in Serving \cup Closing => main # "accept"
  BY <1>1 DEF Serving, Closing
<1>4. QED
  BY <1>1, <1>2, <1>3 DEF Working

\* The workers are those who were at work.
LEMMA SameWorkers ==
  ASSUME \A t \in Workers : life'[t] = life[t]
  PROVE  Working' = Working
BY DEF Working, Running

\* A step on the handler's own Thread object is none of the workers'.
LEMMA HandlerThreadStep ==
  ASSUME SessionInv, ThreadStep("handler")
  PROVE  Working' = Working
BY SameWorkers DEF SessionInv, T!ThreadInv, T!TypeOK, ThreadStep, Threads, Workers, T!StartCreate,
   T!StartMark, T!RunReturns, T!Exit, T!JoinTest, T!JoinWait

\* A step that changes neither phase, client nor workers.
LEMMA ServiceStutters ==
  ASSUME Phase' = Phase, conn' = conn, Working' = Working
  PROVE  UNCHANGED Service!vars
BY DEF Service!vars, Client

\* A step that ends the process.
LEMMA ServiceDown ==
  ASSUME SessionInv, ~aborted, aborted', conn' = conn, life' = life
  PROVE  Service!Next
<1>1. handler \in {"handshake", "ack"} \cup Serving \cup Closing \cup {"done"}
  BY DEF SessionInv, TypeOK, HandlerStep, Serving, Closing
<1>2. Phase # "down"
  BY <1>1, PhaseNow
<1>3. Phase' = "down"
  BY DEF Phase
<1>4. Client' = Client /\ Working' = Working
  BY SameWorkers DEF Client
<1>5. Service!Down
  BY <1>2, <1>3, <1>4 DEF Service!Down
<1>6. QED
  BY <1>5 DEF Service!Next

\* A step of the workers' threads in a session.
LEMMA ServiceWorks ==
  ASSUME Phase \in {"serving", "closing"}, Phase' = Phase, conn' = conn
  PROVE  Service!Next
<1>1. Working' \in BOOLEAN /\ Client' = Client
  BY DEF Working, Client
<1>2. Service!Work
  BY <1>1 DEF Service!Work
<1>3. QED
  BY <1>2 DEF Service!Next

-----------------------------------------------------------------------------

\* ~RdClientHandler() is executed when the socket is deleted.
Disconnected == main = "destroy" => conn = "none"

\* It is an invariant of the session.
LEMMA DisconnectedHolds == SafeSpec => []Disconnected
<1>1. Init => Disconnected
  BY DEF Init, Disconnected
<1>2. Disconnected /\ [Next]_vars => Disconnected'
  <2> SUFFICES ASSUME Disconnected, [Next]_vars PROVE Disconnected'
    OBVIOUS
  <2>1. CASE MainSteps
    BY <2>1 DEF Disconnected, MainSteps, Main, MainAccept, MainFails, MainStart, MainJoin,
       MainDelete, MainDestroy
  <2>2. CASE UNCHANGED <<main, conn>> \/ LinkLost
    BY <2>2 DEF Disconnected, LinkLost
  <2>3. CASE \/ Running("handler") /\ HandlerRead
             \/ HandlerWork
             \/ HandlerEnv
    BY <2>2, <2>3 DEF HandlerRead, HandlerWork, HandlerEnv, HandlerAck, HandlerStart, HandlerSleep,
       HandlerWoken, HandlerInterrupt, HandlerJoin, HandlerStopEvents, HandlerSignalEvents,
       HandlerSpuriousWakeup, HandlerStartFails
  <2>4. CASE WriterRun \/ ReaderRun
    BY <2>2, <2>4 DEF WriterRun, WriterCheck, WriterType, WriterFrame, WriterError, WriterWake,
       WriterLocal, ReaderRun, ReaderCheck, ReaderType, ReaderKeyboard, ReaderAdd,
       ReaderBodyFails, ReaderError, ReaderWake, ReaderLocal, WorkerInterruptsItself,
       WorkerCallsBack
  <2>5. CASE EventsSteps \/ \E t \in Threads : ThreadEnds(t)
    BY <2>2, <2>5 DEF EventsSteps, EventsRun, EventsSpuriousWakeup, ThreadEnds
  <2>6. CASE UNCHANGED vars
    BY <2>2, <2>6 DEF vars
  <2>7. QED
    BY <2>1, <2>2, <2>3, <2>4, <2>5, <2>6 DEF Next, MainSteps, EventsSteps
<1>3. QED
  BY <1>1, <1>2, PTL DEF SafeSpec

-----------------------------------------------------------------------------

\* main() accepts, disconnects and forgets clients, or waits for the handler.
LEMMA MainServes ==
  ASSUME SessionInv, Disconnected, ~aborted, MainSteps
  PROVE  Service!Next \/ UNCHANGED Service!vars
<1>1. CASE MainAccept
  <2>1. ~aborted'
    BY <1>1, Zenon DEF MainAccept
  <2>2. Phase = "idle" /\ Phase' = "greeting"
    BY <1>1, <2>1, WhereTheHandlerIs, PhaseNow, PhaseNext DEF MainAccept
  <2>3. Client' = "up" /\ Working' = Working
    BY <1>1, SameWorkers DEF MainAccept, Client, threadVars
  <2>4. Service!Accept
    BY <2>2, <2>3 DEF Service!Accept
  <2>5. QED
    BY <2>4 DEF Service!Next
<1>2. CASE MainFails
  BY <1>2, ServiceDown DEF MainFails, threadVars
<1>3. CASE MainStart \/ MainJoin
  <2>1. ThreadStep("handler")
    BY <1>3 DEF MainStart, MainJoin, ThreadStep
  <2>2. ~aborted'
    BY <1>3, Zenon DEF MainStart, MainJoin
  <2>3. Phase' = Phase /\ conn' = conn
    BY <1>3, <2>2, SamePhase DEF MainStart, MainJoin
  <2>4. QED
    BY <2>1, <2>3, HandlerThreadStep, ServiceStutters
<1>4. CASE MainDelete
  <2>1. ~aborted'
    BY <1>4, Zenon DEF MainDelete
  <2>2. Phase = "over" /\ Phase' = "over"
    BY <1>4, <2>1, WhereTheHandlerIs, PhaseNow, PhaseNext DEF MainDelete
  <2>3. Client' = "none" /\ Working' = Working
    BY <1>4, SameWorkers DEF MainDelete, Client, threadVars
  <2>4. Service!Disconnect
    BY <2>2, <2>3 DEF Service!Disconnect
  <2>5. QED
    BY <2>4 DEF Service!Next
<1>5. CASE MainDestroy
  <2>1. ~aborted'
    BY <1>5, Zenon DEF MainDestroy
  <2>2. Phase = "over" /\ Phase' = "idle"
    BY <1>5, <2>1, WhereTheHandlerIs, PhaseNow, PhaseNext DEF MainDestroy
  <2>3. ~Working
    BY <1>5, WhereTheHandlerIs DEF MainDestroy, Serving, Closing
  <2>4. ~Working'
    BY <1>5 DEF MainDestroy, T!Renew, Working, Running, Workers, Threads
  <2>5. Working' = Working
    BY <2>3, <2>4 DEF Working
  <2>6. Client = "none" /\ Client' = Client
    BY <1>5 DEF MainDestroy, Client, Disconnected
  <2>7. Service!Forget
    BY <2>2, <2>5, <2>6 DEF Service!Forget
  <2>8. QED
    BY <2>7 DEF Service!Next
<1>6. QED
  BY <1>1, <1>2, <1>3, <1>4, <1>5 DEF MainSteps, Main

\* The greeting: the handler's steps before it starts anybody.
LEMMA GreetingServes ==
  ASSUME SessionInv, ~aborted, Running("handler"), HandlerRead \/ HandlerAck
  PROVE  Service!Next \/ UNCHANGED Service!vars
<1>1. ~aborted'
  BY Zenon DEF HandlerRead, HandlerAck
<1>2. main # "accept" /\ main' # "accept"
  BY WhereTheHandlerIs DEF HandlerRead, HandlerAck
<1>3. Phase = "greeting"
  BY <1>2, PhaseNow DEF HandlerRead, HandlerAck
<1>4. Client' = Client /\ Working' = Working
  BY SameWorkers DEF HandlerRead, HandlerAck, Client, threadVars
<1>5. CASE handler' = "ack"
  <2>1. Phase' = "greeting"
    BY <1>1, <1>2, <1>5, PhaseNext
  <2>2. QED
    BY <1>3, <1>4, <2>1 DEF Service!vars
<1>6. CASE handler' = "startWriter"
  <2>1. Phase' = "serving"
    BY <1>1, <1>2, <1>6, PhaseNext DEF Serving
  <2>2. Client = "up"
    BY <1>6 DEF HandlerRead, HandlerAck, Client
  <2>3. Service!Welcome
    BY <1>3, <1>4, <2>1, <2>2 DEF Service!Welcome
  <2>4. QED
    BY <2>3 DEF Service!Next
<1>7. CASE handler' = "done"
  <2>1. Phase' = "over"
    BY <1>1, <1>2, <1>7, PhaseNext
  <2>2. Service!TurnAway
    BY <1>3, <1>4, <2>1 DEF Service!TurnAway
  <2>3. QED
    BY <2>2 DEF Service!Next
<1>8. QED
  BY <1>5, <1>6, <1>7 DEF HandlerRead, HandlerAck

\* Starting the workers, and waiting.
LEMMA ServingServes ==
  ASSUME SessionInv, ~aborted, Running("handler"),
         \/ HandlerStart("startWriter", "writer", "startEvents")
         \/ HandlerStart("startEvents", "events", "startReader")
         \/ HandlerStart("startReader", "reader", "sleep")
         \/ HandlerSleep
         \/ HandlerSpuriousWakeup
         \/ HandlerWoken
  PROVE  Service!Next \/ UNCHANGED Service!vars
<1>1. ~aborted'
  BY Zenon DEF HandlerStart, HandlerSleep, HandlerSpuriousWakeup, HandlerWoken
<1>2. main # "accept" /\ main' = main /\ conn' = conn
  BY WhereTheHandlerIs DEF HandlerStart, HandlerSleep, HandlerSpuriousWakeup, HandlerWoken
<1>3. handler \in Serving
  BY DEF HandlerStart, HandlerSleep, HandlerSpuriousWakeup, HandlerWoken, Serving
<1>4. Phase = "serving"
  BY <1>2, <1>3, PhaseNow
<1>5. CASE handler' \in Serving
  BY <1>1, <1>2, <1>4, <1>5, PhaseNext, ServiceWorks
<1>6. CASE handler' \notin Serving
  <2>1. HandlerWoken /\ handler' \in Closing
    BY <1>6 DEF HandlerStart, HandlerSleep, HandlerSpuriousWakeup, HandlerWoken,
       Serving, Closing
  <2>2. Phase' = "closing"
    BY <1>1, <1>2, <2>1, PhaseNext
  <2>3. Client' = Client /\ Working' = Working
    BY <2>1, SameWorkers DEF HandlerWoken, Client, threadVars
  <2>4. Service!Close
    BY <1>4, <2>2, <2>3 DEF Service!Close
  <2>5. QED
    BY <2>4 DEF Service!Next
<1>7. QED
  BY <1>5, <1>6

\* The shutdown of the workers.
LEMMA ClosingServes ==
  ASSUME SessionInv, ~aborted, Running("handler"),
         \/ HandlerInterrupt("stopWriter", "writer", "joinWriter")
         \/ HandlerJoin("joinWriter", "writer", "stopReader")
         \/ HandlerInterrupt("stopReader", "reader", "joinReader")
         \/ HandlerJoin("joinReader", "reader", "stopEvents")
         \/ HandlerStopEvents
         \/ HandlerSignalEvents
         \/ HandlerJoin("joinEvents", "events", "done")
  PROVE  Service!Next \/ UNCHANGED Service!vars
<1> USE DEF HandlerInterrupt, HandlerJoin, HandlerStopEvents, HandlerSignalEvents
<1>1. ~aborted'
  BY Zenon
<1>2. main # "accept" /\ main' = main /\ conn' = conn
  BY WhereTheHandlerIs
<1>3. handler \in Closing
  BY DEF Closing
<1>4. Phase = "closing"
  BY <1>2, <1>3, PhaseNow
<1>5. CASE handler' \in Closing
  BY <1>1, <1>2, <1>4, <1>5, PhaseNext, ServiceWorks
<1>6. CASE handler' \notin Closing
  <2>1. HandlerJoin("joinEvents", "events", "done") /\ handler' = "done"
    BY <1>6 DEF Closing
  <2>2. Phase' = "over"
    BY <1>1, <1>2, <2>1, PhaseNext
  <2>3. owner["writer"] = "joined" /\ owner["reader"] = "joined"
    BY <2>1 DEF SessionInv, WriterPhase, ReaderPhase, WorkerPhase
  <2>4. ~Running("writer") /\ ~Running("reader")
    BY <2>3 DEF SessionInv, T!ThreadInv, T!JoinedMeansReturned, Running, Threads
  <2>5. owner'["events"] = "joined"
    BY <2>1
  <2>6. ~Running("events")
    BY <2>1, <2>5 DEF SessionInv, T!ThreadInv, T!TypeOK, T!LifeMatchesOwner, T!JoinTest,
       T!JoinWait, Running, Threads
  <2>7. \A t \in Workers : life'[t] # "running"
    BY <2>1, <2>4, <2>6 DEF T!JoinTest, T!JoinWait, SessionInv, T!ThreadInv, T!TypeOK,
       Running, Workers, Threads
  <2>8. ~Working /\ ~Working'
    BY <2>4, <2>6, <2>7 DEF Working, Running, Workers, Threads
  <2>9. Service!Finish
    BY <1>2, <1>4, <2>2, <2>8 DEF Service!Finish, Client, Working
  <2>10. QED
    BY <2>9 DEF Service!Next
<1>7. QED
  BY <1>5, <1>6

\* Every step of the handler is a step of the service.
LEMMA HandlerServes ==
  ASSUME SessionInv, ~aborted, HandlerSteps
  PROVE  Service!Next \/ UNCHANGED Service!vars
<1>1. CASE /\ Running("handler")
           /\ \/ HandlerStartFails("startWriter", "writer")
              \/ HandlerStartFails("startEvents", "events")
              \/ HandlerStartFails("startReader", "reader")
  BY <1>1, ServiceDown DEF HandlerStartFails, threadVars
<1>2. QED
  BY <1>1, GreetingServes, ServingServes, ClosingServes
     DEF HandlerSteps, HandlerWork, HandlerEnv

\* A step of a worker that leaves the process running.
LEMMA WorkerServes ==
  ASSUME SessionInv, ~aborted, ~aborted', Working, main' = main, conn' = conn,
         handler' = handler \/ WakeUp
  PROVE  Service!Next
<1>1. main # "accept" /\ handler \in Serving \cup Closing
  BY WhereTheHandlerIs
<1>2. CASE handler' = handler
  BY <1>1, <1>2, PhaseNow, PhaseNext, ServiceWorks
<1>3. CASE handler = "asleep" /\ handler' = "woken"
  BY <1>1, <1>3, PhaseNow, PhaseNext, ServiceWorks DEF Serving
<1>4. QED
  BY <1>2, <1>3 DEF WakeUp

\* The writer and the reader work, and may wake the handler.
LEMMA StreamsServe ==
  ASSUME SessionInv, ~aborted, WriterRun \/ ReaderRun
  PROVE  Service!Next
<1>1. Working
  BY DEF WriterRun, ReaderRun, Working, Workers, Threads
<1>2. /\ main' = main /\ conn' = conn /\ aborted' = aborted
      /\ handler' = handler \/ WakeUp
  BY DEF WriterRun, WriterCheck, WriterType, WriterFrame, WriterError, WriterWake,
     WriterLocal, ReaderRun, ReaderCheck, ReaderType, ReaderKeyboard, ReaderAdd,
     ReaderBodyFails, ReaderError, ReaderWake, ReaderLocal, WorkerInterruptsItself,
     WorkerCallsBack
<1>3. ~aborted'
  BY <1>2, Zenon
<1>4. QED
  BY <1>1, <1>2, <1>3, WorkerServes

\* The event processor works, or takes the process down.
LEMMA EventsServe ==
  ASSUME SessionInv, ~aborted, EventsSteps
  PROVE  Service!Next
<1>1. Working
  BY DEF EventsSteps, EventsRun, EventsSpuriousWakeup, Working, Workers, Threads
<1>2. main' = main /\ conn' = conn /\ handler' = handler /\ life' = life
  BY DEF EventsSteps, EventsRun, EventsSpuriousWakeup, threadVars
<1>3. CASE aborted'
  BY <1>2, <1>3, ServiceDown
<1>4. CASE ~aborted'
  BY <1>1, <1>2, <1>4, WorkerServes
<1>5. QED
  BY <1>3, <1>4

\* A thread ends: a worker is done, the handler's end is not seen.
LEMMA ThreadEndsServe ==
  ASSUME SessionInv, ~aborted, NEW t \in Threads, ThreadEnds(t)
  PROVE  Service!Next \/ UNCHANGED Service!vars
<1>1. /\ main' = main /\ conn' = conn /\ handler' = handler
      /\ T!RunReturns(t) \/ T!Exit(t)
  BY DEF ThreadEnds
<1>2. ~aborted'
  BY Zenon DEF ThreadEnds
<1>3. Phase' = Phase
  BY <1>1, <1>2, SamePhase
<1>4. CASE t = "handler"
  BY <1>1, <1>3, <1>4, HandlerThreadStep, ServiceStutters DEF ThreadStep
<1>5. CASE T!Exit(t)
  <2>1. Working' = Working
    BY <1>5 DEF T!Exit, SessionInv, T!ThreadInv, T!TypeOK, Working, Running, Workers
  <2>2. QED
    BY <1>1, <1>3, <2>1, ServiceStutters
<1>6. CASE t \in Workers /\ T!RunReturns(t)
  <2>1. Working
    BY <1>6 DEF T!RunReturns, Working, Running
  <2>2. QED
    BY <1>1, <1>2, <2>1, WorkerServes
<1>7. QED
  BY <1>1, <1>4, <1>5, <1>6 DEF Workers

\* A lost link is the service's Lost.
LEMMA LinkLostServes ==
  ASSUME SessionInv, ~aborted, LinkLost
  PROVE  Service!Next
<1>1. ~aborted'
  BY Zenon DEF LinkLost
<1>2. Phase' = Phase
  BY <1>1, SamePhase DEF LinkLost
<1>3. Client = "up" /\ Client' = "lost" /\ Working' = Working
  BY SameWorkers DEF LinkLost, Client, threadVars
<1>4. Service!Lost
  BY <1>2, <1>3 DEF Service!Lost
<1>5. QED
  BY <1>4 DEF Service!Next

\* Every step of the session maps to one of the service or to a stutter.
LEMMA StepServes ==
  ASSUME SessionInv, Disconnected, [Next]_vars
  PROVE  [Service!Next]_(Service!vars)
<1>1. CASE UNCHANGED vars
  BY <1>1, Zenon DEF vars, threadVars, Service!vars, Phase, Client, Working, Running
<1>2. QED
  BY <1>1, MainServes, HandlerServes, StreamsServe, EventsServe, ThreadEndsServe,
     LinkLostServes DEF Next, MainSteps, HandlerSteps, EventsSteps

(***************************************************************************)
(* Clients are served one at a time, as RemoteControl states it: somebody  *)
(* works for a client between its greeting and the end of its session      *)
(* only, and its socket is closed, and the next client accepted, when      *)
(* nobody does any more, whatever the four threads do meanwhile.           *)
(***************************************************************************)
THEOREM SessionIsRemoteControl == SafeSpec => ImplementsRemoteControl
<1>1. Init => Service!Init
  BY DEF Init, Service!Init, Phase, Client, Working, Running, T!Init, Workers, Threads
<1>2. QED
  BY <1>1, StepServes, SessionCorrect, DisconnectedHolds, PTL
     DEF SafeSpec, ImplementsRemoteControl, Service!Spec
=============================================================================
