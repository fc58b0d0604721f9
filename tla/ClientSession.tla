---------------------------- MODULE ClientSession ----------------------------
(***************************************************************************)
(* The server from accept() to the next accept(): the loop of main.cpp,    *)
(* the RdClientHandler it starts for the client, and the three workers the *)
(* handler starts in turn: PacketWriterAsync, PacketReaderAsync and        *)
(* EventProcessorAsync.  The start() and join() of each of the four        *)
(* threads are the Thread module's, the queue between reader and event     *)
(* processor is the Consumer module's.                                     *)
(*                                                                         *)
(* What is atomic.  interrupted() and interrupted(b) read or write one     *)
(* flag under its own lock; Wakeable::sleep() holds its mutex from         *)
(* `_sleeping = true' to the wait, wakeUp() from beginning to end: each is *)
(* a step.  readLock and writeLock are taken by one thread only and make   *)
(* nobody wait.  A call on the socket is a step: what the fields of one    *)
(* packet hold is not part of this model, only how the reads can turn out. *)
(***************************************************************************)
EXTENDS Naturals, Sequences

CONSTANTS
  Buttons,      \* the button bytes that occur in mouse packets
  MaxBacklog    \* bound of the model: events queued at a time

\* Packet::PacketType (include/Packet.h), and every other byte.
PacketType == {"SCREE_FRAME", "KEYBOARD_EVENT", "MOUSE_EVENT",
               "REQUEST_SCREEN_REFRESH", "CONNECTION_INIT", "ACK", "other"}

\* KeyboardEventPacket::KeyboardEventType, and every other byte.
KeyboardEventType == {"SINGLE_KEY", "COMBINATION_KEY", "STRING_KEY", "other"}

\* MouseEventPacket::MouseEventType; NOT_VALID stands for any other byte too.
MouseEventType == {"LEFT_BUTTON", "RIGHT_BUTTON", "MIDDLE_BUTTON",
                   "DOUBLE_LEFT_BUTTON", "NOT_VALID"}

\* The mouse events that process(MouseEventPacket*) has no case for.
UnsupportedButtons == {"MIDDLE_BUTTON", "NOT_VALID"}

ASSUME SessionAssumption ==
  /\ Buttons \subseteq MouseEventType
  /\ MaxBacklog \in Nat \ {0}

\* The events the reader queues: a mouse event per button, and a key press.
Events == Buttons \cup {"SINGLE_KEY"}

Threads == {"handler", "writer", "reader", "events"}
Workers == Threads \ {"handler"}

VARIABLES
  main,         \* the loop of main()
  handler,      \* RdClientHandler::run()
  writer,       \* PacketWriterAsync::run()
  reader,       \* PacketReaderAsync::run()
  conn,         \* the client's socket
  sleeping,     \* Wakeable::_sleeping of the handler
  interrupted,  \* Interruptable::_interrupted of writer and reader
  aborted,      \* an exception nobody catches has terminated the process
  life, runs, owner,                    \* the Thread objects
  pending, proccesing, r, cpc, stop     \* the EventProcessorAsync

threadVars == <<life, runs, owner>>
queueVars  == <<pending, proccesing, r, cpc, stop>>
vars == <<main, handler, writer, reader, conn, sleeping, interrupted, aborted,
          threadVars, queueVars>>

T == INSTANCE Thread
Q == INSTANCE Consumer WITH Items <- Events,
                            Rejected <- Events \cap UnsupportedButtons

(***************************************************************************)
(* "none": there is no socket object.  "up": the client is there.  After a *)
(* loss every write fails, and a read either finds the end of the stream   *)
(* ("eof", a return value of 0) or fails ("reset").                        *)
(***************************************************************************)
Conn == {"none", "up", "eof", "reset"}

MainStep == {"accept", "start", "join", "delete", "destroy"}

HandlerStep == {"handshake", "ack",
                "startWriter", "startEvents", "startReader",
                "sleep", "asleep", "woken",
                "stopWriter", "joinWriter", "stopReader", "joinReader",
                "stopEvents", "signalEvents", "joinEvents", "done"}

WriterStep == {"check", "type", "frame", "error", "wake", "done"}

ReaderStep == {"check", "type", "mouse", "keyboard", "key", "error", "wake", "done"}

\* A handler and its workers as their constructors leave them.
FreshHandler ==
  /\ handler' = "handshake"
  /\ writer' = "check"
  /\ reader' = "check"
  /\ sleeping' = FALSE
  /\ interrupted' = [w \in {"writer", "reader"} |-> FALSE]

Init ==
  /\ main = "accept"
  /\ handler = "handshake"
  /\ writer = "check"
  /\ reader = "check"
  /\ conn = "none"
  /\ sleeping = FALSE
  /\ interrupted = [w \in {"writer", "reader"} |-> FALSE]
  /\ aborted = FALSE
  /\ T!Init
  /\ Q!Init

Running(t) == life[t] = "running"

(***************************************************************************)
(* What reading one byte into an uninitialised variable leaves in it when  *)
(* the client may send any of S.  BluetoothSocket::read() throws only when *)
(* the system call fails: at the end of the stream it returns and the      *)
(* variable holds whatever it held.                                        *)
(***************************************************************************)
ReadByte(S) == IF conn = "reset" THEN {"error"} ELSE S

\* The same for a variable initialised to 0, which is none of the cases.
ReadByteOrZero(S) == IF conn = "up" THEN S ELSE {"error"}

-----------------------------------------------------------------------------
(* main() *)

\* accept() returns a socket and the handler is constructed.
MainAccept ==
  /\ main = "accept"
  /\ main' = "start"
  /\ conn' = "up"
  /\ UNCHANGED <<handler, writer, reader, sleeping, interrupted, aborted,
                 threadVars, queueVars>>

\* clientHandler.start()
MainStart ==
  /\ main = "start"
  /\ T!StartCreate("handler") \/ T!StartMark("handler")
  /\ main' = IF owner'["handler"] = "started" THEN "join" ELSE main
  /\ UNCHANGED <<handler, writer, reader, conn, sleeping, interrupted, aborted, queueVars>>

\* clientHandler.join()
MainJoin ==
  /\ main = "join"
  /\ T!JoinTest("handler") \/ T!JoinWait("handler")
  /\ main' = IF owner'["handler"] = "joined" THEN "delete" ELSE main
  /\ UNCHANGED <<handler, writer, reader, conn, sleeping, interrupted, aborted, queueVars>>

\* delete socket
MainDelete ==
  /\ main = "delete"
  /\ main' = "destroy"
  /\ conn' = "none"
  /\ UNCHANGED <<handler, writer, reader, sleeping, interrupted, aborted,
                 threadVars, queueVars>>

\* The end of the loop body: ~RdClientHandler() and the workers it deletes.
MainDestroy ==
  /\ main = "destroy"
  /\ main' = "accept"
  /\ FreshHandler
  /\ T!Renew(Threads)
  /\ Q!Renew
  /\ UNCHANGED <<conn, aborted>>

\* accept(), the devices the constructor creates or pthread_create fail:
\* main() catches nothing.
MainFails ==
  /\ main = "accept" \/ (main = "start" /\ owner["handler"] = "unstarted")
  /\ aborted' = TRUE
  /\ UNCHANGED <<main, handler, writer, reader, conn, sleeping, interrupted,
                 threadVars, queueVars>>

-----------------------------------------------------------------------------
(* RdClientHandler::run() *)

\* initiateConnection(): anything but CONNECTION_INIT throws, run() returns.
HandlerRead ==
  /\ handler = "handshake"
  /\ \E b \in ReadByte(PacketType) :
       handler' = IF b = "CONNECTION_INIT" THEN "ack" ELSE "done"
  /\ UNCHANGED <<main, writer, reader, conn, sleeping, interrupted, aborted,
                 threadVars, queueVars>>

\* Mutant: a failure to write the acknowledgement is not noticed.
HandlerAckUnchecked ==
  /\ handler = "ack"
  /\ handler' = "startWriter"
  /\ UNCHANGED <<main, writer, reader, conn, sleeping, interrupted, aborted,
                 threadVars, queueVars>>

\* initiateConnection(): the acknowledgement is written, or run() returns.
HandlerAck ==
  /\ handler = "ack"
  /\ handler' = IF conn = "up" THEN "startWriter" ELSE "done"
  /\ UNCHANGED <<main, writer, reader, conn, sleeping, interrupted, aborted,
                 threadVars, queueVars>>

\* t->start() in startAsyncWorkers()
HandlerStart(here, t, next) ==
  /\ handler = here
  /\ T!StartCreate(t) \/ T!StartMark(t)
  /\ handler' = IF owner'[t] = "started" THEN next ELSE here
  /\ UNCHANGED <<main, writer, reader, conn, sleeping, interrupted, aborted, queueVars>>

\* pthread_create fails: a Thread_exception leaves run().
HandlerStartFails(here, t) ==
  /\ handler = here
  /\ owner[t] = "unstarted"
  /\ aborted' = TRUE
  /\ UNCHANGED <<main, handler, writer, reader, conn, sleeping, interrupted,
                 threadVars, queueVars>>

\* Wakeable::sleep(): `_sleeping = true', then wait.
HandlerSleep ==
  /\ handler = "sleep"
  /\ sleeping' = TRUE
  /\ handler' = "asleep"
  /\ UNCHANGED <<main, writer, reader, conn, interrupted, aborted, threadVars, queueVars>>

\* POSIX lets the wait end without a signal.
HandlerSpuriousWakeup ==
  /\ handler = "asleep"
  /\ handler' = "woken"
  /\ UNCHANGED <<main, writer, reader, conn, sleeping, interrupted, aborted,
                 threadVars, queueVars>>

\* Mutant: the condition is tested with `if' and not with `while'.
HandlerWokenUnchecked ==
  /\ handler = "woken"
  /\ handler' = "stopWriter"
  /\ UNCHANGED <<main, writer, reader, conn, sleeping, interrupted, aborted,
                 threadVars, queueVars>>

\* Wakeable::sleep(): the loop condition, with the mutex taken back.
HandlerWoken ==
  /\ handler = "woken"
  /\ handler' = IF sleeping THEN "asleep" ELSE "stopWriter"
  /\ UNCHANGED <<main, writer, reader, conn, sleeping, interrupted, aborted,
                 threadVars, queueVars>>

\* t->interrupted(true) in shudownAsyncWorkers()
HandlerInterrupt(here, t, next) ==
  /\ handler = here
  /\ handler' = next
  /\ interrupted' = [interrupted EXCEPT ![t] = TRUE]
  /\ UNCHANGED <<main, writer, reader, conn, sleeping, aborted, threadVars, queueVars>>

\* Mutant: t->join() does not wait for the thread.
HandlerJoinSkipped(here, t, next) ==
  /\ handler = here
  /\ handler' = next
  /\ UNCHANGED <<main, writer, reader, conn, sleeping, interrupted, aborted,
                 threadVars, queueVars>>

\* t->join() in shudownAsyncWorkers()
HandlerJoin(here, t, next) ==
  /\ handler = here
  /\ T!JoinTest(t) \/ T!JoinWait(t)
  /\ handler' = IF owner'[t] = "joined" THEN next ELSE here
  /\ UNCHANGED <<main, writer, reader, conn, sleeping, interrupted, aborted, queueVars>>

\* asyncEventProcessor->shutdown(), before and after it takes the mutex.
HandlerStopEvents ==
  /\ handler = "stopEvents"
  /\ handler' = "signalEvents"
  /\ Q!StopRunning
  /\ UNCHANGED <<main, writer, reader, conn, sleeping, interrupted, aborted, threadVars>>

HandlerSignalEvents ==
  /\ handler = "signalEvents"
  /\ handler' = "joinEvents"
  /\ Q!StopSignal
  /\ UNCHANGED <<main, writer, reader, conn, sleeping, interrupted, aborted, threadVars>>

\* The steps of run() that wait for nobody but the threads of the server.
HandlerWork ==
  /\ Running("handler")
  /\ \/ HandlerAck
     \/ HandlerStart("startWriter", "writer", "startEvents")
     \/ HandlerStart("startEvents", "events", "startReader")
     \/ HandlerStart("startReader", "reader", "sleep")
     \/ HandlerSleep
     \/ HandlerWoken
     \/ HandlerInterrupt("stopWriter", "writer", "joinWriter")
     \/ HandlerJoin("joinWriter", "writer", "stopReader")
     \/ HandlerInterrupt("stopReader", "reader", "joinReader")
     \/ HandlerJoin("joinReader", "reader", "stopEvents")
     \/ HandlerStopEvents
     \/ HandlerSignalEvents
     \/ HandlerJoin("joinEvents", "events", "done")

HandlerEnv ==
  /\ Running("handler")
  /\ \/ HandlerSpuriousWakeup
     \/ HandlerStartFails("startWriter", "writer")
     \/ HandlerStartFails("startEvents", "events")
     \/ HandlerStartFails("startReader", "reader")

-----------------------------------------------------------------------------
(* The onError() callback, executed by the worker that failed *)

\* Mutant: the condition is not signalled.
WakeUpUnsignalled ==
  /\ sleeping' = FALSE
  /\ handler' = handler

\* Wakeable::wakeUp(): `_sleeping = false', and a signal to a waiting handler.
WakeUp ==
  /\ sleeping' = FALSE
  /\ handler' = IF handler = "asleep" THEN "woken" ELSE handler

\* handleError(): interrupted(true), then the callback.
WorkerInterruptsItself(t) ==
  /\ interrupted' = [interrupted EXCEPT ![t] = TRUE]
  /\ UNCHANGED <<main, handler, conn, sleeping, aborted, threadVars, queueVars>>

WorkerCallsBack ==
  /\ WakeUp
  /\ UNCHANGED <<main, conn, interrupted, aborted, threadVars, queueVars>>

-----------------------------------------------------------------------------
(* PacketWriterAsync::run() *)

WriterLocal == UNCHANGED <<main, handler, reader, conn, sleeping, interrupted, aborted,
                           threadVars, queueVars>>

WriterCheck ==
  /\ writer = "check"
  /\ writer' = IF interrupted["writer"] THEN "done" ELSE "type"
  /\ WriterLocal

\* The type byte of a screen frame.
WriterType ==
  /\ writer = "type"
  /\ writer' = IF conn = "up" THEN "frame" ELSE "error"
  /\ WriterLocal

\* The PNG stream: a failing write throws, and so can obtaining the screen
\* while the link is up; an error of the surface writes and throws nothing.
WriterFrame ==
  /\ writer = "frame"
  /\ writer' \in {"check", "error"}
  /\ WriterLocal

WriterError ==
  /\ writer = "error"
  /\ writer' = "wake"
  /\ UNCHANGED reader
  /\ WorkerInterruptsItself("writer")

WriterWake ==
  /\ writer = "wake"
  /\ writer' = "done"
  /\ UNCHANGED reader
  /\ WorkerCallsBack

WriterRun ==
  /\ Running("writer")
  /\ WriterCheck \/ WriterType \/ WriterFrame \/ WriterError \/ WriterWake

-----------------------------------------------------------------------------
(* PacketReaderAsync::run() *)

ReaderLocal == UNCHANGED <<main, handler, writer, conn, sleeping, interrupted, aborted,
                           threadVars, queueVars>>

ReaderCheck ==
  /\ reader = "check"
  /\ reader' = IF interrupted["reader"] THEN "done" ELSE "type"
  /\ ReaderLocal

\* readInboundPacket(): the switch over the packet type.
AfterType(b) ==
  CASE b = "MOUSE_EVENT" -> "mouse"
    [] b = "KEYBOARD_EVENT" -> "keyboard"
    [] b = "REQUEST_SCREEN_REFRESH" -> "check"
    [] OTHER -> "error"

ReaderType ==
  /\ reader = "type"
  /\ \E b \in ReadByte(PacketType) : reader' = AfterType(b)
  /\ ReaderLocal

\* readKeyboardEvent(): combinations and strings are accepted and ignored.
ReaderKeyboard ==
  /\ reader = "keyboard"
  /\ \E b \in ReadByteOrZero(KeyboardEventType) :
       reader' = CASE b = "SINGLE_KEY" -> "key"
                   [] b \in {"COMBINATION_KEY", "STRING_KEY"} -> "check"
                   [] OTHER -> "error"
  /\ ReaderLocal

\* readMouseEvent() and the end of readKeyboardEvent(): the fields are read
\* and the packet is added, or a read throws.
ReaderAdd ==
  /\ \/ reader = "mouse" /\ conn # "reset" /\ \E b \in Buttons : Q!Add(b)
     \/ reader = "key" /\ conn # "reset" /\ Q!Add("SINGLE_KEY")
  /\ reader' = "check"
  /\ UNCHANGED <<main, handler, writer, conn, sleeping, interrupted, aborted, threadVars>>

ReaderBodyFails ==
  /\ reader \in {"mouse", "key"} /\ conn = "reset"
  /\ reader' = "error"
  /\ ReaderLocal

ReaderError ==
  /\ reader = "error"
  /\ reader' = "wake"
  /\ UNCHANGED writer
  /\ WorkerInterruptsItself("reader")

ReaderWake ==
  /\ reader = "wake"
  /\ reader' = "done"
  /\ UNCHANGED writer
  /\ WorkerCallsBack

ReaderRun ==
  /\ Running("reader")
  /\ \/ ReaderCheck
     \/ ReaderType
     \/ ReaderKeyboard
     \/ ReaderAdd
     \/ ReaderBodyFails
     \/ ReaderError
     \/ ReaderWake

-----------------------------------------------------------------------------
(* EventProcessorAsync::run(), and the end of every thread *)

\* An exception out of run() terminates the process.
EventsRun ==
  /\ Running("events")
  /\ Q!Run
  /\ aborted' = (cpc' = "thrown")
  /\ UNCHANGED <<main, handler, writer, reader, conn, sleeping, interrupted, threadVars>>

EventsSpuriousWakeup ==
  /\ Running("events")
  /\ Q!SpuriousWakeup
  /\ UNCHANGED <<main, handler, writer, reader, conn, sleeping, interrupted, aborted, threadVars>>

\* run() of t has come to its end.
Finished(t) ==
  \/ t = "handler" /\ handler = "done"
  \/ t = "writer" /\ writer = "done"
  \/ t = "reader" /\ reader = "done"
  \/ t = "events" /\ cpc = "exited"

ThreadEnds(t) ==
  /\ (Finished(t) /\ T!RunReturns(t)) \/ T!Exit(t)
  /\ UNCHANGED <<main, handler, writer, reader, conn, sleeping, interrupted, aborted, queueVars>>

\* The client disconnects or gets out of reach.
LinkLost ==
  /\ conn = "up"
  /\ conn' \in {"eof", "reset"}
  /\ UNCHANGED <<main, handler, writer, reader, sleeping, interrupted, aborted,
                 threadVars, queueVars>>

Main == MainStart \/ MainJoin \/ MainDelete \/ MainDestroy

Next ==
  \/ /\ ~aborted
     /\ \/ MainAccept
        \/ MainFails
        \/ Main
        \/ Running("handler") /\ HandlerRead
        \/ HandlerWork
        \/ HandlerEnv
        \/ WriterRun
        \/ ReaderRun
        \/ EventsRun
        \/ EventsSpuriousWakeup
        \/ \E t \in Threads : ThreadEnds(t)
        \/ LinkLost
  \/ aborted /\ UNCHANGED vars    \* the process is gone

SafeSpec == Init /\ [][Next]_vars

(***************************************************************************)
(* Every thread of the process keeps being scheduled, and a thread that    *)
(* wants a mutex that is released again and again gets it (SF).  A call on *)
(* the socket returns once the link is lost; while it is up nothing makes  *)
(* a client send, or read what the writer sends, so the steps that need    *)
(* the client are not fair then.  Clients are not obliged to come or go.   *)
(***************************************************************************)
WriterFree == conn # "up" \/ writer \notin {"type", "frame"}
ReaderFree == conn # "up" \/ reader \notin {"type", "keyboard", "mouse", "key"}

Fairness ==
  /\ WF_vars(~aborted /\ Main)
  /\ WF_vars(~aborted /\ conn # "up" /\ Running("handler") /\ HandlerRead)
  /\ WF_vars(~aborted /\ HandlerWork)
  /\ SF_vars(~aborted /\ Running("handler") /\ HandlerSignalEvents)
  /\ WF_vars(~aborted /\ WriterFree /\ WriterRun)
  /\ WF_vars(~aborted /\ ReaderFree /\ ReaderRun)
  /\ SF_vars(~aborted /\ conn # "up" /\ Running("reader") /\ ReaderAdd)
  /\ WF_vars(~aborted /\ EventsRun)
  /\ \A t \in Threads : WF_vars(~aborted /\ ThreadEnds(t))

Spec == SafeSpec /\ Fairness

-----------------------------------------------------------------------------

TypeOK ==
  /\ main \in MainStep
  /\ handler \in HandlerStep
  /\ writer \in WriterStep
  /\ reader \in ReaderStep
  /\ conn \in Conn
  /\ sleeping \in BOOLEAN
  /\ interrupted \in [{"writer", "reader"} -> BOOLEAN]
  /\ aborted \in BOOLEAN
  /\ T!TypeOK
  /\ Q!TypeOK

\* What main() has done with the handler's Thread object.
MainPhase ==
  owner["handler"] \in
    CASE main = "accept" -> {"unstarted"}
      [] main = "start"  -> {"unstarted", "creating"}
      [] main = "join"   -> {"started", "joining"}
      [] OTHER           -> {"joined"}

\* What the handler has done with the Thread object of worker t, which it
\* starts at label start, joins at label join, and leaves alone elsewhere.
WorkerPhase(t, before, start, join, after) ==
  owner[t] \in
    CASE handler \in before -> {"unstarted"}
      [] handler = start    -> {"unstarted", "creating"}
      [] handler = join     -> {"started", "joining"}
      [] handler \in after  -> {"joined"}
      [] handler = "done"   -> {"unstarted", "joined"}
      [] OTHER              -> {"started"}

WriterPhase ==
  WorkerPhase("writer", {"handshake", "ack"}, "startWriter", "joinWriter",
              {"stopReader", "joinReader", "stopEvents", "signalEvents", "joinEvents"})

ReaderPhase ==
  WorkerPhase("reader", {"handshake", "ack", "startWriter", "startEvents"},
              "startReader", "joinReader", {"stopEvents", "signalEvents", "joinEvents"})

EventsPhase ==
  WorkerPhase("events", {"handshake", "ack", "startWriter"}, "startEvents", "joinEvents", {})

\* The handler's pthread executes run() from its first label to its last.
HandlerLife ==
  /\ life["handler"] = "none" => handler = "handshake"
  /\ life["handler"] \notin {"none", "running"} => handler = "done"

\* The queue: untouched until its thread exists, asked to stop by the handler
\* and only at the end, left by a thread that has ended in its last state.
QueuePhase ==
  /\ life["events"] = "none"
       => pending = <<>> /\ proccesing = <<>> /\ r /\ cpc = "loop" /\ stop = "idle"
  /\ life["events"] \notin {"none", "running"} => cpc = "exited"
  /\ cpc = "thrown" => aborted
  /\ CASE handler = "signalEvents" -> stop = "signal"
       [] handler = "joinEvents"   -> stop = "done"
       [] handler = "done"         -> owner["events"] = "joined" => stop = "done"
       [] OTHER                    -> stop = "idle"

\* A worker calls back after it has interrupted itself; a handler that waits
\* has not been notified, one that has been notified has a worker to blame.
WakeupPhase ==
  /\ writer = "wake" => interrupted["writer"]
  /\ reader = "wake" => interrupted["reader"]
  /\ handler = "asleep" => sleeping
  /\ handler = "woken" /\ ~sleeping => interrupted["writer"] \/ interrupted["reader"]
  /\ handler = "stopWriter" => interrupted["writer"] \/ interrupted["reader"]

(***************************************************************************)
(* The inductive invariant: where main() and the handler are determines    *)
(* how far each Thread object and the queue can be.  The safety properties *)
(* below follow from it.                                                   *)
(***************************************************************************)
SessionInv ==
  /\ TypeOK
  /\ T!ThreadInv
  /\ MainPhase
  /\ WriterPhase
  /\ ReaderPhase
  /\ EventsPhase
  /\ HandlerLife
  /\ QueuePhase
  /\ WakeupPhase

(***************************************************************************)
(* The socket and then the handler with its workers are deleted only when  *)
(* no thread of the session executes run() any more.  The chain is long:   *)
(* main() has joined the handler, that ended its run() either before       *)
(* starting anybody or after joining all three.                            *)
(***************************************************************************)
QuiescentBeforeDelete ==
  main \in {"accept", "delete", "destroy"} => \A t \in Threads : ~Running(t)

(***************************************************************************)
(* The handler tears a session down only because a worker has given up:    *)
(* neither a spurious wakeup nor a wakeUp() meant for something else ends  *)
(* a connection that works.                                                *)
(***************************************************************************)
TeardownHasCause ==
  handler = "stopWriter" => interrupted["writer"] \/ interrupted["reader"]

\* The session starts, joins and destroys its threads, and uses its event
\* queue, the way Thread and Consumer assume: it creates a thread once, joins
\* it once, queues nothing after shutdown(), deletes only what has ended.
UsesThreadsProperly == T!SafeSpec
UsesConsumerProperly == Q!SafeSpec

(***************************************************************************)
(* The session as its client sees it: it implements RemoteControl.         *)
(***************************************************************************)
Phase ==
  IF aborted THEN "down"
  ELSE IF main = "accept" THEN "idle"
  ELSE CASE handler \in {"handshake", "ack"} -> "greeting"
         [] handler \in {"startWriter", "startEvents", "startReader",
                         "sleep", "asleep", "woken"} -> "serving"
         [] handler = "done" -> "over"
         [] OTHER -> "closing"

Client == IF conn \in {"eof", "reset"} THEN "lost" ELSE conn

Working == \E t \in Workers : Running(t)

Service == INSTANCE RemoteControl WITH
  phase <- Phase, client <- Client, working <- Working

ImplementsRemoteControl == Service!Spec

(***************************************************************************)
(* When the link is lost while the handler sleeps and the writer is still  *)
(* at work, the session is cleaned up and the server accepts the next      *)
(* client, unless the process is terminated by an exception on the way.    *)
(***************************************************************************)
LostLinkEndsSession ==
  (handler = "asleep" /\ conn \in {"eof", "reset"} /\ Running("writer") /\ writer # "done")
    ~> (main = "accept" \/ aborted)

(***************************************************************************)
(* A client that is lost during the handshake, which has no timeout, does  *)
(* not keep the server: main() accepts the next one, even if the end of    *)
(* the stream is read as a CONNECTION_INIT.                                *)
(***************************************************************************)
LostHandshakeEnds ==
  (handler \in {"handshake", "ack"} /\ conn \in {"eof", "reset"})
    ~> (main = "accept" \/ aborted)

(***************************************************************************)
(* When the writer gives up while the handler sleeps, be it that the link  *)
(* is lost or that the screen cannot be read, the session ends too, with   *)
(* one exception: the link is up and the reader waits for ever for bytes   *)
(* that the client does not send.                                          *)
(***************************************************************************)
WriterFailureEndsSession ==
  [](handler = "asleep" /\ writer = "error"
       => \/ <>(main = "accept" \/ aborted)
          \/ <>[](conn = "up" /\ reader \in {"type", "keyboard", "mouse", "key"}))

(***************************************************************************)
(* What include/RdClientHandler.h:103 says of run(): it hands off to the   *)
(* workers, and "when the connection is terminated the workers are         *)
(* joined".  It fails: wakeUp() calls that come before sleep() has set     *)
(* _sleeping are lost.                                                     *)
(***************************************************************************)
TerminationJoinsWorkers ==
  (owner["reader"] = "started" /\ conn \in {"eof", "reset"})
    ~> (aborted \/ \A t \in Workers : owner[t] = "joined")
=============================================================================
