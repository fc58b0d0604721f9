# A formal model of BluetoothRemote

BluetoothRemote is a server for Linux: a telephone connects over RFCOMM, gets
the screen as a stream of PNG images and sends mouse and key events, which the
server injects through two uinput devices.  This directory holds TLA+ models of
its concurrent core, the TLC configurations that check them on small instances,
and proofs, checked by TLAPS, of what holds for instances of any size.  Paths
below are relative to the root of the repository.

## 1. Inventory

| component | code | state | operations | interacts with |
|---|---|---|---|---|
| threads | `src/Thread.cpp`, `src/Lockable.cpp` | the pthread, `_runs`, `runsLock` | `start`, `join`, `_start` | every class with a `run()` |
| condition, sleep | `src/Conditional.cpp`, `Wakeable` in `include/RdClientHandler.h` | mutex, condition, `_sleeping` | `wait`, `wait(ms)`, `signal`, `sleep`, `wakeUp` | handler and queue |
| queue | `include/Consumer.h` | `pending`, `proccesing`, `r` | `add`, `run`, `shutdown` | reader (adds), handler (shuts down) |
| session | `main.cpp`, `include/RdClientHandler.h`, `include/Interruptable.h` | socket, handler, three workers | accept, handshake, start, sleep, shutdown, delete | all of the above |
| reader | `include/PacketReaderAsync.h`, `include/Packet.h` | `_interrupted` | read a packet, queue its event, report an error | socket, queue, handler (callback) |
| writer | `include/PacketWriterAsync.h` | `_interrupted` | write a frame, report an error | socket, screen, handler (callback) |
| event processor | `src/EventProcessorAsync.cpp` | the two devices | dispatch an event | queue, mouse, keyboard |
| mouse, keyboard | `src/Mouse.cpp`, `src/Keyboard.cpp`, `src/suinput.c` | uinput descriptors | create, move, click, press, destroy | kernel, X server |
| sockets | `src/BluetoothSocket.cpp`, `src/BluetoothServerSocket.cpp` | descriptors | bind, accept, read, write | kernel |
| registration | `src/ServiceRegistrer.cpp` | map of records, SDP session | register, unregister | SDP daemon |
| screen | `src/Screen.cpp` | a display connection, screen images | get the default screen, capture, recycle | X server |
| frame encoder | `src/FrameEncoder.cpp` | codec context, frame, scaler, `gotOutput` | construct, encode, drain, recycle, destroy | codec; no caller yet |
| not in the program | `src/SerialServer.cpp`, `include/PacketHandler.h`, `src/Utils.cpp` | | not built, or never called | |

How they interact.  `main()` serves one client at a time: it accepts, starts an
`RdClientHandler` thread and joins it.  The handler makes the handshake, starts
writer, event processor and reader in this order and sleeps.  A reader or writer
that fails interrupts itself and calls back `wakeUp()` from its own thread.  The
handler then interrupts and joins the writer, interrupts and joins the reader,
shuts down and joins the event processor, and returns.  `main()` deletes the
socket and destroys the handler with its workers.

What is hard in it, and what makes each part correct:

* **threads** - `_runs` is written by two threads without a lock; after `join()`
  nothing of the thread may be going on, because what follows is a `delete`.
* **queue** - no wakeup is lost between test and wait; items are handled once and
  in order; a shutdown ends the thread wherever it is in its loop.
* **session** - objects shared by five threads are deleted by one of them; a lost
  link must end the session, as no other client is served before; a wakeup may
  come early, late, twice or for no reason.
* **reader** - packets have no length and no mark, so one field read wrongly
  spoils all that follows; at the end of the stream a read returns without an
  error and leaves its buffer as it was, so anything may be decoded from it.
* **writer** - a frame is many writes, and an error of the socket reaches the
  writer only through a status that cairo passes on.
* **event processor, devices** - a click is several writes, each of which can
  fail; the pointer is moved relative to a position read earlier.
* **sockets** - partial transfers; the end of the stream is not an error.
* **registration** - an inconsistent comparison of keys, a session that is closed
  but not forgotten, an entry that stays when registering fails.
* **frame encoder** - a codec that delays frames and fails in any call; what is
  freed by whom.

The complete list, with lines and with the properties that cover each item, is
`hazards` in `PROJECT.json`.

## 2. Modules

| module | what it models |
|---|---|
| `Thread` | the Thread objects: `StartCreate`/`StartMark` are the two halves of `start()`, `RunReturns`/`Exit` the end of `_start()`, `JoinTest`/`JoinWait` the two of `join()` |
| `EventChannel` | abstract: what a queue between two threads promises |
| `Consumer` | `add()`, `shutdown()` and `run()` at the grain of their critical sections; refines `EventChannel` |
| `ClientSession` | `main()`, handler, writer, reader and event processor; instantiates `Thread` for the four threads and `Consumer` for the queue, and refines both |
| `EventDispatch` | the calls on the uinput devices an event is made of, the kernel's frames, the X server that applies them later |
| `ByteStream` | abstract: what a connected socket promises to its reader and to its writer |
| `SocketIO` | the loops of `read(n)` and `write(n)` over the partial transfers of the kernel; refines `ByteStream` |
| `RemoteControl` | abstract: what the server promises its clients |
| `PacketDecoder` | the reader's packets field by field, on the reader's half of `ByteStream` |
| `FrameWriter` | the writer's acknowledgement and frames chunk by chunk, on the writer's half of `ByteStream` |
| `ServerDescriptors` | the descriptors, the RFCOMM channel and the uinput devices, from the start of `main()` and from client to client |
| `ServiceRegistrer` | the map of services, `operator<` of its keys, the session with the SDP daemon |
| `TimedSleep` | `Wakeable::sleep(millis)` on `Conditional::wait(milliseconds)` |
| `KeyCombo` | `suinput_emit_combo()` |
| `FrameEncoder` | the life of the encoder and of the screen images it encodes |
| `MCThread`, `MCConsumer`, `MCClientSession`, `MCEventDispatch`, `MCSocketIO`, `MCPacketDecoder`, `MCFrameWriter`, `MCServerDescriptors`, `MCServiceRegistrer`, `MCUncalled` | what TLC runs |
| `Concurrency_proof` | theorems about `Thread`, as `MCThread` instantiates it, and `Consumer` |
| `ClientSession_proof`, `SocketIO_proof`, `ServerDescriptors_proof`, `EventDispatch_proof`, `PacketDecoder_proof`, `FrameWriter_proof` | theorems about the module each is named after |
| `Uncalled_proof` | theorems about `ServiceRegistrer`, `TimedSleep`, `KeyCombo` and `FrameEncoder`, as `MCUncalled` instantiates them |

The two modules about resources and `EventDispatch` stand beside the session, not
under it: `ClientSession` keeps of a socket only what a call can return, of the
devices only that a write to them can fail.  `PacketDecoder` and `FrameWriter`
are the reader and the writer of a session at the grain of bytes, each alone with
its half of the stream; `ClientSession` has both of them, and the handler, at the
grain of what a call can return.

Each main module also holds, before the definition it concerns and commented
`Mutant:`, the altered versions of definitions that the properties must detect.

### Thread

`life` is the pthread, `runs` the field `_runs`, `owner` how far the owner's
calls have got.  `runsLock` is only ever taken by the owner and is not state.
`Renew` stands for destruction and construction of a new object in the same
place; it has no guard, as the destructor has none, so that "destroyed only when
joined or never started" is something the users of the module must show.

### Consumer

The mutex is held across steps only between the test of the wait condition and
the wait (`cpc = "wait"`); `add()` and the signalling half of `shutdown()` are
steps that need it free.  `shutdown()` is two steps, since `r` is written under
another lock.  `Rejected` items make `proccess()` throw, and any item may, when a
device refuses a write; the process is then gone (`thrown`).  `MaxBacklog`
bounds both queues together: `add()` has no such bound, in the model it waits.

### ClientSession

`main`, `handler`, `writer` and `reader` are program counters whose labels name
the next thing the thread does; `cpc` of the queue is that of the event
processor.  `conn` is the socket: `up`, or lost so that reads find the end of the
stream (`eof`) or fail (`reset`); writes fail in both cases.  `ReadByte` gives
the values a byte read into an uninitialised variable can have: at the end of
the stream all of them.  `sleeping` is `_sleeping` of the handler.
`HandlerSleep` is one step because the mutex is held from `_sleeping = true`
until the wait releases it; `HandlerWoken` is the test of the `while` loop.
`aborted` stands for `std::terminate`: an exception left a thread or `main()`.
It is followed by stuttering, so the check for deadlocks stays on in every run.

### RemoteControl

What `ClientSession` looks like from outside: `phase` is where the session is,
`client` its socket, `working` whether any of the three workers executes `run()`.
The refinement (`Phase`, `Client`, `Working`) reads the phase off the labels of `main()` and
of the handler.  The abstract steps say what must not happen: nobody works for a
client before it was greeted or after its session is over, a client's socket is
closed only then, and the next one is accepted only after that.

### PacketDecoder

`begun`, `left` and `sent` are the client, which sends any packet of
`Packet.h`, and some bytes that are none, one byte after the other; the link can
go between any two.  `begun` keeps of each packet how many bytes and how many
events there are up to its end, so that a place in the stream is a number and no
packets have to be joined to say where the reader is.  `pc` is the field the reader waits for.  A read is
`ByteStream`'s: `Read` when it is called, `SocketReturns` when it comes back.
`Values` is what an unchecked short read leaves in a variable: the bytes read,
and for the others what the variable held - anything for the uninitialised
`packetType`, `x`, `y` and `button`, 0 for the two bytes of `readKeyboardEvent()`.
`queued` is the history of what was handed to the event processor; as the reader
can decode the end of the stream for ever it is kept up to the first event that
nobody sent, which is enough to see that there is one.

### FrameWriter

`Acknowledge` and `Acknowledged` run on the handler's thread, the other steps of
`Writer` on the writer's own.  An image is a sequence of chunks, each of which is
one call of `writeScreenCallback()`; that the image is complete, and that cairo
gives it up for a reason of its own, are both `FrameOver`, because the code treats
every status but `CAIRO_STATUS_WRITE_ERROR` as success.  `Written` is what the code
has called `write()` with up to each label.  `frames` counts the packet
objects, none of which is deleted, `surfaces` the cairo surfaces.

### ServiceRegistrer

What `std::map` does with a comparison that is not an order depends on its tree,
so the tree of libstdc++ is modelled, for up to three entries: `root` and the
position of an entry determine it.  An insertion walks to the lower bound and makes
the new node a child of the entry before it, or of the one at it; then it compares
node and parent once more to choose the side.  A key that contradicts its parent
thus goes to the left (`GoesLeft`), where the parent may have a child already: that
one is overwritten (`Overwrites`, `Overwrite`) and cannot be looked up any more.
`lost` is the overwritten entry; its node is still there, counted by `size()`
(`Size`, so that three entries include the lost one), and still the first one for
the map's header.  Hence the destructor's loop begins with it (`Visited`), a key that
goes before the first entry is compared with the header itself (`ReadsHeader`), and
once the parent of the lost node is erased (`orphan`) the loop runs into freed
memory.  The last two are `Undefined`.

`Register` is the good path of
`registerService()` with all of `registerRecord()`; its two failures leave, or do
not leave, an entry without a record (the order of evaluation in
`serviceMap[key] = registerRecord()` is unspecified before C++17).  After a failed
`sdp_record_register()` the session is closed and still pointed to; whoever uses
it, or a record that is not the daemon's, may `Crash`.  `abandoned` is the history of
the records the daemon has refused to give up, of which the code erases the entry.
`RegistrerInv` relates map and daemon in every state in which the session is not
closed, failures or not (`DaemonHasMap`), and names what undefined behaviour takes
(`CrashHasCause`): a closed session, a NULL entry or a lost one.

### TimedSleep, KeyCombo, FrameEncoder

Code no program calls yet, each with the caller its interface asks for.
`TimedSleep` counts time in milliseconds, `Second` of which make a second;
`Deadline` adds seconds and fractions without a carry, as the code does, and a
fraction of a second or more makes `Wait` throw with the mutex held.  In
`KeyCombo` every write can fail; `stuck` are the keys whose release could not be
written.  In `FrameEncoder` the codec keeps up to `Delay` frames; `memory` says of
what the constructor allocates whether it is live or freed, and `Crash` is the use
of what is freed or NULL.

### EventDispatch

`todo` is the list of calls left for the event in progress, `held` and `frame`
what the kernel keeps of each device (pressed codes; what was written since the
last `SYN_REPORT`), `inFlight` what the X server has still to read from each
device, `pointer` its pointer, `asked` the coordinate of the last mouse event.
A frame in flight carries what was asked for when it was written
(`for`), which no device knows: it is there to say where a click has to happen.
`exact` is a history variable: the pointer was at rest when its position was
queried and nobody moved it since.  The two axes are treated alike by every
statement of `moveMouse()`, so one is modelled.  Not modelled: acceleration (the
X server is assumed to move the pointer by the distance it is given), the
conversion of a coordinate from double to int, and the overflow of the distance,
`newPoint.x - current.x` in `src/Mouse.cpp`, for a target near `INT_MIN`: `ClickLands`
is about targets whose distance from the screen is an int.

### SocketIO

`numBytes`, `numRead`, `numMore` and `buf` are the variables of a `read()` in
progress, `srcBuf`, `offset` and `toSend` those of a `write()`; `got` and `wrote`
are what the last of each has returned.  A step is one `::read` or `::write`, of
as many bytes as the kernel chooses.  Both loops go on after the last byte and
end with a call for 0 bytes, which `ReadZero` and `WriteZero` model; a write may
still fail in it.  A buffer holds `Junk` where nothing was read.  The two queues
of the kernel (`incoming`, `outgoing`) and the link are external.  `Renew`, the
socket of the next client, is guarded by the absence of a call in progress;
`QuiescentBeforeDelete` of the session is what justifies it.

### ServerDescriptors

`file` is the descriptor table of the process, `fd` the field in which each
object keeps its number, `enabled` and `created` what the kernel knows of the
uinput device behind a descriptor.  `main()` is sequential here and every step
is one call that can fail; `Serve` stands for the whole session.  The kernel
gives the lowest free number, so numbers are used again from client to client.
A construction that fails throws, after closing what it has opened or, in
`Keyboard::init()`, without; nothing catches, so `Aborts` ends the process, and with
it its descriptors, at any of these places.  `~Keyboard` closes
nothing: `DestroyKeyboard` forgets the number and leaves file and device.

## 3. Runs

| run | bounds | shows |
|---|---|---|
| `thread_objects` | 3 objects | `ThreadInv`, `JoinedMeansReturned`: run() is over when join() has returned; `JoinReturns`: a join that waits returns |
| `thread_reaped` | 2 objects | **violation** of `JoinReaps`: join() does not join a pthread that has cleared `_runs` |
| `consumer` | 2 good items, 1 rejected, 3 queued | `NoLostWakeup`, `ConsumerInv`, `ShutdownEnds`, and `ImplementsChannel`: the refinement of `EventChannel` with its fairness |
| `session` | 1 button (which the event processor rejects), 1 queued | `SessionInv`, `QuiescentBeforeDelete`, `TeardownHasCause`; the refinements `UsesThreadsProperly`, `UsesConsumerProperly` and `ImplementsRemoteControl`; and `LostLinkEndsSession`, `LostHandshakeEnds`, `WriterFailureEndsSession`: what leads back to accept() |
| `session_termination` | same | **violation** of `TerminationJoinsWorkers`: wakeups before sleep() are lost |
| `event_dispatch` | screen of 3, targets left of it, on it and right of it, 2 keys, 3 frames | `DispatchInv`, `ClickLands` |
| `socket_io` | reads of 1 and 3 bytes, messages of 1 and 3 bytes, kernel queues of 2 | `SocketInv`, `LostLinkReleases`: a lost link releases reader and writer, and `ImplementsStream`: the refinement of `ByteStream` with its fairness |
| `server_descriptors` | 7 descriptors, 3 channels, 2 mouse events, 3 keys | `DescriptorInv`, `DevicesReady`, `OnlyKeyboardsLeak`, `AdvertisesFirstFree` |
| `packet_decoder` | 2 packets, coordinates of 2 bytes that look like packet types | `DecoderInv`; `FramingKept`: what is queued is what was sent, and phantom events come only after an orderly end of the stream; `SentIsQueued`: a client that leaves right after its last byte is still heard; `ReaderStops` |
| `frame_writer` | 3 images of 2 chunks | `WriterInv`: at most the last surface stays behind; `StreamOfFrames`: whole frames, one after the other; `LostLinkEndsWriter` |
| `service_twice` | 4 keys, 4 registrations, 3 entries | **violation** of `RegistersOnlyNew`: a registered service is not found and registered again |
| `uncalled` | 4 keys, 4 registrations, 3 entries; seconds of 3 ms, sleeps of 0 to 2 seconds; combinations of up to 4 of 3 keys; 5 images, a delay of 2 | `RegistrerInv`, `TwiceOnlyIfContradictory`, `UnregistersOnlyItself` (ServiceRegistrer); `NotTooShort`, `SleepEnds` (TimedSleep); `ComboInv` (KeyCombo); `EncoderInv`, `AllDelivered` (FrameEncoder) |

Why the bounds are enough.  Thread objects do not interact, so three show every
combination of two racing and one behind.  The queue behaves differently for an
empty batch, for one with a successor and for an item that arrives behind a
batch in progress: three items.  The session has no parameter but the queue:
clients follow one another without bound.  Its events are keys, which are handled,
and the button that is not; longer queues are the business of `consumer`, and the
theorems of section 5 are about every set of buttons and every bound.  Three frames are a motion and the two
clicks of a double click, all waiting for the X server.  A queue of two and
transfers of three make every longer read and write come in parts, split at every
place, and an empty and a full queue are both reached.  Seven descriptors let three
clients be served and the fourth fail for want of one.  Two packets are one whose
end is decoded wrongly and one that suffers from it; their bytes, 2 and 3, are at
once types of packets, types of keyboard events and payload, so that a decoder out
of step goes on decoding.  Two chunks are a first and a last one, three images
come after one another and after the acknowledgement; that the writer also ends at
the last of them means that a writer which survives a lost link for longer than
three frames is not looked for.  Three entries are a root
with two children, and the fewest with which an entry can be overwritten; four
keys contain pairs that contradict each other and a pair that does not.  Seconds
of 3 ms have every combination of fractions with and without carry.

`uncalled` is one run for four modules that share nothing: `part` says which of
them moves while the others stay in their initial state.

Fairness.  Threads of the process keep running (WF), and a thread that competes
for a mutex which is released again and again gets it (SF, for a signal that
competes with a consumer).  Calls on the socket are fair only once the link is
lost: a silent client may keep a read, and one that does not read may keep a
write, for ever.  The same in `SocketIO`: `ReadCall` and `WriteCall` are fair, and
neither is enabled while the call would block.  `PacketDecoder` and `FrameWriter`
assume of the socket what `ByteStream` promises, which `socket_io` shows.  In
`TimedSleep` time goes by.  Clients need not come or go, and nobody is obliged to add, to
shut down or to wake up spuriously.  Nothing in the safety runs is fair.

## 4. Findings

1. **Lost wakeup** (`include/RdClientHandler.h:18`, run `session_termination`).
   `sleep()` sets `_sleeping = true` before it waits, whatever happened before.
   When both workers fail before the handler gets there - the link breaks right
   after the handshake - both callbacks come too early, the handler sleeps and
   `main()` stays in `join()`: the server accepts nobody any more.
   `include/RdClientHandler.h:105` says "when the connection is terminated the
   workers are joined".  `LostLinkEndsSession` is what does hold: it assumes
   that the handler already sleeps and that the writer has not given up.
2. **Threads that are not joined** (`src/Thread.cpp:51`, run `thread_reaped`).
   `join()` calls `pthread_join` only while `_runs` is true, and the thread
   clears it before `pthread_exit`.  What the callers need, that `run()` is over,
   holds (`JoinedMeansReturned`); the joinable pthread is leaked.
3. **Keys that are no order** (`include/ServiceRegistrer.h:72`, run
   `service_twice`).  `operator<` is true as soon as any field is smaller, so of
   <<0, 2>> and <<1, 1>> each is less than the other, and a lookup walks past a
   key that is in the map: after these two have been registered, the second is not
   found.  It is then registered again, while
   `src/ServiceRegistrer.cpp:4` says "Register new service if such does not
   exist".  Nor is it enough that a key contradicts no other: two that contradict
   each other can make the map overwrite the entry of a third, as <<2, 0>> after
   <<0, 2>> and <<0, 0>>.  What does hold: a service whose key contradicts no other
   is registered twice only after that, or after the daemon refused to unregister it
   (`TwiceOnlyIfContradictory`), and no service is unregistered for another
   (`UnregistersOnlyItself`).

## 5. Proofs

All theorems hold for every value of the constants that satisfies the assumption
of the module, where one is needed:

* `SocketAssumption`: a read asks for at least one byte, a message is a sequence of
  bytes, `Junk` is none of the client's bytes;
* `DescriptorAssumption`: the numbers of channels and of descriptors are positive;
* `DispatchAssumption`: the screen is not empty, coordinates are integers and the
  keyboard was created with codes of key packets;
* `DecoderAssumption`: a coordinate is a sequence of `CoordinateSize` bytes, and
  what else the client may send is no packet - its first byte is no type or its
  second no type of a keyboard event; this defines what `Malformed` means;
* `WriterAssumption`: an image is a sequence of non-empty chunks of bytes;
* `RegistrerAssumption`: a uuid is a sequence of numbers, and all are of one length;
* `UncalledAssumption`: a second has at least one millisecond, and times, lengths and
  delays are natural numbers.

`ConsumerAssumption` and `SessionAssumption` are not needed.

* `Concurrency_proof`, threads: `ThreadCorrect` (`ThreadSafeSpec => []ThreadInv`) and
  `JoinIsSafe`.
  `JoinedMeansReturned` is not inductive: `join()` believes a false `_runs`.
  `LifeMatchesOwner` adds why it may - once `start()` has stored `true`, only the
  end of `run()` stores `false` - and which lives go with each step of the owner.
* `Concurrency_proof`, queue: `ConsumerCorrect` (`[]ConsumerInv`),
  `ConsumerNeverMissesSignal` (`[]NoLostWakeup`) and `ConsumerIsChannel`
  (`SafeSpec => Channel!SafeSpec`), the safety half of the refinement, by one
  lemma per action, each saying which action of the channel it is.  The steps
  that move items need that a batch is empty when the next is taken
  (`BatchWorkedOff`).
* `ClientSession_proof`: `SessionCorrect` (`[]SessionInv`), from which
  `DeleteIsSafe` (`[]QuiescentBeforeDelete`) and `TeardownIsCaused`
  (`[]TeardownHasCause`) follow, and the refinements
  `ThreadsAreUsedProperly`, `QueueIsUsedProperly` and `SessionIsRemoteControl`.  `SessionInv` says for each
  label of `main()` and of the handler how far each Thread object can be
  (`MainPhase`, `WriterPhase`, `ReaderPhase`, `EventsPhase`), ties the end of
  `run()` to the label `done` (`HandlerLife`), the queue to the handler
  (`QueuePhase`) and every wakeup to the worker that caused it (`WakeupPhase`).
  It is proved step by step, one lemma per group of actions: first what the step
  does to the Thread objects and to the types of the queue, then the phases.
  `SessionIsRemoteControl` (`SafeSpec => ImplementsRemoteControl`) has one lemma
  per thread that names the step of `RemoteControl` each of its steps is.  It needs
  `SessionInv` for both ends of a session: nobody works before the handler has read
  the greeting, nor after it has joined the event processor, the last of the three.
  `SessionMissesNoSignal` puts session and queue together: since every step of the
  session is a step of `Consumer` or none (`QueueIsUsedProperly`), what is invariant
  for the queue alone (`QueueStepKeeps`) is so in the session: under every schedule of
  the five threads an event processor that waits has nothing queued and no
  `shutdown()` whose signal it has missed.
* `SocketIO_proof`: `SocketCorrect` (`[]SocketInv`) and `SocketIsStream`
  (`SafeSpec => Stream!SafeSpec`).  What a read in progress has taken counts as
  still in the abstract pipe, so a partial read is a stutter: `ReadSomeKeepsPipe`
  shows that moving bytes from the queue to the buffer changes nothing.  That
  needs `LoopsInBounds`: the buffer is filled without a gap up to `numRead`.
* `ServerDescriptors_proof`: `DescriptorsCorrect` (`[]DescriptorInv`), from which
  `SessionHasDevices` and `AdvertisedIsFirstFree` follow.  `OwnDescriptor` alone
  is not inductive: that a close hits the right file needs which objects exist at
  each place of `main()` (`ObjectsExist`).  `LeakIsTheKeyboard`
  (`[]OnlyKeyboardsLeak`) follows how each step changes the set of orphans; only
  `DestroyKeyboard` adds one, the only step that adds to `served`.

* `EventDispatch_proof`: `DispatchCorrect` (`[]DispatchInv`) and `ClickIsExact`
  (`[]ClickLands`).  A click is applied long after the query that determined its
  distance, behind frames of the same event, so `ClickLands` needs a fact about
  every frame in flight.  `MotionLands` says that only the oldest exact frame of
  the mouse can move the pointer, and that after it the pointer is where all exact
  frames behind it want it; `EventLands` says the same of the calls still to be
  made.  `PressThenRelease`, `SynFollows` and `InOrder` say of the list of calls that a
  motion is alone in its frame and that no event ends with a key pressed or a
  frame unfinished; `EventCalls` shows it of the calls of every event.
* `PacketDecoder_proof`: `DecoderCorrect` (`[]DecoderInv`) and `FramingIsKept`
  (`[]FramingKept`).  `FramingKept` speaks of events; what keeps it true is where
  the reader is in the bytes.  `InPacket(n)` says it: all events before the n-th
  packet are queued, what is left of the stream begins at the field `pc` names, and
  what has been decoded of the packet is right.  `StreamOK` ties the bytes not read
  yet to the packets begun, `HistoryOK` the packets to the events sent.  Each step
  of the reader moves to the next field of the same packet, to the next packet, or
  stops; only after a read that returned nothing in an orderly end (`AtEnd`) does it
  go on without knowing where it is.  That the kinds of packets are told apart by
  their first two bytes is `PacketKinds`, which rests on what `DecoderAssumption` says
  of `Malformed`.
* `FrameWriter_proof`: `WriterCorrect` (`[]WriterInv`) and `StreamIsFrames`
  (`[]StreamOfFrames`).  The invariant compares, label by label, the wire and what
  the socket still has to take with `Written`, and after a write that failed says
  that the wire is a beginning of it.  Frames and images are flattened sequences, and
  `FlattenSeq` is recursive.  `FlattenAppend`, what it does with one more
  element, is proved by induction all the same: `Induct` is induction over a set of
  numbers, from the well-foundedness of < , which needs no operator as a parameter;
  `FlattenExists` and `FlattenUnique` show with it that the function `FlattenSeq`
  chooses exists and is determined by its equation.

* `Uncalled_proof`, registrer: `RegistrerCorrect` (`[]RegistrerInv`),
  `OrderlyKeysOnce` (`[]TwiceOnlyIfContradictory`) and `UnregistersNoOther`
  (`UnregistersOnlyItself`), for every set of uuids, however they contradict one
  another.  A map built with a comparison that is no order is in no order, but
  for an orderly key - one that contradicts no other - it is: an entry is less than
  it, or it is less than every entry behind (`InOrderFor`).  `LinkKeepsOrder` shows
  that this survives the insertion of any key, orderly or not: the walk to the lower
  bound has seen that the entry before it is less and the one at it is not
  (`LowerBoundFacts`), and of two keys of which one is less, every third is greater
  than the one or less than the other (`LessSplits`).  A key that goes to the left of
  its parent contradicts it, and both are on the same side of the orderly key
  (`ContradictingParent`), so the two may be either way round.
  `OverwriteKeepsOrder` is the same for an insertion that overwrites.  Two entries of
  one orderly key would have to be in order, so the map never holds both; what the
  daemon has beside the entries of the map is lost or abandoned.
  Its other half is `EachOnce`: a record has one entry, and none once it is lost or
  abandoned, which is why unregistering takes the same off map and daemon
  (`InsertedRange`, `ErasedRange`).  That what is found is what was looked for
  (`FoundIsIt`) holds for every key: if neither of two is less, no field differs
  (`NeitherIsLess`).  The shape of the tree is bounded: `MaxEntries` is a definition,
  not a constant, because the model has the trees of up to three entries.
* `Uncalled_proof`, sleep: `SleepLastsLongEnough` (`[]NotTooShort`), for a second of
  any length.  `NotTooShort` speaks of the end of the wait; `SleepInv`, which is
  inductive, says in addition that the deadline is that of the call, that a wait was
  accepted only when the fractions do not carry, and that the mutex stays locked only
  when they do.  `DeadlineIsSum`: seconds and fractions added up separately are the
  sum of the times, whether they carry or not.
* `Uncalled_proof`, combinations: `ComboReleases` (`[]ComboInv`), for combinations of
  any length, with keys that occur twice or were held before.  `LoopsAgree` compares
  both loops with the first `i` keys; `NoKeys`, `OneMoreKey` and `AllKeys` say what
  the set of the first `i` keys is at both ends and one step further.
* `Uncalled_proof`, encoder: `EncoderCorrect` (`[]EncoderInv`) and `EncoderDelivers`
  (`[]AllDelivered`), for a codec that keeps any number of frames.  `FramesCounted`
  relates what is inside the codec, what has come out and `gotOutput` at each stage
  of the caller; without it nothing says why draining may stop when `gotOutput` is
  false.

Every invariant a passing run checks is thus a theorem, and so are
`UnregistersOnlyItself`, `OnlyKeyboardsLeak`, `AdvertisesFirstFree`,
`UsesThreadsProperly`, `UsesConsumerProperly`, `ImplementsRemoteControl` and the safety
halves of `ImplementsChannel` and `ImplementsStream`.

Only model-checked are the liveness properties - `JoinReturns`, `ShutdownEnds`,
`LostLinkEndsSession`, `LostHandshakeEnds`, `WriterFailureEndsSession`,
`LostLinkReleases`, `SentIsQueued`, `ReaderStops`, `LostLinkEndsWriter`, `SleepEnds` and
the fairness halves of `ImplementsChannel` and `ImplementsStream` - since liveness
under fairness is beyond the prover.

## 6. Not modelled, and the plan

Not modelled:

* the contents of an image and of a service record, the connection to the X
  server, which lasts as long as the process, `usleep()` and the log: no property
  is about them;
* `include/PacketHandler.h`: templates of consumers that nothing instantiates, so
  there is no program whose states a model could have; `Consumer` is what they
  inherit;
* `src/SerialServer.cpp`, which repeats the loop of `main()` and is not built;
* `Conditional::signalAll()`, the one-byte `BluetoothSocket::read()` and the
  constructor of `BluetoothServerSocket` for a given channel: no callers, and no
  state beyond what is modelled;
* the time stamps of `FrameEncoder` (`currentFrame++ % currentFrame` has no defined
  value) beyond the division by zero it may be.

The plan the modules were written along: threads and queue first, then the session
on top of them, the bytes below it (sockets, reader, writer), the devices and the
descriptors, and last the code nothing calls yet.  What is left of it is a tree of
more than three services in `ServiceRegistrer`, for which the program has no
use - it registers one - and the proof of the liveness properties.
