----------------------------- MODULE FrameWriter -----------------------------
(***************************************************************************)
(* PacketWriterAsync: the acknowledgement, written by the handler, then    *)
(* one screen frame after the other, written by the writer's own thread    *)
(* (include/PacketWriterAsync.h).  The socket is the writer's half of a    *)
(* ByteStream, which SocketIO implements.                                  *)
(*                                                                         *)
(* A frame is a type byte and a PNG image that cairo hands to              *)
(* writeScreenCallback in chunks.  It has no length: the client finds the  *)
(* end of a frame only by decoding the image.                              *)
(***************************************************************************)
EXTENDS Integers, Sequences, SequencesExt

CONSTANTS
  Png,          \* an image, as the sequence of its chunks
  MaxFrames     \* bound of the model: frames written to a client

\* Packet::PacketType (include/Packet.h) as bytes.
SCREE_FRAME == 1
ACK == 6

ASSUME WriterAssumption ==
  /\ Png \in Seq(Seq(Nat) \ {<<>>})
  /\ MaxFrames \in Nat

VARIABLES
  link, taken, todo, wrote,   \* the writer's half of the stream
  received,     \* history: what the client has received
  pc,           \* the write in progress, or what comes next
  chunks,       \* the chunks of the image written so far
  frames,       \* the ScreenFramePackets allocated, of which none is deleted
  surfaces,     \* the cairo surfaces created and not destroyed
  cut,          \* history: cairo has given up an image for a reason of its own
  interrupted   \* Interruptable::_interrupted

streamVars == <<link, taken, todo, wrote>>
vars == <<streamVars, received, pc, chunks, frames, surfaces, cut, interrupted>>

\* Nothing is read here.
Stream == INSTANCE ByteStream WITH
  Bytes <- {}, Sizes <- {}, Messages <- Range(Png) \cup {<<ACK>>, <<SCREE_FRAME>>}, Junk <- 0,
  pipe <- <<>>, want <- 0, got <- [outcome |-> "none"]

Init ==
  /\ Stream!Init
  /\ received = <<>>
  /\ pc = "handshake"
  /\ chunks = 0
  /\ frames = 0
  /\ surfaces = 0
  /\ cut = FALSE
  /\ interrupted = FALSE

-----------------------------------------------------------------------------
(* The client, the link, the socket and the handler *)

ClientReceives ==
  /\ Stream!Received
  /\ received' = Append(received, Head(taken))
  /\ UNCHANGED <<pc, chunks, frames, surfaces, cut, interrupted>>

LinkLost ==
  /\ \E l \in {"eof", "reset"} : Stream!Lost(l)
  /\ UNCHANGED <<received, pc, chunks, frames, surfaces, cut, interrupted>>

SocketTakes ==
  /\ Stream!Take
  /\ UNCHANGED <<received, pc, chunks, frames, surfaces, cut, interrupted>>

\* BluetoothSocket::write() comes back.
SocketReturns ==
  /\ Stream!Written \/ Stream!WriteError
  /\ UNCHANGED <<received, pc, chunks, frames, surfaces, cut, interrupted>>

\* shudownAsyncWorkers(): t->interrupted(true)
HandlerInterrupts ==
  /\ pc \notin {"handshake", "ack"}
  /\ ~interrupted
  /\ interrupted' = TRUE
  /\ UNCHANGED <<streamVars, received, pc, chunks, frames, surfaces, cut>>

-----------------------------------------------------------------------------
(* The handler's acknowledgement *)

\* initiateConnection(): writePacket(&ack), writeAck()
Acknowledge ==
  /\ pc = "handshake"
  /\ Stream!Write(<<ACK>>)
  /\ pc' = "ack"
  /\ UNCHANGED <<received, chunks, frames, surfaces, cut, interrupted>>

\* The writer is started, or the exception ends the session before that.
Acknowledged ==
  /\ pc = "ack"
  /\ \/ wrote = "ok" /\ pc' = "check"
     \/ wrote = "error" /\ pc' = "done"
  /\ UNCHANGED <<streamVars, received, chunks, frames, surfaces, cut, interrupted>>

-----------------------------------------------------------------------------
(* PacketWriterAsync::run() *)

\* handleError() and break
GiveUp ==
  /\ pc' = "done"
  /\ interrupted' = TRUE
  /\ UNCHANGED <<streamVars, received, chunks, frames, surfaces, cut>>

\* The test of the loop; the type byte of the next frame.
Begin ==
  /\ pc = "check"
  /\ IF interrupted \/ frames = MaxFrames
     THEN pc' = "done" /\ UNCHANGED <<streamVars, frames>>
     ELSE /\ frames' = frames + 1
          /\ Stream!Write(<<SCREE_FRAME>>)
          /\ pc' = "type"
  /\ UNCHANGED <<received, chunks, surfaces, cut, interrupted>>

\* The surface is created.
TypeWritten ==
  /\ pc = "type"
  /\ wrote = "ok"
  /\ pc' = "encode"
  /\ surfaces' = surfaces + 1
  /\ chunks' = 0
  /\ UNCHANGED <<streamVars, received, frames, cut, interrupted>>

\* Mutant: the write is tried again.
TypeRetried ==
  /\ pc = "type"
  /\ wrote = "error"
  /\ Stream!Write(<<SCREE_FRAME>>)
  /\ UNCHANGED <<received, pc, chunks, frames, surfaces, cut, interrupted>>

\* The write throws, or getDefaultScreen() does after it.
TypeFails ==
  /\ pc = "type"
  /\ wrote # "busy"
  /\ GiveUp

\* cairo_surface_write_to_png_stream() calls writeScreenCallback().
WriteChunk ==
  /\ pc = "encode"
  /\ chunks < Len(Png)
  /\ Stream!Write(Png[chunks + 1])
  /\ pc' = "chunk"
  /\ UNCHANGED <<received, chunks, frames, surfaces, cut, interrupted>>

\* CAIRO_STATUS_SUCCESS from the callback
ChunkWritten ==
  /\ pc = "chunk"
  /\ wrote = "ok"
  /\ chunks' = chunks + 1
  /\ pc' = "encode"
  /\ UNCHANGED <<streamVars, received, frames, surfaces, cut, interrupted>>

\* Mutant: the callback answers CAIRO_STATUS_SUCCESS whatever happened.
ChunkFailsUnnoticed ==
  /\ pc = "chunk"
  /\ wrote = "error"
  /\ chunks' = chunks + 1
  /\ pc' = "encode"
  /\ UNCHANGED <<streamVars, received, frames, surfaces, cut, interrupted>>

\* CAIRO_STATUS_WRITE_ERROR: thrown before the surface is destroyed.
ChunkFails ==
  /\ pc = "chunk"
  /\ wrote = "error"
  /\ GiveUp

\* Mutant: only a complete image has its surface destroyed.
FrameOverLeaking ==
  /\ pc = "encode"
  /\ pc' = "check"
  /\ cut' = (cut \/ chunks < Len(Png))
  /\ surfaces' = IF chunks < Len(Png) THEN surfaces ELSE surfaces - 1
  /\ UNCHANGED <<streamVars, received, chunks, frames, interrupted>>

\* The image is complete, or cairo returns any other status, which is taken
\* for success.
FrameOver ==
  /\ pc = "encode"
  /\ pc' = "check"
  /\ cut' = (cut \/ chunks < Len(Png))
  /\ surfaces' = surfaces - 1
  /\ UNCHANGED <<streamVars, received, chunks, frames, interrupted>>

Writer ==
  \/ Acknowledge
  \/ Acknowledged
  \/ Begin
  \/ TypeWritten
  \/ TypeFails
  \/ WriteChunk
  \/ ChunkWritten
  \/ ChunkFails
  \/ FrameOver

Finished == pc = "done" /\ UNCHANGED vars

Next ==
  \/ ClientReceives
  \/ LinkLost
  \/ SocketTakes
  \/ SocketReturns
  \/ HandlerInterrupts
  \/ Writer
  \/ Finished

SafeSpec == Init /\ [][Next]_vars

\* The two threads run and the socket answers as ByteStream promises.
\* Nothing makes the client read.
Fairness == WF_vars(Writer) /\ WF_vars(SocketReturns)

Spec == SafeSpec /\ Fairness

-----------------------------------------------------------------------------

Image == FlattenSeq(Png)
Frame == <<SCREE_FRAME>> \o Image
Frames(n) == FlattenSeq([i \in 1 .. n |-> Frame])

\* What the client has received or may still receive.
Wire == received \o taken

\* What the code has called write() with: all frames but the last, then its
\* type byte and the chunks of its image.
Chunks(n) == FlattenSeq(SubSeq(Png, 1, n))
LastType == (<<ACK>> \o Frames(frames - 1)) \o <<SCREE_FRAME>>
Written ==
  CASE pc = "handshake" -> <<>>
    [] pc = "ack"       -> <<ACK>>
    [] pc = "type"      -> LastType
    [] pc = "encode"    -> LastType \o Chunks(chunks)
    [] pc = "chunk"     -> LastType \o Chunks(chunks + 1)
    [] OTHER            -> <<ACK>> \o Frames(frames)

TypeOK ==
  /\ link \in {"up", "eof", "reset"}
  /\ received \in Seq(Nat) /\ taken \in Seq(Nat) /\ todo \in Seq(Nat)
  /\ wrote \in {"idle", "busy", "ok", "error"}
  /\ pc \in {"handshake", "ack", "check", "type", "encode", "chunk", "done"}
  /\ chunks \in 0 .. Len(Png)
  /\ frames \in 0 .. MaxFrames
  /\ cut \in BOOLEAN
  /\ interrupted \in BOOLEAN

\* The code waits for each write, and does not overlook one that failed.
WritesInOrder ==
  /\ wrote = "busy" => pc \in {"ack", "type", "chunk"}
  /\ wrote # "busy" => todo = <<>>
  /\ pc = "handshake" => wrote = "idle"
  /\ pc \in {"check", "encode"} => wrote = "ok"
  /\ pc \in {"handshake", "ack"} => frames = 0
  /\ pc \in {"type", "encode", "chunk"} => frames > 0
  /\ pc = "chunk" => chunks < Len(Png)

\* A surface exists while an image is encoded; one stays behind, and for
\* good, when the link is lost in it.
Surfaces ==
  /\ surfaces \in 0 .. 1
  /\ pc \in {"encode", "chunk"} => surfaces = 1
  /\ pc \in {"handshake", "ack", "check", "type"} => surfaces = 0
  /\ pc = "done" /\ wrote # "error" => surfaces = 0

\* What is on the wire, and what the socket still has to take, is what was
\* written; after a write that failed, or at the end, the beginning of it.
NothingElseWritten ==
  IF wrote = "error" \/ pc = "done" THEN IsPrefix(Wire, Written)
                                    ELSE Wire \o todo = Written

(***************************************************************************)
(* Where the writer is in the stream of frames, in every reachable state:  *)
(* the inductive invariant.  Of the surfaces created at most one is left,  *)
(* and one that outlives its frame only when the link is lost.             *)
(***************************************************************************)
WriterInv ==
  /\ TypeOK
  /\ WritesInOrder
  /\ Surfaces
  /\ cut \/ NothingElseWritten

(***************************************************************************)
(* The client is given the acknowledgement first and then frames, each     *)
(* with its type byte, nothing between them and only the last incomplete.  *)
(* The writer begins another frame only when the last one has been taken   *)
(* to its last byte: an error of the socket, which reaches it through a    *)
(* status that cairo passes on, is not overlooked.  Both hold as long as   *)
(* cairo has not given up an image for a reason of its own: that one is    *)
(* followed by the next type byte as if it were complete.                  *)
(***************************************************************************)
StreamOfFrames ==
  \/ cut
  \/ /\ IsPrefix(Wire, <<ACK>> \o Frames(frames))
     /\ pc = "check" => Wire = <<ACK>> \o Frames(frames)

(***************************************************************************)
(* A lost link ends the writer, also in the middle of an image.            *)
(***************************************************************************)
LostLinkEndsWriter == link # "up" ~> pc = "done"
=============================================================================
