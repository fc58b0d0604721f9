---------------------------- MODULE PacketDecoder ----------------------------
(***************************************************************************)
(* PacketReaderAsync::run() field by field: what a client sends, the       *)
(* stream it travels through (ByteStream, which SocketIO implements) and   *)
(* the events the reader makes of it.  Packets carry no length and no      *)
(* mark: the reader knows where one ends only from what it has decoded.    *)
(*                                                                         *)
(* No caller looks at how much a read has read.  At the end of the stream  *)
(* a variable keeps what it held: packetType, x, y and button were never   *)
(* initialised, keyboardEventType and keyCode are 0.                       *)
(***************************************************************************)
EXTENDS Integers, Sequences, SequencesExt

CONSTANTS
  CoordinateSize,   \* sizeof(double)
  Coordinates,      \* the doubles a client sends, as sequences of bytes
  Buttons,          \* the button bytes a client sends
  KeyCodes,         \* the key codes a client sends
  Malformed,        \* what else it may send, as sequences of bytes: packets
                    \* whose type or keyboard event type is none
  Leftover,         \* what an uninitialised byte may hold
  Junk,             \* marks a byte of a buffer that was not read
  MaxSent           \* bound of the model: packets a client sends

\* Packet::PacketType and KeyboardEventPacket::KeyboardEventType as bytes.
KEYBOARD_EVENT == 2
MOUSE_EVENT == 3
REQUEST_SCREEN_REFRESH == 4

SINGLE_KEY == 1
COMBINATION_KEY == 2
STRING_KEY == 3

ASSUME DecoderAssumption ==
  /\ CoordinateSize \in Nat \ {0}
  /\ Coordinates \subseteq [1 .. CoordinateSize -> Nat]
  /\ Buttons \cup KeyCodes \cup Leftover \subseteq Nat
  /\ Malformed \subseteq Seq(Nat) \ {<<>>}
  /\ \A bytes \in Malformed :
       \/ bytes[1] \notin {KEYBOARD_EVENT, MOUSE_EVENT, REQUEST_SCREEN_REFRESH}
       \/ /\ bytes[1] = KEYBOARD_EVENT /\ Len(bytes) > 1
          /\ bytes[2] \notin {SINGLE_KEY, COMBINATION_KEY, STRING_KEY}
  /\ Junk \notin Nat
  /\ MaxSent \in Nat

MouseEvent(x, y, b) == [type |-> "MOUSE_EVENT", x |-> x, y |-> y, button |-> b]
KeyEvent(k) == [type |-> "SINGLE_KEY", key |-> k]

\* A packet: its bytes, and the events (one or none) it stands for.
Packet(bytes, events) == [bytes |-> bytes, events |-> events]

MousePacket(x, y, b) ==
  Packet(<<MOUSE_EVENT>> \o x \o y \o <<b>>, <<MouseEvent(x, y, b)>>)
KeyPacket(k) == Packet(<<KEYBOARD_EVENT, SINGLE_KEY, k>>, <<KeyEvent(k)>>)

MousePackets == {MousePacket(x, y, b) : x \in Coordinates, y \in Coordinates, b \in Buttons}
KeyPackets == {KeyPacket(k) : k \in KeyCodes}
IgnoredPackets ==
  {Packet(<<KEYBOARD_EVENT, t>>, <<>>) : t \in {COMBINATION_KEY, STRING_KEY}}
  \cup {Packet(<<REQUEST_SCREEN_REFRESH>>, <<>>)}
RejectedPackets == {Packet(bytes, <<>>) : bytes \in Malformed}

Packets == MousePackets \cup KeyPackets \cup IgnoredPackets \cup RejectedPackets

VARIABLES
  pipe, link, want, got,  \* the reader's half of the stream
  begun,        \* history: the packets the client has begun, each with the
                \* number of bytes and of events up to its end
  left,         \* the bytes of the last one not sent yet
  sent,         \* history: the events of the packets sent to the last byte
  pc,           \* "check", the field that is being read, or "done"
  fields,       \* x and y, as far as they are read
  queued,       \* history: the events queued, up to the first nobody sent
  interrupted   \* Interruptable::_interrupted

streamVars == <<pipe, link, want, got>>
clientVars == <<begun, left, sent>>
vars == <<streamVars, clientVars, pc, fields, queued, interrupted>>

\* Nothing is written here.
Stream == INSTANCE ByteStream WITH
  Bytes <- Nat, Sizes <- {1, CoordinateSize}, Messages <- {},
  taken <- <<>>, todo <- <<>>, wrote <- "idle"

Init ==
  /\ Stream!Init
  /\ begun = <<>>
  /\ left = <<>>
  /\ sent = <<>>
  /\ pc = "check"
  /\ fields = <<>>
  /\ queued = <<>>
  /\ interrupted = FALSE

-----------------------------------------------------------------------------
(* The client, the link and the handler *)

\* Where the n-th packet begins: the bytes, and the events, before it.
Start(n)  == IF n = 1 THEN 0 ELSE begun[n - 1].end
Before(n) == IF n = 1 THEN 0 ELSE begun[n - 1].count

\* The packet after those the client has begun.
Following == Len(begun) + 1

ClientBegins ==
  /\ left = <<>>
  /\ Len(begun) < MaxSent
  /\ \E p \in Packets :
       /\ begun' = Append(begun, [bytes |-> p.bytes, events |-> p.events,
                                  end |-> Start(Following) + Len(p.bytes),
                                  count |-> Before(Following) + Len(p.events)])
       /\ left' = p.bytes
  /\ UNCHANGED <<streamVars, sent, pc, fields, queued, interrupted>>

ClientSends ==
  /\ left # <<>>
  /\ Stream!Sent(Head(left))
  /\ left' = Tail(left)
  /\ sent' = IF left' = <<>> THEN sent \o begun[Len(begun)].events ELSE sent
  /\ UNCHANGED <<begun, pc, fields, queued, interrupted>>

LinkLost ==
  /\ \E l \in {"eof", "reset"} : Stream!Lost(l)
  /\ UNCHANGED <<clientVars, pc, fields, queued, interrupted>>

\* shudownAsyncWorkers(): t->interrupted(true)
HandlerInterrupts ==
  /\ ~interrupted
  /\ interrupted' = TRUE
  /\ UNCHANGED <<streamVars, clientVars, pc, fields, queued>>

\* BluetoothSocket::read() comes back.
SocketReturns ==
  /\ Stream!Whole \/ Stream!Short \/ Stream!ReadError
  /\ UNCHANGED <<clientVars, pc, fields, queued, interrupted>>

-----------------------------------------------------------------------------
(* PacketReaderAsync *)

SizeOf(field) == IF field \in {"x", "y"} THEN CoordinateSize ELSE 1

\* socket->read() for the next field.
ReadField(field) ==
  /\ pc' = field
  /\ Stream!Read(SizeOf(field))
  /\ UNCHANGED <<clientVars, interrupted>>

\* readInboundPacket() returns.
PacketOver ==
  /\ pc' = "check"
  /\ UNCHANGED <<streamVars, clientVars, interrupted>>

\* Mutant: handleError() does not interrupt the reader.
GiveUpSilently ==
  /\ pc' = "done"
  /\ UNCHANGED <<streamVars, clientVars, fields, queued, interrupted>>

\* An exception: handleError(), and the loop is left.
GiveUp ==
  /\ pc' = "done"
  /\ interrupted' = TRUE
  /\ UNCHANGED <<streamVars, clientVars, fields, queued>>

Answered(field) == pc = field /\ want = 0 /\ got.outcome = "data"

\* The values the variable of the field can have after the read, when before
\* it each of its bytes was one of S.
Values(S) ==
  {v \in [DOMAIN got.buf -> S \cup {got.buf[i] : i \in DOMAIN got.buf}] :
     \A i \in DOMAIN got.buf : IF i <= got.count THEN v[i] = got.buf[i] ELSE v[i] \in S}

ByteValues(S) == {v[1] : v \in Values(S)}

Queue(event) ==
  queued' = IF IsPrefix(queued, sent) THEN Append(queued, event) ELSE queued

Check ==
  /\ pc = "check"
  /\ IF interrupted THEN pc' = "done" /\ UNCHANGED <<streamVars, clientVars, interrupted>>
                    ELSE ReadField("type")
  /\ UNCHANGED <<fields, queued>>

Type ==
  /\ Answered("type")
  /\ \E b \in ByteValues(Leftover) :
       \/ b = MOUSE_EVENT /\ ReadField("x")
       \/ b = KEYBOARD_EVENT /\ ReadField("keyboardEventType")
       \/ b = REQUEST_SCREEN_REFRESH /\ PacketOver
       \/ b \notin {MOUSE_EVENT, KEYBOARD_EVENT, REQUEST_SCREEN_REFRESH} /\ GiveUp
  /\ UNCHANGED <<fields, queued>>

\* Mutant: y is not read; its bytes are taken for what follows.
CoordinateOnce(field, next) ==
  /\ Answered(field)
  /\ \E v \in Values(Leftover) : fields' = <<v, v>>
  /\ ReadField("button")
  /\ UNCHANGED queued

\* readMouseEvent(): x, then y.
Coordinate(field, next) ==
  /\ Answered(field)
  /\ \E v \in Values(Leftover) : fields' = Append(fields, v)
  /\ ReadField(next)
  /\ UNCHANGED queued

Button ==
  /\ Answered("button")
  /\ \E b \in ByteValues(Leftover) : Queue(MouseEvent(fields[1], fields[2], b))
  /\ fields' = <<>>
  /\ PacketOver

KeyboardEventType ==
  /\ Answered("keyboardEventType")
  /\ \E b \in ByteValues({0}) :
       \/ b = SINGLE_KEY /\ ReadField("keyCode")
       \/ b \in {COMBINATION_KEY, STRING_KEY} /\ PacketOver
       \/ b \notin {SINGLE_KEY, COMBINATION_KEY, STRING_KEY} /\ GiveUp
  /\ UNCHANGED <<fields, queued>>

\* Mutant: the event is dropped when the reader has been interrupted, or
\* the client has gone, meanwhile.
KeyCodeIfUp ==
  /\ Answered("keyCode")
  /\ \E k \in ByteValues({0}) :
       IF link = "up" THEN Queue(KeyEvent(k)) ELSE UNCHANGED queued
  /\ PacketOver
  /\ UNCHANGED fields

KeyCode ==
  /\ Answered("keyCode")
  /\ \E k \in ByteValues({0}) : Queue(KeyEvent(k))
  /\ PacketOver
  /\ UNCHANGED fields

\* Mutant: the loop goes on after a read that failed.
ReadFailsAndGoesOn ==
  /\ pc \notin {"check", "done"}
  /\ got = Stream!Error
  /\ fields' = <<>>
  /\ PacketOver
  /\ UNCHANGED queued

ReadFails ==
  /\ pc \notin {"check", "done"}
  /\ got = Stream!Error
  /\ GiveUp

Reader ==
  \/ Check
  \/ Type
  \/ Coordinate("x", "y")
  \/ Coordinate("y", "button")
  \/ Button
  \/ KeyboardEventType
  \/ KeyCode
  \/ ReadFails

Finished == pc = "done" /\ UNCHANGED vars

Next ==
  \/ ClientBegins
  \/ ClientSends
  \/ LinkLost
  \/ HandlerInterrupts
  \/ SocketReturns
  \/ Reader
  \/ Finished

SafeSpec == Init /\ [][Next]_vars

\* The reader's thread runs, and the socket answers as ByteStream promises.
\* Nothing makes the client send.
Fairness == WF_vars(Reader) /\ WF_vars(SocketReturns)

Spec == SafeSpec /\ Fairness

-----------------------------------------------------------------------------

Doubles == [1 .. CoordinateSize -> Nat]

AllEvents ==
  [type : {"MOUSE_EVENT"}, x : Doubles, y : Doubles, button : Nat]
  \cup [type : {"SINGLE_KEY"}, key : Nat]

Numbered == [bytes : Seq(Nat), events : Seq(AllEvents), end : Nat, count : Nat]

Fields == {"type", "x", "y", "button", "keyboardEventType", "keyCode"}

TypeOK ==
  /\ pipe \in Seq(Nat)
  /\ link \in {"up", "eof", "reset"}
  /\ begun \in Seq(Numbered)
  /\ Len(begun) <= MaxSent
  /\ left \in Seq(Nat)
  /\ sent \in Seq(AllEvents)
  /\ pc \in Fields \cup {"check", "done"}
  /\ fields \in Seq(Doubles)
  /\ queued \in Seq(AllEvents)
  /\ interrupted \in BOOLEAN

\* The packets follow each other, and the events of those sent to the last
\* byte are in sent.
HistoryOK ==
  LET whole == IF left = <<>> THEN Len(begun) ELSE Len(begun) - 1
  IN /\ \A k \in 1 .. Len(begun) :
          /\ Packet(begun[k].bytes, begun[k].events) \in Packets
          /\ begun[k].end = Start(k) + Len(begun[k].bytes)
          /\ begun[k].count = Before(k) + Len(begun[k].events)
          /\ \A j \in 1 .. k : begun[j].end <= begun[k].end /\ begun[j].count <= begun[k].count
     /\ left # <<>> => begun # <<>> /\ Len(left) <= Len(begun[Len(begun)].bytes)
     /\ Len(sent) = Before(whole + 1)
     /\ \A k \in 1 .. whole :
          begun[k].events # <<>> => sent[begun[k].count] = begun[k].events[1]

\* The bytes the reader has not been given are the last ones of the packets.
Unread == pipe \o left
Position == Start(Following) - Len(Unread)

StreamOK ==
  /\ Position >= 0
  /\ \A k \in 1 .. Len(begun) : \A j \in 1 .. Len(begun[k].bytes) :
       Start(k) + j > Position => Unread[Start(k) + j - Position] = begun[k].bytes[j]

\* The read in progress is the one for the field pc names, and its answer fits.
AnswerOK ==
  /\ want # 0 => pc \in Fields /\ want = SizeOf(pc) /\ got = Stream!NoAnswer
  /\ pc \in Fields /\ got.outcome = "data" =>
       /\ got.count \in 0 .. SizeOf(pc)
       /\ DOMAIN got.buf = 1 .. SizeOf(pc)
       /\ \A i \in 1 .. got.count : got.buf[i] \in Nat

FieldsInHand ==
  /\ pc \in {"check", "type", "x", "keyboardEventType", "keyCode"} => fields = <<>>
  /\ pc = "y" => Len(fields) = 1
  /\ pc = "button" => Len(fields) = 2

\* Where in its packet the field begins.
Offset(field) ==
  CASE field \in {"check", "type"} -> 0
    [] field \in {"x", "keyboardEventType"} -> 1
    [] field = "y" -> 1 + CoordinateSize
    [] field = "button" -> 1 + 2 * CoordinateSize
    [] OTHER -> 2

\* What the reader has decoded of a packet before it reads the field.
Decoded(bytes, field) ==
  /\ field \in {"x", "y", "button"} => bytes[1] = MOUSE_EVENT
  /\ field \in {"y", "button"} => \A i \in 1 .. CoordinateSize : fields[1][i] = bytes[1 + i]
  /\ field = "button" =>
       \A i \in 1 .. CoordinateSize : fields[2][i] = bytes[1 + CoordinateSize + i]
  /\ field \in {"keyboardEventType", "keyCode"} => bytes[1] = KEYBOARD_EVENT
  /\ field = "keyCode" => bytes[2] = SINGLE_KEY

\* The reader is in the n-th packet, or before it: all events before that one
\* are queued, and it waits for the right bytes or has them.
InPacket(n) ==
  /\ Len(queued) = Before(n)
  /\ IsPrefix(queued, sent)
  /\ pc \in Fields \ {"type"} => n <= Len(begun) /\ Decoded(begun[n].bytes, pc)
  /\ \/ pc = "check" /\ Position = Start(n)
     \/ pc \in Fields /\ want # 0 /\ Position = Start(n) + Offset(pc)
     \/ /\ pc \in Fields /\ want = 0 /\ n <= Len(begun)
        /\ Position = Start(n) + Offset(pc) + SizeOf(pc)
        /\ got.outcome = "data" /\ got.count = SizeOf(pc)
        /\ \A i \in 1 .. SizeOf(pc) : got.buf[i] = begun[n].bytes[Offset(pc) + i]

\* The stream has ended in order, in the middle of a packet or between two.
AtEnd == link = "eof" /\ pipe = <<>> /\ IsPrefix(sent, queued)

\* The reader has stopped, or is about to.
Stopping ==
  /\ want = 0
  /\ pc = "done" \/ (pc \in Fields /\ got = Stream!Error)
  /\ IsPrefix(queued, sent)

\* Where the reader is in what the client sends, in every reachable state: the
\* inductive invariant.  It ends only when it has been interrupted, by the
\* handler or by itself.
DecoderInv ==
  /\ TypeOK
  /\ HistoryOK
  /\ StreamOK
  /\ AnswerOK
  /\ FieldsInHand
  /\ (\E n \in 1 .. Following : InPacket(n)) \/ AtEnd \/ Stopping
  /\ pc = "done" => interrupted

(***************************************************************************)
(* What is queued is what was sent, event for event, whatever bytes the    *)
(* coordinates hold and wherever the stream is cut.  Only a stream that    *)
(* has ended in order (a read that returns 0 is not an error to read()) is *)
(* decoded further, into events nobody sent; they come after all those     *)
(* that were.                                                              *)
(***************************************************************************)
FramingKept ==
  \/ IsPrefix(queued, sent)
  \/ link = "eof" /\ IsStrictPrefix(sent, queued)

(***************************************************************************)
(* An event whose last byte was sent is queued even if the client leaves   *)
(* right after it, unless the link breaks or the reader is stopped, by the *)
(* handler or by a packet it cannot read.                                  *)
(***************************************************************************)
SentIsQueued ==
  \A n \in 1 .. MaxSent :
    Len(sent) >= n ~> (Len(queued) >= n \/ link = "reset" \/ interrupted)

(***************************************************************************)
(* The handler joins the reader without closing the socket.  It need not   *)
(* wait for a client that is gone: the reader ends when the link breaks,   *)
(* and when the stream ends, where it would go on decoding what its        *)
(* variables hold, it ends once it is interrupted.                         *)
(***************************************************************************)
ReaderStops ==
  /\ link = "reset" ~> pc = "done"
  /\ (interrupted /\ link = "eof") ~> pc = "done"
=============================================================================
