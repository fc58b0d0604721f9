------------------------------ MODULE SocketIO ------------------------------
(***************************************************************************)
(* read(n) and write(n) of a BluetoothSocket (src/BluetoothSocket.cpp):    *)
(* the loops that call ::read and ::write until a call returns 0 or fails. *)
(* One thread reads and another writes, each under a lock of its own, so   *)
(* that no two reads and no two writes overlap.                            *)
(*                                                                         *)
(* Both loops go on after the last byte, and end because a call that asks  *)
(* for 0 bytes returns 0: a read always, a write unless the link is lost.  *)
(* The kernel's part, the two queues of an RFCOMM socket, is external.     *)
(***************************************************************************)
EXTENDS Naturals, Sequences

CONSTANTS
  Bytes,        \* what the client sends
  Sizes,        \* the lengths read() is called with
  Messages,     \* what write() is called with
  Junk,         \* what a buffer holds before it is read into
  QueueSize     \* bound of the model: bytes queued in the kernel, each way

ASSUME SocketAssumption ==
  /\ Sizes \subseteq Nat \ {0}
  /\ Messages \subseteq Seq(Nat)
  /\ Junk \notin Bytes
  /\ QueueSize \in Nat \ {0}

VARIABLES
  incoming,   \* sent by the client and still in the kernel
  outgoing,   \* accepted by the kernel and not yet received by the client
  link,       \* "up", or lost: "eof" (ended in order), "reset" (broken)
  numBytes,   \* the argument of the read() in progress, 0 if none is
  buf,        \* its buffer
  numRead, numMore,
  got,        \* what the last read() has returned
  srcBuf,     \* the argument of the write() in progress
  offset, toSend,
  wrote       \* "busy" during a write(), else its outcome

readVars  == <<numBytes, buf, numRead, numMore, got>>
writeVars == <<srcBuf, offset, toSend, wrote>>
vars == <<incoming, outgoing, link, readVars, writeVars>>

NoAnswer == [outcome |-> "none"]
Error    == [outcome |-> "error"]

Init ==
  /\ incoming = <<>>
  /\ outgoing = <<>>
  /\ link = "up"
  /\ numBytes = 0 /\ buf = <<>> /\ numRead = 0 /\ numMore = 0
  /\ got = NoAnswer
  /\ srcBuf = <<>> /\ offset = 0 /\ toSend = 0
  /\ wrote = "idle"

-----------------------------------------------------------------------------
(* The client and the link *)

Sent(b) ==
  /\ link = "up"
  /\ Len(incoming) < QueueSize
  /\ incoming' = Append(incoming, b)
  /\ UNCHANGED <<outgoing, link, readVars, writeVars>>

Received ==
  /\ link = "up"
  /\ outgoing # <<>>
  /\ outgoing' = Tail(outgoing)
  /\ UNCHANGED <<incoming, link, readVars, writeVars>>

Lost(l) ==
  /\ link = "up"
  /\ link' = l
  /\ UNCHANGED <<incoming, outgoing, readVars, writeVars>>

\* ~BluetoothSocket closes the descriptor, and main() accepts another client.
\* The session sees to it that nobody reads or writes (QuiescentBeforeDelete).
Renew ==
  /\ numBytes = 0
  /\ wrote # "busy"
  /\ incoming' = <<>>
  /\ outgoing' = <<>>
  /\ link' = "up"
  /\ got' = NoAnswer
  /\ wrote' = "idle"
  /\ UNCHANGED <<numBytes, buf, numRead, numMore, srcBuf, offset, toSend>>

-----------------------------------------------------------------------------
(* BluetoothSocket::read(numBytes, dstBuf) *)

Read(n) ==
  /\ numBytes = 0
  /\ numBytes' = n
  /\ buf' = [i \in 1 .. n |-> Junk]
  /\ numRead' = 0
  /\ numMore' = n
  /\ got' = NoAnswer
  /\ UNCHANGED <<incoming, outgoing, link, writeVars>>

\* The end of a read(); its local variables go.
ReadReturns(answer) ==
  /\ got' = answer
  /\ numBytes' = 0 /\ buf' = <<>> /\ numRead' = 0 /\ numMore' = 0
  /\ UNCHANGED <<incoming, outgoing, link, writeVars>>

\* Mutant: every ::read stores at the start of the buffer.
ReadSomeAtStart ==
  /\ numBytes # 0
  /\ \E rd \in 1 .. numMore :
       /\ rd <= Len(incoming)
       /\ buf' = [i \in DOMAIN buf |-> IF i \in 1 .. rd THEN incoming[i] ELSE buf[i]]
       /\ incoming' = SubSeq(incoming, rd + 1, Len(incoming))
       /\ numRead' = numRead + rd
       /\ numMore' = numMore - rd
  /\ UNCHANGED <<outgoing, link, numBytes, got, writeVars>>

\* ::read(fd, &buf[numRead], numMore) has given rd bytes.
ReadSome ==
  /\ numBytes # 0
  /\ \E rd \in 1 .. numMore :
       /\ rd <= Len(incoming)
       /\ buf' = [i \in DOMAIN buf |-> IF i \in numRead + 1 .. numRead + rd
                                         THEN incoming[i - numRead] ELSE buf[i]]
       /\ incoming' = SubSeq(incoming, rd + 1, Len(incoming))
       /\ numRead' = numRead + rd
       /\ numMore' = numMore - rd
  /\ UNCHANGED <<outgoing, link, numBytes, got, writeVars>>

\* Mutant: the loop goes on until it has all it was asked for.
ReadZeroWhenFull ==
  /\ numBytes # 0
  /\ numMore = 0
  /\ ReadReturns([outcome |-> "data", count |-> numRead, buf |-> buf])

\* It has returned 0: nothing was asked for, or the stream is at its end.
ReadZero ==
  /\ numBytes # 0
  /\ numMore = 0 \/ (link = "eof" /\ incoming = <<>>)
  /\ ReadReturns([outcome |-> "data", count |-> numRead, buf |-> buf])

ReadFails ==
  /\ numBytes # 0
  /\ numMore # 0
  /\ link = "reset"
  /\ ReadReturns(Error)

ReadCall == ReadSome \/ ReadZero \/ ReadFails

-----------------------------------------------------------------------------
(* BluetoothSocket::write(numBytes, srcBuf) *)

Write(m) ==
  /\ wrote # "busy"
  /\ wrote' = "busy"
  /\ srcBuf' = m
  /\ offset' = 0
  /\ toSend' = Len(m)
  /\ UNCHANGED <<incoming, outgoing, link, readVars>>

WriteReturns(outcome) ==
  /\ wrote' = outcome
  /\ srcBuf' = <<>> /\ offset' = 0 /\ toSend' = 0
  /\ UNCHANGED <<incoming, outgoing, link, readVars>>

\* Mutant: every ::write sends from the start of the buffer.
WriteSomeFromStart ==
  /\ wrote = "busy"
  /\ link = "up"
  /\ \E szSent \in 1 .. toSend :
       /\ Len(outgoing) + szSent <= QueueSize
       /\ outgoing' = outgoing \o SubSeq(srcBuf, 1, szSent)
       /\ offset' = offset + szSent
       /\ toSend' = toSend - szSent
  /\ UNCHANGED <<incoming, link, readVars, srcBuf, wrote>>

\* ::write(fd, &buf[offset], toSend) has accepted szSent bytes.
WriteSome ==
  /\ wrote = "busy"
  /\ link = "up"
  /\ \E szSent \in 1 .. toSend :
       /\ Len(outgoing) + szSent <= QueueSize
       /\ outgoing' = outgoing \o SubSeq(srcBuf, offset + 1, offset + szSent)
       /\ offset' = offset + szSent
       /\ toSend' = toSend - szSent
  /\ UNCHANGED <<incoming, link, readVars, srcBuf, wrote>>

\* It has returned 0, which it does for 0 bytes only.
WriteZero ==
  /\ wrote = "busy"
  /\ toSend = 0
  /\ WriteReturns("ok")

\* It may fail even when it is asked for 0 bytes.
WriteFails ==
  /\ wrote = "busy"
  /\ link # "up"
  /\ WriteReturns("error")

WriteCall == WriteSome \/ WriteZero \/ WriteFails

-----------------------------------------------------------------------------

Next ==
  \/ \E b \in Bytes : Sent(b)
  \/ Received
  \/ \E l \in {"eof", "reset"} : Lost(l)
  \/ Renew
  \/ \E n \in Sizes : Read(n)
  \/ ReadCall
  \/ \E m \in Messages : Write(m)
  \/ WriteCall

SafeSpec == Init /\ [][Next]_vars

\* The kernel answers a call as soon as it can: neither action is enabled
\* while the call would block.  The client is not obliged to anything.
Fairness == WF_vars(ReadCall) /\ WF_vars(WriteCall)

Spec == SafeSpec /\ Fairness

-----------------------------------------------------------------------------

TypeOK ==
  /\ incoming \in Seq(Bytes)
  /\ outgoing \in Seq(Nat)
  /\ link \in {"up", "eof", "reset"}
  /\ numBytes \in Nat
  /\ buf \in Seq(Bytes \cup {Junk})
  /\ numRead \in Nat /\ numMore \in Nat
  /\ srcBuf \in Seq(Nat)
  /\ offset \in Nat /\ toSend \in Nat
  /\ wrote \in {"idle", "busy", "ok", "error"}

\* Neither loop runs off its buffer, and the read is filled without a gap.
LoopsInBounds ==
  /\ numRead + numMore = numBytes /\ Len(buf) = numBytes
  /\ \A i \in 1 .. numBytes : buf[i] = Junk <=> i > numRead
  /\ offset + toSend = Len(srcBuf)

SocketInv == TypeOK /\ LoopsInBounds

(***************************************************************************)
(* A caller of read() or write() is not kept waiting on a link that is     *)
(* lost, whatever was still queued.                                        *)
(***************************************************************************)
LostLinkReleases ==
  /\ link # "up" ~> numBytes = 0
  /\ link # "up" ~> wrote # "busy"

(***************************************************************************)
(* The loops implement the two atomic promises of a ByteStream.  What a    *)
(* read in progress has taken counts as still in the pipe.                 *)
(***************************************************************************)
Stream == INSTANCE ByteStream WITH
  pipe  <- SubSeq(buf, 1, numRead) \o incoming,
  want  <- numBytes,
  taken <- outgoing,
  todo  <- SubSeq(srcBuf, offset + 1, Len(srcBuf))

ImplementsStream == Stream!Spec
=============================================================================
