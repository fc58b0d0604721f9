--------------------------- MODULE SocketIO_proof ---------------------------
(***************************************************************************)
(* Proofs about SocketIO, for every set of bytes, sizes and messages and   *)
(* every queue: the loops of read() and write() stay in their buffers, and *)
(* every step of them is a step of the ByteStream or leaves it unchanged.  *)
(***************************************************************************)
EXTENDS SocketIO, SequenceTheorems, TLAPS

-----------------------------------------------------------------------------
(* The inductive invariant *)

LEMMA SeqOfFunction ==
  ASSUME NEW S, NEW n \in Nat, NEW f \in [1 .. n -> S]
  PROVE  f \in Seq(S) /\ Len(f) = n
<1>1. f \in Seq(S)
  BY SeqDef
<1>2. Len(f) \in Nat /\ DOMAIN f = 1 .. Len(f) /\ DOMAIN f = 1 .. n
  BY <1>1, LenProperties
<1>3. QED
  BY <1>1, <1>2

\* What a partial read leaves in the buffer, and in the kernel.
LEMMA PartialRead ==
  ASSUME SocketInv, numBytes # 0, NEW rd \in 1 .. numMore, rd <= Len(incoming),
         buf' = [i \in DOMAIN buf |-> IF i \in numRead + 1 .. numRead + rd
                                        THEN incoming[i - numRead] ELSE buf[i]],
         incoming' = SubSeq(incoming, rd + 1, Len(incoming))
  PROVE  /\ buf' \in Seq(Bytes \cup {Junk}) /\ Len(buf') = numBytes
         /\ \A i \in 1 .. numBytes :
              buf'[i] = IF i \in numRead + 1 .. numRead + rd
                          THEN incoming[i - numRead] ELSE buf[i]
         /\ incoming' \in Seq(Bytes) /\ Len(incoming') = Len(incoming) - rd
         /\ \A i \in 1 .. Len(incoming) - rd : incoming'[i] = incoming[rd + i]
<1>1. /\ numRead \in Nat /\ numMore \in Nat /\ numBytes \in Nat
      /\ numRead + numMore = numBytes
      /\ buf \in Seq(Bytes \cup {Junk}) /\ Len(buf) = numBytes
      /\ incoming \in Seq(Bytes) /\ Len(incoming) \in Nat
  BY DEF SocketInv, TypeOK, LoopsInBounds
<1>2. DOMAIN buf = 1 .. numBytes
  BY <1>1
<1>3. \A i \in 1 .. Len(incoming) : incoming[i] \in Bytes
  BY <1>1
<1>4. \A i \in 1 .. numBytes : buf[i] \in Bytes \cup {Junk}
  BY <1>1
<1>5. \A i \in 1 .. numBytes : buf'[i] \in Bytes \cup {Junk}
  <2> SUFFICES ASSUME NEW i \in 1 .. numBytes PROVE buf'[i] \in Bytes \cup {Junk}
    OBVIOUS
  <2>1. CASE i \in numRead + 1 .. numRead + rd
    <3>1. i - numRead \in 1 .. Len(incoming)
      BY <1>1, <2>1
    <3>2. QED
      BY <1>2, <1>3, <2>1, <3>1
  <2>2. CASE i \notin numRead + 1 .. numRead + rd
    BY <1>2, <1>4, <2>2
  <2>3. QED
    BY <2>1, <2>2
<1>6. buf' \in [1 .. numBytes -> Bytes \cup {Junk}]
  BY <1>2, <1>5
<1>7. buf' \in Seq(Bytes \cup {Junk}) /\ Len(buf') = numBytes
  BY <1>1, <1>6, SeqOfFunction
<1>8. /\ incoming' \in Seq(Bytes) /\ Len(incoming') = Len(incoming) - rd
      /\ \A i \in 1 .. Len(incoming) - rd : incoming'[i] = incoming[rd + i]
  BY <1>1, <1>3, SubSeqProperties
<1>9. QED
  BY <1>2, <1>7, <1>8

LEMMA ReadSteps ==
  ASSUME SocketInv, SocketAssumption, ReadCall \/ \E n \in Sizes : Read(n)
  PROVE  SocketInv'
<1> USE DEF SocketInv, TypeOK, LoopsInBounds, writeVars
<1>1. ASSUME NEW n \in Sizes, Read(n) PROVE SocketInv'
  <2>1. n \in Nat /\ buf' = [i \in 1 .. n |-> Junk] /\ buf' \in [1 .. n -> Bytes \cup {Junk}]
    BY <1>1 DEF Read, SocketAssumption
  <2>2. buf' \in Seq(Bytes \cup {Junk}) /\ Len(buf') = n
    BY <2>1, SeqOfFunction
  <2>3. QED
    BY <1>1, <2>1, <2>2 DEF Read
<1>2. CASE ReadSome
  <2>1. PICK rd \in 1 .. numMore :
          /\ rd <= Len(incoming)
          /\ buf' = [i \in DOMAIN buf |-> IF i \in numRead + 1 .. numRead + rd
                                            THEN incoming[i - numRead] ELSE buf[i]]
          /\ incoming' = SubSeq(incoming, rd + 1, Len(incoming))
          /\ numRead' = numRead + rd
          /\ numMore' = numMore - rd
    BY <1>2 DEF ReadSome
  <2>2. numBytes # 0 /\ UNCHANGED <<outgoing, link, numBytes, got, writeVars>>
    BY <1>2 DEF ReadSome
  <2>3. /\ buf' \in Seq(Bytes \cup {Junk}) /\ Len(buf') = numBytes
        /\ \A i \in 1 .. numBytes :
             buf'[i] = IF i \in numRead + 1 .. numRead + rd
                         THEN incoming[i - numRead] ELSE buf[i]
        /\ incoming' \in Seq(Bytes)
    BY <2>1, <2>2, PartialRead
  <2>4. TypeOK'
    BY <2>1, <2>2, <2>3
  <2>5. \A i \in 1 .. Len(incoming) : incoming[i] # Junk
    BY SocketAssumption
  <2>6. \A i \in 1 .. numBytes : buf'[i] = Junk <=> i > numRead + rd
    <3> SUFFICES ASSUME NEW i \in 1 .. numBytes
                 PROVE  buf'[i] = Junk <=> i > numRead + rd
      OBVIOUS
    <3>1. CASE i \in numRead + 1 .. numRead + rd
      <4>1. i - numRead \in 1 .. Len(incoming)
        BY <2>1, <3>1
      <4>2. QED
        BY <2>1, <2>3, <2>5, <3>1, <4>1
    <3>2. CASE i \notin numRead + 1 .. numRead + rd
      BY <2>1, <2>3, <3>2
    <3>3. QED
      BY <3>1, <3>2
  <2>7. QED
    BY <2>1, <2>2, <2>3, <2>4, <2>6
<1>3. CASE ReadZero \/ ReadFails
  <2>1. /\ numBytes' = 0 /\ buf' = <<>> /\ numRead' = 0 /\ numMore' = 0
        /\ UNCHANGED <<incoming, outgoing, link, writeVars>>
    BY <1>3 DEF ReadZero, ReadFails, ReadReturns
  <2>2. TypeOK'
    BY <2>1
  <2>3. LoopsInBounds'
    BY <2>1
  <2>4. QED
    BY <2>2, <2>3
<1>4. QED
  BY <1>1, <1>2, <1>3 DEF ReadCall

LEMMA WriteSteps ==
  ASSUME SocketInv, SocketAssumption, WriteCall \/ \E m \in Messages : Write(m)
  PROVE  SocketInv'
<1> USE DEF SocketInv, TypeOK, LoopsInBounds, readVars
<1>1. ASSUME NEW m \in Messages, Write(m) PROVE SocketInv'
  BY <1>1 DEF Write, SocketAssumption
<1>2. CASE WriteSome
  <2>1. PICK szSent \in 1 .. toSend :
          /\ outgoing' = outgoing \o SubSeq(srcBuf, offset + 1, offset + szSent)
          /\ offset' = offset + szSent
          /\ toSend' = toSend - szSent
    BY <1>2 DEF WriteSome
  <2>2. \A i \in offset + 1 .. offset + szSent : srcBuf[i] \in Nat
    BY <2>1, ElementOfSeq
  <2>3. SubSeq(srcBuf, offset + 1, offset + szSent) \in Seq(Nat)
    BY <2>1, <2>2, SubSeqProperties
  <2>4. outgoing' \in Seq(Nat)
    BY <2>1, <2>3, ConcatProperties
  <2>5. UNCHANGED <<incoming, link, readVars, srcBuf, wrote>>
    BY <1>2 DEF WriteSome
  <2>6. TypeOK'
    BY <2>1, <2>4, <2>5
  <2>7. LoopsInBounds'
    <3>1. offset' + toSend' = Len(srcBuf')
      <4>1. offset \in Nat /\ toSend \in Nat /\ szSent \in Nat
        OBVIOUS
      <4>2. (offset + szSent) + (toSend - szSent) = offset + toSend
        BY <4>1
      <4>3. srcBuf' = srcBuf /\ offset' + toSend' = offset + toSend
        BY <2>1, <2>5, <4>2
      <4>4. QED
        BY <4>3
    <3>2. UNCHANGED <<numRead, numMore, numBytes, buf>>
      BY <2>5
    <3>3. QED
      BY <3>1, <3>2
  <2>8. QED
    BY <2>6, <2>7
<1>3. CASE WriteZero \/ WriteFails
  <2>1. /\ srcBuf' = <<>> /\ offset' = 0 /\ toSend' = 0
        /\ wrote' \in {"ok", "error"}
        /\ UNCHANGED <<incoming, outgoing, link, readVars>>
    BY <1>3 DEF WriteZero, WriteFails, WriteReturns
  <2>2. TypeOK'
    BY <2>1
  <2>3. LoopsInBounds'
    <3>1. offset' + toSend' = Len(srcBuf')
      BY <2>1
    <3>2. UNCHANGED <<numRead, numMore, numBytes, buf>>
      BY <2>1
    <3>3. QED
      BY <3>1, <3>2
  <2>4. QED
    BY <2>2, <2>3
<1>4. QED
  BY <1>1, <1>2, <1>3 DEF WriteCall

LEMMA OtherSteps ==
  ASSUME SocketInv,
         \/ \E b \in Bytes : Sent(b)
         \/ Received
         \/ \E l \in {"eof", "reset"} : Lost(l)
         \/ Renew
         \/ UNCHANGED vars
  PROVE  SocketInv'
<1> USE DEF SocketInv, TypeOK, LoopsInBounds, readVars, writeVars
<1>1. ASSUME NEW b \in Bytes, Sent(b) PROVE SocketInv'
  <2>1. incoming' \in Seq(Bytes) /\ UNCHANGED <<outgoing, link, readVars, writeVars>>
    BY <1>1, AppendProperties DEF Sent
  <2>2. QED
    BY <2>1
<1>2. CASE Received
  <2>1. outgoing' \in Seq(Nat) /\ UNCHANGED <<incoming, link, readVars, writeVars>>
    BY <1>2, HeadTailProperties DEF Received
  <2>2. QED
    BY <2>1
<1>3. ASSUME NEW l \in {"eof", "reset"}, Lost(l) PROVE SocketInv'
  BY <1>3 DEF Lost
<1>4. CASE Renew
  <2>1. /\ incoming' = <<>> /\ outgoing' = <<>> /\ link' = "up" /\ wrote' = "idle"
        /\ UNCHANGED <<numBytes, buf, numRead, numMore, srcBuf, offset, toSend>>
    BY <1>4 DEF Renew
  <2>2. QED
    BY <2>1
<1>5. CASE UNCHANGED vars
  BY <1>5 DEF vars
<1>6. QED
  BY <1>1, <1>2, <1>3, <1>4, <1>5

\* Both loops stay within their buffers.
THEOREM SocketCorrect == SafeSpec => []SocketInv
<1>1. Init => SocketInv
  BY DEF Init, SocketInv, TypeOK, LoopsInBounds
<1>2. SocketInv /\ [Next]_vars => SocketInv'
  BY ReadSteps, WriteSteps, OtherSteps, SocketAssumption DEF Next
<1>3. QED
  BY <1>1, <1>2, PTL DEF SafeSpec

-----------------------------------------------------------------------------
(* The refinement *)

Byte == Bytes \cup {Junk}

\* p is the content of the pipe: what a read has taken, then what is queued.
IsPipe(p, b, r, inc) ==
  /\ p \in Seq(Byte) /\ Len(p) = r + Len(inc)
  /\ \A i \in 1 .. Len(p) : p[i] = IF i <= r THEN b[i] ELSE inc[i - r]

LEMMA PipeProperties ==
  ASSUME NEW b \in Seq(Byte), NEW r \in 0 .. Len(b), NEW inc \in Seq(Byte)
  PROVE  IsPipe(SubSeq(b, 1, r) \o inc, b, r, inc)
<1>1. \A i \in 1 .. r : b[i] \in Byte
  BY ElementOfSeq
<1>2. /\ SubSeq(b, 1, r) \in Seq(Byte) /\ Len(SubSeq(b, 1, r)) = r
      /\ \A i \in 1 .. r : SubSeq(b, 1, r)[i] = b[i]
  BY <1>1, SubSeqProperties
<1>3. QED
  BY <1>2, ConcatProperties DEF IsPipe

Pipe == SubSeq(buf, 1, numRead) \o incoming
Todo == SubSeq(srcBuf, offset + 1, Len(srcBuf))

LEMMA Typing ==
  ASSUME SocketInv
  PROVE  /\ buf \in Seq(Byte) /\ incoming \in Seq(Byte) /\ srcBuf \in Seq(Nat)
         /\ numRead \in 0 .. Len(buf) /\ Len(buf) = numBytes /\ numBytes \in Nat
         /\ offset \in 0 .. Len(srcBuf)
         /\ Pipe \in Seq(Byte) /\ Len(Pipe) = numRead + Len(incoming)
         /\ \A i \in 1 .. Len(Pipe) :
              Pipe[i] = IF i <= numRead THEN buf[i] ELSE incoming[i - numRead]
         /\ numBytes = 0 => Pipe = incoming
<1>1. /\ buf \in Seq(Byte) /\ incoming \in Seq(Byte) /\ srcBuf \in Seq(Nat)
      /\ numRead \in 0 .. Len(buf) /\ Len(buf) = numBytes /\ numBytes \in Nat
      /\ offset \in 0 .. Len(srcBuf)
  BY SeqMonotonic DEF SocketInv, TypeOK, LoopsInBounds, Byte
<1>2. /\ Pipe \in Seq(Byte) /\ Len(Pipe) = numRead + Len(incoming)
      /\ \A i \in 1 .. Len(Pipe) :
           Pipe[i] = IF i <= numRead THEN buf[i] ELSE incoming[i - numRead]
  <2>1. IsPipe(Pipe, buf, numRead, incoming)
    BY <1>1, PipeProperties, Zenon DEF Pipe
  <2>2. QED
    BY <2>1 DEF IsPipe
<1>3. ASSUME numBytes = 0 PROVE Pipe = incoming
  <2>1. numRead = 0
    BY <1>1, <1>3
  <2>2. SubSeq(buf, 1, numRead) = <<>>
    BY <2>1, SubSeqEmpty
  <2>3. QED
    BY <1>1, <2>2, ConcatEmptySeq DEF Pipe
<1>4. QED
  BY <1>1, <1>2, <1>3

LEMMA ReadIsRead ==
  ASSUME SocketInv, SocketAssumption, NEW n \in Sizes, Read(n)
  PROVE  Stream!Read(n)
<1>1. Pipe = incoming /\ incoming \in Seq(Byte)
  BY Typing DEF Read
<1>2. Pipe' = incoming
  <2>1. numRead' = 0 /\ incoming' = incoming
    BY DEF Read
  <2>2. SubSeq(buf', 1, numRead') = <<>>
    BY <2>1, SubSeqEmpty
  <2>3. QED
    BY <1>1, <2>1, <2>2, ConcatEmptySeq DEF Pipe
<1>3. QED
  BY <1>1, <1>2 DEF Read, Stream!Read, Stream!Writer, writeVars, Pipe, NoAnswer, Stream!NoAnswer

\* Part of what was queued moves to the buffer.
LEMMA ReadSomeKeepsPipe ==
  ASSUME SocketInv, SocketAssumption, ReadSome
  PROVE  Pipe' = Pipe
<1>1. PICK rd \in 1 .. numMore :
        /\ rd <= Len(incoming)
        /\ buf' = [i \in DOMAIN buf |-> IF i \in numRead + 1 .. numRead + rd
                                          THEN incoming[i - numRead] ELSE buf[i]]
        /\ incoming' = SubSeq(incoming, rd + 1, Len(incoming))
        /\ numRead' = numRead + rd
  BY DEF ReadSome
<1>2. /\ buf' \in Seq(Byte) /\ Len(buf') = numBytes
      /\ \A i \in 1 .. numBytes : buf'[i] = IF i \in numRead + 1 .. numRead + rd
                                              THEN incoming[i - numRead] ELSE buf[i]
      /\ incoming' \in Seq(Byte) /\ Len(incoming') = Len(incoming) - rd
      /\ \A i \in 1 .. Len(incoming) - rd : incoming'[i] = incoming[rd + i]
  BY <1>1, PartialRead, SeqMonotonic DEF ReadSome, Byte
<1>3. numRead' \in 0 .. Len(buf') /\ numRead \in Nat /\ Len(incoming) \in Nat
  BY <1>1, <1>2 DEF SocketInv, TypeOK, LoopsInBounds
<1>4. /\ Pipe' \in Seq(Byte) /\ Len(Pipe') = numRead' + Len(incoming')
      /\ \A i \in 1 .. Len(Pipe') :
           Pipe'[i] = IF i <= numRead' THEN buf'[i] ELSE incoming'[i - numRead']
  <2>1. buf' \in Seq(Byte) /\ incoming' \in Seq(Byte) /\ numRead' \in 0 .. Len(buf')
    BY <1>2, <1>3
  <2>2. Pipe' = SubSeq(buf', 1, numRead') \o incoming'
    BY DEF Pipe
  <2>3. IsPipe(Pipe', buf', numRead', incoming')
    BY <2>1, <2>2, PipeProperties, Zenon
  <2>4. QED
    BY <2>3 DEF IsPipe
<1>5. Len(Pipe') = Len(Pipe)
  <2>1. Len(Pipe) = numRead + Len(incoming)
    BY Typing
  <2>2. Len(Pipe') = (numRead + rd) + (Len(incoming) - rd)
    BY <1>1, <1>2, <1>4
  <2>3. QED
    BY <1>1, <1>3, <2>1, <2>2
<1>6. ASSUME NEW i \in 1 .. Len(Pipe) PROVE Pipe'[i] = Pipe[i]
  <2>1. Pipe[i] = IF i <= numRead THEN buf[i] ELSE incoming[i - numRead]
    BY Typing
  <2>2. Pipe'[i] = IF i <= numRead' THEN buf'[i] ELSE incoming'[i - numRead']
    BY <1>4, <1>5
  <2>3. /\ i \in Nat /\ 1 <= i /\ i <= numRead + Len(incoming)
        /\ rd \in Nat /\ numRead + rd <= numBytes /\ numBytes \in Nat
    BY <1>1, <1>3, Typing DEF SocketInv, TypeOK, LoopsInBounds
  <2>4. CASE i <= numRead
    <3>1. i \in 1 .. numBytes /\ i \notin numRead + 1 .. numRead + rd
      BY <1>1, <1>3, <2>3, <2>4
    <3>2. QED
      BY <1>1, <1>2, <1>3, <2>1, <2>2, <2>3, <2>4, <3>1
  <2>5. CASE numRead < i /\ i <= numRead + rd
    <3>1. i \in 1 .. numBytes /\ i \in numRead + 1 .. numRead + rd
      BY <1>1, <1>3, <2>3, <2>5
    <3>2. QED
      BY <1>1, <1>2, <1>3, <2>1, <2>2, <2>3, <2>5, <3>1
  <2>6. CASE numRead + rd < i
    <3>1. i - numRead' \in 1 .. Len(incoming) - rd /\ rd + (i - numRead') = i - numRead
      BY <1>1, <1>3, <2>3, <2>6
    <3>2. QED
      BY <1>1, <1>2, <1>3, <2>1, <2>2, <2>3, <2>6, <3>1
  <2>7. QED
    BY <1>1, <1>3, <2>3, <2>4, <2>5, <2>6
<1>7. QED
  BY <1>4, <1>5, <1>6, Typing, SeqEqual

\* The buffer a read returns holds what the pipe gives, and Junk behind it.
LEMMA BufferIsFilled ==
  ASSUME SocketInv, NEW s \in Seq(Byte), Len(s) = numRead,
         \A i \in 1 .. numRead : s[i] = buf[i]
  PROVE  buf = Stream!Filled(numBytes, s)
<1> DEFINE filled == [i \in 1 .. numBytes |-> IF i <= Len(s) THEN s[i] ELSE Junk]
<1>1. /\ buf \in Seq(Byte) /\ Len(buf) = numBytes
      /\ numBytes \in Nat /\ numRead \in 0 .. numBytes
      /\ \A i \in 1 .. numBytes : buf[i] = Junk <=> i > numRead
  BY Typing DEF SocketInv, LoopsInBounds
<1>2. buf \in [1 .. numBytes -> Byte]
  BY <1>1, LenProperties
<1>3. \A i \in 1 .. numBytes : buf[i] = filled[i]
  BY <1>1
<1>4. buf = [i \in 1 .. numBytes |-> buf[i]]
  BY <1>2
<1>5. buf = filled
  BY <1>3, <1>4
<1>6. QED
  BY <1>5 DEF Stream!Filled

LEMMA SuffixOfPipe ==
  ASSUME SocketInv
  PROVE  incoming = SubSeq(Pipe, numRead + 1, Len(Pipe))
<1>1. /\ numRead \in Nat /\ incoming \in Seq(Byte) /\ Len(incoming) \in Nat
      /\ Pipe \in Seq(Byte) /\ Len(Pipe) = numRead + Len(incoming)
      /\ \A i \in 1 .. Len(Pipe) :
           Pipe[i] = IF i <= numRead THEN buf[i] ELSE incoming[i - numRead]
  BY Typing
<1>2. \A i \in numRead + 1 .. Len(Pipe) : Pipe[i] \in Byte
  BY <1>1
<1> DEFINE rest == SubSeq(Pipe, numRead + 1, Len(Pipe))
<1>3. /\ rest \in Seq(Byte) /\ Len(rest) = Len(incoming)
      /\ \A i \in 1 .. Len(incoming) : rest[i] = Pipe[numRead + i]
  BY <1>1, <1>2, SubSeqProperties
<1>4. ASSUME NEW i \in 1 .. Len(incoming) PROVE rest[i] = incoming[i]
  <2>1. numRead + i \in 1 .. Len(Pipe) /\ ~(numRead + i <= numRead) /\ (numRead + i) - numRead = i
    BY <1>1
  <2>2. Pipe[numRead + i] = incoming[i]
    BY <1>1, <2>1
  <2>3. QED
    BY <1>3, <2>2
<1>5. QED
  BY <1>1, <1>3, <1>4, SeqEqual

\* A call that returns 0 is the end of a whole read, or of a short one.
LEMMA ReadZeroIsAnswer ==
  ASSUME SocketInv, ReadZero
  PROVE  Stream!Whole \/ Stream!Short
<1>1. /\ numBytes # 0 /\ numBytes' = 0 /\ numRead' = 0
      /\ got' = [outcome |-> "data", count |-> numRead, buf |-> buf]
      /\ UNCHANGED <<incoming, outgoing, link, writeVars>>
  BY DEF ReadZero, ReadReturns
<1>2. Pipe' = incoming
  <2>1. SubSeq(buf', 1, numRead') = <<>>
    BY <1>1, SubSeqEmpty
  <2>2. QED
    BY <1>1, <2>1, Typing, ConcatEmptySeq DEF Pipe
<1>3. /\ numRead \in 0 .. numBytes /\ numBytes \in Nat /\ numMore = numBytes - numRead
      /\ Pipe \in Seq(Byte) /\ Len(Pipe) = numRead + Len(incoming) /\ Len(incoming) \in Nat
      /\ \A i \in 1 .. Len(Pipe) : i <= numRead => Pipe[i] = buf[i]
  BY Typing DEF SocketInv, TypeOK, LoopsInBounds
<1>4. CASE numMore = 0
  <2> DEFINE s == SubSeq(Pipe, 1, numBytes)
  <2>1. numRead = numBytes /\ numBytes <= Len(Pipe)
    BY <1>3, <1>4
  <2>2. \A i \in 1 .. numBytes : Pipe[i] \in Byte
    BY <1>3, <2>1
  <2>3. s \in Seq(Byte) /\ Len(s) = numRead /\ \A i \in 1 .. numRead : s[i] = Pipe[i]
    BY <1>3, <2>1, <2>2, SubSeqProperties
  <2>4. \A i \in 1 .. numRead : s[i] = buf[i]
    BY <1>3, <2>1, <2>3
  <2>5. got' = Stream!Data(numBytes, s)
    BY <1>1, <2>3, <2>4, BufferIsFilled DEF Stream!Data
  <2>6. Pipe' = SubSeq(Pipe, numBytes + 1, Len(Pipe))
    BY <1>2, <2>1, SuffixOfPipe
  <2>7. QED
    BY <1>1, <2>1, <2>5, <2>6 DEF Stream!Whole, Stream!Writer, Pipe, writeVars
<1>5. CASE numMore # 0 /\ link = "eof" /\ incoming = <<>>
  <2>1. Len(Pipe) = numRead /\ numRead < numBytes
    BY <1>3, <1>5
  <2>2. got' = Stream!Data(numBytes, Pipe)
    BY <1>1, <1>3, <2>1, BufferIsFilled DEF Stream!Data
  <2>3. QED
    BY <1>1, <1>2, <1>3, <1>5, <2>1, <2>2 DEF Stream!Short, Stream!Writer, Pipe, writeVars
<1>6. QED
  BY <1>4, <1>5 DEF ReadZero

LEMMA ReadFailsIsError ==
  ASSUME SocketInv, ReadFails
  PROVE  Stream!ReadError
<1>1. /\ numBytes # 0 /\ numBytes' = 0 /\ numRead' = 0 /\ got' = Error /\ link = "reset"
      /\ numMore # 0
      /\ UNCHANGED <<incoming, outgoing, link, writeVars>>
  BY DEF ReadFails, ReadReturns
<1>2. Pipe' = incoming
  <2>1. SubSeq(buf', 1, numRead') = <<>>
    BY <1>1, SubSeqEmpty
  <2>2. QED
    BY <1>1, <2>1, Typing, ConcatEmptySeq DEF Pipe
<1>3. numRead \in 0 .. Len(Pipe) /\ numRead < numBytes
  BY <1>1, Typing DEF SocketInv, TypeOK, LoopsInBounds
<1>4. Pipe' = SubSeq(Pipe, numRead + 1, Len(Pipe))
  BY <1>2, SuffixOfPipe
<1>5. \E k \in 0 .. Len(Pipe) : k < numBytes /\ Pipe' = SubSeq(Pipe, k + 1, Len(Pipe))
  BY <1>3, <1>4
<1>6. QED
  BY <1>1, <1>5 DEF Stream!ReadError, Stream!Writer, Stream!Error, Error, Pipe, writeVars

LEMMA WriteIsWrite ==
  ASSUME SocketAssumption, NEW m \in Messages, Write(m)
  PROVE  Stream!Write(m)
<1>1. Todo' = m
  BY SubSeqFull DEF Write, Todo, SocketAssumption
<1>2. QED
  BY <1>1 DEF Write, Stream!Write, Stream!Reader, Todo, readVars

\* What the kernel accepts is the front of what is left of the message.
LEMMA WriteSomeIsTake ==
  ASSUME SocketInv, WriteSome
  PROVE  Stream!Take
<1>1. PICK sz \in 1 .. toSend :
        /\ outgoing' = outgoing \o SubSeq(srcBuf, offset + 1, offset + sz)
        /\ offset' = offset + sz
  BY DEF WriteSome
<1>2. wrote = "busy" /\ link = "up" /\ UNCHANGED <<incoming, link, readVars, srcBuf, wrote>>
  BY DEF WriteSome
<1>3. /\ offset \in Nat /\ toSend \in Nat /\ srcBuf \in Seq(Nat)
      /\ offset + toSend = Len(srcBuf) /\ sz \in Nat
  BY DEF SocketInv, TypeOK, LoopsInBounds
<1>4. /\ offset + 1 \in 1 .. Len(srcBuf) /\ Len(srcBuf) \in 1 .. Len(srcBuf)
      /\ Len(srcBuf) - (offset + 1) + 1 = toSend
      /\ (offset + 1) + sz - 1 = offset + sz /\ (offset + 1) + 1 - 1 = offset + 1
      /\ (offset + 1) + (sz + 1) - 1 = offset + sz + 1
      /\ (offset + 1) + toSend - 1 = Len(srcBuf)
  <2>1. /\ Len(srcBuf) \in Nat /\ offset \in Nat /\ toSend \in Nat /\ sz \in 1 .. toSend
        /\ offset + toSend = Len(srcBuf)
    BY <1>1, <1>3
  <2>2. offset + 1 \in 1 .. Len(srcBuf) /\ Len(srcBuf) \in 1 .. Len(srcBuf)
    BY <2>1
  <2>3. Len(srcBuf) - (offset + 1) + 1 = toSend
    BY <2>1
  <2>4. (offset + 1) + sz - 1 = offset + sz /\ (offset + 1) + 1 - 1 = offset + 1
    BY <2>1
  <2>5. (offset + 1) + (sz + 1) - 1 = offset + sz + 1
    BY <2>1
  <2>6. (offset + 1) + toSend - 1 = Len(srcBuf)
    BY <2>1
  <2>7. QED
    BY <2>2, <2>3, <2>4, <2>5, <2>6
<1>5. \A i \in offset + 1 .. Len(srcBuf) : srcBuf[i] \in Nat
  BY <1>3
<1>6. Todo \in Seq(Nat) /\ Len(Todo) = toSend
  BY <1>3, <1>4, <1>5, SubSeqProperties DEF Todo
<1>7. SubSeq(Todo, 1, sz) = SubSeq(srcBuf, offset + 1, offset + sz)
  <2>1. 1 \in 1 .. toSend /\ sz \in 1 .. toSend
    BY <1>1, <1>3
  <2>2. QED
    BY <1>3, <1>4, <2>1, SubSeqOfSubSeq DEF Todo
<1>8. SubSeq(Todo, sz + 1, toSend) = SubSeq(srcBuf, offset + sz + 1, Len(srcBuf))
  <2>1. CASE sz = toSend
    BY <1>3, <2>1, SubSeqEmpty
  <2>2. CASE sz # toSend
    <3>1. sz + 1 \in 1 .. toSend /\ toSend \in 1 .. toSend
      BY <1>1, <1>3, <2>2
    <3>2. QED
      BY <1>3, <1>4, <3>1, SubSeqOfSubSeq DEF Todo
  <2>3. QED
    BY <2>1, <2>2
<1>9. /\ outgoing' = outgoing \o SubSeq(Todo, 1, sz)
      /\ Todo' = SubSeq(Todo, sz + 1, Len(Todo))
      /\ sz \in 1 .. Len(Todo)
  BY <1>1, <1>2, <1>6, <1>7, <1>8 DEF Todo
<1>10. QED
  BY <1>2, <1>9 DEF Stream!Take, Stream!Reader, Todo, readVars

LEMMA WriteEnds ==
  ASSUME SocketInv
  PROVE  /\ WriteZero => Stream!Written
         /\ WriteFails => Stream!WriteError
<1>1. ASSUME srcBuf' = <<>>, offset' = 0 PROVE Todo' = <<>>
  <2>1. Len(srcBuf') = 0
    BY <1>1
  <2>2. QED
    BY <1>1, <2>1, SubSeqEmpty DEF Todo
<1>2. ASSUME WriteZero PROVE Stream!Written
  <2>1. offset + 1 > Len(srcBuf) /\ offset \in Nat /\ Len(srcBuf) \in Nat
    BY <1>2 DEF WriteZero, SocketInv, TypeOK, LoopsInBounds
  <2>2. Todo = <<>>
    BY <2>1, SubSeqEmpty DEF Todo
  <2>3. Todo' = <<>>
    BY <1>1, <1>2 DEF WriteZero, WriteReturns
  <2>4. QED
    BY <1>2, <2>2, <2>3 DEF WriteZero, WriteReturns, Stream!Written, Stream!Reader, Todo, readVars
<1>3. ASSUME WriteFails PROVE Stream!WriteError
  <2>1. Todo' = <<>>
    BY <1>1, <1>3 DEF WriteFails, WriteReturns
  <2>2. QED
    BY <1>3, <2>1 DEF WriteFails, WriteReturns, Stream!WriteError, Stream!Reader, Todo, readVars
<1>4. QED
  BY <1>2, <1>3

LEMMA AppendToConcat ==
  ASSUME NEW S, NEW s \in Seq(S), NEW t \in Seq(S), NEW e \in S
  PROVE  s \o Append(t, e) = Append(s \o t, e)
OBVIOUS

LEMMA PeerSteps ==
  ASSUME SocketInv
  PROVE  /\ \A b \in Bytes : Sent(b) => Stream!Sent(b)
         /\ Received => Stream!Received
         /\ \A l \in {"eof", "reset"} : Lost(l) => Stream!Lost(l)
         /\ Renew => Stream!Renew
<1>1. ASSUME NEW b \in Bytes, Sent(b) PROVE Stream!Sent(b)
  <2> DEFINE front == SubSeq(buf, 1, numRead)
  <2>1. /\ incoming' = Append(incoming, b) /\ link = "up"
        /\ UNCHANGED <<outgoing, link, readVars, writeVars>>
    BY <1>1 DEF Sent
  <2>2. front \in Seq(Byte) /\ incoming \in Seq(Byte) /\ b \in Byte
    BY Typing, SubSeqProperties DEF Byte
  <2>3. front \o Append(incoming, b) = Append(front \o incoming, b)
    <3> HIDE DEF front
    <3>1. QED
      BY <2>2, AppendToConcat
  <2>4. Pipe' = Append(Pipe, b)
    BY <2>1, <2>3 DEF Pipe, readVars
  <2>5. QED
    BY <2>1, <2>4 DEF Stream!Sent, Stream!Peer, Pipe, readVars, writeVars
<1>2. ASSUME Received PROVE Stream!Received
  BY <1>2 DEF Received, Stream!Received, Stream!Peer, readVars, writeVars
<1>3. ASSUME NEW l \in {"eof", "reset"}, Lost(l) PROVE Stream!Lost(l)
  BY <1>3 DEF Lost, Stream!Lost, Stream!Peer, readVars, writeVars
<1>4. ASSUME Renew PROVE Stream!Renew
  <2>1. /\ numBytes = 0 /\ wrote # "busy"
        /\ incoming' = <<>> /\ outgoing' = <<>> /\ link' = "up" /\ got' = NoAnswer
        /\ wrote' = "idle"
        /\ UNCHANGED <<numBytes, buf, numRead, numMore, srcBuf, offset, toSend>>
    BY <1>4 DEF Renew
  <2>2. numRead = 0
    BY <2>1, Typing
  <2>3. SubSeq(buf', 1, numRead') = <<>>
    BY <2>1, <2>2, SubSeqEmpty
  <2>4. Pipe' = <<>>
    BY <2>1, <2>3 DEF Pipe
  <2>5. QED
    BY <2>1, <2>4 DEF Stream!Renew, Stream!NoAnswer, NoAnswer, Pipe
<1>5. QED
  BY <1>1, <1>2, <1>3, <1>4

LEMMA StepRefines ==
  ASSUME SocketInv, SocketAssumption, [Next]_vars
  PROVE  [Stream!Next]_(Stream!vars)
<1>1. CASE ReadSome
  BY <1>1, ReadSomeKeepsPipe DEF ReadSome, Stream!vars, Pipe, writeVars
<1>2. CASE UNCHANGED vars
  BY <1>2 DEF vars, Stream!vars, readVars, writeVars
<1>3. CASE Next /\ ~ReadSome
  BY <1>3, ReadIsRead, ReadZeroIsAnswer, ReadFailsIsError, WriteIsWrite, WriteSomeIsTake,
     WriteEnds, PeerSteps DEF Next, ReadCall, WriteCall, Stream!Next
<1>4. QED
  BY <1>1, <1>2, <1>3

(***************************************************************************)
(* The loops of read() and write() keep the promises of a ByteStream, for  *)
(* every way in which the kernel answers in parts and every byte at which  *)
(* the link is lost (the safety half of ImplementsStream).                 *)
(***************************************************************************)
THEOREM SocketIsStream == SafeSpec => Stream!SafeSpec
<1>1. Init => Stream!Init
  <2>1. ASSUME Init PROVE Pipe = <<>> /\ Todo = <<>>
    <3>1. SubSeq(buf, 1, numRead) = <<>> /\ Len(srcBuf) = 0
      BY <2>1, SubSeqEmpty DEF Init
    <3>2. QED
      BY <2>1, <3>1, SubSeqEmpty DEF Init, Pipe, Todo
  <2>2. QED
    BY <2>1 DEF Init, Stream!Init, Stream!NoAnswer, NoAnswer, Pipe, Todo
<1>2. SocketInv /\ [Next]_vars => [Stream!Next]_(Stream!vars)
  BY StepRefines, SocketAssumption
<1>3. QED
  BY <1>1, <1>2, SocketCorrect, PTL DEF SafeSpec, Stream!SafeSpec
=============================================================================
