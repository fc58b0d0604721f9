----------------------------- MODULE ByteStream -----------------------------
(***************************************************************************)
(* What a connected BluetoothSocket promises to its two users.             *)
(*                                                                         *)
(* The reader: read(n) takes the next n bytes the client has sent, in      *)
(* order and none twice.  Only at the end of the stream does it take       *)
(* fewer, and then it leaves the rest of the buffer as it was; only when   *)
(* the link is broken does it throw.                                       *)
(*                                                                         *)
(* The writer: write() returns only when the client can be given the whole *)
(* message, and throws only when the link is lost.                         *)
(***************************************************************************)
EXTENDS Naturals, Sequences

CONSTANTS Bytes, Sizes, Messages, Junk

VARIABLES
  pipe,     \* sent by the client, not yet given to a caller of read()
  link,     \* "up", or lost: "eof" (ended in order), "reset" (broken)
  want,     \* the length a read in progress was called with, 0 if none is
  got,      \* what the last read has returned
  taken,    \* accepted from the writer, not yet received by the client
  todo,     \* the rest of the message a write in progress is about
  wrote     \* the write: "busy", or "idle", "ok", "error" (none, or its outcome)

vars == <<pipe, link, want, got, taken, todo, wrote>>

NoAnswer == [outcome |-> "none"]
Error    == [outcome |-> "error"]

\* n bytes of buffer of which only the first are those of s.
Filled(n, s) == [i \in 1 .. n |-> IF i <= Len(s) THEN s[i] ELSE Junk]
Data(n, s) == [outcome |-> "data", count |-> Len(s), buf |-> Filled(n, s)]

Init ==
  /\ pipe = <<>>
  /\ link = "up"
  /\ want = 0
  /\ got = NoAnswer
  /\ taken = <<>>
  /\ todo = <<>>
  /\ wrote = "idle"

Peer == UNCHANGED <<want, got, todo, wrote>>

Sent(b) ==
  /\ link = "up"
  /\ pipe' = Append(pipe, b)
  /\ Peer /\ UNCHANGED <<link, taken>>

Received ==
  /\ link = "up"
  /\ taken # <<>>
  /\ taken' = Tail(taken)
  /\ Peer /\ UNCHANGED <<pipe, link>>

Lost(l) ==
  /\ link = "up"
  /\ link' = l
  /\ Peer /\ UNCHANGED <<pipe, taken>>

\* The socket of another client takes its place.
Renew ==
  /\ want = 0
  /\ wrote # "busy"
  /\ pipe' = <<>>
  /\ link' = "up"
  /\ got' = NoAnswer
  /\ taken' = <<>>
  /\ wrote' = "idle"
  /\ UNCHANGED <<want, todo>>

Writer == UNCHANGED <<link, taken, todo, wrote>>

Read(n) ==
  /\ want = 0
  /\ want' = n
  /\ got' = NoAnswer
  /\ Writer /\ UNCHANGED pipe

Whole ==
  /\ want # 0
  /\ Len(pipe) >= want
  /\ got' = Data(want, SubSeq(pipe, 1, want))
  /\ pipe' = SubSeq(pipe, want + 1, Len(pipe))
  /\ want' = 0
  /\ Writer

Short ==
  /\ want # 0
  /\ link = "eof"
  /\ Len(pipe) < want
  /\ got' = Data(want, pipe)
  /\ pipe' = <<>>
  /\ want' = 0
  /\ Writer

\* What the read had taken before the link broke is lost.
ReadError ==
  /\ want # 0
  /\ link = "reset"
  /\ got' = Error
  /\ \E k \in 0 .. Len(pipe) : k < want /\ pipe' = SubSeq(pipe, k + 1, Len(pipe))
  /\ want' = 0
  /\ Writer

Reader == UNCHANGED <<pipe, link, want, got>>

Write(m) ==
  /\ wrote # "busy"
  /\ wrote' = "busy"
  /\ todo' = m
  /\ Reader /\ UNCHANGED taken

Take ==
  /\ wrote = "busy"
  /\ link = "up"
  /\ \E k \in 1 .. Len(todo) :
       /\ taken' = taken \o SubSeq(todo, 1, k)
       /\ todo' = SubSeq(todo, k + 1, Len(todo))
  /\ Reader /\ UNCHANGED wrote

Written ==
  /\ wrote = "busy"
  /\ todo = <<>>
  /\ wrote' = "ok"
  /\ Reader /\ UNCHANGED <<taken, todo>>

WriteError ==
  /\ wrote = "busy"
  /\ link # "up"
  /\ wrote' = "error"
  /\ todo' = <<>>
  /\ Reader /\ UNCHANGED taken

Next ==
  \/ \E b \in Bytes : Sent(b)
  \/ Received
  \/ \E l \in {"eof", "reset"} : Lost(l)
  \/ Renew
  \/ \E n \in Sizes : Read(n)
  \/ Whole
  \/ Short
  \/ ReadError
  \/ \E m \in Messages : Write(m)
  \/ Take
  \/ Written
  \/ WriteError

SafeSpec == Init /\ [][Next]_vars

\* A read is answered as soon as what it asks for is there, or the link is
\* lost; a write is over as soon as all of it is taken, or the link is lost.
Fairness ==
  /\ WF_vars(Whole \/ Short \/ ReadError)
  /\ WF_vars(Written \/ WriteError)

Spec == SafeSpec /\ Fairness
=============================================================================
