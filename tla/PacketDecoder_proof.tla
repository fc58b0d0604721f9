------------------------- MODULE PacketDecoder_proof -------------------------
(***************************************************************************)
(* The reader keeps the framing of the stream.  The inductive invariant is *)
(* DecoderInv: in every state either there is an n such that the reader is *)
(* in the n-th packet (it has queued the events before it, and the bytes   *)
(* it has taken end where the field it reads ends), or the stream has      *)
(* ended in order and every event sent is queued, or the reader stops.     *)
(*                                                                         *)
(* One lemma per action; those of the reader rest on AnswerInPacket, what  *)
(* it is given in order, and those of the socket on Taken, what a read     *)
(* takes off the stream.                                                   *)
(***************************************************************************)
EXTENDS PacketDecoder, SequenceTheorems, TLAPS

-----------------------------------------------------------------------------
(* Sequences *)

LEMMA SeqFacts ==
  ASSUME NEW S, NEW s \in Seq(S)
  PROVE  /\ Len(s) \in Nat
         /\ s = <<>> <=> Len(s) = 0
         /\ s # <<>> => Len(s) > 0 /\ Head(s) = s[1]
BY EmptySeq, LenProperties

LEMMA Associative ==
  \A r, s, t \in Seq(Nat) : (r \o s) \o t = r \o (s \o t)
<1>1. ASSUME NEW r \in Seq(Nat), NEW s \in Seq(Nat), NEW t \in Seq(Nat)
      PROVE  (r \o s) \o t = r \o (s \o t)
  BY ConcatAssociative, Z3
<1>2. QED
  BY <1>1

LEMMA PrefixPointwise ==
  ASSUME NEW S, NEW s \in Seq(S), NEW t \in Seq(S)
  PROVE  IsPrefix(s, t) <=> /\ Len(s) <= Len(t)
                            /\ \A i \in 1 .. Len(s) : s[i] = t[i]
<1>1. Len(s) \in Nat /\ Len(t) \in Nat
  BY LenProperties
<1>2. /\ \A i \in 1 .. Len(s) : s[i] \in S
      /\ \A i \in 1 .. Len(t) : t[i] \in S
  BY ElementOfSeq
<1> DEFINE a == SubSeq(s, 1, Len(s))
           b == SubSeq(t, 1, Len(s))
<1>3. ASSUME Len(s) <= Len(t)
      PROVE  /\ a \in Seq(S) /\ Len(a) = Len(s) /\ \A i \in 1 .. Len(s) : a[i] = s[i]
             /\ b \in Seq(S) /\ Len(b) = Len(s) /\ \A i \in 1 .. Len(s) : b[i] = t[i]
  <2>1. \A i \in 1 .. Len(s) : t[i] \in S
    BY <1>1, <1>2, <1>3
  <2>2. a \in Seq(S) /\ Len(a) = Len(s) /\ \A i \in 1 .. Len(s) - 1 + 1 : a[i] = s[1 + i - 1]
    BY <1>1, <1>2, SubSeqProperties
  <2>3. b \in Seq(S) /\ Len(b) = Len(s) /\ \A i \in 1 .. Len(s) - 1 + 1 : b[i] = t[1 + i - 1]
    BY <1>1, <2>1, SubSeqProperties
  <2>4. \A i \in 1 .. Len(s) : 1 + i - 1 = i /\ i \in 1 .. Len(s) - 1 + 1
    BY <1>1
  <2> HIDE DEF a, b
  <2>5. QED
    BY <2>2, <2>3, <2>4
<1>4. ASSUME Len(s) <= Len(t)
      PROVE  a = b <=> \A i \in 1 .. Len(s) : s[i] = t[i]
  <2>1. /\ a \in Seq(S) /\ Len(a) = Len(s) /\ \A i \in 1 .. Len(s) : a[i] = s[i]
        /\ b \in Seq(S) /\ Len(b) = Len(s) /\ \A i \in 1 .. Len(s) : b[i] = t[i]
    BY <1>3, <1>4
  <2> HIDE DEF a, b
  <2>2. (\A i \in 1 .. Len(s) : s[i] = t[i]) => a = b
    BY <2>1, SeqEqual
  <2>3. QED
    BY <2>1, <2>2
<1>5. QED
  BY <1>4 DEF IsPrefix

-----------------------------------------------------------------------------
(* The packets *)

\* A double, out of the bytes of a packet from the given place on.
DoubleAt(bytes, n) == [i \in 1 .. CoordinateSize |-> bytes[n + i]]

\* What is known of a packet: enough bytes to decode it, and its event.
WellFormed(bytes, events) ==
  /\ bytes \in Seq(Nat) /\ Len(bytes) >= 1
  /\ events \in Seq(AllEvents) /\ Len(events) \in {0, 1}
  /\ bytes[1] = MOUSE_EVENT =>
       /\ Len(bytes) = 2 + 2 * CoordinateSize
       /\ events = <<MouseEvent(DoubleAt(bytes, 1), DoubleAt(bytes, 1 + CoordinateSize),
                                bytes[2 + 2 * CoordinateSize])>>
  /\ bytes[1] = REQUEST_SCREEN_REFRESH => Len(bytes) = 1 /\ events = <<>>
  /\ bytes[1] = KEYBOARD_EVENT =>
       /\ Len(bytes) >= 2
       /\ bytes[2] = SINGLE_KEY => Len(bytes) = 3 /\ events = <<KeyEvent(bytes[3])>>
       /\ bytes[2] \in {COMBINATION_KEY, STRING_KEY} => Len(bytes) = 2 /\ events = <<>>

LEMMA MouseWellFormed ==
  ASSUME DecoderAssumption, NEW x \in Coordinates, NEW y \in Coordinates, NEW b \in Buttons
  PROVE  WellFormed(<<MOUSE_EVENT>> \o x \o y \o <<b>>, <<MouseEvent(x, y, b)>>)
<1> DEFINE n == CoordinateSize
           s == <<MOUSE_EVENT>> \o x
           t == s \o y
           u == t \o <<b>>
<1>1. n \in Nat /\ n > 0 /\ x \in [1 .. n -> Nat] /\ y \in [1 .. n -> Nat] /\ b \in Nat
  BY DEF DecoderAssumption
<1>2. /\ x \in Seq(Nat) /\ Len(x) = n
      /\ y \in Seq(Nat) /\ Len(y) = n
  <2>1. ASSUME NEW z \in [1 .. n -> Nat] PROVE z \in Seq(Nat) /\ Len(z) = n
    <3>1. z \in Seq(Nat)
      BY <1>1, SeqDef
    <3>2. Len(z) \in Nat /\ DOMAIN z = 1 .. Len(z) /\ DOMAIN z = 1 .. n
      BY <3>1, LenProperties
    <3>3. QED
      BY <1>1, <3>1, <3>2
  <2>2. QED
    BY <1>1, <2>1
<1>3. /\ <<MOUSE_EVENT>> \in Seq(Nat) /\ Len(<<MOUSE_EVENT>>) = 1 /\ <<MOUSE_EVENT>>[1] = MOUSE_EVENT
      /\ <<b>> \in Seq(Nat) /\ Len(<<b>>) = 1 /\ <<b>>[1] = b
  BY <1>1 DEF MOUSE_EVENT
<1> HIDE DEF n
<1>4. /\ s \in Seq(Nat) /\ Len(s) = 1 + n
      /\ \A i \in 1 .. 1 + n : s[i] = IF i <= 1 THEN MOUSE_EVENT ELSE x[i - 1]
  <2>1. /\ s \in Seq(Nat) /\ Len(s) = 1 + n
        /\ \A i \in 1 .. 1 + n : s[i] = IF i <= 1 THEN <<MOUSE_EVENT>>[i] ELSE x[i - 1]
    BY <1>2, <1>3, ConcatProperties
  <2>2. \A i \in 1 .. 1 + n : i <= 1 => i = 1
    BY <1>1
  <2> HIDE DEF s
  <2>3. QED
    BY <1>3, <2>1, <2>2
<1> HIDE DEF s
<1>5. /\ t \in Seq(Nat) /\ Len(t) = 1 + n + n
      /\ \A i \in 1 .. 1 + n + n : t[i] = IF i <= 1 + n THEN s[i] ELSE y[i - (1 + n)]
  <2>1. /\ t \in Seq(Nat) /\ Len(t) = Len(s) + Len(y)
        /\ \A i \in 1 .. Len(s) + Len(y) : t[i] = IF i <= Len(s) THEN s[i] ELSE y[i - Len(s)]
    <3>1. s \in Seq(Nat) /\ y \in Seq(Nat)
      BY <1>2, <1>4
    <3>2. QED
      BY <3>1, ConcatProperties, Z3
  <2> HIDE DEF t
  <2>2. Len(s) = 1 + n /\ Len(y) = n
    BY <1>2, <1>4
  <2>3. QED
    BY <2>1, <2>2
<1> HIDE DEF t
<1>6. /\ u \in Seq(Nat) /\ Len(u) = 1 + n + n + 1
      /\ \A i \in 1 .. 1 + n + n + 1 : u[i] = IF i <= 1 + n + n THEN t[i] ELSE <<b>>[i - (1 + n + n)]
  BY <1>3, <1>5, ConcatProperties
<1> HIDE DEF u
<1>7. u[1] = MOUSE_EVENT /\ Len(u) = 2 + 2 * n
  BY <1>1, <1>4, <1>5, <1>6
<1>8. ASSUME NEW i \in 1 .. n PROVE u[1 + i] = x[i] /\ u[(1 + n) + i] = y[i]
  <2>1. /\ 1 + i \in 1 .. 1 + n /\ 1 + i \in 1 .. 1 + n + n /\ 1 + i \in 1 .. 1 + n + n + 1
        /\ 1 + i <= 1 + n + n /\ 1 + i <= 1 + n /\ ~(1 + i <= 1) /\ (1 + i) - 1 = i
    BY <1>1
  <2>2. /\ (1 + n) + i \in 1 .. 1 + n + n /\ (1 + n) + i \in 1 .. 1 + n + n + 1
        /\ (1 + n) + i <= 1 + n + n /\ ~((1 + n) + i <= 1 + n)
        /\ ((1 + n) + i) - (1 + n) = i
    BY <1>1
  <2>3. u[1 + i] = t[1 + i] /\ u[(1 + n) + i] = t[(1 + n) + i]
    BY <1>6, <2>1, <2>2
  <2>4. t[1 + i] = s[1 + i] /\ t[(1 + n) + i] = y[i]
    BY <1>5, <2>1, <2>2
  <2>5. s[1 + i] = x[i]
    BY <1>4, <2>1
  <2>6. QED
    BY <2>3, <2>4, <2>5
<1>9. u[2 + 2 * n] = b
  BY <1>1, <1>3, <1>6
<1>10. DoubleAt(u, 1) = x /\ DoubleAt(u, 1 + n) = y
  BY <1>1, <1>8 DEF DoubleAt, n
<1>11. MouseEvent(x, y, b) \in AllEvents
  BY <1>1 DEF MouseEvent, AllEvents, Doubles, n
<1>12. <<MouseEvent(x, y, b)>> \in Seq(AllEvents) /\ Len(<<MouseEvent(x, y, b)>>) = 1
  BY <1>11
<1>13. WellFormed(u, <<MouseEvent(x, y, b)>>)
  BY <1>1, <1>6, <1>7, <1>9, <1>10, <1>12
  DEF WellFormed, n, MOUSE_EVENT, KEYBOARD_EVENT, REQUEST_SCREEN_REFRESH
<1>14. QED
  BY <1>13 DEF u, t, s

LEMMA PacketCases ==
  ASSUME NEW p \in Packets
  PROVE  \/ \E x \in Coordinates, y \in Coordinates, b \in Buttons :
              p = MousePacket(x, y, b)
         \/ \E k \in KeyCodes : p = KeyPacket(k)
         \/ \E t \in {COMBINATION_KEY, STRING_KEY} : p = Packet(<<KEYBOARD_EVENT, t>>, <<>>)
         \/ p = Packet(<<REQUEST_SCREEN_REFRESH>>, <<>>)
         \/ \E m \in Malformed : p = Packet(m, <<>>)
<1>1. p \in MousePackets =>
        \E x \in Coordinates, y \in Coordinates, b \in Buttons :
          p = MousePacket(x, y, b)
  BY DEF MousePackets
<1>2. p \in KeyPackets =>
        \E k \in KeyCodes : p = KeyPacket(k)
  BY DEF KeyPackets
<1>3. p \in IgnoredPackets =>
        \/ \E t \in {COMBINATION_KEY, STRING_KEY} : p = Packet(<<KEYBOARD_EVENT, t>>, <<>>)
        \/ p = Packet(<<REQUEST_SCREEN_REFRESH>>, <<>>)
  BY DEF IgnoredPackets
<1>4. p \in RejectedPackets => \E m \in Malformed : p = Packet(m, <<>>)
  BY DEF RejectedPackets
<1>5. QED
  BY <1>1, <1>2, <1>3, <1>4, Zenon DEF Packets

LEMMA PacketKinds ==
  ASSUME DecoderAssumption, NEW bytes, NEW events, Packet(bytes, events) \in Packets
  PROVE  WellFormed(bytes, events)
<1> USE DEF MOUSE_EVENT, KEYBOARD_EVENT, REQUEST_SCREEN_REFRESH,
            SINGLE_KEY, COMBINATION_KEY, STRING_KEY
<1> DEFINE p == Packet(bytes, events)
<1>1. ASSUME NEW b, NEW e, p = Packet(b, e) PROVE bytes = b /\ events = e
  BY <1>1 DEF Packet
<1>2. CASE \E x \in Coordinates, y \in Coordinates, b \in Buttons :
             p = MousePacket(x, y, b)
  <2>1. PICK x \in Coordinates, y \in Coordinates, b \in Buttons :
               p = MousePacket(x, y, b)
    BY <1>2
  <2>2. bytes = <<MOUSE_EVENT>> \o x \o y \o <<b>> /\ events = <<MouseEvent(x, y, b)>>
    BY <1>1, <2>1, Zenon DEF MousePacket
  <2>3. QED
    BY <2>2, MouseWellFormed, Zenon
<1>3. CASE \E k \in KeyCodes : p = KeyPacket(k)
  <2>1. PICK k \in KeyCodes : p = KeyPacket(k)
    BY <1>3
  <2>2. bytes = <<KEYBOARD_EVENT, SINGLE_KEY, k>> /\ events = <<KeyEvent(k)>>
    BY <1>1, <2>1, Zenon DEF KeyPacket
  <2>3. k \in Nat /\ KeyEvent(k) \in AllEvents
    BY DEF DecoderAssumption, KeyEvent, AllEvents
  <2>4. QED
    BY <2>2, <2>3 DEF WellFormed
<1>4. CASE \E t \in {COMBINATION_KEY, STRING_KEY} : p = Packet(<<KEYBOARD_EVENT, t>>, <<>>)
  <2>1. PICK t \in {COMBINATION_KEY, STRING_KEY} : p = Packet(<<KEYBOARD_EVENT, t>>, <<>>)
    BY <1>4
  <2>2. bytes = <<KEYBOARD_EVENT, t>> /\ events = <<>>
    BY <1>1, <2>1, Zenon
  <2>3. QED
    BY <2>2 DEF WellFormed
<1>5. CASE p = Packet(<<REQUEST_SCREEN_REFRESH>>, <<>>)
  <2>1. bytes = <<REQUEST_SCREEN_REFRESH>> /\ events = <<>>
    BY <1>1, <1>5, Zenon
  <2>2. QED
    BY <2>1 DEF WellFormed
<1>6. CASE \E m \in Malformed : p = Packet(m, <<>>)
  <2>1. PICK m \in Malformed : p = Packet(m, <<>>)
    BY <1>6
  <2>2. bytes = m /\ events = <<>>
    BY <1>1, <2>1, Zenon
  <2>3. m \in Seq(Nat) /\ Len(m) >= 1
    BY SeqFacts DEF DecoderAssumption
  <2>4. \/ m[1] \notin {KEYBOARD_EVENT, MOUSE_EVENT, REQUEST_SCREEN_REFRESH}
        \/ m[1] = KEYBOARD_EVENT /\ Len(m) > 1 /\ m[2] \notin {SINGLE_KEY, COMBINATION_KEY, STRING_KEY}
    BY DEF DecoderAssumption
  <2>5. <<>> \in Seq(AllEvents) /\ Len(<<>>) = 0
    OBVIOUS
  <2>6. QED
    BY <2>2, <2>3, <2>4, <2>5 DEF WellFormed
<1>7. QED
  BY <1>2, <1>3, <1>4, <1>5, <1>6, PacketCases, Zenon

-----------------------------------------------------------------------------
(* The history and the stream *)

LEMMA HistoryFacts ==
  ASSUME DecoderAssumption, TypeOK, HistoryOK
  PROVE  /\ Len(begun) \in Nat /\ Following = Len(begun) + 1
         /\ \A n \in 1 .. Following : Start(n) \in Nat /\ Before(n) \in Nat
         /\ \A n \in 1 .. Len(begun) :
              /\ Start(n + 1) = Start(n) + Len(begun[n].bytes)
              /\ Before(n + 1) = Before(n) + Len(begun[n].events)
              /\ begun[n].count = Before(n + 1) /\ begun[n].end = Start(n + 1)
              /\ WellFormed(begun[n].bytes, begun[n].events)
         /\ \A m, n \in 1 .. Following : m <= n => Start(m) <= Start(n) /\ Before(m) <= Before(n)
<1>1. Len(begun) \in Nat /\ Following = Len(begun) + 1
  BY LenProperties DEF TypeOK, Following
<1>2. \A n \in 1 .. Len(begun) :
        /\ begun[n].end \in Nat /\ begun[n].count \in Nat
        /\ Packet(begun[n].bytes, begun[n].events) \in Packets
        /\ begun[n].end = Start(n) + Len(begun[n].bytes)
        /\ begun[n].count = Before(n) + Len(begun[n].events)
        /\ \A j \in 1 .. n : begun[j].end <= begun[n].end /\ begun[j].count <= begun[n].count
  <2>1. \A n \in 1 .. Len(begun) : begun[n] \in Numbered
    BY ElementOfSeq DEF TypeOK
  <2>2. \A n \in 1 .. Len(begun) : begun[n].end \in Nat /\ begun[n].count \in Nat
    BY <2>1 DEF Numbered
  <2>3. QED
    BY <2>2 DEF HistoryOK
<1>3. \A n \in 1 .. Len(begun) : Start(n + 1) = begun[n].end /\ Before(n + 1) = begun[n].count
  BY <1>1 DEF Start, Before
<1>4. Start(1) = 0 /\ Before(1) = 0
  BY DEF Start, Before
<1>5. ASSUME NEW n \in 1 .. Following
      PROVE  n = 1 \/ (n - 1 \in 1 .. Len(begun) /\ Start(n) = begun[n - 1].end
                                                 /\ Before(n) = begun[n - 1].count)
  BY <1>1 DEF Start, Before
<1>6. \A n \in 1 .. Following : Start(n) \in Nat /\ Before(n) \in Nat
  BY <1>2, <1>4, <1>5
<1>7. ASSUME NEW m \in 1 .. Following, NEW n \in 1 .. Following, m <= n
      PROVE  Start(m) <= Start(n) /\ Before(m) <= Before(n)
  <2>1. CASE m = 1
    BY <1>4, <1>6, <2>1
  <2>2. CASE m # 1
    <3>1. n # 1
      BY <1>1, <1>7, <2>2
    <3>2. m - 1 \in 1 .. n - 1
      BY <1>1, <1>7, <2>2
    <3>3. QED
      BY <1>2, <1>5, <2>2, <3>1, <3>2
  <2>3. QED
    BY <2>1, <2>2
<1>8. \A n \in 1 .. Len(begun) : WellFormed(begun[n].bytes, begun[n].events)
  BY <1>2, PacketKinds
<1>9. QED
  BY <1>1, <1>2, <1>3, <1>6, <1>7, <1>8

LEMMA UnreadFacts ==
  ASSUME TypeOK
  PROVE  /\ Len(pipe) \in Nat /\ Len(left) \in Nat
         /\ left = <<>> <=> Len(left) = 0
         /\ pipe = <<>> <=> Len(pipe) = 0
         /\ Unread \in Seq(Nat) /\ Len(Unread) = Len(pipe) + Len(left)
         /\ \A i \in 1 .. Len(Unread) :
              Unread[i] = IF i <= Len(pipe) THEN pipe[i] ELSE left[i - Len(pipe)]
<1>1. pipe \in Seq(Nat) /\ left \in Seq(Nat)
  BY DEF TypeOK
<1>2. QED
  BY <1>1, SeqFacts, ConcatProperties DEF Unread

\* The packets sent to the last byte are those the pipe holds to the end, or
\* has held.
LEMMA WholePackets ==
  ASSUME DecoderAssumption, TypeOK, HistoryOK, NEW n \in 1 .. Len(begun)
  PROVE  LET whole == IF left = <<>> THEN Len(begun) ELSE Len(begun) - 1 IN
         /\ Position \in Int
         /\ Position >= Start(n + 1) => n <= whole
         /\ n <= whole => Start(n + 1) <= Position + Len(pipe)
<1> DEFINE N == Len(begun)
<1>1. /\ N \in Nat /\ Following = N + 1 /\ n \in 1 .. N
      /\ Start(Following) \in Nat /\ Start(N) \in Nat /\ Start(n + 1) \in Nat
      /\ Start(n + 1) <= Start(Following)
      /\ n < N => Start(n + 1) <= Start(N)
      /\ Start(Following) = Start(N) + Len(begun[N].bytes)
      /\ WellFormed(begun[N].bytes, begun[N].events)
  <2>1. N \in Nat /\ Following = N + 1
    BY HistoryFacts
  <2> HIDE DEF N
  <2>2. n \in 1 .. N /\ N \in 1 .. N /\ n + 1 \in 1 .. Following /\ N \in 1 .. Following
        /\ Following \in 1 .. Following
    BY <2>1 DEF N
  <2>3. \A m \in 1 .. Following : Start(m) \in Nat
    BY HistoryFacts
  <2>4. \A m \in 1 .. N : /\ Start(m + 1) = Start(m) + Len(begun[m].bytes)
                          /\ WellFormed(begun[m].bytes, begun[m].events)
    BY HistoryFacts DEF N
  <2>5. \A k, m \in 1 .. Following : k <= m => Start(k) <= Start(m)
    BY HistoryFacts
  <2>6. QED
    BY <2>1, <2>2, <2>3, <2>4, <2>5
<1>2. /\ Len(pipe) \in Nat /\ Len(left) \in Nat /\ (left = <<>> <=> Len(left) = 0)
      /\ Position = Start(Following) - (Len(pipe) + Len(left))
  BY UnreadFacts DEF Position
<1>3. left # <<>> => Len(left) <= Len(begun[N].bytes)
  BY DEF HistoryOK
<1>4. Len(begun[N].bytes) \in Nat
  BY <1>1, LenProperties DEF WellFormed
<1>5. n = N \/ n < N
  BY <1>1
<1> HIDE DEF N
<1>6. CASE left = <<>>
  BY <1>1, <1>2, <1>6 DEF N
<1>7. CASE left # <<>>
  <2>1. Position \in Int /\ (n = N => Position < Start(n + 1))
    BY <1>1, <1>2, <1>7
  <2>2. n < N => Start(n + 1) <= Position + Len(pipe)
    <3>1. Position + Len(pipe) = Start(Following) - Len(left)
      BY <1>1, <1>2
    <3>2. Start(Following) - Len(left) >= Start(N)
      <4> DEFINE size == Len(begun[N].bytes)
      <4>1. /\ size \in Nat /\ Len(left) \in Nat /\ Start(N) \in Nat
            /\ Start(Following) = Start(N) + size /\ Len(left) <= size
        BY <1>1, <1>2, <1>3, <1>4, <1>7
      <4> HIDE DEF size
      <4>2. QED
        BY <4>1
    <3>3. QED
      BY <1>1, <1>2, <3>1, <3>2
  <2>3. n <= N - 1 <=> n < N
    BY <1>1
  <2>4. QED
    BY <1>1, <1>5, <1>7, <2>1, <2>2, <2>3 DEF N
<1>8. QED
  BY <1>6, <1>7

\* All events before a packet the reader has come to have been sent.
LEMMA EventsSent ==
  ASSUME DecoderAssumption, TypeOK, HistoryOK, NEW n \in 1 .. Following,
         n > 1 => LET whole == IF left = <<>> THEN Len(begun) ELSE Len(begun) - 1
                  IN n - 1 <= whole
  PROVE  Before(n) <= Len(sent)
<1> DEFINE whole == IF left = <<>> THEN Len(begun) ELSE Len(begun) - 1
<1>1. Len(sent) = Before(whole + 1) /\ (left # <<>> => begun # <<>>)
  BY DEF HistoryOK
<1>2. /\ Len(begun) \in Nat /\ Following = Len(begun) + 1 /\ Before(1) = 0
      /\ Len(sent) \in Nat
      /\ begun # <<>> => Len(begun) > 0
  BY HistoryFacts, LenProperties, SeqFacts DEF TypeOK, Before
<1>3. whole + 1 \in 1 .. Following
  BY <1>1, <1>2
<1>4. n = 1 \/ n <= whole + 1
  BY <1>2
<1> HIDE DEF whole
<1>5. QED
  BY <1>1, <1>2, <1>3, <1>4, HistoryFacts

LEMMA HistoryKept ==
  ASSUME UNCHANGED clientVars
  PROVE  /\ HistoryOK => HistoryOK'
         /\ Following' = Following
         /\ \A n : Start(n)' = Start(n) /\ Before(n)' = Before(n)
BY DEF clientVars, HistoryOK, Start, Before, Following

LEMMA StreamKept ==
  ASSUME UNCHANGED <<clientVars, pipe>>
  PROVE  /\ StreamOK => StreamOK'
         /\ Position' = Position
<1>1. Unread' = Unread /\ Following' = Following /\ begun' = begun
      /\ \A n : Start(n)' = Start(n)
  BY HistoryKept DEF Unread, clientVars
<1>2. Position' = Position
  BY <1>1 DEF Position
<1>3. QED
  BY <1>1, <1>2 DEF StreamOK

-----------------------------------------------------------------------------
(* The answers of the socket *)

\* Bytes of a packet, as a buffer.
BytesAt(bytes, n, size) == [i \in 1 .. size |-> bytes[n + i]]

LEMMA Sizes ==
  ASSUME DecoderAssumption, NEW f \in Fields
  PROVE  SizeOf(f) \in Nat \ {0} /\ Offset(f) \in Nat
BY DEF DecoderAssumption, Fields, SizeOf, Offset

\* In order, the reader is given the bytes of the field, and nothing else.
LEMMA AnswerInPacket ==
  ASSUME DecoderAssumption, AnswerOK, NEW n \in 1 .. Following, InPacket(n),
         NEW f \in Fields, Answered(f)
  PROVE  /\ n <= Len(begun)
         /\ Position = Start(n) + Offset(f) + SizeOf(f)
         /\ f # "type" => Decoded(begun[n].bytes, f)
         /\ \A S : \A v \in Values(S) : v = BytesAt(begun[n].bytes, Offset(f), SizeOf(f))
<1>1. pc = f /\ want = 0
  BY DEF Answered
<1>2. /\ n <= Len(begun)
      /\ Position = Start(n) + Offset(f) + SizeOf(f)
      /\ got.count = SizeOf(f)
      /\ \A i \in 1 .. SizeOf(f) : got.buf[i] = begun[n].bytes[Offset(f) + i]
      /\ f # "type" => Decoded(begun[n].bytes, f)
  BY <1>1 DEF InPacket, Fields
<1>3. DOMAIN got.buf = 1 .. SizeOf(f) /\ SizeOf(f) \in Nat
  BY Sizes DEF Answered, AnswerOK
<1>4. ASSUME NEW S, NEW v \in Values(S)
      PROVE  v = BytesAt(begun[n].bytes, Offset(f), SizeOf(f))
  <2>1. /\ v \in [1 .. SizeOf(f) -> S \cup {got.buf[i] : i \in DOMAIN got.buf}]
        /\ \A i \in 1 .. SizeOf(f) : IF i <= got.count THEN v[i] = got.buf[i] ELSE v[i] \in S
    BY <1>3 DEF Values
  <2>2. \A i \in 1 .. SizeOf(f) : v[i] = begun[n].bytes[Offset(f) + i]
    BY <1>2, <1>3, <2>1
  <2>3. QED
    BY <2>1, <2>2 DEF BytesAt
<1>5. QED
  BY <1>2, <1>4

LEMMA AnswerType ==
  ASSUME DecoderAssumption, AnswerOK, NEW f \in Fields, Answered(f),
         NEW S \in SUBSET Nat, NEW v \in Values(S)
  PROVE  v \in [1 .. SizeOf(f) -> Nat]
<1>1. /\ DOMAIN got.buf = 1 .. SizeOf(f)
      /\ got.count \in 0 .. SizeOf(f)
      /\ \A i \in 1 .. got.count : got.buf[i] \in Nat
  BY DEF Answered, AnswerOK
<1>2. /\ v \in [DOMAIN got.buf -> S \cup {got.buf[i] : i \in DOMAIN got.buf}]
      /\ \A i \in DOMAIN got.buf : IF i <= got.count THEN v[i] = got.buf[i] ELSE v[i] \in S
  BY DEF Values
<1>3. SizeOf(f) \in Nat
  BY Sizes
<1>4. ASSUME NEW i \in 1 .. SizeOf(f) PROVE v[i] \in Nat
  <2>1. CASE i <= got.count
    BY <1>1, <1>2, <1>3, <2>1
  <2>2. CASE i > got.count
    <3>1. v[i] \in S
      BY <1>1, <1>2, <1>3, <2>2
    <3>2. QED
      BY <3>1
  <2>3. QED
    BY <1>1, <1>3, <2>1, <2>2
<1>5. QED
  BY <1>1, <1>2, <1>4

LEMMA ByteTypes ==
  ASSUME DecoderAssumption, AnswerOK, NEW f \in Fields, Answered(f), SizeOf(f) = 1,
         NEW S \in SUBSET Nat, NEW b \in ByteValues(S)
  PROVE  b \in Nat
<1>1. PICK v \in Values(S) : b = v[1]
  BY DEF ByteValues
<1>2. v \in [1 .. 1 -> Nat]
  BY AnswerType
<1>3. QED
  BY <1>1, <1>2

LEMMA ByteInPacket ==
  ASSUME DecoderAssumption, AnswerOK, NEW n \in 1 .. Following, InPacket(n),
         NEW f \in Fields, Answered(f), SizeOf(f) = 1, NEW S, NEW b \in ByteValues(S)
  PROVE  b = begun[n].bytes[Offset(f) + 1]
<1>1. PICK v \in Values(S) : b = v[1]
  BY DEF ByteValues
<1>2. v = BytesAt(begun[n].bytes, Offset(f), 1)
  BY AnswerInPacket
<1>3. QED
  BY <1>1, <1>2 DEF BytesAt

-----------------------------------------------------------------------------
(* What the reader does next *)

LEMMA AsksFor ==
  ASSUME DecoderAssumption, NEW f \in Fields, ReadField(f)
  PROVE  /\ pc' = f /\ want' = SizeOf(f) /\ got' = Stream!NoAnswer
         /\ UNCHANGED <<clientVars, pipe, link, interrupted>>
         /\ AnswerOK'
<1>1. /\ pc' = f /\ want' = SizeOf(f) /\ got' = Stream!NoAnswer
      /\ UNCHANGED <<clientVars, pipe, link, interrupted>>
  BY DEF ReadField, Stream!Read, Stream!Writer
<1>2. got'.outcome # "data"
  BY <1>1 DEF Stream!NoAnswer
<1>3. QED
  BY <1>1, <1>2 DEF AnswerOK

LEMMA AsksInPacket ==
  ASSUME DecoderAssumption, NEW f \in Fields, ReadField(f), NEW n \in 1 .. Following,
         queued' = queued, Len(queued) = Before(n), IsPrefix(queued, sent),
         Position = Start(n) + Offset(f),
         f # "type" => n <= Len(begun) /\ Decoded(begun[n].bytes, f)'
  PROVE  InPacket(n)' /\ n \in 1 .. Following'
<1>1. /\ pc' = f /\ want' = SizeOf(f) /\ UNCHANGED <<clientVars, pipe>>
  BY AsksFor
<1>2. Position' = Position /\ Following' = Following /\ Start(n)' = Start(n)
      /\ Before(n)' = Before(n)
  BY <1>1, HistoryKept, StreamKept
<1>3. SizeOf(f) # 0
  BY Sizes
<1>4. begun' = begun /\ sent' = sent
  BY <1>1 DEF clientVars
<1>5. f # "check" /\ f # "type" => n <= Len(begun') /\ Decoded(begun[n].bytes, pc)'
  BY <1>1, <1>4 DEF Decoded
<1>6. QED
  BY <1>1, <1>2, <1>3, <1>4, <1>5 DEF InPacket, Fields

LEMMA OverInPacket ==
  ASSUME DecoderAssumption, TypeOK, PacketOver, NEW n \in 1 .. Following,
         Len(queued') = Before(n), IsPrefix(queued', sent), Position = Start(n)
  PROVE  InPacket(n)' /\ n \in 1 .. Following'
<1>1. pc' = "check" /\ UNCHANGED <<clientVars, pipe>>
  BY DEF PacketOver, streamVars
<1>2. Position' = Position /\ Following' = Following /\ Start(n)' = Start(n)
      /\ Before(n)' = Before(n) /\ sent' = sent
  BY <1>1, HistoryKept, StreamKept DEF clientVars
<1>3. pc' \notin Fields
  BY <1>1 DEF Fields
<1>4. QED
  BY <1>1, <1>2, <1>3 DEF InPacket

LEMMA QueueTypes ==
  ASSUME TypeOK, NEW e \in AllEvents, Queue(e)
  PROVE  queued' \in Seq(AllEvents)
BY AppendProperties DEF TypeOK, Queue

\* After the end of the stream: the events sent stay queued.
LEMMA QueueAtEnd ==
  ASSUME TypeOK, NEW e \in AllEvents, Queue(e), IsPrefix(sent, queued)
  PROVE  IsPrefix(sent, queued')
<1>1. sent \in Seq(AllEvents) /\ queued \in Seq(AllEvents) /\ queued' \in Seq(AllEvents)
  BY QueueTypes DEF TypeOK
<1>2. Len(sent) <= Len(queued) /\ \A i \in 1 .. Len(sent) : sent[i] = queued[i]
  BY <1>1, PrefixPointwise
<1>3. Len(sent) \in Nat /\ Len(queued) \in Nat
  BY <1>1, LenProperties
<1>4. CASE queued' = queued
  BY <1>4
<1>5. CASE queued' = Append(queued, e)
  <2>1. /\ Len(queued') = Len(queued) + 1
        /\ \A i \in 1 .. Len(queued) : queued'[i] = queued[i]
    BY <1>1, <1>5, AppendProperties
  <2>2. Len(sent) <= Len(queued') /\ \A i \in 1 .. Len(sent) : sent[i] = queued'[i]
    BY <1>2, <1>3, <2>1
  <2>3. QED
    BY <1>1, <2>2, PrefixPointwise
<1>6. QED
  BY <1>4, <1>5 DEF Queue

\* In order: when all of a packet is read, its event is the next that was sent.
LEMMA QueueInOrder ==
  ASSUME DecoderAssumption, TypeOK, HistoryOK,
         NEW n \in 1 .. Len(begun), Position = Start(n + 1),
         Len(queued) = Before(n), IsPrefix(queued, sent),
         NEW e \in AllEvents, begun[n].events = <<e>>, Queue(e)
  PROVE  Len(queued') = Before(n + 1) /\ IsPrefix(queued', sent)
<1> DEFINE whole == IF left = <<>> THEN Len(begun) ELSE Len(begun) - 1
<1>1. sent \in Seq(AllEvents) /\ queued \in Seq(AllEvents) /\ queued' \in Seq(AllEvents)
  BY QueueTypes DEF TypeOK
<1>2. queued' = Append(queued, e)
  BY DEF Queue
<1>3. /\ Len(begun) \in Nat /\ Following = Len(begun) + 1
      /\ Before(n) \in Nat /\ Before(n + 1) = Before(n) + 1
      /\ begun[n].count = Before(n + 1)
  <2>1. Len(<<e>>) = 1
    OBVIOUS
  <2>2. n \in 1 .. Following
    BY HistoryFacts
  <2>3. QED
    BY <2>1, <2>2, HistoryFacts
<1>4. n <= whole /\ n + 1 \in 1 .. Following
  <2>1. Position \in Int /\ (Position >= Start(n + 1) => n <= whole)
    BY WholePackets
  <2>2. QED
    BY <1>3, <2>1
<1>5. Before(n + 1) <= Len(sent) /\ Len(sent) \in Nat
  <2>1. (n + 1) - 1 = n
    OBVIOUS
  <2>2. QED
    BY <1>1, <1>4, <2>1, EventsSent, LenProperties
<1>6. sent[Before(n + 1)] = e
  <2>1. n \in 1 .. whole
    BY <1>4
  <2>2. begun[n].events # <<>> /\ begun[n].events[1] = e
    OBVIOUS
  <2>3. sent[begun[n].count] = begun[n].events[1]
    BY <2>1, <2>2 DEF HistoryOK
  <2>4. QED
    BY <1>3, <2>2, <2>3
<1>7. \A i \in 1 .. Len(queued) : queued[i] = sent[i]
  BY <1>1, PrefixPointwise
<1>8. /\ Len(queued') = Len(queued) + 1 /\ queued'[Len(queued) + 1] = e
      /\ \A i \in 1 .. Len(queued) : queued'[i] = queued[i]
  BY <1>1, <1>2, AppendProperties
<1>9. Len(queued') = Before(n + 1)
  BY <1>3, <1>8
<1>10. \A i \in 1 .. Len(queued') : queued'[i] = sent[i]
  BY <1>3, <1>6, <1>7, <1>8
<1>11. QED
  BY <1>1, <1>5, <1>9, <1>10, PrefixPointwise

\* A packet without an event.
LEMMA NothingToQueue ==
  ASSUME DecoderAssumption, TypeOK, HistoryOK, NEW n \in 1 .. Len(begun),
         begun[n].events = <<>>
  PROVE  Before(n + 1) = Before(n)
<1>1. Len(<<>>) = 0
  OBVIOUS
<1>2. Before(n) \in Nat
  <2>1. n \in 1 .. Following
    BY HistoryFacts
  <2>2. QED
    BY <2>1, HistoryFacts
<1>3. QED
  BY <1>1, <1>2, HistoryFacts

-----------------------------------------------------------------------------
(* The steps of the reader *)

\* What every step of the reader leaves alone.
LEMMA ReaderKeeps ==
  ASSUME DecoderInv, UNCHANGED <<clientVars, pipe, link>>,
         pc' \in Fields \cup {"check", "done"}, fields' \in Seq(Doubles),
         queued' \in Seq(AllEvents), interrupted' \in BOOLEAN
  PROVE  TypeOK' /\ HistoryOK' /\ StreamOK'
BY HistoryKept, StreamKept DEF DecoderInv, TypeOK, clientVars

LEMMA StillAtEnd ==
  ASSUME AtEnd, UNCHANGED <<clientVars, pipe, link>>, IsPrefix(sent, queued')
  PROVE  AtEnd'
BY DEF AtEnd, clientVars

\* Who has an answer has not given up.
LEMMA AnsweredIsNotStopping ==
  ASSUME NEW f \in Fields, Answered(f)
  PROVE  ~Stopping
BY DEF Answered, Stopping, Fields, Stream!Error

LEMMA CheckStep ==
  ASSUME DecoderAssumption, DecoderInv, Check
  PROVE  DecoderInv'
<1>1. pc = "check" /\ fields' = fields /\ queued' = queued
  BY DEF Check
<1>2. ~Stopping /\ fields = <<>> /\ want = 0
  BY <1>1 DEF Stopping, Fields, DecoderInv, FieldsInHand, AnswerOK
<1>3. CASE ~interrupted
  <2>1. ReadField("type") /\ "type" \in Fields
    BY <1>3 DEF Check, Fields
  <2>2. /\ pc' = "type" /\ UNCHANGED <<clientVars, pipe, link, interrupted>> /\ AnswerOK'
    BY <2>1, AsksFor
  <2>3. TypeOK' /\ HistoryOK' /\ StreamOK'
    BY <1>1, <2>1, <2>2, ReaderKeeps DEF DecoderInv, TypeOK
  <2>4. FieldsInHand'
    BY <1>1, <1>2, <2>2 DEF FieldsInHand
  <2>5. ASSUME NEW n \in 1 .. Following, InPacket(n)
        PROVE  InPacket(n)' /\ n \in 1 .. Following'
    <3>1. Position = Start(n) /\ Offset("type") = 0 /\ Len(queued) = Before(n)
          /\ IsPrefix(queued, sent) /\ Start(n) \in Nat
      BY <1>1, <2>5, HistoryFacts DEF InPacket, Fields, Offset, DecoderInv
    <3>2. Position = Start(n) + Offset("type")
      BY <3>1
    <3>3. QED
      BY <1>1, <2>1, <3>1, <3>2, AsksInPacket
  <2>6. AtEnd => AtEnd'
    BY <1>1, <2>2, StillAtEnd DEF AtEnd
  <2>7. pc' # "done"
    BY <2>2
  <2>8. QED
    BY <1>2, <2>2, <2>3, <2>4, <2>5, <2>6, <2>7 DEF DecoderInv
<1>4. CASE interrupted
  <2>1. pc' = "done" /\ UNCHANGED <<streamVars, clientVars, interrupted>>
    BY <1>4 DEF Check
  <2>2. UNCHANGED <<pipe, link, want, got>>
    BY <2>1 DEF streamVars
  <2>3. TypeOK' /\ HistoryOK' /\ StreamOK'
    BY <1>1, <2>1, <2>2, ReaderKeeps DEF DecoderInv, TypeOK
  <2>4. AnswerOK' /\ FieldsInHand'
    BY <1>2, <2>1, <2>2 DEF AnswerOK, FieldsInHand, Fields
  <2>5. ASSUME NEW n \in 1 .. Following, InPacket(n)
        PROVE  Stopping'
    BY <1>1, <1>2, <2>1, <2>2, <2>5 DEF InPacket, Stopping, clientVars
  <2>6. AtEnd => AtEnd'
    BY <1>1, <2>1, <2>2, StillAtEnd DEF AtEnd
  <2>7. interrupted'
    BY <1>4, <2>1
  <2>8. QED
    BY <1>2, <2>3, <2>4, <2>5, <2>6, <2>7 DEF DecoderInv
<1>5. QED
  BY <1>3, <1>4

\* The next field of the packet: the reader asks for the bytes that follow.
LEMMA NextField ==
  ASSUME DecoderAssumption, DecoderInv, NEW f \in Fields, NEW g \in Fields \ {"type"},
         Answered(f), ReadField(g), queued' = queued,
         fields' \in Seq(Doubles), FieldsInHand',
         \A n \in 1 .. Len(begun) : InPacket(n) =>
           Position = Start(n) + Offset(g) /\ Decoded(begun[n].bytes, g)'
  PROVE  DecoderInv'
<1>1. /\ pc' = g /\ UNCHANGED <<clientVars, pipe, link, interrupted>> /\ AnswerOK'
  BY AsksFor
<1>2. TypeOK' /\ HistoryOK' /\ StreamOK'
  BY <1>1, ReaderKeeps DEF DecoderInv, TypeOK
<1>3. ASSUME NEW n \in 1 .. Following, InPacket(n)
      PROVE  InPacket(n)' /\ n \in 1 .. Following'
  <2>1. n \in 1 .. Len(begun)
    BY <1>3, AnswerInPacket, HistoryFacts DEF DecoderInv
  <2>2. Position = Start(n) + Offset(g) /\ Decoded(begun[n].bytes, g)'
    BY <1>3, <2>1
  <2>3. Len(queued) = Before(n) /\ IsPrefix(queued, sent)
    BY <1>3 DEF InPacket
  <2>4. QED
    BY <2>1, <2>2, <2>3, AsksInPacket
<1>4. AtEnd => AtEnd'
  BY <1>1, StillAtEnd DEF AtEnd
<1>5. pc' # "done" /\ ~Stopping
  BY <1>1, AnsweredIsNotStopping DEF Fields
<1>6. QED
  BY <1>1, <1>2, <1>3, <1>4, <1>5 DEF DecoderInv

\* The last field of the packet: the reader is between two packets.
LEMMA LastField ==
  ASSUME DecoderAssumption, DecoderInv, NEW f \in Fields, Answered(f), PacketOver,
         fields' = <<>>, queued' \in Seq(AllEvents),
         AtEnd => IsPrefix(sent, queued'),
         \A n \in 1 .. Len(begun) : InPacket(n) =>
           Position = Start(n + 1) /\ Len(queued') = Before(n + 1) /\ IsPrefix(queued', sent)
  PROVE  DecoderInv'
<1>1. pc' = "check" /\ UNCHANGED <<clientVars, pipe, link, want, got, interrupted>>
  BY DEF PacketOver, streamVars
<1>2. TypeOK' /\ HistoryOK' /\ StreamOK'
  <2>1. fields' \in Seq(Doubles)
    OBVIOUS
  <2>2. QED
    BY <1>1, <2>1, ReaderKeeps DEF DecoderInv, TypeOK
<1>3. AnswerOK' /\ FieldsInHand'
  BY <1>1 DEF AnswerOK, FieldsInHand, Fields, Answered
<1>4. ASSUME NEW n \in 1 .. Following, InPacket(n)
      PROVE  \E m \in 1 .. Following' : InPacket(m)'
  <2>1. n \in 1 .. Len(begun) /\ n + 1 \in 1 .. Following
    BY <1>4, AnswerInPacket, HistoryFacts DEF DecoderInv
  <2>2. Position = Start(n + 1) /\ Len(queued') = Before(n + 1) /\ IsPrefix(queued', sent)
    BY <1>4, <2>1
  <2>3. InPacket(n + 1)' /\ n + 1 \in 1 .. Following'
    BY <2>1, <2>2, OverInPacket DEF DecoderInv
  <2>4. QED
    BY <2>3
<1>5. AtEnd => AtEnd'
  BY <1>1, StillAtEnd
<1>6. pc' # "done" /\ ~Stopping
  BY <1>1, AnsweredIsNotStopping
<1>7. QED
  BY <1>1, <1>2, <1>3, <1>4, <1>5, <1>6 DEF DecoderInv

LEMMA GivesUp ==
  ASSUME DecoderAssumption, DecoderInv, want = 0, GiveUp
  PROVE  DecoderInv'
<1>1. /\ pc' = "done" /\ interrupted' = TRUE
      /\ UNCHANGED <<clientVars, pipe, link, want, got, fields, queued>>
  BY DEF GiveUp, streamVars
<1>2. TypeOK' /\ HistoryOK' /\ StreamOK'
  BY <1>1, ReaderKeeps DEF DecoderInv, TypeOK
<1>3. AnswerOK' /\ FieldsInHand'
  BY <1>1 DEF AnswerOK, FieldsInHand, Fields
<1>4. ASSUME IsPrefix(queued, sent) PROVE Stopping'
  BY <1>1, <1>4 DEF Stopping, clientVars
<1>5. (\E n \in 1 .. Following : InPacket(n)) => IsPrefix(queued, sent)
  BY DEF InPacket
<1>6. Stopping => IsPrefix(queued, sent)
  BY DEF Stopping
<1>7. AtEnd => AtEnd'
  BY <1>1, StillAtEnd DEF AtEnd
<1>8. interrupted'
  BY <1>1
<1>9. QED
  BY <1>2, <1>3, <1>4, <1>5, <1>6, <1>7, <1>8 DEF DecoderInv

LEMMA TypeStep ==
  ASSUME DecoderAssumption, DecoderInv, Type
  PROVE  DecoderInv'
<1> USE DEF MOUSE_EVENT, KEYBOARD_EVENT, REQUEST_SCREEN_REFRESH
<1>1. Answered("type") /\ want = 0 /\ fields' = fields /\ queued' = queued
      /\ "type" \in Fields /\ SizeOf("type") = 1 /\ Offset("type") = 0
  BY DEF Type, Answered, Fields, SizeOf, Offset
<1>2. fields = <<>> /\ fields' \in Seq(Doubles) /\ queued' \in Seq(AllEvents)
  BY <1>1 DEF Answered, DecoderInv, FieldsInHand, TypeOK
<1>3. PICK b \in ByteValues(Leftover) :
             \/ b = MOUSE_EVENT /\ ReadField("x")
             \/ b = KEYBOARD_EVENT /\ ReadField("keyboardEventType")
             \/ b = REQUEST_SCREEN_REFRESH /\ PacketOver
             \/ b \notin {MOUSE_EVENT, KEYBOARD_EVENT, REQUEST_SCREEN_REFRESH} /\ GiveUp
  BY DEF Type
<1>4. ASSUME NEW n \in 1 .. Len(begun), InPacket(n)
      PROVE  /\ b = begun[n].bytes[1] /\ Position = Start(n) + 1
             /\ Start(n) \in Nat /\ Start(n + 1) = Start(n) + Len(begun[n].bytes)
             /\ WellFormed(begun[n].bytes, begun[n].events)
             /\ Len(queued) = Before(n) /\ IsPrefix(queued, sent)
  <2>1. n \in 1 .. Following
    BY HistoryFacts DEF DecoderInv
  <2>2. /\ Start(n) \in Nat /\ Start(n + 1) = Start(n) + Len(begun[n].bytes)
        /\ WellFormed(begun[n].bytes, begun[n].events)
    BY <2>1, HistoryFacts DEF DecoderInv
  <2>3. b = begun[n].bytes[Offset("type") + 1]
    BY <1>1, <1>4, <2>1, ByteInPacket DEF DecoderInv
  <2>4. Position = Start(n) + Offset("type") + SizeOf("type")
    BY <1>1, <1>4, <2>1, AnswerInPacket DEF DecoderInv
  <2>5. QED
    BY <1>1, <1>4, <2>2, <2>3, <2>4 DEF InPacket
<1>5. CASE b = MOUSE_EVENT /\ ReadField("x")
  <2>1. "x" \in Fields \ {"type"} /\ Offset("x") = 1 /\ pc' = "x"
    BY <1>5 DEF Fields, Offset, ReadField
  <2>2. FieldsInHand'
    BY <1>1, <1>2, <2>1 DEF FieldsInHand
  <2>3. ASSUME NEW n \in 1 .. Len(begun), InPacket(n)
        PROVE  Position = Start(n) + Offset("x") /\ Decoded(begun[n].bytes, "x")'
    <3>1. begun' = begun
      BY <1>5 DEF ReadField, clientVars
    <3>2. QED
      BY <1>4, <1>5, <2>1, <2>3, <3>1 DEF Decoded
  <2>4. QED
    BY <1>1, <1>2, <1>5, <2>1, <2>2, <2>3, NextField
<1>6. CASE b = KEYBOARD_EVENT /\ ReadField("keyboardEventType")
  <2> DEFINE g == "keyboardEventType"
  <2>1. g \in Fields \ {"type"} /\ Offset(g) = 1 /\ pc' = g
    BY <1>6 DEF Fields, Offset, ReadField
  <2>2. FieldsInHand'
    BY <1>1, <1>2, <2>1 DEF FieldsInHand
  <2>3. ASSUME NEW n \in 1 .. Len(begun), InPacket(n)
        PROVE  Position = Start(n) + Offset(g) /\ Decoded(begun[n].bytes, g)'
    <3>1. begun' = begun
      BY <1>6 DEF ReadField, clientVars
    <3>2. QED
      BY <1>4, <1>6, <2>1, <2>3, <3>1 DEF Decoded
  <2>4. QED
    BY <1>1, <1>2, <1>6, <2>1, <2>2, <2>3, NextField
<1>7. CASE b = REQUEST_SCREEN_REFRESH /\ PacketOver
  <2>1. ASSUME NEW n \in 1 .. Len(begun), InPacket(n)
        PROVE  Position = Start(n + 1) /\ Len(queued') = Before(n + 1) /\ IsPrefix(queued', sent)
    <3>1. Len(begun[n].bytes) = 1 /\ begun[n].events = <<>>
      BY <1>4, <1>7, <2>1 DEF WellFormed
    <3>2. Before(n + 1) = Before(n)
      BY <3>1, NothingToQueue DEF DecoderInv
    <3>3. QED
      BY <1>1, <1>4, <2>1, <3>1, <3>2
  <2>2. AtEnd => IsPrefix(sent, queued')
    BY <1>1 DEF AtEnd
  <2>3. QED
    BY <1>1, <1>2, <1>7, <2>1, <2>2, LastField
<1>8. CASE b \notin {MOUSE_EVENT, KEYBOARD_EVENT, REQUEST_SCREEN_REFRESH} /\ GiveUp
  BY <1>1, <1>8, GivesUp
<1>9. QED
  BY <1>3, <1>5, <1>6, <1>7, <1>8

\* The value of a coordinate, in order and at the end of the stream.
LEMMA CoordinateValue ==
  ASSUME DecoderAssumption, DecoderInv, NEW f \in {"x", "y"}, Answered(f), NEW v \in Values(Leftover)
  PROVE  /\ f \in Fields /\ SizeOf(f) = CoordinateSize /\ v \in Doubles
         /\ \A n \in 1 .. Len(begun) : InPacket(n) =>
              /\ Position = Start(n) + Offset(f) + CoordinateSize
              /\ Decoded(begun[n].bytes, f)
              /\ \A i \in 1 .. CoordinateSize : v[i] = begun[n].bytes[Offset(f) + i]
<1>1. f \in Fields /\ SizeOf(f) = CoordinateSize /\ f # "type"
  BY DEF Fields, SizeOf
<1>2. Leftover \in SUBSET Nat
  BY DEF DecoderAssumption
<1>3. v \in Doubles
  BY <1>1, <1>2, AnswerType DEF Doubles, DecoderInv
<1>4. ASSUME NEW n \in 1 .. Len(begun), InPacket(n)
      PROVE  /\ Position = Start(n) + Offset(f) + CoordinateSize
             /\ Decoded(begun[n].bytes, f)
             /\ \A i \in 1 .. CoordinateSize : v[i] = begun[n].bytes[Offset(f) + i]
  <2>1. n \in 1 .. Following
    BY HistoryFacts DEF DecoderInv
  <2>2. /\ Position = Start(n) + Offset(f) + SizeOf(f)
        /\ Decoded(begun[n].bytes, f)
        /\ v = BytesAt(begun[n].bytes, Offset(f), SizeOf(f))
    BY <1>1, <1>4, <2>1, AnswerInPacket DEF DecoderInv
  <2>3. QED
    BY <1>1, <2>2 DEF BytesAt
<1>5. QED
  BY <1>1, <1>3, <1>4

LEMMA XStep ==
  ASSUME DecoderAssumption, DecoderInv, Coordinate("x", "y")
  PROVE  DecoderInv'
<1>1. Answered("x") /\ pc = "x" /\ ReadField("y") /\ queued' = queued
  BY DEF Coordinate, Answered
<1>2. PICK v \in Values(Leftover) : fields' = Append(fields, v)
  BY DEF Coordinate
<1>3. /\ "x" \in Fields /\ "y" \in Fields \ {"type"} /\ pc' = "y" /\ begun' = begun
      /\ Offset("x") = 1 /\ Offset("y") = 1 + CoordinateSize /\ CoordinateSize \in Nat
  BY <1>1 DEF Fields, Offset, ReadField, clientVars, DecoderAssumption
<1>4. v \in Doubles
  BY <1>1, CoordinateValue
<1>5. fields = <<>>
  BY <1>1 DEF DecoderInv, FieldsInHand
<1>6. fields' \in Seq(Doubles) /\ Len(fields') = 1 /\ fields'[1] = v
  BY <1>2, <1>4, <1>5
<1>7. FieldsInHand'
  BY <1>3, <1>6 DEF FieldsInHand
<1>8. ASSUME NEW n \in 1 .. Len(begun), InPacket(n)
      PROVE  Position = Start(n) + Offset("y") /\ Decoded(begun[n].bytes, "y")'
  <2>1. /\ Position = Start(n) + Offset("x") + CoordinateSize
        /\ Decoded(begun[n].bytes, "x")
        /\ \A i \in 1 .. CoordinateSize : v[i] = begun[n].bytes[Offset("x") + i]
    BY <1>1, <1>8, CoordinateValue
  <2>2. Start(n) \in Nat
    <3>1. n \in 1 .. Following
      BY HistoryFacts DEF DecoderInv
    <3>2. QED
      BY <3>1, HistoryFacts DEF DecoderInv
  <2>3. Position = Start(n) + Offset("y")
    BY <1>3, <2>1, <2>2
  <2>4. Decoded(begun[n].bytes, "y")'
    BY <1>3, <1>6, <2>1 DEF Decoded
  <2>5. QED
    BY <2>3, <2>4
<1>9. QED
  BY <1>1, <1>3, <1>6, <1>7, <1>8, NextField

LEMMA YStep ==
  ASSUME DecoderAssumption, DecoderInv, Coordinate("y", "button")
  PROVE  DecoderInv'
<1>1. Answered("y") /\ pc = "y" /\ ReadField("button") /\ queued' = queued
  BY DEF Coordinate, Answered
<1>2. PICK v \in Values(Leftover) : fields' = Append(fields, v)
  BY DEF Coordinate
<1>3. /\ "y" \in Fields /\ "button" \in Fields \ {"type"} /\ pc' = "button" /\ begun' = begun
      /\ Offset("y") = 1 + CoordinateSize /\ Offset("button") = 1 + 2 * CoordinateSize
      /\ CoordinateSize \in Nat
  BY <1>1 DEF Fields, Offset, ReadField, clientVars, DecoderAssumption
<1>4. v \in Doubles
  BY <1>1, CoordinateValue
<1>5. fields \in Seq(Doubles) /\ Len(fields) = 1
  BY <1>1 DEF DecoderInv, FieldsInHand, TypeOK
<1>6. fields' \in Seq(Doubles) /\ Len(fields') = 2 /\ fields'[1] = fields[1] /\ fields'[2] = v
  <2>1. /\ Append(fields, v) \in Seq(Doubles)
        /\ Len(Append(fields, v)) = Len(fields) + 1
        /\ \A i \in 1 .. Len(fields) : Append(fields, v)[i] = fields[i]
        /\ Append(fields, v)[Len(fields) + 1] = v
    <3>1. fields \in Seq(Doubles)
      BY <1>5
    <3>2. QED
      BY <1>4, <3>1, AppendProperties
  <2>2. QED
    BY <1>2, <1>5, <2>1
<1>7. FieldsInHand'
  BY <1>3, <1>6 DEF FieldsInHand
<1>8. ASSUME NEW n \in 1 .. Len(begun), InPacket(n)
      PROVE  Position = Start(n) + Offset("button") /\ Decoded(begun[n].bytes, "button")'
  <2>1. /\ Position = Start(n) + Offset("y") + CoordinateSize
        /\ Decoded(begun[n].bytes, "y")
        /\ \A i \in 1 .. CoordinateSize : v[i] = begun[n].bytes[Offset("y") + i]
    BY <1>1, <1>8, CoordinateValue
  <2>2. Start(n) \in Nat
    <3>1. n \in 1 .. Following
      BY HistoryFacts DEF DecoderInv
    <3>2. QED
      BY <3>1, HistoryFacts DEF DecoderInv
  <2>3. Position = Start(n) + Offset("button")
    BY <1>3, <2>1, <2>2
  <2>4. Decoded(begun[n].bytes, "button")'
    BY <1>3, <1>6, <2>1 DEF Decoded
  <2>5. QED
    BY <2>3, <2>4
<1>9. QED
  BY <1>1, <1>3, <1>6, <1>7, <1>8, NextField

LEMMA ButtonStep ==
  ASSUME DecoderAssumption, DecoderInv, Button
  PROVE  DecoderInv'
<1>1. /\ Answered("button") /\ pc = "button" /\ fields' = <<>> /\ PacketOver
      /\ "button" \in Fields /\ SizeOf("button") = 1
      /\ Offset("button") = 1 + 2 * CoordinateSize /\ CoordinateSize \in Nat
  BY DEF Button, Answered, Fields, SizeOf, Offset, DecoderAssumption
<1>2. PICK b \in ByteValues(Leftover) : Queue(MouseEvent(fields[1], fields[2], b))
  BY DEF Button
<1> DEFINE e == MouseEvent(fields[1], fields[2], b)
<1>3. fields \in Seq(Doubles) /\ Len(fields) = 2 /\ fields[1] \in Doubles /\ fields[2] \in Doubles
  <2>1. fields \in Seq(Doubles) /\ Len(fields) = 2
    BY <1>1 DEF DecoderInv, TypeOK, FieldsInHand
  <2>2. QED
    BY <2>1, ElementOfSeq
<1>4. b \in Nat
  BY <1>1, ByteTypes DEF DecoderInv, DecoderAssumption
<1>5. e \in AllEvents
  BY <1>3, <1>4 DEF MouseEvent, AllEvents
<1>6. ASSUME NEW n \in 1 .. Len(begun), InPacket(n)
      PROVE  Position = Start(n + 1) /\ Len(queued') = Before(n + 1) /\ IsPrefix(queued', sent)
  <2> DEFINE bytes == begun[n].bytes
  <2>1. n \in 1 .. Following
    BY HistoryFacts DEF DecoderInv
  <2>2. /\ Start(n) \in Nat /\ Start(n + 1) = Start(n) + Len(bytes)
        /\ WellFormed(bytes, begun[n].events)
    BY <2>1, HistoryFacts DEF DecoderInv
  <2>3. b = bytes[Offset("button") + 1]
    BY <1>1, <1>6, <2>1, ByteInPacket DEF DecoderInv
  <2>4. /\ Position = Start(n) + Offset("button") + SizeOf("button")
        /\ Decoded(bytes, "button")
    BY <1>1, <1>6, <2>1, AnswerInPacket DEF DecoderInv
  <2> HIDE DEF bytes
  <2>5. /\ bytes[1] = MOUSE_EVENT
        /\ \A i \in 1 .. CoordinateSize : fields[1][i] = bytes[1 + i]
        /\ \A i \in 1 .. CoordinateSize : fields[2][i] = bytes[1 + CoordinateSize + i]
    BY <2>4 DEF Decoded
  <2>6. fields[1] = DoubleAt(bytes, 1) /\ fields[2] = DoubleAt(bytes, 1 + CoordinateSize)
    BY <1>3, <2>5 DEF DoubleAt, Doubles
  <2>7. /\ Len(bytes) = 2 + 2 * CoordinateSize
        /\ begun[n].events = <<MouseEvent(DoubleAt(bytes, 1), DoubleAt(bytes, 1 + CoordinateSize),
                                          bytes[2 + 2 * CoordinateSize])>>
    BY <2>2, <2>5 DEF WellFormed
  <2>8. Offset("button") + 1 = 2 + 2 * CoordinateSize
    BY <1>1
  <2>9. begun[n].events = <<e>>
    BY <2>3, <2>6, <2>7, <2>8
  <2>10. Position = Start(n + 1)
    BY <1>1, <2>2, <2>4, <2>7
  <2>11. Len(queued) = Before(n) /\ IsPrefix(queued, sent)
    BY <1>6 DEF InPacket
  <2> HIDE DEF e
  <2>12. QED
    BY <1>2, <1>5, <2>9, <2>10, <2>11, QueueInOrder DEF DecoderInv, e
<1>7. AtEnd => IsPrefix(sent, queued')
  BY <1>2, <1>5, QueueAtEnd DEF AtEnd, DecoderInv
<1>8. queued' \in Seq(AllEvents)
  BY <1>2, <1>5, QueueTypes DEF DecoderInv
<1>9. QED
  BY <1>1, <1>6, <1>7, <1>8, LastField

LEMMA KeyboardEventTypeStep ==
  ASSUME DecoderAssumption, DecoderInv, KeyboardEventType
  PROVE  DecoderInv'
<1> USE DEF SINGLE_KEY, COMBINATION_KEY, STRING_KEY
<1> DEFINE f == "keyboardEventType"
<1>1. Answered(f) /\ want = 0 /\ fields' = fields /\ queued' = queued
      /\ f \in Fields /\ SizeOf(f) = 1 /\ Offset(f) = 1
  BY DEF KeyboardEventType, Answered, Fields, SizeOf, Offset
<1>2. fields = <<>> /\ fields' \in Seq(Doubles) /\ queued' \in Seq(AllEvents)
  BY <1>1 DEF Answered, DecoderInv, FieldsInHand, TypeOK
<1>3. PICK b \in ByteValues({0}) :
             \/ b = SINGLE_KEY /\ ReadField("keyCode")
             \/ b \in {COMBINATION_KEY, STRING_KEY} /\ PacketOver
             \/ b \notin {SINGLE_KEY, COMBINATION_KEY, STRING_KEY} /\ GiveUp
  BY DEF KeyboardEventType
<1>4. ASSUME NEW n \in 1 .. Len(begun), InPacket(n)
      PROVE  /\ b = begun[n].bytes[2] /\ Position = Start(n) + 2
             /\ begun[n].bytes[1] = KEYBOARD_EVENT
             /\ Start(n) \in Nat /\ Start(n + 1) = Start(n) + Len(begun[n].bytes)
             /\ WellFormed(begun[n].bytes, begun[n].events)
             /\ Len(queued) = Before(n) /\ IsPrefix(queued, sent)
  <2>1. n \in 1 .. Following
    BY HistoryFacts DEF DecoderInv
  <2>2. /\ Start(n) \in Nat /\ Start(n + 1) = Start(n) + Len(begun[n].bytes)
        /\ WellFormed(begun[n].bytes, begun[n].events)
    BY <2>1, HistoryFacts DEF DecoderInv
  <2>3. b = begun[n].bytes[Offset(f) + 1]
    BY <1>1, <1>4, <2>1, ByteInPacket DEF DecoderInv
  <2>4. /\ Position = Start(n) + Offset(f) + SizeOf(f)
        /\ Decoded(begun[n].bytes, f)
    BY <1>1, <1>4, <2>1, AnswerInPacket DEF DecoderInv
  <2>5. begun[n].bytes[1] = KEYBOARD_EVENT
    BY <2>4 DEF Decoded
  <2>6. QED
    BY <1>1, <1>4, <2>2, <2>3, <2>4, <2>5 DEF InPacket
<1>5. CASE b = SINGLE_KEY /\ ReadField("keyCode")
  <2> DEFINE g == "keyCode"
  <2>1. g \in Fields \ {"type"} /\ Offset(g) = 2 /\ pc' = g
    BY <1>5 DEF Fields, Offset, ReadField
  <2>2. FieldsInHand'
    BY <1>1, <1>2, <2>1 DEF FieldsInHand
  <2>3. ASSUME NEW n \in 1 .. Len(begun), InPacket(n)
        PROVE  Position = Start(n) + Offset(g) /\ Decoded(begun[n].bytes, g)'
    <3>1. begun' = begun
      BY <1>5 DEF ReadField, clientVars
    <3>2. QED
      BY <1>4, <1>5, <2>1, <2>3, <3>1 DEF Decoded
  <2>4. QED
    BY <1>1, <1>2, <1>5, <2>1, <2>2, <2>3, NextField
<1>6. CASE b \in {COMBINATION_KEY, STRING_KEY} /\ PacketOver
  <2>1. ASSUME NEW n \in 1 .. Len(begun), InPacket(n)
        PROVE  Position = Start(n + 1) /\ Len(queued') = Before(n + 1) /\ IsPrefix(queued', sent)
    <3>1. Len(begun[n].bytes) = 2 /\ begun[n].events = <<>>
      BY <1>4, <1>6, <2>1 DEF WellFormed
    <3>2. Before(n + 1) = Before(n)
      BY <3>1, NothingToQueue DEF DecoderInv
    <3>3. QED
      BY <1>1, <1>4, <2>1, <3>1, <3>2
  <2>2. AtEnd => IsPrefix(sent, queued')
    BY <1>1 DEF AtEnd
  <2>3. QED
    BY <1>1, <1>2, <1>6, <2>1, <2>2, LastField
<1>7. CASE b \notin {SINGLE_KEY, COMBINATION_KEY, STRING_KEY} /\ GiveUp
  BY <1>1, <1>7, GivesUp
<1>8. QED
  BY <1>3, <1>5, <1>6, <1>7

LEMMA KeyCodeStep ==
  ASSUME DecoderAssumption, DecoderInv, KeyCode
  PROVE  DecoderInv'
<1> DEFINE f == "keyCode"
<1>1. /\ Answered(f) /\ pc = f /\ fields' = fields /\ PacketOver
      /\ f \in Fields /\ SizeOf(f) = 1 /\ Offset(f) = 2
  BY DEF KeyCode, Answered, Fields, SizeOf, Offset
<1>2. fields' = <<>>
  BY <1>1 DEF DecoderInv, FieldsInHand
<1>3. PICK k \in ByteValues({0}) : Queue(KeyEvent(k))
  BY DEF KeyCode
<1>4. k \in Nat
  <2>1. {0} \in SUBSET Nat
    OBVIOUS
  <2>2. QED
    BY <1>1, <2>1, ByteTypes DEF DecoderInv
<1>5. KeyEvent(k) \in AllEvents
  BY <1>4 DEF KeyEvent, AllEvents
<1>6. ASSUME NEW n \in 1 .. Len(begun), InPacket(n)
      PROVE  Position = Start(n + 1) /\ Len(queued') = Before(n + 1) /\ IsPrefix(queued', sent)
  <2>1. n \in 1 .. Following
    BY HistoryFacts DEF DecoderInv
  <2>2. /\ Start(n) \in Nat /\ Start(n + 1) = Start(n) + Len(begun[n].bytes)
        /\ WellFormed(begun[n].bytes, begun[n].events)
    BY <2>1, HistoryFacts DEF DecoderInv
  <2>3. k = begun[n].bytes[3]
    <3>1. k = begun[n].bytes[Offset(f) + 1]
      BY <1>1, <1>6, <2>1, ByteInPacket DEF DecoderInv
    <3>2. QED
      BY <1>1, <3>1
  <2>4. /\ Position = Start(n) + Offset(f) + SizeOf(f)
        /\ Decoded(begun[n].bytes, f)
    BY <1>1, <1>6, <2>1, AnswerInPacket DEF DecoderInv
  <2>5. begun[n].bytes[1] = KEYBOARD_EVENT /\ begun[n].bytes[2] = SINGLE_KEY
    BY <2>4 DEF Decoded
  <2>6. Len(begun[n].bytes) = 3 /\ begun[n].events = <<KeyEvent(k)>>
    BY <2>2, <2>3, <2>5 DEF WellFormed
  <2>7. Position = Start(n + 1)
    BY <1>1, <2>2, <2>4, <2>6
  <2>8. Len(queued) = Before(n) /\ IsPrefix(queued, sent)
    BY <1>6 DEF InPacket
  <2>9. QED
    BY <1>3, <1>5, <2>6, <2>7, <2>8, QueueInOrder DEF DecoderInv
<1>7. AtEnd => IsPrefix(sent, queued')
  BY <1>3, <1>5, QueueAtEnd DEF AtEnd, DecoderInv
<1>8. queued' \in Seq(AllEvents)
  BY <1>3, <1>5, QueueTypes DEF DecoderInv
<1>9. QED
  BY <1>1, <1>2, <1>6, <1>7, <1>8, LastField

LEMMA ReaderSteps ==
  ASSUME DecoderAssumption, DecoderInv, Reader
  PROVE  DecoderInv'
<1>1. CASE ReadFails
  <2>1. want = 0 /\ GiveUp
    BY <1>1 DEF ReadFails, DecoderInv, AnswerOK, Stream!Error, Stream!NoAnswer
  <2>2. QED
    BY <2>1, GivesUp
<1>2. QED
  BY <1>1, CheckStep, TypeStep, XStep, YStep, ButtonStep, KeyboardEventTypeStep, KeyCodeStep
  DEF Reader

-----------------------------------------------------------------------------
(* The steps of the client, of the link and of the handler *)

LEMMA PacketRecord ==
  ASSUME DecoderAssumption, NEW p \in Packets
  PROVE  p = Packet(p.bytes, p.events) /\ WellFormed(p.bytes, p.events)
<1>1. \E b, e : p = Packet(b, e)
  BY PacketCases DEF MousePacket, KeyPacket
<1>2. p = Packet(p.bytes, p.events)
  BY <1>1 DEF Packet
<1>3. QED
  BY <1>2, PacketKinds

LEMMA EnvironmentKeeps ==
  ASSUME DecoderAssumption, DecoderInv, AtEnd => link' = link,
         link' \in {"up", "eof", "reset"}, interrupted' \in BOOLEAN,
         interrupted => interrupted',
         UNCHANGED <<pipe, want, got, clientVars, pc, fields, queued>>
  PROVE  DecoderInv'
<1>1. /\ UNCHANGED clientVars /\ UNCHANGED <<clientVars, pipe>>
      /\ begun' = begun /\ left' = left /\ sent' = sent
  BY DEF clientVars
<1>2. HistoryOK' /\ Following' = Following
      /\ \A n : Start(n)' = Start(n) /\ Before(n)' = Before(n)
  BY <1>1, HistoryKept DEF DecoderInv
<1>3. StreamOK' /\ Position' = Position
  BY <1>1, StreamKept DEF DecoderInv
<1>4. TypeOK'
  BY <1>1 DEF DecoderInv, TypeOK
<1>5. AnswerOK' /\ FieldsInHand'
  BY <1>1 DEF DecoderInv, AnswerOK, FieldsInHand
<1>6. ASSUME NEW n \in 1 .. Following, InPacket(n)
      PROVE  InPacket(n)' /\ n \in 1 .. Following'
  <2>1. Decoded(begun[n].bytes, pc) => Decoded(begun[n].bytes, pc)'
    BY <1>1 DEF Decoded
  <2>2. pc' \in Fields \ {"type"} => n <= Len(begun') /\ Decoded(begun[n].bytes, pc)'
    BY <1>1, <1>6, <2>1 DEF InPacket
  <2>3. QED
    BY <1>1, <1>2, <1>3, <1>6, <2>2 DEF InPacket
<1>7. (AtEnd => AtEnd') /\ (Stopping => Stopping')
  BY <1>1 DEF AtEnd, Stopping
<1>8. pc' = "done" => interrupted'
  BY DEF DecoderInv
<1>9. QED
  BY <1>2, <1>3, <1>4, <1>5, <1>6, <1>7, <1>8 DEF DecoderInv

LEMMA ClientBeginsStep ==
  ASSUME DecoderAssumption, DecoderInv, ClientBegins
  PROVE  DecoderInv'
<1>1. PICK p \in Packets :
        /\ begun' = Append(begun, [bytes |-> p.bytes, events |-> p.events,
                                   end |-> Start(Following) + Len(p.bytes),
                                   count |-> Before(Following) + Len(p.events)])
        /\ left' = p.bytes
  BY DEF ClientBegins
<1> DEFINE r == [bytes |-> p.bytes, events |-> p.events,
                 end |-> Start(Following) + Len(p.bytes),
                 count |-> Before(Following) + Len(p.events)]
<1>2. /\ left = <<>> /\ Len(begun) < MaxSent
      /\ UNCHANGED <<pipe, link, want, got, sent, pc, fields, queued, interrupted>>
  BY DEF ClientBegins, streamVars
<1>0. PICK N, begins, before : N = Len(begun) /\ begins = Start(Following)
                               /\ before = Before(Following)
  OBVIOUS
<1>3. /\ N \in Nat /\ Following = N + 1 /\ begins \in Nat /\ before \in Nat
      /\ Start(Following) \in Nat /\ Before(Following) \in Nat
      /\ p.bytes \in Seq(Nat) /\ p.events \in Seq(AllEvents)
      /\ Len(p.bytes) \in Nat /\ Len(p.bytes) >= 1 /\ Len(p.events) \in Nat
      /\ Packet(p.bytes, p.events) \in Packets
  <2>1. N \in Nat /\ Following = N + 1 /\ Following \in 1 .. Following
    BY <1>0, HistoryFacts DEF DecoderInv
  <2>2. Start(Following) \in Nat /\ Before(Following) \in Nat
    BY <2>1, HistoryFacts DEF DecoderInv
  <2>3. WellFormed(p.bytes, p.events) /\ Packet(p.bytes, p.events) \in Packets
    BY PacketRecord
  <2>4. QED
    BY <1>0, <2>1, <2>2, <2>3, LenProperties DEF WellFormed
<1>4. r \in Numbered
  BY <1>3 DEF Numbered
<1>5. /\ begun' \in Seq(Numbered) /\ Len(begun') = N + 1 /\ begun'[N + 1] = r
      /\ \A k \in 1 .. N : begun'[k] = begun[k]
  <2>1. begun \in Seq(Numbered)
    BY DEF DecoderInv, TypeOK
  <2> HIDE DEF r
  <2>2. begun' = Append(begun, r)
    BY <1>1 DEF r
  <2>3. QED
    BY <1>0, <1>4, <2>1, <2>2, AppendProperties
<1>6. /\ r.bytes = p.bytes /\ r.events = p.events
      /\ r.end = begins + Len(p.bytes) /\ r.count = before + Len(p.events)
  BY <1>0
<1> HIDE DEF r
<1>7. /\ Following' = N + 2
      /\ \A n \in 1 .. N + 1 : Start(n)' = Start(n) /\ Before(n)' = Before(n)
      /\ Start(N + 1) = begins /\ Before(N + 1) = before
      /\ Start(N + 2)' = begins + Len(p.bytes)
  <2>1. ASSUME NEW n \in 1 .. N + 1 PROVE Start(n)' = Start(n) /\ Before(n)' = Before(n)
    <3>1. n = 1 \/ (n # 1 /\ n - 1 \in 1 .. N)
      BY <1>3
    <3>2. QED
      BY <1>5, <3>1 DEF Start, Before
  <2>2. Start(N + 2)' = begun'[N + 1].end
    <3>1. N + 2 # 1 /\ (N + 2) - 1 = N + 1
      BY <1>3
    <3>2. QED
      BY <3>1 DEF Start
  <2>3. Following' = N + 2
    BY <1>3, <1>5 DEF Following
  <2>4. Start(N + 1) = begins /\ Before(N + 1) = before
    BY <1>0, <1>3
  <2>5. QED
    BY <1>5, <1>6, <2>1, <2>2, <2>3, <2>4
<1>8. left' # <<>> /\ Len(left') = Len(p.bytes)
  BY <1>1, <1>3, SeqFacts
<1>9. TypeOK'
  <2>1. Len(begun') <= MaxSent
    BY <1>0, <1>2, <1>3, <1>5 DEF DecoderAssumption
  <2>2. begun' \in Seq(Numbered) /\ left' \in Seq(Nat)
    BY <1>1, <1>3, <1>5
  <2>3. QED
    BY <1>2, <2>1, <2>2 DEF DecoderInv, TypeOK
<1>10. HistoryOK'
  <2>1. ASSUME NEW k \in 1 .. N
        PROVE  /\ Packet(begun'[k].bytes, begun'[k].events) \in Packets
               /\ begun'[k].end = Start(k)' + Len(begun'[k].bytes)
               /\ begun'[k].count = Before(k)' + Len(begun'[k].events)
               /\ \A j \in 1 .. k : begun'[j].end <= begun'[k].end
                                    /\ begun'[j].count <= begun'[k].count
    <3>1. k \in 1 .. N + 1 /\ \A j \in 1 .. k : j \in 1 .. N
      BY <1>3
    <3>2. /\ Packet(begun[k].bytes, begun[k].events) \in Packets
          /\ begun[k].end = Start(k) + Len(begun[k].bytes)
          /\ begun[k].count = Before(k) + Len(begun[k].events)
          /\ \A j \in 1 .. k : begun[j].end <= begun[k].end
                               /\ begun[j].count <= begun[k].count
      BY <1>0 DEF DecoderInv, HistoryOK
    <3>3. begun'[k] = begun[k] /\ Start(k)' = Start(k) /\ Before(k)' = Before(k)
          /\ \A j \in 1 .. k : begun'[j] = begun[j]
      BY <1>5, <1>7, <3>1
    <3>4. QED
      BY <3>2, <3>3
  <2>2. /\ Packet(begun'[N + 1].bytes, begun'[N + 1].events) \in Packets
        /\ begun'[N + 1].end = Start(N + 1)' + Len(begun'[N + 1].bytes)
        /\ begun'[N + 1].count = Before(N + 1)' + Len(begun'[N + 1].events)
    <3>1. N + 1 \in 1 .. N + 1
      BY <1>3
    <3>2. Start(N + 1)' = begins /\ Before(N + 1)' = before
      BY <1>7, <3>1
    <3>3. QED
      BY <1>3, <1>5, <1>6, <3>2
  <2>3. ASSUME NEW j \in 1 .. N + 1
        PROVE  begun'[j].end <= begun'[N + 1].end /\ begun'[j].count <= begun'[N + 1].count
    <3>1. CASE j = N + 1
      BY <1>3, <1>5, <1>6, <3>1
    <3>2. CASE j # N + 1
      <4>1. j \in 1 .. N /\ j + 1 \in 1 .. Following /\ Following \in 1 .. Following
            /\ j + 1 <= Following
        BY <1>3, <3>2
      <4>2. begun[j].end = Start(j + 1) /\ begun[j].count = Before(j + 1)
        BY <1>0, <4>1, HistoryFacts DEF DecoderInv
      <4>3. /\ Start(j + 1) \in Nat /\ Before(j + 1) \in Nat
            /\ Start(j + 1) <= begins /\ Before(j + 1) <= before
        BY <1>0, <4>1, HistoryFacts DEF DecoderInv
      <4>4. begun'[j] = begun[j] /\ begun'[N + 1] = r
        BY <1>5, <4>1
      <4>5. begun'[j].end = Start(j + 1) /\ begun'[j].count = Before(j + 1)
            /\ begun'[N + 1].end = begins + Len(p.bytes)
            /\ begun'[N + 1].count = before + Len(p.events)
        BY <1>6, <4>2, <4>4
      <4>6. /\ Start(j + 1) <= begins + Len(p.bytes)
            /\ Before(j + 1) <= before + Len(p.events)
        <5>1. PICK b, c, d, e : b = Start(j + 1) /\ c = Before(j + 1) /\ d = Len(p.bytes)
                                /\ e = Len(p.events)
          OBVIOUS
        <5>2. /\ b \in Nat /\ c \in Nat /\ d \in Nat /\ e \in Nat /\ begins \in Nat
              /\ before \in Nat /\ b <= begins /\ c <= before
          BY <1>3, <4>3, <5>1
        <5>3. b <= begins + d /\ c <= before + e
          BY <5>2
        <5>4. QED
          BY <5>1, <5>3
      <4>7. QED
        BY <4>5, <4>6
    <3>3. QED
      BY <3>1, <3>2
  <2>4. begun' # <<>> /\ Len(left') <= Len(begun'[Len(begun')].bytes)
    <3>1. begun' # <<>>
      BY <1>3, <1>5, SeqFacts
    <3>2. QED
      BY <1>3, <1>5, <1>6, <1>8, <3>1
  <2>5. Len(sent') = Before(N + 1)' /\ \A k \in 1 .. N :
          begun'[k].events # <<>> => sent'[begun'[k].count] = begun'[k].events[1]
    <3>1. Len(sent) = Before(N + 1) /\ \A k \in 1 .. N :
            begun[k].events # <<>> => sent[begun[k].count] = begun[k].events[1]
      BY <1>0, <1>2 DEF DecoderInv, HistoryOK
    <3>2. Before(N + 1)' = Before(N + 1)
      BY <1>3, <1>7
    <3>3. QED
      BY <1>2, <1>5, <3>1, <3>2
  <2>6. Len(begun') - 1 = N /\ \A k \in 1 .. Len(begun') : k \in 1 .. N \/ k = N + 1
    BY <1>3, <1>5
  <2>7. \A k \in 1 .. Len(begun') :
               /\ Packet(begun'[k].bytes, begun'[k].events) \in Packets
               /\ begun'[k].end = Start(k)' + Len(begun'[k].bytes)
               /\ begun'[k].count = Before(k)' + Len(begun'[k].events)
               /\ \A j \in 1 .. k : begun'[j].end <= begun'[k].end
                                    /\ begun'[j].count <= begun'[k].count
    BY <2>1, <2>2, <2>3, <2>6
  <2>8. QED
    BY <1>5, <1>8, <2>4, <2>5, <2>6, <2>7 DEF HistoryOK
<1>11. StreamOK' /\ Position' = Position
  <2>1. /\ Len(pipe) \in Nat /\ Len(left) = 0
        /\ Len(Unread) = Len(pipe) /\ \A i \in 1 .. Len(pipe) : Unread[i] = pipe[i]
    BY <1>2, UnreadFacts DEF DecoderInv
  <2>2. /\ Len(Unread') = Len(pipe) + Len(p.bytes)
        /\ \A i \in 1 .. Len(pipe) + Len(p.bytes) :
             Unread'[i] = IF i <= Len(pipe) THEN pipe[i] ELSE p.bytes[i - Len(pipe)]
    <3>1. Unread' = pipe \o p.bytes
      BY <1>1, <1>2 DEF Unread
    <3>2. pipe \in Seq(Nat)
      BY DEF DecoderInv, TypeOK
    <3>3. QED
      BY <1>3, <3>1, <3>2, ConcatProperties
  <2>3. Position = begins - Len(pipe) /\ Position >= 0
    BY <1>0, <2>1 DEF Position, DecoderInv, StreamOK
  <2>4. Position' = Position
    <3>1. Position' = Start(N + 2)' - Len(Unread')
      BY <1>7 DEF Position, Start
    <3>2. QED
      BY <1>3, <1>7, <2>1, <2>2, <2>3, <3>1
  <2>5. ASSUME NEW k \in 1 .. N, NEW j \in 1 .. Len(begun[k].bytes), Start(k) + j > Position
        PROVE  Unread'[Start(k) + j - Position] = begun[k].bytes[j]
    <3>1. /\ Start(k) \in Nat /\ Start(k + 1) \in Nat /\ Start(k + 1) <= begins
          /\ Start(k + 1) = Start(k) + Len(begun[k].bytes)
          /\ Len(begun[k].bytes) \in Nat
      <4>1. k \in 1 .. Following /\ k + 1 \in 1 .. Following /\ Following \in 1 .. Following
            /\ k + 1 <= Following
        BY <1>3
      <4>2. WellFormed(begun[k].bytes, begun[k].events)
            /\ Start(k + 1) = Start(k) + Len(begun[k].bytes)
        BY <1>0, HistoryFacts DEF DecoderInv
      <4>3. Start(k) \in Nat /\ Start(k + 1) \in Nat /\ Start(k + 1) <= begins
        BY <1>0, <4>1, HistoryFacts DEF DecoderInv
      <4>4. QED
        BY <4>2, <4>3, LenProperties DEF WellFormed
    <3>2. Unread[Start(k) + j - Position] = begun[k].bytes[j]
      BY <1>0, <2>5 DEF DecoderInv, StreamOK
    <3>3. Start(k) + j - Position \in 1 .. Len(pipe)
      <4> DEFINE size == Len(begun[k].bytes)
      <4>1. size \in Nat /\ j \in 1 .. size /\ Start(k) + size <= begins
        BY <3>1
      <4> HIDE DEF size
      <4>2. begins \in Nat
        BY <1>3
      <4>3. QED
        BY <2>1, <2>3, <2>5, <3>1, <4>1, <4>2
    <3>4. Start(k) + j - Position <= Len(pipe) /\ Start(k) + j - Position \in 1 .. Len(pipe) + Len(p.bytes)
      BY <1>3, <2>1, <3>3
    <3>5. QED
      BY <2>1, <2>2, <3>2, <3>3, <3>4
  <2>6. ASSUME NEW j \in 1 .. Len(p.bytes), begins + j > Position
        PROVE  Unread'[begins + j - Position] = p.bytes[j]
    <3>1. begins + j - Position = Len(pipe) + j
      BY <1>3, <2>1, <2>3
    <3>2. Len(pipe) + j \in 1 .. Len(pipe) + Len(p.bytes) /\ ~(Len(pipe) + j <= Len(pipe))
          /\ (Len(pipe) + j) - Len(pipe) = j
      BY <1>3, <2>1
    <3>3. QED
      BY <2>2, <3>1, <3>2
  <2>7. ASSUME NEW k \in 1 .. Len(begun'), NEW j \in 1 .. Len(begun'[k].bytes),
               Start(k)' + j > Position'
        PROVE  Unread'[Start(k)' + j - Position'] = begun'[k].bytes[j]
    <3>1. CASE k \in 1 .. N
      <4>1. begun'[k] = begun[k] /\ Start(k)' = Start(k)
        BY <1>3, <1>5, <1>7, <3>1
      <4>2. QED
        BY <2>4, <2>5, <2>7, <3>1, <4>1
    <3>2. CASE k = N + 1
      <4>1. begun'[k].bytes = p.bytes
        BY <1>5, <1>6, <3>2
      <4>3. Start(k)' = begins
        BY <1>3, <1>7, <3>2
      <4>2. QED
        BY <2>4, <2>6, <2>7, <4>1, <4>3
    <3>3. QED
      BY <1>3, <1>5, <3>1, <3>2
  <2>8. QED
    BY <2>3, <2>4, <2>7 DEF StreamOK
<1>12. AnswerOK' /\ FieldsInHand'
  BY <1>2 DEF DecoderInv, AnswerOK, FieldsInHand
<1>13. ASSUME NEW n \in 1 .. Following, InPacket(n)
       PROVE  InPacket(n)' /\ n \in 1 .. Following'
  <2>1. n \in 1 .. Following' /\ Start(n)' = Start(n) /\ Before(n)' = Before(n)
    BY <1>3, <1>7
  <2>2. n <= Len(begun) => n <= Len(begun') /\ begun'[n] = begun[n]
    <3>1. n \in 1 .. N + 1
      BY <1>3
    <3>2. n <= N => n \in 1 .. N /\ n <= N + 1
      BY <1>3, <3>1
    <3>3. QED
      BY <1>0, <1>5, <3>2
  <2>3. n <= Len(begun) /\ Decoded(begun[n].bytes, pc) => Decoded(begun[n].bytes, pc)'
    BY <1>2, <2>2 DEF Decoded
  <2>4. /\ Len(queued') = Before(n)' /\ IsPrefix(queued', sent')
        /\ pc' \in Fields \ {"type"} => n <= Len(begun') /\ Decoded(begun[n].bytes, pc)'
    BY <1>2, <1>13, <2>1, <2>2, <2>3 DEF InPacket
  <2>5. QED
    BY <1>2, <1>11, <1>13, <2>1, <2>2, <2>4 DEF InPacket
<1>14. (AtEnd => AtEnd') /\ (Stopping => Stopping')
  BY <1>2 DEF AtEnd, Stopping
<1>15. QED
  BY <1>2, <1>9, <1>10, <1>11, <1>12, <1>13, <1>14 DEF DecoderInv

LEMMA ClientSendsStep ==
  ASSUME DecoderAssumption, DecoderInv, ClientSends
  PROVE  DecoderInv'
<1>1. /\ left # <<>> /\ link = "up" /\ pipe' = Append(pipe, Head(left)) /\ left' = Tail(left)
      /\ sent' = IF left' = <<>> THEN sent \o begun[Len(begun)].events ELSE sent
      /\ UNCHANGED <<link, want, got, begun, pc, fields, queued, interrupted>>
  BY DEF ClientSends, Stream!Sent, Stream!Peer
<1>0. PICK N : N = Len(begun)
  OBVIOUS
<1>2. /\ N \in Nat /\ N > 0 /\ N \in 1 .. N /\ Following = N + 1
      /\ WellFormed(begun[N].bytes, begun[N].events)
      /\ begun[N].count = Before(N) + Len(begun[N].events)
      /\ Before(N) \in Nat /\ Before(N + 1) = begun[N].count
      /\ Len(left) <= Len(begun[N].bytes)
  <2>1. begun # <<>> /\ Len(left) <= Len(begun[N].bytes)
    BY <1>0, <1>1 DEF DecoderInv, HistoryOK
  <2>2. N \in Nat /\ N > 0 /\ Following = N + 1
    BY <1>0, <2>1, SeqFacts, HistoryFacts DEF DecoderInv, TypeOK
  <2>3. N \in 1 .. N /\ N \in 1 .. Following
    BY <2>2
  <2>4. QED
    BY <1>0, <2>1, <2>2, <2>3, HistoryFacts DEF DecoderInv
<1>3. /\ pipe \in Seq(Nat) /\ left \in Seq(Nat) /\ Len(left) \in Nat /\ Len(left) >= 1
      /\ Head(left) \in Nat /\ left' \in Seq(Nat) /\ Len(left') = Len(left) - 1
      /\ (left' = <<>> <=> Len(left') = 0) /\ pipe' \in Seq(Nat) /\ left = <<Head(left)>> \o left'
  <2>1. pipe \in Seq(Nat) /\ left \in Seq(Nat)
    BY DEF DecoderInv, TypeOK
  <2>2. /\ Head(left) \in Nat /\ Tail(left) \in Seq(Nat) /\ Len(Tail(left)) = Len(left) - 1
        /\ left = <<Head(left)>> \o Tail(left)
    BY <1>1, <2>1, HeadTailProperties, HeadTailAppend
  <2>3. Len(left) \in Nat /\ Len(left) >= 1
    BY <1>1, <2>1, SeqFacts
  <2>4. left' = <<>> <=> Len(left') = 0
    BY <1>1, <2>2, EmptySeq
  <2>5. QED
    BY <1>1, <2>1, <2>2, <2>3, <2>4, AppendProperties
<1>4. Unread' = Unread
  <2>1. pipe' = pipe \o <<Head(left)>>
    BY <1>1, <1>3, AppendIsConcat
  <2>2. pipe \o left = pipe \o (<<Head(left)>> \o left')
    BY <1>3
  <2>3. <<Head(left)>> \in Seq(Nat)
    BY <1>3
  <2>4. (pipe \o <<Head(left)>>) \o left' = pipe \o (<<Head(left)>> \o left')
    <3>1. pipe \in Seq(Nat) /\ left' \in Seq(Nat)
      BY <1>3
    <3>2. QED
      BY <2>3, <3>1, Associative
  <2>5. QED
    BY <2>1, <2>2, <2>4, Zenon DEF Unread
<1>5. /\ Following' = Following /\ \A n : Start(n)' = Start(n) /\ Before(n)' = Before(n)
      /\ Position' = Position /\ StreamOK'
  <2>1. Following' = Following /\ \A n : Start(n)' = Start(n) /\ Before(n)' = Before(n)
    BY <1>1 DEF Following, Start, Before
  <2>2. Position' = Position
    BY <1>4, <2>1 DEF Position
  <2>3. QED
    BY <1>1, <1>4, <2>1, <2>2 DEF DecoderInv, StreamOK
<1>6. /\ sent \in Seq(AllEvents) /\ sent' \in Seq(AllEvents) /\ Len(sent) \in Nat
      /\ Len(sent) = Before(N)
      /\ Len(sent') = Before((IF left' = <<>> THEN N ELSE N - 1) + 1)
      /\ \A i \in 1 .. Len(sent) : sent'[i] = sent[i]
      /\ Len(sent) <= Len(sent')
      /\ left' = <<>> /\ begun[N].events # <<>> =>
           sent'[begun[N].count] = begun[N].events[1]
  <2>1. /\ sent \in Seq(AllEvents) /\ begun[N].events \in Seq(AllEvents)
        /\ Len(begun[N].events) \in {0, 1}
    BY <1>2 DEF DecoderInv, TypeOK, WellFormed
  <2>2. Len(sent) = Before(N) /\ Len(sent) \in Nat
    <3>1. Len(sent) = Before((N - 1) + 1)
      BY <1>0, <1>1 DEF DecoderInv, HistoryOK
    <3>2. (N - 1) + 1 = N
      BY <1>2
    <3>3. QED
      BY <1>2, <3>1, <3>2
  <2>3. CASE left' = <<>>
    <3>1. /\ sent' \in Seq(AllEvents) /\ Len(sent') = Len(sent) + Len(begun[N].events)
          /\ \A i \in 1 .. Len(sent) + Len(begun[N].events) :
               sent'[i] = IF i <= Len(sent) THEN sent[i] ELSE begun[N].events[i - Len(sent)]
      <4>1. sent' = sent \o begun[N].events
        BY <1>0, <1>1, <2>3
      <4>2. QED
        BY <2>1, <4>1, ConcatProperties, Z3
    <3>2. \A i \in 1 .. Len(sent) : sent'[i] = sent[i]
      BY <2>1, <2>2, <3>1
    <3>3. Len(sent') = Before(N + 1)
      BY <1>2, <2>2, <3>1
    <3>4. begun[N].events # <<>> => sent'[begun[N].count] = begun[N].events[1]
      <4>1. begun[N].events # <<>> => Len(begun[N].events) = 1
        BY <2>1, SeqFacts
      <4>2. Len(begun[N].events) = 1 => /\ begun[N].count = Len(sent) + 1
                                        /\ Len(sent) + 1 \in 1 .. Len(sent) + Len(begun[N].events)
                                        /\ ~(Len(sent) + 1 <= Len(sent))
                                        /\ (Len(sent) + 1) - Len(sent) = 1
        BY <1>2, <2>2
      <4>3. QED
        BY <3>1, <4>1, <4>2
    <3>5. Len(sent) <= Len(sent')
      BY <2>1, <2>2, <3>1
    <3>6. QED
      BY <2>1, <2>2, <2>3, <3>1, <3>2, <3>3, <3>4, <3>5
  <2>4. CASE left' # <<>>
    <3>1. (N - 1) + 1 = N /\ sent' = sent
      BY <1>1, <1>2, <2>4
    <3>2. QED
      BY <2>1, <2>2, <2>4, <3>1
  <2>5. QED
    BY <2>3, <2>4
<1>7. TypeOK'
  BY <1>1, <1>3, <1>6 DEF DecoderInv, TypeOK
<1>8. HistoryOK'
  <2>1. \A k \in 1 .. N - 1 :
          begun[k].events # <<>> => sent'[begun[k].count] = begun[k].events[1]
    <3>1. SUFFICES ASSUME NEW k \in 1 .. N - 1, begun[k].events # <<>>
                   PROVE  sent'[begun[k].count] = begun[k].events[1]
      OBVIOUS
    <3>2. sent[begun[k].count] = begun[k].events[1]
      BY <1>0, <1>1, <3>1 DEF DecoderInv, HistoryOK
    <3>3. begun[k].count \in 1 .. Len(sent)
      <4>1. k \in 1 .. Len(begun) /\ k \in 1 .. Following /\ k + 1 \in 1 .. Following
            /\ N \in 1 .. Following /\ k + 1 <= N
        BY <1>0, <1>2
      <4>2. begun[k].count = Before(k + 1) /\ Before(k + 1) = Before(k) + Len(begun[k].events)
            /\ WellFormed(begun[k].bytes, begun[k].events)
        BY <4>1, HistoryFacts DEF DecoderInv
      <4>3. Before(k) \in Nat /\ Before(k + 1) <= Before(N)
        BY <4>1, HistoryFacts DEF DecoderInv
      <4>4. Len(begun[k].events) \in Nat /\ Len(begun[k].events) > 0
        BY <3>1, <4>2, SeqFacts DEF WellFormed
      <4>5. Len(sent) = Before(N)
        BY <1>6
      <4>6. begun[k].count = Before(k) + Len(begun[k].events) /\ begun[k].count <= Before(N)
        BY <4>2, <4>3
      <4> HIDE <4>2
      <4> DEFINE size == Len(begun[k].events)
      <4>7. size \in Nat /\ size > 0 /\ begun[k].count = Before(k) + size
        BY <4>4, <4>6
      <4> HIDE DEF size
      <4>8. QED
        BY <4>3, <4>5, <4>6, <4>7
    <3>4. QED
      BY <1>6, <3>2, <3>3
  <2>2. begun' = begun
    BY <1>1
  <2>0. PICK whole : whole = IF left' = <<>> THEN N ELSE N - 1
    OBVIOUS
  <2>3. \A k \in 1 .. whole :
          begun'[k].events # <<>> => sent'[begun'[k].count] = begun'[k].events[1]
    <3>1. \A k \in 1 .. whole : k \in 1 .. N - 1 \/ (k = N /\ left' = <<>>)
      BY <1>2, <2>0
    <3>2. QED
      BY <1>6, <2>1, <2>2, <3>1
  <2>4. Len(sent') = Before(whole + 1)'
    BY <1>5, <1>6, <2>0
  <2>5. left' # <<>> => begun' # <<>> /\ Len(left') <= Len(begun'[Len(begun')].bytes)
    <3>1. begun # <<>>
      BY <1>1 DEF DecoderInv, HistoryOK
    <3>2. Len(begun[N].bytes) \in Nat
      BY <1>2, LenProperties DEF WellFormed
    <3> DEFINE size == Len(begun[N].bytes)
    <3>3. Len(left') <= size
      <4> HIDE DEF size
      <4>1. size \in Nat /\ Len(left) <= size
        BY <1>2, <3>2 DEF size
      <4>2. QED
        BY <1>3, <4>1
    <3>4. QED
      BY <1>0, <2>2, <3>1, <3>3
  <2>6. \A k \in 1 .. Len(begun') :
          /\ Packet(begun'[k].bytes, begun'[k].events) \in Packets
          /\ begun'[k].end = Start(k)' + Len(begun'[k].bytes)
          /\ begun'[k].count = Before(k)' + Len(begun'[k].events)
          /\ \A j \in 1 .. k : begun'[j].end <= begun'[k].end
                               /\ begun'[j].count <= begun'[k].count
    BY <1>5, <2>2 DEF DecoderInv, HistoryOK
  <2>7. Len(begun') = N
    BY <1>0, <2>2
  <2>8. QED
    BY <2>0, <2>3, <2>4, <2>5, <2>6, <2>7 DEF HistoryOK
<1>9. AnswerOK' /\ FieldsInHand'
  BY <1>1 DEF DecoderInv, AnswerOK, FieldsInHand
<1>10. IsPrefix(queued, sent) => IsPrefix(queued', sent')
  <2>1. queued \in Seq(AllEvents) /\ queued' = queued /\ Len(queued) \in Nat
    BY <1>1, LenProperties DEF DecoderInv, TypeOK
  <2>2. ASSUME IsPrefix(queued, sent) PROVE IsPrefix(queued, sent')
    <3>1. Len(queued) <= Len(sent) /\ \A i \in 1 .. Len(queued) : queued[i] = sent[i]
      BY <1>6, <2>1, <2>2, PrefixPointwise
    <3>2. Len(queued) <= Len(sent') /\ \A i \in 1 .. Len(queued) : i \in 1 .. Len(sent)
      <4>1. Len(sent') \in Nat
        BY <1>6, LenProperties
      <4>2. QED
        BY <1>6, <2>1, <3>1, <4>1
    <3>3. \A i \in 1 .. Len(queued) : queued[i] = sent'[i]
      BY <1>6, <3>1, <3>2
    <3>4. QED
      BY <1>6, <2>1, <3>2, <3>3, PrefixPointwise
  <2>3. QED
    BY <2>1, <2>2
<1>11. ASSUME NEW n \in 1 .. Following, InPacket(n)
       PROVE  InPacket(n)' /\ n \in 1 .. Following'
  <2>1. n \in 1 .. Following' /\ Start(n)' = Start(n) /\ Before(n)' = Before(n)
    BY <1>5
  <2>2. Decoded(begun[n].bytes, pc) => Decoded(begun[n].bytes, pc)'
    BY <1>1 DEF Decoded
  <2>3. /\ Len(queued') = Before(n)' /\ IsPrefix(queued', sent')
        /\ pc' \in Fields \ {"type"} => n <= Len(begun') /\ Decoded(begun[n].bytes, pc)'
    BY <1>1, <1>10, <1>11, <2>1, <2>2 DEF InPacket
  <2>4. QED
    BY <1>1, <1>5, <1>11, <2>1, <2>3 DEF InPacket
<1>12. ~AtEnd /\ (Stopping => Stopping')
  BY <1>1, <1>10 DEF AtEnd, Stopping
<1>13. QED
  BY <1>1, <1>5, <1>7, <1>8, <1>9, <1>11, <1>12 DEF DecoderInv

LEMMA LinkLostStep ==
  ASSUME DecoderAssumption, DecoderInv, LinkLost
  PROVE  DecoderInv'
<1>1. /\ link = "up" /\ link' \in {"eof", "reset"}
      /\ UNCHANGED <<pipe, want, got, clientVars, pc, fields, queued, interrupted>>
  BY DEF LinkLost, Stream!Lost, Stream!Peer
<1>2. QED
  BY <1>1, EnvironmentKeeps DEF AtEnd, DecoderInv, TypeOK

LEMMA HandlerInterruptsStep ==
  ASSUME DecoderAssumption, DecoderInv, HandlerInterrupts
  PROVE  DecoderInv'
<1>1. interrupted' = TRUE
      /\ UNCHANGED <<pipe, link, want, got, clientVars, pc, fields, queued>>
  BY DEF HandlerInterrupts, streamVars
<1>2. QED
  BY <1>1, EnvironmentKeeps DEF AtEnd, DecoderInv, TypeOK

-----------------------------------------------------------------------------
(* The steps of the socket *)

\* What a read takes off the pipe, the reader has been given.
LEMMA Taken ==
  ASSUME DecoderAssumption, TypeOK, HistoryOK, StreamOK, UNCHANGED clientVars,
         NEW m \in 0 .. Len(pipe), pipe' = SubSeq(pipe, m + 1, Len(pipe))
  PROVE  /\ pipe' \in Seq(Nat) /\ Len(pipe') = Len(pipe) - m
         /\ Position \in Nat /\ Position' = Position + m
         /\ StreamOK'
<1>1. /\ Len(pipe) \in Nat /\ Len(left) \in Nat /\ pipe \in Seq(Nat) /\ left \in Seq(Nat)
      /\ Len(Unread) = Len(pipe) + Len(left)
      /\ \A i \in 1 .. Len(Unread) :
           Unread[i] = IF i <= Len(pipe) THEN pipe[i] ELSE left[i - Len(pipe)]
  BY UnreadFacts DEF TypeOK
<1>2. /\ pipe' \in Seq(Nat) /\ Len(pipe') = Len(pipe) - m
      /\ \A i \in 1 .. Len(pipe) - m : pipe'[i] = pipe[m + i]
  <2>1. \A i \in m + 1 .. Len(pipe) : pipe[i] \in Nat
    BY <1>1, ElementOfSeq
  <2>2. m + 1 \in Int /\ Len(pipe) \in Int
    BY <1>1
  <2>3. /\ pipe' \in Seq(Nat)
        /\ Len(pipe') = IF m + 1 <= Len(pipe) THEN Len(pipe) - (m + 1) + 1 ELSE 0
        /\ \A i \in 1 .. Len(pipe) - (m + 1) + 1 : pipe'[i] = pipe[(m + 1) + i - 1]
    BY <2>1, <2>2, SubSeqProperties
  <2>4. ASSUME NEW i \in 1 .. Len(pipe) - m
        PROVE  (m + 1) + i - 1 = m + i /\ i \in 1 .. Len(pipe) - (m + 1) + 1
    BY <1>1
  <2>5. Len(pipe') = Len(pipe) - m
    BY <1>1, <2>3
  <2>6. QED
    BY <2>3, <2>4, <2>5
<1>3. left' = left /\ begun' = begun
  BY DEF clientVars
<1>4. /\ Len(Unread') = Len(Unread) - m
      /\ \A i \in 1 .. Len(Unread) - m : Unread'[i] = Unread[m + i]
  <2>1. Unread' = pipe' \o left
    BY <1>3 DEF Unread
  <2>2. /\ Len(Unread') = Len(pipe') + Len(left)
        /\ \A i \in 1 .. Len(pipe') + Len(left) :
             Unread'[i] = IF i <= Len(pipe') THEN pipe'[i] ELSE left[i - Len(pipe')]
    <3>1. pipe' \in Seq(Nat) /\ left \in Seq(Nat)
      BY <1>1, <1>2
    <3>2. QED
      BY <2>1, <3>1, ConcatProperties
  <2>3. Len(Unread') = Len(Unread) - m
    BY <1>1, <1>2, <2>2
  <2>4. ASSUME NEW i \in 1 .. Len(Unread) - m PROVE Unread'[i] = Unread[m + i]
    <3>1. i \in 1 .. Len(pipe') + Len(left) /\ m + i \in 1 .. Len(Unread)
      BY <1>1, <1>2
    <3>2. i <= Len(pipe') <=> m + i <= Len(pipe)
      BY <1>1, <1>2
    <3>3. CASE i <= Len(pipe')
      <4>1. i \in 1 .. Len(pipe) - m
        BY <1>1, <1>2, <3>3
      <4>2. QED
        BY <1>1, <1>2, <2>2, <3>1, <3>2, <3>3, <4>1
    <3>4. CASE ~(i <= Len(pipe'))
      <4>1. i - Len(pipe') = (m + i) - Len(pipe)
        <5>1. Len(pipe) \in Int /\ Len(pipe') = Len(pipe) - m /\ i \in Int /\ m \in Int
          BY <1>1, <1>2, <3>1
        <5>2. PICK a, c : a = Len(pipe) /\ c = Len(pipe')
          OBVIOUS
        <5>3. a \in Int /\ c = a - m /\ i \in Int /\ m \in Int
          BY <5>1, <5>2
        <5>4. i - c = (m + i) - a
          BY <5>3
        <5>5. QED
          BY <5>2, <5>4
      <4>2. Unread'[i] = left[i - Len(pipe')]
        BY <2>2, <3>1, <3>4
      <4>3. Unread[m + i] = left[(m + i) - Len(pipe)]
        BY <1>1, <3>1, <3>2, <3>4
      <4>4. QED
        BY <4>1, <4>2, <4>3
    <3>5. QED
      BY <3>3, <3>4
  <2>5. QED
    BY <2>3, <2>4
<1>5. /\ Following' = Following /\ \A n : Start(n)' = Start(n)
  BY HistoryKept
<1>6. Position \in Nat /\ Position' = Position + m
      /\ Start(Following) = Position + Len(Unread)
  <2>1. Start(Following) \in Nat
    <3>1. Following \in 1 .. Following
      BY HistoryFacts
    <3>2. QED
      BY <3>1, HistoryFacts
  <2>2. Position = Start(Following) - Len(Unread) /\ Position >= 0
    BY DEF Position, StreamOK
  <2>3. Position' = Start(Following) - Len(Unread')
    <3>1. Start(Following)' = Start(Following)
      BY <1>5 DEF Start
    <3>2. QED
      BY <3>1 DEF Position
  <2>4. PICK a, u, v : a = Start(Following) /\ u = Len(Unread) /\ v = Len(Unread')
    OBVIOUS
  <2>5. a \in Nat /\ u \in Nat /\ v = u - m /\ m \in Nat /\ a - u >= 0
    BY <1>1, <1>4, <2>1, <2>2, <2>4
  <2>6. a - u \in Nat /\ a - v = (a - u) + m /\ a = (a - u) + u
    BY <2>5
  <2>7. QED
    BY <2>2, <2>3, <2>4, <2>6
<1>7. ASSUME NEW k \in 1 .. Len(begun), NEW j \in 1 .. Len(begun[k].bytes),
             Start(k) + j > Position + m
      PROVE  Unread'[Start(k) + j - (Position + m)] = begun[k].bytes[j]
  <2>1. /\ Start(k) \in Nat /\ Len(begun[k].bytes) \in Nat
        /\ Start(k) + Len(begun[k].bytes) <= Start(Following)
    <3>0. Len(begun) \in Nat /\ Following = Len(begun) + 1
      BY HistoryFacts
    <3>1. k \in 1 .. Following /\ k + 1 \in 1 .. Following /\ Following \in 1 .. Following
          /\ k + 1 <= Following
      BY <3>0
    <3>2. Start(k) \in Nat /\ Start(k + 1) = Start(k) + Len(begun[k].bytes)
          /\ WellFormed(begun[k].bytes, begun[k].events)
      BY <3>1, HistoryFacts
    <3>3. Start(k + 1) <= Start(Following)
      BY <3>1, HistoryFacts
    <3>4. QED
      BY <3>2, <3>3, LenProperties DEF WellFormed
  <2>2. Unread[Start(k) + j - Position] = begun[k].bytes[j]
    <3>1. Start(k) + j > Position
      BY <1>6, <1>7, <2>1
    <3>2. QED
      BY <3>1 DEF StreamOK
  <2>3. Start(k) + j - (Position + m) \in 1 .. Len(Unread) - m
    <3> DEFINE size == Len(begun[k].bytes)
    <3>1. size \in Nat /\ Start(k) + size <= Position + Len(Unread) /\ j \in 1 .. size
      BY <1>6, <2>1
    <3> HIDE DEF size
    <3>2. PICK p, u, b : p = Position /\ u = Len(Unread) /\ b = Start(k)
      OBVIOUS
    <3>3. /\ p \in Nat /\ u \in Int /\ b \in Nat /\ size \in Nat /\ m \in Nat /\ j \in 1 .. size
          /\ b + size <= p + u /\ b + j > p + m
      BY <1>1, <1>6, <1>7, <2>1, <3>1, <3>2
    <3>4. b + j - (p + m) \in 1 .. u - m
      BY <3>3
    <3>5. QED
      BY <3>2, <3>4
  <2>4. m + (Start(k) + j - (Position + m)) = Start(k) + j - Position
    BY <1>6, <2>1
  <2>5. QED
    BY <1>4, <2>2, <2>3, <2>4
<1>8. StreamOK'
  <2>1. ASSUME NEW k \in 1 .. Len(begun'), NEW j \in 1 .. Len(begun'[k].bytes),
               Start(k)' + j > Position'
        PROVE  Unread'[Start(k)' + j - Position'] = begun'[k].bytes[j]
    BY <1>3, <1>5, <1>6, <1>7, <2>1
  <2>2. Position' >= 0
    BY <1>6
  <2>3. QED
    BY <2>1, <2>2 DEF StreamOK
<1>9. QED
  BY <1>2, <1>6, <1>8

\* When the reader has begun a field of a packet, all of the field is in it.
LEMMA FieldFits ==
  ASSUME DecoderAssumption, TypeOK, HistoryOK, NEW n \in 1 .. Len(begun), NEW f \in Fields,
         f # "type" => Decoded(begun[n].bytes, f)
  PROVE  /\ Len(begun[n].bytes) \in Nat
         /\ Offset(f) + SizeOf(f) <= Len(begun[n].bytes)
<1>1. WellFormed(begun[n].bytes, begun[n].events)
  BY HistoryFacts
<1>2. Len(begun[n].bytes) \in Nat
  BY <1>1, LenProperties DEF WellFormed
<1>3. CoordinateSize \in Nat
  BY DEF DecoderAssumption
<1>4. CASE f = "type"
  BY <1>1, <1>4 DEF WellFormed, Offset, SizeOf
<1>5. CASE f \in {"x", "y", "button"}
  <2>1. Len(begun[n].bytes) = 2 + 2 * CoordinateSize
    BY <1>1, <1>5 DEF WellFormed, Decoded
  <2>2. QED
    BY <1>3, <1>5, <2>1 DEF Offset, SizeOf
<1>6. CASE f \in {"keyboardEventType", "keyCode"}
  <2>1. begun[n].bytes[1] = KEYBOARD_EVENT /\ (f = "keyCode" => begun[n].bytes[2] = SINGLE_KEY)
    BY <1>6 DEF Decoded
  <2>2. Len(begun[n].bytes) >= 2 /\ (f = "keyCode" => Len(begun[n].bytes) = 3)
    BY <1>1, <2>1 DEF WellFormed
  <2>3. SizeOf(f) = 1 /\ Offset(f) = IF f = "keyboardEventType" THEN 1 ELSE 2
    BY <1>6 DEF Offset, SizeOf
  <2>4. QED
    BY <1>2, <1>6, <2>2, <2>3
<1>7. QED
  BY <1>2, <1>4, <1>5, <1>6 DEF Fields

\* What a read that has returned leaves as it was.
LEMMA Returned ==
  ASSUME DecoderAssumption, DecoderInv, SocketReturns,
         NEW m \in 0 .. Len(pipe), pipe' = SubSeq(pipe, m + 1, Len(pipe)), want' = 0
  PROVE  /\ TypeOK' /\ HistoryOK' /\ StreamOK' /\ FieldsInHand'
         /\ Position \in Nat /\ Position' = Position + m
         /\ UNCHANGED <<begun, left, sent, pc, fields, queued, interrupted, link>>
         /\ Following' = Following /\ \A n : Start(n)' = Start(n) /\ Before(n)' = Before(n)
<1>1. UNCHANGED clientVars /\ UNCHANGED <<pc, fields, queued, interrupted, link>>
  BY DEF SocketReturns, Stream!Whole, Stream!Short, Stream!ReadError, Stream!Writer
<1>2. begun' = begun /\ left' = left /\ sent' = sent
  BY <1>1 DEF clientVars
<1>3. /\ HistoryOK' /\ Following' = Following
      /\ \A n : Start(n)' = Start(n) /\ Before(n)' = Before(n)
  BY <1>1, HistoryKept DEF DecoderInv
<1>4. pipe' \in Seq(Nat) /\ Position \in Nat /\ Position' = Position + m /\ StreamOK'
  BY <1>1, Taken DEF DecoderInv
<1>5. TypeOK' /\ FieldsInHand'
  BY <1>1, <1>2, <1>4 DEF DecoderInv, TypeOK, FieldsInHand
<1>6. QED
  BY <1>1, <1>2, <1>3, <1>4, <1>5

LEMMA WholeStep ==
  ASSUME DecoderAssumption, DecoderInv, SocketReturns, Stream!Whole
  PROVE  DecoderInv'
<1>0. PICK size : size = want
  OBVIOUS
<1>1. /\ size = want /\ want # 0 /\ Len(pipe) >= size /\ want' = 0
      /\ got' = Stream!Data(size, SubSeq(pipe, 1, size))
      /\ pipe' = SubSeq(pipe, size + 1, Len(pipe))
  BY <1>0 DEF Stream!Whole
<1>2. /\ pc \in Fields /\ size = SizeOf(pc) /\ size \in Nat \ {0} /\ Offset(pc) \in Nat
      /\ Len(pipe) \in Nat /\ size \in 0 .. Len(pipe)
  <2>1. pc \in Fields /\ size = SizeOf(pc)
    BY <1>1 DEF DecoderInv, AnswerOK
  <2>2. Len(pipe) \in Nat
    BY UnreadFacts DEF DecoderInv
  <2>3. QED
    BY <1>1, <2>1, <2>2, Sizes
<1>3. /\ TypeOK' /\ HistoryOK' /\ StreamOK' /\ FieldsInHand'
      /\ Position \in Nat /\ Position' = Position + size
      /\ UNCHANGED <<begun, left, sent, pc, fields, queued, interrupted, link>>
      /\ Following' = Following /\ \A n : Start(n)' = Start(n) /\ Before(n)' = Before(n)
  BY <1>1, <1>2, Returned
<1>4. /\ got'.outcome = "data" /\ got'.count = size /\ DOMAIN got'.buf = 1 .. size
      /\ \A i \in 1 .. size : got'.buf[i] = pipe[i] /\ pipe[i] \in Nat
  <2>1. \A i \in 1 .. size : pipe[i] \in Nat
    <3>1. pipe \in Seq(Nat)
      BY DEF DecoderInv, TypeOK
    <3>2. \A i \in 1 .. size : i \in 1 .. Len(pipe)
      BY <1>1, <1>2
    <3>3. QED
      BY <3>1, <3>2, ElementOfSeq
  <2> DEFINE front == SubSeq(pipe, 1, size)
  <2>2. Len(front) = size /\ \A i \in 1 .. size : front[i] = pipe[i]
    <3>1. /\ Len(front) = IF 1 <= size THEN size - 1 + 1 ELSE 0
          /\ \A i \in 1 .. size - 1 + 1 : front[i] = pipe[1 + i - 1]
      BY <1>2, <2>1, SubSeqProperties
    <3> HIDE DEF front
    <3>2. \A i \in 1 .. size : i \in 1 .. size - 1 + 1 /\ 1 + i - 1 = i
      BY <1>2
    <3>3. QED
      BY <1>2, <3>1, <3>2
  <2>3. got' = [outcome |-> "data", count |-> Len(front),
                buf |-> [i \in 1 .. size |-> IF i <= Len(front) THEN front[i] ELSE Junk]]
    BY <1>1 DEF Stream!Data, Stream!Filled
  <2> HIDE DEF front
  <2>4. got'.outcome = "data" /\ got'.count = size /\ DOMAIN got'.buf = 1 .. size
        /\ \A i \in 1 .. size : got'.buf[i] = IF i <= size THEN front[i] ELSE Junk
    BY <2>2, <2>3
  <2>5. \A i \in 1 .. size : got'.buf[i] = pipe[i]
    BY <1>2, <2>2, <2>4
  <2>6. QED
    BY <2>1, <2>4, <2>5
<1>5. AnswerOK'
  <2>1. SizeOf(pc') = size /\ got'.count \in 0 .. size
    BY <1>2, <1>3, <1>4
  <2>2. \A i \in 1 .. size : got'.buf[i] \in Nat
    BY <1>4
  <2>3. QED
    BY <1>1, <1>4, <2>1, <2>2 DEF AnswerOK
<1>6. ASSUME NEW n \in 1 .. Following, InPacket(n)
      PROVE  InPacket(n)' /\ n \in 1 .. Following'
  <2>1. /\ Len(queued) = Before(n) /\ IsPrefix(queued, sent)
        /\ Position = Start(n) + Offset(pc)
        /\ pc # "type" => n <= Len(begun) /\ Decoded(begun[n].bytes, pc)
    BY <1>1, <1>2, <1>6 DEF InPacket, Fields
  <2>2. n <= Len(begun)
    <3>1. CASE pc # "type"
      BY <2>1, <3>1
    <3>2. CASE pc = "type"
      <4>1. /\ Position = Start(n) /\ Start(n) \in Nat
            /\ Following = Len(begun) + 1 /\ Len(begun) \in Nat
        BY <2>1, <3>2, HistoryFacts DEF Offset, DecoderInv
      <4>2. Position = Start(Following) - Len(Unread) /\ Len(Unread) = Len(pipe) + Len(left)
            /\ Len(left) \in Nat
        BY UnreadFacts DEF Position, DecoderInv
      <4>3. n # Following
        <5>1. SUFFICES ASSUME n = Following PROVE FALSE
          OBVIOUS
        <5>2. Start(n) = Start(n) - (Len(pipe) + Len(left))
          BY <4>1, <4>2, <5>1
        <5>3. Len(pipe) > 0
          BY <1>1, <1>2
        <5>4. QED
          BY <1>2, <4>1, <4>2, <5>2, <5>3
      <4>4. QED
        BY <4>1, <4>3
    <3>3. QED
      BY <3>1, <3>2
  <2>3. n \in 1 .. Len(begun)
    <3>1. Len(begun) \in Nat
      BY HistoryFacts DEF DecoderInv
    <3>2. QED
      BY <2>2, <3>1
  <2>4. /\ Len(begun[n].bytes) \in Nat /\ Offset(pc) + size <= Len(begun[n].bytes)
        /\ Start(n) \in Nat
    BY <1>2, <2>1, <2>3, FieldFits, HistoryFacts DEF DecoderInv
  <2>5. ASSUME NEW i \in 1 .. size PROVE got'.buf[i] = begun[n].bytes[Offset(pc) + i]
    <3>1. Offset(pc) + i \in 1 .. Len(begun[n].bytes)
      BY <1>2, <2>4
    <3>2. Start(n) + (Offset(pc) + i) > Position /\ Start(n) + (Offset(pc) + i) - Position = i
      BY <1>2, <2>1, <2>4
    <3>3. Unread[i] = begun[n].bytes[Offset(pc) + i]
      BY <2>3, <3>1, <3>2 DEF DecoderInv, StreamOK
    <3>4. i \in 1 .. Len(Unread) /\ i <= Len(pipe)
      <4>1. Len(Unread) = Len(pipe) + Len(left) /\ Len(left) \in Nat
        BY UnreadFacts DEF DecoderInv
      <4>2. QED
        BY <1>1, <1>2, <4>1
    <3>5. Unread[i] = pipe[i]
      BY <3>4, UnreadFacts DEF DecoderInv
    <3>6. QED
      BY <1>4, <3>3, <3>5
  <2>6. pc' = pc /\ begun' = begun /\ queued' = queued /\ sent' = sent /\ fields' = fields
        /\ Start(n)' = Start(n) /\ Before(n)' = Before(n) /\ Following' = Following
    BY <1>3
  <2>7. pc' \in Fields \ {"type"} => n <= Len(begun') /\ Decoded(begun[n].bytes, pc)'
    <3>1. Decoded(begun[n].bytes, pc) => Decoded(begun[n].bytes, pc)'
      BY <2>6 DEF Decoded
    <3>2. QED
      BY <2>1, <2>6, <3>1
  <2>8. Position' = Start(n)' + Offset(pc') + SizeOf(pc')
    BY <1>2, <1>3, <2>1, <2>6
  <2>9. \A i \in 1 .. SizeOf(pc') : got'.buf[i] = begun'[n].bytes[Offset(pc') + i]
    BY <1>2, <2>5, <2>6
  <2>10. /\ pc' \in Fields /\ want' = 0 /\ n <= Len(begun')
         /\ got'.outcome = "data" /\ got'.count = SizeOf(pc')
    BY <1>1, <1>2, <1>4, <2>2, <2>6
  <2>11. Len(queued') = Before(n)' /\ IsPrefix(queued', sent') /\ n \in 1 .. Following'
    BY <2>1, <2>6
  <2>12. QED
    BY <2>7, <2>8, <2>9, <2>10, <2>11 DEF InPacket
<1>7. ~AtEnd /\ ~Stopping
  <2>1. pipe # <<>>
    BY <1>1, <1>2, UnreadFacts DEF DecoderInv
  <2>2. QED
    BY <1>1, <2>1 DEF AtEnd, Stopping
<1>8. pc' = "done" => interrupted'
  BY <1>3 DEF DecoderInv
<1>9. QED
  BY <1>3, <1>5, <1>6, <1>7, <1>8 DEF DecoderInv

LEMMA ShortStep ==
  ASSUME DecoderAssumption, DecoderInv, SocketReturns, Stream!Short
  PROVE  DecoderInv'
<1>1. /\ want # 0 /\ link = "eof" /\ Len(pipe) < want /\ want' = 0
      /\ got' = Stream!Data(want, pipe) /\ pipe' = <<>>
  BY DEF Stream!Short
<1>2. /\ pc \in Fields /\ want = SizeOf(pc) /\ want \in Nat \ {0} /\ Offset(pc) \in Nat
      /\ Len(pipe) \in Nat /\ pipe \in Seq(Nat)
  <2>1. pc \in Fields /\ want = SizeOf(pc)
    BY <1>1 DEF DecoderInv, AnswerOK
  <2>2. Len(pipe) \in Nat /\ pipe \in Seq(Nat)
    BY UnreadFacts DEF DecoderInv, TypeOK
  <2>3. QED
    BY <2>1, <2>2, Sizes
<1>3. /\ TypeOK' /\ HistoryOK' /\ StreamOK' /\ FieldsInHand'
      /\ Position \in Nat
      /\ UNCHANGED <<begun, left, sent, pc, fields, queued, interrupted, link>>
  <2>1. Len(pipe) \in 0 .. Len(pipe)
    BY <1>2
  <2>2. pipe' = SubSeq(pipe, Len(pipe) + 1, Len(pipe))
    BY <1>1, <1>2, SubSeqEmpty
  <2>3. QED
    BY <1>1, <2>1, <2>2, Returned
<1>4. /\ got'.outcome = "data" /\ got'.count = Len(pipe) /\ DOMAIN got'.buf = 1 .. want
      /\ \A i \in 1 .. Len(pipe) : got'.buf[i] \in Nat
  <2>1. got' = [outcome |-> "data", count |-> Len(pipe),
                buf |-> [i \in 1 .. want |-> IF i <= Len(pipe) THEN pipe[i] ELSE Junk]]
    BY <1>1 DEF Stream!Data, Stream!Filled
  <2>2. \A i \in 1 .. Len(pipe) : i \in 1 .. want /\ i <= Len(pipe) /\ pipe[i] \in Nat
    BY <1>1, <1>2, ElementOfSeq
  <2>3. QED
    BY <2>1, <2>2
<1>5. AnswerOK'
  <2>1. got'.count \in 0 .. SizeOf(pc') /\ SizeOf(pc') = want
    BY <1>1, <1>2, <1>3, <1>4
  <2>2. QED
    BY <1>1, <1>4, <2>1 DEF AnswerOK
<1>6. ASSUME NEW n \in 1 .. Following, InPacket(n)
      PROVE  IsPrefix(sent, queued)
  <2>1. /\ Len(queued) = Before(n) /\ IsPrefix(queued, sent)
        /\ Position = Start(n) + Offset(pc)
        /\ pc # "type" => n <= Len(begun) /\ Decoded(begun[n].bytes, pc)
    BY <1>1, <1>2, <1>6 DEF InPacket, Fields
  <2>2. PICK whole : whole = IF left = <<>> THEN Len(begun) ELSE Len(begun) - 1
    OBVIOUS
  <2>3. /\ Len(begun) \in Nat /\ Following = Len(begun) + 1 /\ Len(sent) = Before(whole + 1)
        /\ left # <<>> => Len(begun) > 0
    <3>1. Len(begun) \in Nat /\ Following = Len(begun) + 1
      BY HistoryFacts DEF DecoderInv
    <3>2. Len(sent) = Before(whole + 1) /\ (left # <<>> => begun # <<>>)
      BY <2>2 DEF DecoderInv, HistoryOK
    <3>3. begun # <<>> => Len(begun) > 0
      BY SeqFacts DEF DecoderInv, TypeOK
    <3>4. QED
      BY <3>1, <3>2, <3>3
  <2>4. whole \in Nat /\ whole <= Len(begun) /\ whole + 1 \in 1 .. Following
    BY <2>2, <2>3
  <2>5. ~(n <= whole)
    <3>1. SUFFICES ASSUME n <= whole PROVE FALSE
      OBVIOUS
    <3>2. n \in 1 .. Len(begun)
      BY <2>3, <2>4, <3>1
    <3>3. /\ Offset(pc) + SizeOf(pc) <= Len(begun[n].bytes) /\ Len(begun[n].bytes) \in Nat
          /\ Start(n) \in Nat /\ Start(n + 1) = Start(n) + Len(begun[n].bytes)
      BY <1>2, <2>1, <3>2, FieldFits, HistoryFacts DEF DecoderInv
    <3>4. Start(n + 1) <= Position + Len(pipe)
      BY <2>2, <3>1, <3>2, WholePackets DEF DecoderInv
    <3> DEFINE size == Len(begun[n].bytes)
    <3>5. /\ Offset(pc) + want <= size /\ size \in Nat
          /\ Start(n) + size <= (Start(n) + Offset(pc)) + Len(pipe)
      BY <1>2, <2>1, <3>3, <3>4
    <3> HIDE DEF size
    <3>6. QED
      BY <1>1, <1>2, <3>3, <3>5
  <2>6. Before(whole + 1) <= Before(n)
    <3>1. whole + 1 <= n
      BY <2>3, <2>4, <2>5
    <3>2. QED
      BY <2>4, <3>1, HistoryFacts DEF DecoderInv
  <2>7. /\ queued \in Seq(AllEvents) /\ sent \in Seq(AllEvents)
        /\ Len(sent) \in Nat /\ Len(queued) \in Nat
    BY LenProperties DEF DecoderInv, TypeOK
  <2>8. Len(queued) <= Len(sent) /\ \A i \in 1 .. Len(queued) : queued[i] = sent[i]
    BY <2>1, <2>7, PrefixPointwise
  <2>9. Len(sent) = Len(queued)
    BY <2>1, <2>3, <2>6, <2>7, <2>8
  <2>10. QED
    BY <2>7, <2>8, <2>9, PrefixPointwise
<1>7. (\E n \in 1 .. Following : InPacket(n)) \/ AtEnd => AtEnd'
  <2>1. AtEnd => IsPrefix(sent, queued)
    BY DEF AtEnd
  <2>2. link' = "eof" /\ pipe' = <<>> /\ sent' = sent /\ queued' = queued
    BY <1>1, <1>3
  <2>3. QED
    BY <1>6, <2>1, <2>2 DEF AtEnd
<1>8. ~Stopping /\ (pc' = "done" => interrupted')
  BY <1>1, <1>3 DEF Stopping, DecoderInv
<1>9. QED
  BY <1>3, <1>5, <1>7, <1>8 DEF DecoderInv

LEMMA ReadErrorStep ==
  ASSUME DecoderAssumption, DecoderInv, SocketReturns, Stream!ReadError
  PROVE  DecoderInv'
<1>1. want # 0 /\ link = "reset" /\ got' = Stream!Error /\ want' = 0
  BY DEF Stream!ReadError
<1>2. PICK k \in 0 .. Len(pipe) : pipe' = SubSeq(pipe, k + 1, Len(pipe))
  BY DEF Stream!ReadError
<1>3. /\ TypeOK' /\ HistoryOK' /\ StreamOK' /\ FieldsInHand'
      /\ UNCHANGED <<begun, left, sent, pc, fields, queued, interrupted, link>>
  BY <1>1, <1>2, Returned
<1>4. pc \in Fields
  BY <1>1 DEF DecoderInv, AnswerOK
<1>5. AnswerOK'
  <2>1. got'.outcome # "data"
    BY <1>1 DEF Stream!Error
  <2>2. QED
    BY <1>1, <2>1 DEF AnswerOK
<1>6. IsPrefix(queued, sent)
  BY <1>1 DEF DecoderInv, InPacket, AtEnd, Stopping
<1>7. Stopping'
  BY <1>1, <1>3, <1>4, <1>6 DEF Stopping
<1>8. pc' = "done" => interrupted'
  BY <1>3 DEF DecoderInv
<1>9. QED
  BY <1>3, <1>5, <1>7, <1>8 DEF DecoderInv

-----------------------------------------------------------------------------
(* The theorems *)

LEMMA InitStep ==
  ASSUME DecoderAssumption, Init
  PROVE  DecoderInv
<1>1. /\ pipe = <<>> /\ link = "up" /\ want = 0 /\ got = Stream!NoAnswer
      /\ begun = <<>> /\ left = <<>> /\ sent = <<>> /\ pc = "check" /\ fields = <<>>
      /\ queued = <<>> /\ interrupted = FALSE
  BY DEF Init, Stream!Init
<1>2. /\ \A S : <<>> \in Seq(S) /\ Len(<<>>) = 0
  OBVIOUS
<1>3. Len(begun) = 0 /\ Len(queued) = 0 /\ Len(sent) = 0 /\ Len(pipe) = 0
  BY <1>1, <1>2
<1>4. TypeOK
  <2>1. /\ pipe \in Seq(Nat) /\ left \in Seq(Nat) /\ begun \in Seq(Numbered)
        /\ sent \in Seq(AllEvents) /\ queued \in Seq(AllEvents) /\ fields \in Seq(Doubles)
    BY <1>1, <1>2, Zenon
  <2>2. Len(begun) <= MaxSent
    BY <1>3 DEF DecoderAssumption
  <2>3. QED
    BY <1>1, <2>1, <2>2 DEF TypeOK
<1>5. Following = 1 /\ Start(1) = 0 /\ Before(1) = 0
  BY <1>3 DEF Following, Start, Before
<1>6. HistoryOK
  BY <1>1, <1>3, <1>5 DEF HistoryOK
<1>7. Len(Unread) = 0
  BY <1>1, <1>3, <1>4, UnreadFacts
<1>8. StreamOK /\ Position = 0
  <2>1. Position = 0
    BY <1>5, <1>7 DEF Position
  <2>2. QED
    BY <1>3, <2>1 DEF StreamOK
<1>9. AnswerOK /\ FieldsInHand
  <2>1. pc \notin Fields
    BY <1>1 DEF Fields
  <2>2. QED
    BY <1>1, <2>1 DEF AnswerOK, FieldsInHand
<1>10. InPacket(1)
  <2>1. IsPrefix(queued, sent)
    <3>1. queued \in Seq(AllEvents) /\ sent \in Seq(AllEvents)
      BY <1>4 DEF TypeOK
    <3>2. Len(queued) <= Len(sent) /\ \A i \in 1 .. Len(queued) : queued[i] = sent[i]
      BY <1>3
    <3>3. QED
      BY <3>1, <3>2, PrefixPointwise
  <2>2. pc \notin Fields
    BY <1>1 DEF Fields
  <2>3. QED
    BY <1>1, <1>3, <1>5, <1>8, <2>1, <2>2 DEF InPacket
<1>11. QED
  BY <1>1, <1>4, <1>5, <1>6, <1>8, <1>9, <1>10 DEF DecoderInv

LEMMA Stutters ==
  ASSUME DecoderAssumption, DecoderInv, UNCHANGED vars
  PROVE  DecoderInv'
<1>1. /\ UNCHANGED <<pipe, want, got, clientVars, pc, fields, queued>>
      /\ link' = link /\ interrupted' = interrupted
  BY DEF vars, streamVars
<1>2. QED
  BY <1>1, EnvironmentKeeps DEF DecoderInv, TypeOK

(***************************************************************************)
(* PacketReaderAsync::run() and readInboundPacket(): at every moment the   *)
(* reader is where the packets say it is, in one of them, or the stream    *)
(* has ended in order, or it stops.  For every size of a double, every     *)
(* packet, every byte a variable may hold, and any number of packets.      *)
(***************************************************************************)
THEOREM DecoderCorrect ==
  ASSUME DecoderAssumption
  PROVE  SafeSpec => []DecoderInv
<1>1. Init => DecoderInv
  BY InitStep
<1>2. DecoderInv /\ [Next]_vars => DecoderInv'
  <2>1. SUFFICES ASSUME DecoderInv, [Next]_vars PROVE DecoderInv'
    OBVIOUS
  <2>2. CASE ClientBegins
    BY <2>1, <2>2, ClientBeginsStep
  <2>3. CASE ClientSends
    BY <2>1, <2>3, ClientSendsStep
  <2>4. CASE LinkLost
    BY <2>1, <2>4, LinkLostStep
  <2>5. CASE HandlerInterrupts
    BY <2>1, <2>5, HandlerInterruptsStep
  <2>6. CASE SocketReturns
    <3>1. Stream!Whole \/ Stream!Short \/ Stream!ReadError
      BY <2>6 DEF SocketReturns
    <3>2. QED
      BY <2>1, <2>6, <3>1, WholeStep, ShortStep, ReadErrorStep
  <2>7. CASE Reader
    BY <2>1, <2>7, ReaderSteps
  <2>8. CASE Finished \/ UNCHANGED vars
    BY <2>1, <2>8, Stutters DEF Finished
  <2>9. QED
    BY <2>1, <2>2, <2>3, <2>4, <2>5, <2>6, <2>7, <2>8 DEF Next
<1>3. QED
  BY <1>1, <1>2, PTL DEF SafeSpec

(***************************************************************************)
(* readInboundPacket() keeps the framing of a stream that carries no       *)
(* lengths: what is queued is what was sent, event for event; only after   *)
(* all of it, and only when the stream has ended in order, come events     *)
(* nobody sent.                                                            *)
(***************************************************************************)
THEOREM FramingIsKept ==
  ASSUME DecoderAssumption
  PROVE  SafeSpec => []FramingKept
<1>1. DecoderInv => FramingKept
  <2>1. SUFFICES ASSUME DecoderInv PROVE FramingKept
    OBVIOUS
  <2>2. CASE (\E n \in 1 .. Following : InPacket(n)) \/ Stopping
    BY <2>2 DEF InPacket, Stopping, FramingKept
  <2>3. CASE AtEnd
    <3>1. link = "eof" /\ IsPrefix(sent, queued)
      BY <2>3 DEF AtEnd
    <3>2. sent \in Seq(AllEvents)
      BY <2>1 DEF DecoderInv, TypeOK
    <3>3. sent = queued => IsPrefix(queued, sent)
      BY <3>1
    <3>4. QED
      BY <3>1, <3>3 DEF FramingKept, IsStrictPrefix
  <2>4. QED
    BY <2>1, <2>2, <2>3 DEF DecoderInv
<1>2. QED
  BY <1>1, DecoderCorrect, PTL
=============================================================================
