------------------------- MODULE EventDispatch_proof -------------------------
(***************************************************************************)
(* Proofs about the EventDispatch module, for every screen, every set of   *)
(* coordinates and keys and every distance the X server may be behind:     *)
(* DispatchInv is inductive, and the click of a mouse event lands.         *)
(***************************************************************************)
EXTENDS EventDispatch, SequenceTheorems, TLAPS

-----------------------------------------------------------------------------
(* The calls of an event *)

\* The empty sequence and the others.
LEMMA SeqFacts ==
  ASSUME NEW S, NEW s \in Seq(S)
  PROVE  /\ Len(s) \in Nat
         /\ s = <<>> <=> Len(s) = 0
         /\ s # <<>> => Len(s) > 0 /\ Head(s) = s[1]
BY EmptySeq, LenProperties

LEMMA CallTypes ==
  /\ Query \in AllCalls /\ [call |-> "throw"] \in AllCalls
  /\ \A by \in Int : Rel(by) \in AllCalls
  /\ \A d \in Devices : Syn(d) \in AllCalls
  /\ \A d \in Devices, c \in AllCodes : Press(d, c) \in AllCalls /\ Release(d, c) \in AllCalls
BY DEF Query, Rel, Press, Release, Syn, AllCalls, Devices

\* A click is three calls, in this order.
LEMMA ClickCalls ==
  ASSUME NEW d \in Devices, NEW c \in AllCodes
  PROVE  /\ Click(d, c) \in Seq(AllCalls) /\ Len(Click(d, c)) = 3
         /\ Click(d, c)[1] = Press(d, c)
         /\ Click(d, c)[2] = Release(d, c)
         /\ Click(d, c)[3] = Syn(d)
BY CallTypes DEF Click

LEMMA MoveCalls ==
  /\ Move \in Seq(AllCalls) /\ Len(Move) = 2
  /\ Move[1] = Query /\ Move[2] = Syn("mouse")
BY CallTypes DEF Move, Devices

\* What InOrder says of the i-th call of a sequence.
Follows(s, i) ==
  /\ s[i].call \in {"query", "rel"} => i = 1 /\ Len(s) > 1 /\ s[2] = Syn("mouse")
  /\ s[i].call = "key" =>
       /\ i < Len(s)
       /\ s[i + 1] = IF s[i].value = 1 THEN Release(s[i].dev, s[i].code) ELSE Syn(s[i].dev)

LEMMA ClickFollows ==
  ASSUME NEW d \in Devices, NEW c \in AllCodes, NEW i \in 1 .. 3
  PROVE  Follows(Click(d, c), i) /\ Click(d, c)[i].call \notin {"query", "rel"}
<1> DEFINE s == Click(d, c)
<1>1. Len(s) = 3 /\ s[1] = Press(d, c) /\ s[2] = Release(d, c) /\ s[3] = Syn(d)
  BY ClickCalls
<1> HIDE DEF s
<1>2. i = 1 => Follows(s, i) /\ s[i].call \notin {"query", "rel"}
  BY <1>1 DEF Follows, Press, Release
<1>3. i = 2 => Follows(s, i) /\ s[i].call \notin {"query", "rel"}
  BY <1>1 DEF Follows, Release, Syn
<1>4. i = 3 => Follows(s, i) /\ s[i].call \notin {"query", "rel"}
  BY <1>1 DEF Follows, Syn
<1>5. QED
  BY <1>2, <1>3, <1>4 DEF s

\* One sequence of calls after the other, the second without a motion.
LEMMA Joined ==
  ASSUME NEW s \in Seq(AllCalls), NEW t \in Seq(AllCalls),
         \A i \in 1 .. Len(s) : Follows(s, i),
         \A i \in 1 .. Len(t) : Follows(t, i) /\ t[i].call \notin {"query", "rel"}
  PROVE  /\ s \o t \in Seq(AllCalls)
         /\ Len(s \o t) = Len(s) + Len(t)
         /\ \A i \in 1 .. Len(s \o t) : Follows(s \o t, i)
         /\ s # <<>> => (s \o t)[1] = s[1]
         /\ (\A i \in 1 .. Len(s) : s[i].call \notin {"query", "rel"})
              => \A i \in 1 .. Len(s \o t) : (s \o t)[i].call \notin {"query", "rel"}
<1> DEFINE u == s \o t
<1>1. /\ u \in Seq(AllCalls) /\ Len(u) = Len(s) + Len(t)
      /\ Len(s) \in Nat /\ Len(t) \in Nat
      /\ \A i \in 1 .. Len(s) + Len(t) : u[i] = IF i <= Len(s) THEN s[i] ELSE t[i - Len(s)]
  BY ConcatProperties, LenProperties
<1>2. s # <<>> => Len(s) > 0
  BY EmptySeq, <1>1
<1>3. ASSUME NEW i \in 1 .. Len(u) PROVE Follows(u, i)
  <2>1. CASE i <= Len(s)
    BY <1>1, <2>1 DEF Follows
  <2>2. CASE i > Len(s)
    <3>1. i - Len(s) \in 1 .. Len(t) /\ u[i] = t[i - Len(s)]
      BY <1>1, <2>2
    <3>2. i < Len(u) => u[i + 1] = t[(i - Len(s)) + 1]
      BY <1>1, <2>2
    <3>3. Follows(t, i - Len(s)) /\ t[i - Len(s)].call \notin {"query", "rel"}
      BY <3>1
    <3>4. QED
      BY <1>1, <2>2, <3>1, <3>2, <3>3 DEF Follows
  <2>3. QED
    BY <1>1, <2>1, <2>2
<1>4. ASSUME \A i \in 1 .. Len(s) : s[i].call \notin {"query", "rel"}, NEW i \in 1 .. Len(u)
      PROVE  u[i].call \notin {"query", "rel"}
  <2>1. i <= Len(s) \/ i - Len(s) \in 1 .. Len(t)
    BY <1>1
  <2>2. QED
    BY <1>1, <1>4, <2>1
<1>5. QED
  BY <1>1, <1>2, <1>3, <1>4

\* The calls of an event: a mouse event begins with the query of the position,
\* a key event with a press.
LEMMA EventCalls ==
  ASSUME NEW e \in Events
  PROVE  /\ Calls(e) \in Seq(AllCalls) /\ Len(Calls(e)) > 0
         /\ \A i \in 1 .. Len(Calls(e)) : Follows(Calls(e), i)
         /\ Calls(e)[1].call # "rel"
<1> DEFINE ok(t) == /\ t \in Seq(AllCalls)
                    /\ \A i \in 1 .. Len(t) :
                         Follows(t, i) /\ t[i].call \notin {"query", "rel"}
<1>1. "mouse" \in Devices /\ "keyboard" \in Devices
      /\ "BTN_LEFT" \in AllCodes /\ "BTN_RIGHT" \in AllCodes
  BY DEF Devices, AllCodes
<1>2. ASSUME NEW d \in Devices, NEW c \in AllCodes
      PROVE  ok(Click(d, c)) /\ Click(d, c) # <<>>
  <2>1. Click(d, c) \in Seq(AllCalls) /\ Len(Click(d, c)) = 3
    BY ClickCalls
  <2>2. \A i \in 1 .. 3 : Follows(Click(d, c), i) /\ Click(d, c)[i].call \notin {"query", "rel"}
    BY ClickFollows
  <2> HIDE DEF ok
  <2>3. Click(d, c) # <<>>
    BY <2>1, EmptySeq
  <2>4. ok(Click(d, c))
    BY <2>1, <2>2 DEF ok
  <2>5. QED
    BY <2>3, <2>4
<1>3. ok(Click("mouse", "BTN_LEFT") \o Click("mouse", "BTN_LEFT"))
  <2> DEFINE s == Click("mouse", "BTN_LEFT")
  <2>1. s \in Seq(AllCalls) /\ Len(s) = 3
    BY <1>1, ClickCalls
  <2>8. \A i \in 1 .. Len(s) : Follows(s, i) /\ s[i].call \notin {"query", "rel"}
    BY <1>1, <1>2, <2>1
  <2> HIDE DEF s
  <2>2. ok(s \o s)
    BY <2>1, <2>8, Joined
  <2>6. QED
    BY <2>2 DEF s
<1>4. ok(<<[call |-> "throw"]>>)
  <2> DEFINE t == <<[call |-> "throw"]>>
  <2>1. t \in Seq(AllCalls) /\ Len(t) = 1 /\ t[1].call = "throw"
    BY CallTypes
  <2>2. QED
    BY <2>1 DEF Follows
<1>5. ASSUME NEW b PROVE ok(ButtonCalls(b))
  BY <1>1, <1>2, <1>3, <1>4, Zenon DEF ButtonCalls
<1>6. CASE e.type = "MOUSE_EVENT"
  <2>1. \A i \in 1 .. Len(Move) : Follows(Move, i)
    <3>1. ASSUME NEW i \in 1 .. 2 PROVE Follows(Move, i)
      <4>1. i = 1 \/ i = 2
        OBVIOUS
      <4>2. QED
        BY <4>1, MoveCalls DEF Follows, Query, Syn
    <3>2. QED
      BY <3>1, MoveCalls
  <2> DEFINE t == ButtonCalls(e.button)
  <2>2. ok(t)
    BY <1>5
  <2> HIDE DEF t
  <2>3. /\ Move \o t \in Seq(AllCalls) /\ Len(Move \o t) = 2 + Len(t) /\ Len(t) \in Nat
        /\ \A i \in 1 .. Len(Move \o t) : Follows(Move \o t, i)
        /\ (Move \o t)[1] = Query
    <3>1. Move # <<>>
      BY MoveCalls, EmptySeq
    <3>2. QED
      BY <2>1, <2>2, <3>1, Joined, MoveCalls, LenProperties
  <2>4. Calls(e) = Move \o t
    BY <1>6 DEF Calls, t
  <2>5. QED
    BY <2>3, <2>4 DEF Query
<1>7. CASE e.type # "MOUSE_EVENT"
  <2>1. e \in KeyEvents /\ e.key \in AllCodes
    BY <1>7 DEF Events, MouseEvents, KeyEvents, AllCodes
  <2>2. Calls(e) = Click("keyboard", e.key)
    BY <1>7 DEF Calls
  <2>3. QED
    BY <1>1, <1>2, <2>1, <2>2, ClickCalls DEF Press
<1>8. QED
  BY <1>6, <1>7

-----------------------------------------------------------------------------
(* The screen *)

LEMMA OnScreen ==
  ASSUME DispatchAssumption
  PROVE  /\ \A x \in Int : Confine(x) \in 0 .. Width - 1
         /\ \A x \in 0 .. Width - 1 : Confine(x) = x
         /\ \A x \in Int : Target(x) \in Int /\ Confine(Target(x)) = Confine(x)
BY DEF DispatchAssumption, Confine, Target

LEMMA Coordinate ==
  ASSUME DispatchAssumption, TypeOK
  PROVE  asked \in Int /\ pointer \in Int
BY DEF DispatchAssumption, TypeOK

-----------------------------------------------------------------------------
(* The next call and those after it *)

LEMMA NextCallFacts ==
  ASSUME TypeOK, InOrder, todo # <<>>
  PROVE  /\ Len(todo) \in Nat /\ Len(todo) > 0
         /\ Head(todo) \in AllCalls /\ Head(todo) = todo[1]
         /\ Follows(todo, 1)
         /\ Tail(todo) \in Seq(AllCalls) /\ Len(Tail(todo)) = Len(todo) - 1
         /\ \A i \in 1 .. Len(todo) - 1 : Tail(todo)[i] = todo[i + 1]
BY EmptySeq, LenProperties, HeadTailProperties DEF TypeOK, InOrder, Follows

LEMMA RestOfCalls ==
  ASSUME TypeOK, InOrder, todo # <<>>, todo' = Tail(todo)
  PROVE  /\ todo' \in Seq(AllCalls)
         /\ InOrder'
         /\ Len(todo) > 1 => todo' # <<>> /\ Head(todo') = todo[2]
         /\ Len(todo) = 1 => todo' = <<>>
         /\ todo' # <<>> => Len(todo) > 1 /\ Head(todo').call \notin {"query", "rel"}
<1>1. /\ Len(todo) \in Nat /\ Len(todo) > 0
      /\ todo' \in Seq(AllCalls) /\ Len(todo') = Len(todo) - 1
      /\ \A i \in 1 .. Len(todo) - 1 : todo'[i] = todo[i + 1]
  BY NextCallFacts
<1>2. ASSUME NEW i \in 1 .. Len(todo')
      PROVE  Follows(todo', i) /\ todo'[i].call \notin {"query", "rel"}
  <2>1. i + 1 \in 1 .. Len(todo) /\ todo'[i] = todo[i + 1]
        /\ i < Len(todo') => todo'[i + 1] = todo[(i + 1) + 1]
    BY <1>1
  <2>2. Follows(todo, i + 1)
    BY <2>1 DEF InOrder, Follows
  <2>3. QED
    BY <1>1, <2>1, <2>2 DEF Follows
<1>3. InOrder'
  BY <1>2 DEF InOrder, Follows
<1>4. /\ todo' # <<>> => Len(todo') > 0 /\ Head(todo') = todo'[1]
      /\ Len(todo') = 0 => todo' = <<>>
      /\ Len(todo') > 0 => todo' # <<>>
  <2>1. ASSUME NEW s \in Seq(AllCalls)
        PROVE  s # <<>> <=> Len(s) > 0
    BY SeqFacts
  <2>2. ASSUME NEW s \in Seq(AllCalls), s # <<>>
        PROVE  Head(s) = s[1]
    BY <2>2, SeqFacts
  <2>3. todo' \in Seq(AllCalls)
    BY <1>1
  <2>4. todo' # <<>> <=> Len(todo') > 0
    BY <2>1, <2>3
  <2>5. todo' # <<>> => Head(todo') = todo'[1]
    BY <2>2, <2>3
  <2>6. QED
    BY <2>4, <2>5
<1>5. QED
  BY <1>1, <1>2, <1>3, <1>4

\* The frame EmitRel leaves.
LEMMA MotionOfFrame ==
  ASSUME NEW f \in [by : Int, keys : BOOLEAN], NEW v \in Int
  PROVE  [f EXCEPT !.by = v] = [by |-> v, keys |-> f.keys]
<1> DEFINE g == [f EXCEPT !.by = v]
<1>1. g \in [by : Int, keys : BOOLEAN] /\ g.by = v /\ g.keys = f.keys
  OBVIOUS
<1> HIDE DEF g
<1>2. g = [by |-> v, keys |-> f.keys]
  BY <1>1
<1>3. QED
  BY <1>2 DEF g

\* Before a query, a motion and a press nothing is pressed or waits for its SYN.
LEMMA AtRest ==
  ASSUME TypeOK, PressThenRelease, SynFollows, DevicesAtRest,
         \/ todo = <<>>
         \/ Head(todo).call \in {"query", "rel"}
         \/ Head(todo).call = "key" /\ Head(todo).value = 1
  PROVE  \A d \in Devices : held[d] = {} /\ frame[d] = Nothing
<1>1. CASE todo = <<>>
  BY <1>1 DEF DevicesAtRest
<1>2. CASE Head(todo).call \in {"query", "rel"}
  BY <1>2 DEF PressThenRelease, SynFollows, Syn, Release
<1>3. CASE Head(todo).call = "key" /\ Head(todo).value = 1
  BY <1>3 DEF PressThenRelease, SynFollows, Syn, Release
<1>4. QED
  BY <1>1, <1>2, <1>3

-----------------------------------------------------------------------------
(* One lemma for each action *)

LEMMA BeginStep ==
  ASSUME DispatchAssumption, DispatchInv, NEW e \in Events, Begin(e)
  PROVE  DispatchInv'
<1> USE DEF Begin
<1>1. \A d \in Devices : held'[d] = {} /\ frame'[d] = Nothing
  BY AtRest DEF DispatchInv
<1>2. /\ todo' \in Seq(AllCalls) /\ Len(todo') > 0 /\ todo' # <<>> /\ Head(todo') = todo'[1]
      /\ Head(todo').call # "rel"
      /\ InOrder'
  <2>1. todo' \in Seq(AllCalls) /\ Len(todo') > 0 /\ todo'[1].call # "rel" /\ InOrder'
    BY EventCalls DEF InOrder, Follows
  <2>2. QED
    BY <2>1, EmptySeq, HeadTailProperties
<1>3. TypeOK'
  <2>1. asked' \in Coordinates \cup {0}
    BY DEF DispatchInv, TypeOK, Events, MouseEvents, KeyEvents
  <2>2. QED
    BY <1>2, <2>1 DEF DispatchInv, TypeOK
<1>4. DevicesAtRest' /\ PressThenRelease' /\ SynFollows'
  <2>1. held' = held
    OBVIOUS
  <2>2. DevicesAtRest' /\ PressThenRelease'
    BY <1>1, <1>2, <2>1 DEF DevicesAtRest, PressThenRelease, DispatchInv
  <2>3. SynFollows'
    BY <1>1 DEF SynFollows, Nothing
  <2>4. QED
    BY <2>2, <2>3
<1>5. MotionLands'
  BY DEF DispatchInv, MotionLands
<1>6. EventLands'
  <2>1. ~exact'
    BY Zenon
  <2>2. QED
    BY <2>1 DEF EventLands
<1>7. QED
  BY <1>2, <1>3, <1>4, <1>5, <1>6 DEF DispatchInv

LEMMA QueryStep ==
  ASSUME DispatchAssumption, DispatchInv, QueryPosition
  PROVE  DispatchInv'
<1> USE DEF QueryPosition, NextCall
<1> DEFINE r == Rel(Target(asked) - pointer)
<1>1. \A d \in Devices : held'[d] = {} /\ frame'[d] = Nothing
  BY AtRest DEF DispatchInv
<1>2. asked \in Int /\ pointer \in Int /\ Target(asked) \in Int
      /\ Confine(Target(asked)) = Confine(asked)
  BY Coordinate, OnScreen DEF DispatchInv
<1>3. r \in AllCalls /\ <<r>> \in Seq(AllCalls) /\ Len(<<r>>) = 1 /\ <<r>>[1] = r
  BY <1>2, CallTypes
<1>4. /\ Len(todo) \in Nat /\ Len(todo) > 1 /\ todo[2] = Syn("mouse")
      /\ Tail(todo) \in Seq(AllCalls) /\ Len(Tail(todo)) = Len(todo) - 1
      /\ \A i \in 1 .. Len(todo) - 1 : Tail(todo)[i] = todo[i + 1]
  BY NextCallFacts DEF Follows, DispatchInv
<1>5. /\ todo' \in Seq(AllCalls) /\ Len(todo') = Len(todo)
      /\ \A i \in 1 .. Len(todo) : todo'[i] = IF i = 1 THEN r ELSE todo[i]
  <2>1. todo' = <<r>> \o Tail(todo)
    OBVIOUS
  <2> HIDE DEF r, QueryPosition
  <2>2. QED
    BY <1>3, <1>4, <2>1, ConcatProperties
<1>6. todo' # <<>> /\ Head(todo') = r
  BY <1>4, <1>5, EmptySeq, HeadTailProperties
<1>7. InOrder'
  <2>1. ASSUME NEW i \in 1 .. Len(todo') PROVE Follows(todo', i)
    <3>1. CASE i = 1
      BY <1>4, <1>5, <3>1 DEF Follows, Rel
    <3>2. CASE i > 1
      <4>1. Follows(todo, i)
        BY <1>5 DEF Follows, DispatchInv, InOrder
      <4>2. todo'[i] = todo[i] /\ (i < Len(todo') => todo'[i + 1] = todo[i + 1])
        BY <1>4, <1>5, <3>2
      <4>3. QED
        BY <1>5, <3>2, <4>1, <4>2 DEF Follows
    <3>3. QED
      BY <3>1, <3>2
  <2>2. QED
    BY <2>1 DEF InOrder, Follows
<1>8. TypeOK'
  BY <1>5 DEF DispatchInv, TypeOK
<1>9. DevicesAtRest' /\ PressThenRelease' /\ SynFollows'
  BY <1>1, <1>6 DEF DevicesAtRest, PressThenRelease, SynFollows, Nothing, DispatchInv
<1>10. MotionLands'
  BY DEF DispatchInv, MotionLands
<1>11. EventLands'
  <2>1. Pending' = Target(asked) - pointer
    BY <1>6 DEF Pending, Rel
  <2>2. Confine(pointer' + Pending') = Confine(asked')
    BY <1>2, <2>1
  <2>3. exact' => inFlight'["mouse"] = <<>>
    BY Zenon
  <2>4. Head(todo').call # "query"
    BY <1>6 DEF Rel
  <2>5. QED
    BY <2>2, <2>3, <2>4 DEF EventLands
<1>12. QED
  BY <1>7, <1>8, <1>9, <1>10, <1>11 DEF DispatchInv

LEMMA EmitRelStep ==
  ASSUME DispatchAssumption, DispatchInv, EmitRel
  PROVE  DispatchInv'
<1> USE DEF EmitRel, NextCall
<1> DEFINE by == Head(todo).by
<1>1. \A d \in Devices : held[d] = {} /\ frame[d] = Nothing
  BY AtRest DEF DispatchInv
<1>2. Len(todo) > 1 /\ todo[2] = Syn("mouse") /\ Head(todo) \in AllCalls
  BY NextCallFacts DEF Follows, DispatchInv
<1>3. by \in Int
  BY <1>2 DEF AllCalls
<1>4. todo' \in Seq(AllCalls) /\ InOrder' /\ todo' # <<>> /\ Head(todo') = Syn("mouse")
  BY <1>2, RestOfCalls DEF DispatchInv
<1>5. /\ frame' \in [Devices -> [by : Int, keys : BOOLEAN]]
      /\ frame'["mouse"] = [by |-> by, keys |-> FALSE]
      /\ frame'["keyboard"] = Nothing
  <2> DEFINE m == [by |-> by, keys |-> FALSE]
  <2>1. frame \in [Devices -> [by : Int, keys : BOOLEAN]]
    BY DEF DispatchInv, TypeOK
  <2>2. frame' = [frame EXCEPT !["mouse"] = [frame["mouse"] EXCEPT !.by = frame["mouse"].by + by]]
    OBVIOUS
  <2>8. frame["mouse"] \in [by : Int, keys : BOOLEAN] /\ frame["mouse"].by = 0
        /\ frame["mouse"].keys = FALSE
    BY <1>1, <2>1 DEF Devices, Nothing
  <2> HIDE DEF EmitRel, by
  <2>3. [frame["mouse"] EXCEPT !.by = frame["mouse"].by + by] = m
    <3>1. frame["mouse"].by + by = by
      BY <1>3, <2>8
    <3>2. [frame["mouse"] EXCEPT !.by = by] = m
      BY <1>3, <2>8, MotionOfFrame
    <3>3. QED
      BY <3>1, <3>2
  <2>4. frame' = [frame EXCEPT !["mouse"] = m]
    BY <2>2, <2>3
  <2>5. m \in [by : Int, keys : BOOLEAN]
    BY <1>3
  <2> HIDE DEF m
  <2>6. /\ frame' \in [Devices -> [by : Int, keys : BOOLEAN]]
        /\ frame'["mouse"] = m /\ frame'["keyboard"] = Nothing
    BY <1>1, <2>1, <2>4, <2>5 DEF Devices
  <2>7. QED
    BY <2>6 DEF m
<1>6. TypeOK'
  BY <1>4, <1>5 DEF DispatchInv, TypeOK
<1>7. DevicesAtRest' /\ PressThenRelease' /\ SynFollows'
  <2>1. held' = held
    OBVIOUS
  <2>2. DevicesAtRest' /\ PressThenRelease'
    BY <1>1, <1>4, <2>1 DEF DevicesAtRest, PressThenRelease, DispatchInv
  <2>3. SynFollows'
    <3>1. \A d \in Devices : frame'[d] # Nothing => Head(todo') = Syn(d)
      BY <1>4, <1>5 DEF Devices
    <3>2. \A d \in Devices : ~frame'[d].keys
      BY <1>5 DEF Nothing, Devices
    <3>3. frame'["keyboard"].by = 0
      BY <1>5 DEF Nothing
    <3>4. QED
      BY <1>4, <3>1, <3>2, <3>3 DEF SynFollows
  <2>4. QED
    BY <2>2, <2>3
<1>8. MotionLands'
  BY DEF DispatchInv, MotionLands
<1>9. EventLands'
  <2>1. Pending = by /\ Pending' = by
    BY <1>4, <1>5 DEF Pending, Syn
  <2>2. Head(todo').call # "query"
    BY <1>4 DEF Syn
  <2>3. QED
    BY <2>1, <2>2 DEF EventLands, DispatchInv
<1>10. QED
  BY <1>4, <1>6, <1>7, <1>8, <1>9 DEF DispatchInv

LEMMA EmitKeyStep ==
  ASSUME DispatchAssumption, DispatchInv, EmitKey
  PROVE  DispatchInv'
<1> DEFINE k == Head(todo)
           known == k.dev = "mouse" \/ k.code \in Enabled
           now == IF k.value = 1 THEN held[k.dev] \cup {k.code} ELSE held[k.dev] \ {k.code}
<1>1. /\ todo # <<>> /\ k.call = "key" /\ todo' = Tail(todo)
      /\ UNCHANGED <<asked, inFlight, pointer, exact, failed>>
      /\ known /\ now # held[k.dev] =>
           /\ held' = [held EXCEPT ![k.dev] = now]
           /\ frame' = [frame EXCEPT ![k.dev].keys = TRUE]
      /\ ~(known /\ now # held[k.dev]) => held' = held /\ frame' = frame
  BY DEF EmitKey, NextCall
<1>2. /\ k \in AllCalls /\ k = todo[1] /\ Len(todo) > 1
      /\ todo[2] = IF k.value = 1 THEN Release(k.dev, k.code) ELSE Syn(k.dev)
  BY <1>1, NextCallFacts DEF Follows, DispatchInv
<1>3. k.dev \in Devices /\ k.code \in AllCodes /\ k.value \in {0, 1}
  BY <1>1, <1>2 DEF AllCalls
<1>4. /\ todo' \in Seq(AllCalls) /\ InOrder' /\ todo' # <<>>
      /\ Head(todo') = IF k.value = 1 THEN Release(k.dev, k.code) ELSE Syn(k.dev)
  BY <1>1, <1>2, RestOfCalls DEF DispatchInv
<1>5. \A d \in Devices \ {k.dev} : held[d] = {} /\ frame[d] = Nothing
  BY <1>1, <1>3 DEF DispatchInv, PressThenRelease, SynFollows, Release, Syn
<1>6. held[k.dev] \subseteq {k.code} /\ (k.value = 1 => held[k.dev] = {})
  BY <1>1, <1>3 DEF DispatchInv, PressThenRelease, Release
<1>7. frame[k.dev].by = 0
  BY <1>1, <1>3 DEF DispatchInv, SynFollows, Syn, Nothing
<1>8. frame \in [Devices -> [by : Int, keys : BOOLEAN]] /\ held \in [Devices -> SUBSET AllCodes]
  BY DEF DispatchInv, TypeOK
<1>9. /\ held' \in [Devices -> SUBSET AllCodes]
      /\ \A d \in Devices \ {k.dev} : held'[d] = {}
      /\ held'[k.dev] \subseteq (IF k.value = 1 THEN {k.code} ELSE {})
      /\ held'["keyboard"] \subseteq Enabled
  <2>1. held["keyboard"] \subseteq Enabled
    BY DEF DispatchInv, PressThenRelease
  <2>2. CASE known /\ now # held[k.dev]
    BY <1>1, <1>3, <1>5, <1>6, <1>8, <2>1, <2>2 DEF Devices
  <2>3. CASE ~(known /\ now # held[k.dev])
    <3>1. held' = held
      BY <1>1, <2>3
    <3>2. CASE k.value = 1
      BY <1>5, <1>6, <1>8, <2>1, <3>1, <3>2
    <3>3. CASE k.value # 1
      <4>1. known => held[k.dev] = {}
        BY <1>6, <2>3, <3>3
      <4>2. ~known => held[k.dev] = {}
        BY <1>3, <1>6, <2>1 DEF Devices
      <4>3. QED
        BY <1>5, <1>8, <2>1, <3>1, <4>1, <4>2
    <3>4. QED
      BY <3>2, <3>3
  <2>4. QED
    BY <2>2, <2>3
<1>10. /\ frame' \in [Devices -> [by : Int, keys : BOOLEAN]]
       /\ \A d \in Devices \ {k.dev} : frame'[d] = Nothing
       /\ frame'[k.dev].by = 0
       /\ frame'["mouse"].by = frame["mouse"].by
       /\ frame'["keyboard"].by = frame["keyboard"].by
  <2>1. CASE known /\ now # held[k.dev]
    <3> DEFINE f == [frame[k.dev] EXCEPT !.keys = TRUE]
    <3>1. f \in [by : Int, keys : BOOLEAN] /\ f.by = 0
      BY <1>3, <1>7, <1>8
    <3>2. frame' = [frame EXCEPT ![k.dev] = f]
      BY <1>1, <2>1
    <3> HIDE DEF f
    <3>3. /\ frame' \in [Devices -> [by : Int, keys : BOOLEAN]]
          /\ frame'[k.dev] = f
          /\ \A d \in Devices \ {k.dev} : frame'[d] = frame[d]
      BY <1>3, <1>8, <3>1, <3>2
    <3>4. QED
      BY <1>5, <1>7, <3>1, <3>3 DEF Devices
  <2>2. CASE ~(known /\ now # held[k.dev])
    BY <1>1, <1>3, <1>5, <1>7, <1>8, <2>2
  <2>3. QED
    BY <2>1, <2>2
<1> HIDE DEF k, known, now
<1>11. TypeOK'
  BY <1>1, <1>4, <1>9, <1>10 DEF DispatchInv, TypeOK
<1>12. DevicesAtRest'
  BY <1>4 DEF DevicesAtRest
<1>13. PressThenRelease'
  BY <1>3, <1>4, <1>9 DEF PressThenRelease
<1>14. SynFollows'
  <2>1. ASSUME NEW d \in Devices, frame'[d] # Nothing
        PROVE  \/ Head(todo') = Syn(d)
               \/ /\ Head(todo').call = "key" /\ Head(todo').dev = d /\ Head(todo').value = 0
                  /\ frame'[d].by = 0
    <3>1. d = k.dev
      BY <1>10, <2>1
    <3>2. QED
      BY <1>3, <1>4, <1>10, <3>1 DEF Release
  <2>2. ASSUME NEW d \in Devices, frame'[d].keys \/ d = "keyboard"
        PROVE  frame'[d].by = 0
    BY <1>10, <2>2 DEF Nothing
  <2>3. QED
    BY <1>4, <2>1, <2>2 DEF SynFollows
<1>15. MotionLands'
  BY <1>1 DEF DispatchInv, MotionLands
<1>16. EventLands'
  <2>1. Head(todo').call \notin {"rel", "query"}
    BY <1>4 DEF Release, Syn
  <2>2. Pending' = Pending
    BY <1>1, <1>10, <2>1 DEF Pending, k
  <2>3. QED
    BY <1>1, <2>1, <2>2 DEF EventLands, DispatchInv
<1>17. QED
  BY <1>4, <1>11, <1>12, <1>13, <1>14, <1>15, <1>16 DEF DispatchInv

LEMMA EmitSynStep ==
  ASSUME DispatchAssumption, DispatchInv, EmitSyn
  PROVE  DispatchInv'
<1> DEFINE d == Head(todo).dev
           shown == [by |-> frame[d].by, click |-> d = "mouse" /\ frame[d].keys,
                     for |-> IF d = "mouse" THEN asked ELSE 0, exact |-> d = "mouse" /\ exact]
<1>1. /\ todo # <<>> /\ Head(todo).call = "syn" /\ todo' = Tail(todo)
      /\ UNCHANGED <<asked, held, pointer, exact, failed>>
      /\ frame[d] = Nothing => inFlight' = inFlight
      /\ frame[d] # Nothing => inFlight' = [inFlight EXCEPT ![d] = Append(@, shown)]
      /\ frame' = [frame EXCEPT ![d] = Nothing]
  BY DEF EmitSyn, NextCall
<1>2. TypeOK /\ PressThenRelease /\ SynFollows /\ InOrder /\ MotionLands /\ EventLands
  BY DEF DispatchInv
<1>3. d \in Devices /\ Head(todo) = Syn(d)
  <2>1. Head(todo) \in AllCalls
    BY <1>1, <1>2, NextCallFacts
  <2>2. QED
    BY <1>1, <2>1 DEF AllCalls, Syn
<1>4. \A e \in Devices : held[e] = {} /\ (e # d => frame[e] = Nothing)
  BY <1>1, <1>2, <1>3 DEF PressThenRelease, SynFollows, Syn, Release
<1>5. /\ todo' \in Seq(AllCalls) /\ InOrder'
      /\ todo' # <<>> => Head(todo').call \notin {"query", "rel"}
  BY <1>1, <1>2, RestOfCalls
<1>6. /\ frame \in [Devices -> [by : Int, keys : BOOLEAN]]
      /\ inFlight \in [Devices -> Seq(Frames)]
      /\ asked \in Int /\ exact \in BOOLEAN
  BY <1>2, Coordinate DEF TypeOK
<1>7. /\ frame' \in [Devices -> [by : Int, keys : BOOLEAN]]
      /\ \A e \in Devices : frame'[e] = Nothing
  <2>1. Nothing \in [by : Int, keys : BOOLEAN]
    BY DEF Nothing
  <2> HIDE DEF d
  <2>2. QED
    BY <1>1, <1>3, <1>4, <1>6, <2>1
<1>8. /\ shown \in Frames
      /\ shown.by = frame[d].by
      /\ d = "mouse" => (shown.click <=> frame["mouse"].keys) /\ shown.for = asked
                        /\ (shown.exact <=> exact)
  BY <1>3, <1>6 DEF Frames
<1> HIDE DEF d, shown
<1>9. inFlight' \in [Devices -> Seq(Frames)]
  <2>1. inFlight[d] \in Seq(Frames)
    BY <1>3, <1>6
  <2>2. Append(inFlight[d], shown) \in Seq(Frames)
    BY <1>8, <2>1, AppendProperties
  <2>3. QED
    BY <1>1, <1>3, <1>6, <2>2
<1>10. TypeOK'
  BY <1>1, <1>2, <1>5, <1>7, <1>9 DEF TypeOK
<1>11. DevicesAtRest' /\ PressThenRelease' /\ SynFollows'
  <2>1. \A e \in Devices : held'[e] = {}
    BY <1>1, <1>4
  <2>2. held'["keyboard"] \subseteq Enabled
    BY <2>1 DEF Devices
  <2>3. SynFollows'
    BY <1>7 DEF SynFollows, Nothing
  <2>4. QED
    BY <1>7, <2>1, <2>2, <2>3 DEF DevicesAtRest, PressThenRelease
<1>12. Pending = frame["mouse"].by
  BY <1>1 DEF Pending
<1>13. Pending' = 0
  BY <1>5, <1>7 DEF Pending, Nothing, Devices
<1>14. /\ inFlight'["mouse"] = IF d = "mouse" /\ frame["mouse"] # Nothing
                                 THEN Append(inFlight["mouse"], shown) ELSE inFlight["mouse"]
       /\ inFlight'["keyboard"] = IF d = "keyboard" /\ frame["keyboard"] # Nothing
                                    THEN Append(inFlight["keyboard"], shown)
                                    ELSE inFlight["keyboard"]
  BY <1>1, <1>3, <1>6 DEF Devices
<1> DEFINE queue == inFlight["mouse"]
<1>15. queue \in Seq(Frames) /\ inFlight["keyboard"] \in Seq(Frames)
  BY <1>6 DEF Devices
<1>16. \A i \in 1 .. Len(inFlight'["keyboard"]) : inFlight'["keyboard"][i].by = 0
  <2>1. d = "keyboard" => shown.by = 0
    BY <1>2, <1>3, <1>8 DEF SynFollows
  <2>2. \A i \in 1 .. Len(inFlight["keyboard"]) : inFlight["keyboard"][i].by = 0
    BY <1>2 DEF MotionLands
  <2>3. QED
    BY <1>8, <1>14, <1>15, <2>1, <2>2, AppendProperties
<1>17. CASE d = "mouse" /\ frame["mouse"] # Nothing
  <2> DEFINE n == Len(queue) + 1
             new == Append(queue, shown)
  <2>1. /\ inFlight'["mouse"] = new
        /\ new \in Seq(Frames) /\ Len(new) = n /\ new # <<>> /\ new[n] = shown
        /\ \A i \in 1 .. Len(queue) : new[i] = queue[i]
        /\ Len(queue) \in Nat /\ (queue = <<>> <=> Len(queue) = 0)
    <3>1. inFlight'["mouse"] = new
      BY <1>14, <1>17
    <3>2. /\ new \in Seq(Frames) /\ Len(new) = n /\ new[n] = shown
          /\ \A i \in 1 .. Len(queue) : new[i] = queue[i]
      BY <1>8, <1>15, AppendProperties
    <3>3. Len(queue) \in Nat /\ (queue = <<>> <=> Len(queue) = 0)
      BY <1>15, SeqFacts
    <3>4. new # <<>>
      <4> HIDE DEF new
      <4>1. QED
        BY <3>2, <3>3, EmptySeq
    <3>5. QED
      BY <3>1, <3>2, <3>3, <3>4
  <2>2. /\ shown.by = Pending /\ shown.for = asked
        /\ shown.exact <=> exact
        /\ shown.click <=> frame["mouse"].keys
    BY <1>8, <1>12, <1>17
  <2>3. shown.click => shown.by = 0
    BY <1>2, <2>2, <1>12 DEF SynFollows, Devices
  <2>4. shown.by = 0 => shown.click
    <3>1. frame["mouse"] \in [by : Int, keys : BOOLEAN]
      BY <1>6 DEF Devices
    <3>2. frame["mouse"].by = 0 /\ ~frame["mouse"].keys => frame["mouse"] = Nothing
      BY <3>1 DEF Nothing
    <3>3. QED
      BY <1>12, <1>17, <2>2, <3>2
  <2> HIDE DEF queue, new
  <2>5. MotionLands'
    <3>1. ASSUME NEW i \in 1 .. n
          PROVE  /\ new[i].click => new[i].by = 0
                 /\ new[i].exact /\ i > 1 =>
                      new[i].click /\ new[i - 1].exact /\ new[i - 1].for = new[i].for
      <4>1. CASE i = n
        <5>1. i > 1 => queue # <<>> /\ new[i - 1] = queue[Len(queue)]
          BY <2>1, <4>1
        <5>2. exact /\ queue # <<>> =>
                Pending = 0 /\ queue[Len(queue)].exact /\ queue[Len(queue)].for = asked
          BY <1>2 DEF EventLands, queue
        <5>3. QED
          BY <2>1, <2>2, <2>3, <2>4, <4>1, <5>1, <5>2
      <4>2. CASE i # n
        <5>1. i \in 1 .. Len(queue) /\ new[i] = queue[i] /\ (i > 1 => new[i - 1] = queue[i - 1])
          BY <2>1, <4>2
        <5>2. QED
          BY <1>2, <5>1 DEF MotionLands, queue
      <4>3. QED
        BY <4>1, <4>2
    <3>2. new[1].exact => Confine(pointer + new[1].by) = Confine(new[1].for)
      <4>1. CASE queue = <<>>
        <5>1. new[1] = shown
          BY <2>1, <4>1
        <5>2. QED
          BY <1>2, <2>2, <4>1, <5>1 DEF EventLands, queue
      <4>2. CASE queue # <<>>
        <5>1. new[1] = queue[1]
          BY <2>1, <4>2
        <5>2. QED
          BY <1>2, <4>2, <5>1 DEF MotionLands, queue
      <4>3. QED
        BY <4>1, <4>2
    <3>3. QED
      BY <1>1, <1>16, <2>1, <3>1, <3>2 DEF MotionLands
  <2>6. EventLands'
    BY <1>1, <1>5, <1>13, <2>1, <2>2 DEF EventLands
  <2>7. QED
    BY <1>5, <1>10, <1>11, <2>5, <2>6 DEF DispatchInv
<1>18. CASE ~(d = "mouse" /\ frame["mouse"] # Nothing)
  <2>1. inFlight'["mouse"] = inFlight["mouse"]
    BY <1>14, <1>18
  <2>2. Pending = 0
    BY <1>4, <1>12, <1>18 DEF Nothing, Devices
  <2>3. MotionLands'
    BY <1>1, <1>2, <1>16, <2>1 DEF MotionLands
  <2>4. EventLands'
    BY <1>1, <1>2, <1>5, <1>13, <2>1, <2>2 DEF EventLands
  <2>5. QED
    BY <1>5, <1>10, <1>11, <2>3, <2>4 DEF DispatchInv
<1>19. QED
  BY <1>17, <1>18

LEMMA ApplyStep ==
  ASSUME DispatchAssumption, DispatchInv, NEW d \in Devices, Apply(d)
  PROVE  DispatchInv'
<1> DEFINE q == inFlight[d]
           queue == inFlight["mouse"]
<1>1. /\ q # <<>>
      /\ pointer' = Confine(pointer + Head(q).by)
      /\ inFlight' = [inFlight EXCEPT ![d] = Tail(q)]
      /\ UNCHANGED <<asked, todo, held, frame, exact, failed>>
  BY DEF Apply
<1>2. TypeOK /\ MotionLands /\ EventLands
  BY DEF DispatchInv
<1>3. /\ inFlight \in [Devices -> Seq(Frames)] /\ q \in Seq(Frames)
      /\ asked \in Int /\ pointer \in 0 .. Width - 1 /\ pointer \in Int
  BY <1>2, Coordinate DEF TypeOK
<1>4. /\ Len(q) \in Nat /\ Len(q) > 0 /\ Head(q) = q[1] /\ q[1] \in Frames
      /\ Tail(q) \in Seq(Frames) /\ Len(Tail(q)) = Len(q) - 1
      /\ \A i \in 1 .. Len(q) - 1 : Tail(q)[i] = q[i + 1]
      /\ Tail(q) = <<>> <=> Len(q) = 1
  <2>1. /\ Tail(q) \in Seq(Frames) /\ Len(Tail(q)) = Len(q) - 1 /\ Head(q) \in Frames
        /\ \A i \in 1 .. Len(Tail(q)) : Tail(q)[i] = q[i + 1]
    BY <1>1, <1>3, HeadTailProperties
  <2>2. Len(q) \in Nat /\ Len(q) > 0 /\ Head(q) = q[1]
    BY <1>1, <1>3, SeqFacts
  <2>3. Tail(q) = <<>> <=> Len(Tail(q)) = 0
    BY <2>1, SeqFacts
  <2>4. QED
    BY <2>1, <2>2, <2>3
<1>5. /\ pointer' \in 0 .. Width - 1
      /\ pointer' = Confine(pointer + q[1].by)
      /\ q[1].by \in Int
  <2>1. q[1].by \in Int /\ pointer' = Confine(pointer + q[1].by)
    BY <1>1, <1>4 DEF Frames
  <2> HIDE DEF q
  <2>2. pointer + q[1].by \in Int
    BY <1>3, <2>1
  <2>3. QED
    BY <2>1, <2>2, OnScreen
<1> HIDE DEF q
<1>6. /\ inFlight' \in [Devices -> Seq(Frames)]
      /\ inFlight'[d] = Tail(q)
      /\ \A e \in Devices \ {d} : inFlight'[e] = inFlight[e]
  BY <1>1, <1>3, <1>4 DEF q
<1>7. TypeOK'
  BY <1>1, <1>2, <1>5, <1>6 DEF TypeOK
<1>8. DevicesAtRest' /\ PressThenRelease' /\ InOrder' /\ SynFollows'
  BY <1>1 DEF DispatchInv, DevicesAtRest, PressThenRelease, InOrder, SynFollows
<1>9. Pending' = Pending
  BY <1>1 DEF Pending
<1>10. CASE d = "keyboard"
  <2>1. queue' = queue /\ q[1].by = 0
    BY <1>2, <1>4, <1>6, <1>10 DEF MotionLands, Devices, q
  <2>2. pointer' = pointer
    <3>1. pointer + q[1].by = pointer
      BY <1>3, <2>1
    <3>2. QED
      BY <1>3, <1>5, <3>1, OnScreen
  <2>3. MotionLands'
    <3>1. \A i \in 1 .. Len(q) : q[i].by = 0
      BY <1>2, <1>10 DEF MotionLands, q
    <3>2. \A i \in 1 .. Len(q) - 1 : Tail(q)[i].by = 0
      BY <1>4, <3>1
    <3>3. \A i \in 1 .. Len(inFlight'["keyboard"]) : inFlight'["keyboard"][i].by = 0
      BY <1>4, <1>6, <1>10, <3>2
    <3>4. QED
      BY <1>2, <2>1, <2>2, <3>3 DEF MotionLands
  <2>4. EventLands'
    BY <1>1, <1>2, <1>9, <2>1, <2>2 DEF EventLands
  <2>5. QED
    BY <1>7, <1>8, <2>3, <2>4 DEF DispatchInv
<1>11. CASE d = "mouse"
  <2>1. q = queue /\ queue' = Tail(q) /\ inFlight'["keyboard"] = inFlight["keyboard"]
    BY <1>6, <1>11 DEF Devices, q
  <2>2. \A i \in 1 .. Len(q) :
          /\ q[i].click => q[i].by = 0
          /\ q[i].exact /\ i > 1 => q[i].click /\ q[i - 1].exact /\ q[i - 1].for = q[i].for
    BY <1>2, <2>1 DEF MotionLands
  <2>3. q[1].exact => pointer' = Confine(q[1].for)
    BY <1>1, <1>2, <1>5, <2>1 DEF MotionLands
  <2>4. ASSUME NEW i \in 1 .. Len(q) - 1
        PROVE  LET t == Tail(q) IN
               /\ t[i].click => t[i].by = 0
               /\ t[i].exact /\ i > 1 =>
                    t[i].click /\ t[i - 1].exact /\ t[i - 1].for = t[i].for
    <3>1. Tail(q)[i] = q[i + 1] /\ i + 1 \in 1 .. Len(q)
          /\ (i > 1 => Tail(q)[i - 1] = q[(i + 1) - 1])
      BY <1>4
    <3>2. QED
      BY <2>2, <3>1
  <2>5. ASSUME Tail(q) # <<>>, Tail(q)[1].exact
        PROVE  Confine(pointer' + Tail(q)[1].by) = Confine(Tail(q)[1].for)
    <3>1. Len(q) > 1 /\ Tail(q)[1] = q[2]
      BY <1>4, <2>5
    <3>2. q[2].click /\ q[2].by = 0 /\ q[1].exact /\ q[1].for = q[2].for
      <4>1. 2 \in 1 .. Len(q) /\ 2 - 1 = 1
        BY <1>4, <3>1
      <4>2. QED
        BY <2>2, <2>5, <3>1, <4>1
    <3>3. Confine(pointer') = pointer'
      BY <1>5, OnScreen
    <3>4. pointer' + 0 = pointer'
      BY <1>5
    <3>5. QED
      BY <2>3, <3>1, <3>2, <3>3, <3>4
  <2>6. MotionLands'
    BY <1>2, <1>4, <2>1, <2>4, <2>5 DEF MotionLands
  <2>7. EventLands'
    <3>1. ASSUME exact, Tail(q) = <<>>
          PROVE  Confine(pointer' + Pending) = Confine(asked)
      <4>1. Len(q) = 1 /\ Pending = 0 /\ q[1].exact /\ q[1].for = asked
        BY <1>1, <1>2, <1>4, <2>1, <3>1 DEF EventLands
      <4>2. Confine(pointer') = pointer' /\ pointer' + 0 = pointer'
        BY <1>5, OnScreen
      <4>3. QED
        BY <2>3, <4>1, <4>2
    <3>2. ASSUME exact, Tail(q) # <<>>
          PROVE  /\ Pending = 0
                 /\ Tail(q)[Len(Tail(q))].exact
                 /\ Tail(q)[Len(Tail(q))].for = asked
      <4>1. Tail(q)[Len(Tail(q))] = q[Len(q)]
        BY <1>4, <3>2
      <4>2. QED
        BY <1>1, <1>2, <2>1, <3>2, <4>1 DEF EventLands
    <3>3. todo' # <<>> /\ Head(todo').call = "query" => ~exact'
      BY <1>1, <1>2 DEF EventLands
    <3>4. QED
      BY <1>1, <1>9, <2>1, <3>1, <3>2, <3>3 DEF EventLands
  <2>8. QED
    BY <1>7, <1>8, <2>6, <2>7 DEF DispatchInv
<1>12. QED
  BY <1>10, <1>11 DEF Devices

\* A sequence with a component of its elements overwritten.
LEMMA Overwritten ==
  ASSUME NEW q \in Seq(Frames)
  PROVE  LET r == [i \in DOMAIN q |-> [q[i] EXCEPT !.exact = FALSE]] IN
         /\ r \in Seq(Frames) /\ Len(r) = Len(q)
         /\ \A i \in 1 .. Len(q) :
              r[i].by = q[i].by /\ (r[i].click <=> q[i].click) /\ ~r[i].exact
<1> DEFINE r == [i \in DOMAIN q |-> [q[i] EXCEPT !.exact = FALSE]]
<1>1. Len(q) \in Nat /\ DOMAIN q = 1 .. Len(q)
  BY LenProperties
<1>2. ASSUME NEW f \in Frames
      PROVE  LET g == [f EXCEPT !.exact = FALSE] IN
             g \in Frames /\ g.by = f.by /\ (g.click <=> f.click) /\ ~g.exact
  BY DEF Frames
<1>3. \A i \in 1 .. Len(q) : q[i] \in Frames
  BY ElementOfSeq
<1>4. r \in [1 .. Len(q) -> Frames]
  BY <1>1, <1>2, <1>3
<1>5. r \in Seq(Frames) /\ Len(r) = Len(q)
  <2>1. r \in Seq(Frames)
    BY <1>1, <1>4, SeqDef
  <2>2. Len(r) \in Nat /\ DOMAIN r = 1 .. Len(r) /\ DOMAIN r = 1 .. Len(q)
    BY <1>4, <2>1, LenProperties
  <2>3. QED
    BY <1>1, <2>1, <2>2
<1>6. QED
  BY <1>1, <1>2, <1>3, <1>5

LEMMA UserStep ==
  ASSUME DispatchAssumption, DispatchInv, NEW x \in 0 .. Width - 1, UserMoves(x)
  PROVE  DispatchInv'
<1>1. /\ pointer' = x
      /\ inFlight' = [d \in Devices |->
                        [i \in DOMAIN inFlight[d] |-> [inFlight[d][i] EXCEPT !.exact = FALSE]]]
      /\ UNCHANGED <<asked, todo, held, frame, failed>>
  BY DEF UserMoves
<1>2. ~exact' /\ exact' \in BOOLEAN
  BY Zenon DEF UserMoves
<1>3. inFlight \in [Devices -> Seq(Frames)]
  BY DEF DispatchInv, TypeOK
<1>4. ASSUME NEW d \in Devices
      PROVE  /\ inFlight'[d] \in Seq(Frames) /\ Len(inFlight'[d]) = Len(inFlight[d])
             /\ \A i \in 1 .. Len(inFlight'[d]) :
                  /\ inFlight'[d][i].by = inFlight[d][i].by
                  /\ inFlight'[d][i].click <=> inFlight[d][i].click
                  /\ ~inFlight'[d][i].exact
  <2> DEFINE q == inFlight[d]
             r == [i \in DOMAIN q |-> [q[i] EXCEPT !.exact = FALSE]]
  <2>1. q \in Seq(Frames) /\ inFlight'[d] = r
    BY <1>1, <1>3
  <2> HIDE DEF q
  <2>2. /\ r \in Seq(Frames) /\ Len(r) = Len(q)
        /\ \A i \in 1 .. Len(q) :
             r[i].by = q[i].by /\ (r[i].click <=> q[i].click) /\ ~r[i].exact
    BY <2>1, Overwritten
  <2> HIDE DEF r
  <2>3. QED
    BY <2>1, <2>2 DEF q
<1>5. inFlight' \in [Devices -> Seq(Frames)]
  BY <1>1, <1>4
<1>6. TypeOK'
  BY <1>1, <1>2, <1>5 DEF DispatchInv, TypeOK
<1>7. DevicesAtRest' /\ PressThenRelease' /\ InOrder' /\ SynFollows'
  BY <1>1 DEF DispatchInv, DevicesAtRest, PressThenRelease, InOrder, SynFollows
<1>8. MotionLands'
  <2>1. /\ \A i \in 1 .. Len(inFlight["keyboard"]) : inFlight["keyboard"][i].by = 0
        /\ \A i \in 1 .. Len(inFlight["mouse"]) :
             inFlight["mouse"][i].click => inFlight["mouse"][i].by = 0
    BY DEF DispatchInv, MotionLands
  <2>2. "mouse" \in Devices /\ "keyboard" \in Devices
    BY DEF Devices
  <2>3. /\ \A i \in 1 .. Len(inFlight'["keyboard"]) : inFlight'["keyboard"][i].by = 0
        /\ \A i \in 1 .. Len(inFlight'["mouse"]) :
             /\ inFlight'["mouse"][i].click => inFlight'["mouse"][i].by = 0
             /\ ~inFlight'["mouse"][i].exact
    BY <1>4, <2>1, <2>2
  <2>4. inFlight'["mouse"] # <<>> => ~inFlight'["mouse"][1].exact
    <3>1. inFlight'["mouse"] # <<>> =>
            Len(inFlight'["mouse"]) \in Nat /\ Len(inFlight'["mouse"]) > 0
      BY <1>4, <2>2, SeqFacts
    <3>2. QED
      BY <2>3, <3>1
  <2>5. QED
    BY <2>3, <2>4 DEF MotionLands
<1>9. EventLands'
  BY <1>2 DEF EventLands
<1>10. QED
  BY <1>6, <1>7, <1>8, <1>9 DEF DispatchInv

LEMMA OtherSteps ==
  ASSUME DispatchInv, Throw \/ UNCHANGED vars
  PROVE  DispatchInv'
<1>1. UNCHANGED <<asked, todo, held, frame, inFlight, pointer, exact>>
  BY DEF Throw, vars
<1>2. failed' \in BOOLEAN
  BY DEF Throw, vars, DispatchInv, TypeOK
<1>3. TypeOK'
  BY <1>1, <1>2 DEF DispatchInv, TypeOK
<1>4. DevicesAtRest' /\ PressThenRelease' /\ InOrder' /\ SynFollows'
  BY <1>1 DEF DispatchInv, DevicesAtRest, PressThenRelease, InOrder, SynFollows
<1>5. MotionLands' /\ EventLands'
  BY <1>1 DEF DispatchInv, MotionLands, EventLands, Pending
<1>6. QED
  BY <1>3, <1>4, <1>5 DEF DispatchInv

-----------------------------------------------------------------------------
(* The theorems *)

LEMMA InitInv == DispatchAssumption /\ Init => DispatchInv
<1> SUFFICES ASSUME DispatchAssumption, Init PROVE DispatchInv
  OBVIOUS
<1>1. TypeOK
  <2>1. <<>> \in Seq(AllCalls) /\ <<>> \in Seq(Frames)
    OBVIOUS
  <2>2. QED
    <3>1. /\ held \in [Devices -> SUBSET AllCodes]
          /\ inFlight \in [Devices -> Seq(Frames)]
      BY <2>1 DEF Init
    <3>2. frame \in [Devices -> [by : Int, keys : BOOLEAN]]
      BY DEF Init, Nothing
    <3>3. exact \in BOOLEAN /\ failed \in BOOLEAN
      BY DEF Init
    <3>4. QED
      BY <2>1, <3>1, <3>2, <3>3 DEF Init, TypeOK
<1>2. DevicesAtRest /\ PressThenRelease /\ SynFollows
  BY DEF Init, DevicesAtRest, PressThenRelease, SynFollows, Nothing, Devices
<1>3. InOrder
  BY DEF Init, InOrder
<1>4. MotionLands
  BY DEF Init, MotionLands, Devices
<1>5. EventLands
  <2>1. ~exact
    BY Zenon DEF Init
  <2>2. QED
    BY <2>1 DEF EventLands
<1>6. QED
  BY <1>1, <1>2, <1>3, <1>4, <1>5 DEF DispatchInv

(***************************************************************************)
(* What process() and the helpers of src/suinput.c make of the devices in  *)
(* every reachable state: whatever events arrive, whenever the X server    *)
(* applies them and whoever else moves the pointer, nothing stays pressed  *)
(* or unseen between two events, and an exact motion ends where it should. *)
(***************************************************************************)
THEOREM DispatchCorrect == SafeSpec => []DispatchInv
<1>1. Init => DispatchInv
  BY InitInv, DispatchAssumption
<1>2. DispatchInv /\ [Next]_vars => DispatchInv'
  BY DispatchAssumption, BeginStep, QueryStep, EmitRelStep, EmitKeyStep, EmitSynStep,
     ApplyStep, UserStep, OtherSteps DEF Next
<1>3. QED
  BY <1>1, <1>2, PTL DEF SafeSpec

(***************************************************************************)
(* The click of a mouse event happens where the client asked for it, for   *)
(* every screen and every coordinate, provided nobody interfered: the move *)
(* frame was applied before it and its distance was computed from the      *)
(* position the pointer really had.                                        *)
(***************************************************************************)
THEOREM ClickIsExact == SafeSpec => []ClickLands
<1>1. DispatchInv => ClickLands
  <2> SUFFICES ASSUME DispatchInv, inFlight["mouse"] # <<>>,
                      Head(inFlight["mouse"]).exact, Head(inFlight["mouse"]).click
               PROVE  pointer = Confine(Head(inFlight["mouse"]).for)
    BY DEF ClickLands
  <2> DEFINE queue == inFlight["mouse"]
  <2>1. queue \in Seq(Frames)
    BY DEF DispatchInv, TypeOK, Devices
  <2>2. Len(queue) \in Nat /\ Len(queue) > 0 /\ Head(queue) = queue[1]
    BY <2>1, SeqFacts
  <2>3. queue[1].by = 0 /\ Confine(pointer + queue[1].by) = Confine(queue[1].for)
    BY <2>2 DEF DispatchInv, MotionLands
  <2>4. pointer + 0 = pointer /\ Confine(pointer) = pointer
    BY DispatchAssumption, OnScreen DEF DispatchInv, TypeOK
  <2>5. QED
    BY <2>2, <2>3, <2>4
<1>2. QED
  BY <1>1, DispatchCorrect, PTL
=============================================================================
