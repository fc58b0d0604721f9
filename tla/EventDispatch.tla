---------------------------- MODULE EventDispatch ----------------------------
(***************************************************************************)
(* What the event processor does with one event after the other            *)
(* (src/EventProcessorAsync.cpp, src/Mouse.cpp, src/Keyboard.cpp and       *)
(* src/suinput.c): it writes input events to two uinput devices, and the X *)
(* server applies them to the pointer at a time of its own.                *)
(*                                                                         *)
(* A mouse event asks for a position, but the device only moves by a       *)
(* distance, which moveMouse() computes from the position it has just      *)
(* queried.  Whoever else moves the pointer, or has not moved it yet,      *)
(* spoils the result: that is what this module is about.                   *)
(*                                                                         *)
(* The two axes are treated alike by every statement; one is modelled.     *)
(***************************************************************************)
EXTENDS Integers, Sequences

CONSTANTS
  Width,        \* the width of the screen
  Coordinates,  \* what mouse packets ask for, on the screen or off it
  Codes,        \* the key codes of key packets
  Enabled,      \* those the keyboard device was created with
  MaxInFlight   \* bound of the model: frames of a device the X server is behind

ASSUME DispatchAssumption ==
  /\ Width \in Nat \ {0}
  /\ Coordinates \subseteq Int
  /\ Enabled \subseteq Codes
  /\ MaxInFlight \in Nat \ {0}

Buttons == {"LEFT_BUTTON", "RIGHT_BUTTON", "MIDDLE_BUTTON", "DOUBLE_LEFT_BUTTON"}

MouseEvents == [type : {"MOUSE_EVENT"}, x : Coordinates, button : Buttons]
KeyEvents   == [type : {"KEYBOARD_EVENT"}, key : Codes]
Events == MouseEvents \cup KeyEvents

VARIABLES
  asked,      \* the coordinate in the last mouse event
  todo,       \* the calls still to make for the event in progress
  held,       \* what each device holds pressed
  frame,      \* what each device was given since its last SYN_REPORT: how far
              \* to move, and whether anything was pressed or released
  inFlight,   \* the frames of each device the X server has not applied yet
  pointer,    \* the position of the pointer
  exact,      \* nobody has interfered since the position was queried
  failed      \* an exception has terminated the process

vars == <<asked, todo, held, frame, inFlight, pointer, exact, failed>>

Devices == {"mouse", "keyboard"}

-----------------------------------------------------------------------------
(* The calls an event is made of *)

Query == [call |-> "query"]
Rel(by) == [call |-> "rel", dev |-> "mouse", by |-> by]
Press(d, c)   == [call |-> "key", dev |-> d, code |-> c, value |-> 1]
Release(d, c) == [call |-> "key", dev |-> d, code |-> c, value |-> 0]
Syn(d) == [call |-> "syn", dev |-> d]

\* suinput_emit_click(), which stops at the first failure, then suinput_syn().
Click(d, c) == <<Press(d, c), Release(d, c), Syn(d)>>

\* Mouse::moveMouse(): the query, which determines a first call, and the SYN.
Move == <<Query, Syn("mouse")>>

\* Mutant: the release of the button is forgotten.
ButtonCallsHeld(b) ==
  CASE b = "LEFT_BUTTON" -> <<Press("mouse", "BTN_LEFT"), Syn("mouse")>>
    [] b = "RIGHT_BUTTON" -> Click("mouse", "BTN_RIGHT")
    [] b = "DOUBLE_LEFT_BUTTON" ->
         Click("mouse", "BTN_LEFT") \o Click("mouse", "BTN_LEFT")
    [] OTHER -> <<[call |-> "throw"]>>

\* process(MouseEventPacket*): the switch over the event type.
ButtonCalls(b) ==
  CASE b = "LEFT_BUTTON" -> Click("mouse", "BTN_LEFT")
    [] b = "RIGHT_BUTTON" -> Click("mouse", "BTN_RIGHT")
    [] b = "DOUBLE_LEFT_BUTTON" ->
         Click("mouse", "BTN_LEFT") \o Click("mouse", "BTN_LEFT")
    [] OTHER -> <<[call |-> "throw"]>>

Calls(e) ==
  IF e.type = "MOUSE_EVENT" THEN Move \o ButtonCalls(e.button)
                            ELSE Click("keyboard", e.key)

\* The clamp of moveMouse(): its first half, that replaces a negative
\* coordinate by 0, is overwritten by the second.
Target(x) == IF x >= Width THEN Width - 1 ELSE x

\* The X server keeps the pointer on the screen.
Confine(x) == IF x < 0 THEN 0 ELSE IF x >= Width THEN Width - 1 ELSE x

-----------------------------------------------------------------------------

Nothing == [by |-> 0, keys |-> FALSE]

Init ==
  /\ asked = 0
  /\ todo = <<>>
  /\ held = [d \in Devices |-> {}]
  /\ frame = [d \in Devices |-> Nothing]
  /\ inFlight = [d \in Devices |-> <<>>]
  /\ pointer \in 0 .. Width - 1
  /\ exact = FALSE
  /\ failed = FALSE

\* proccess() is called with the next item of the batch.
Begin(e) ==
  /\ todo = <<>>
  /\ todo' = Calls(e)
  /\ asked' = IF e.type = "MOUSE_EVENT" THEN e.x ELSE asked
  /\ exact' = FALSE
  /\ UNCHANGED <<held, frame, inFlight, pointer, failed>>

NextCall(c) == todo # <<>> /\ Head(todo).call = c

\* Mutant: the distance is taken from the origin of the screen.
QueryFromOrigin ==
  /\ NextCall("query")
  /\ todo' = <<Rel(Target(asked))>> \o Tail(todo)
  /\ exact' = (inFlight["mouse"] = <<>>)
  /\ UNCHANGED <<asked, held, frame, inFlight, pointer, failed>>

\* queryMousePosition(), and the distance from there to the target.
QueryPosition ==
  /\ NextCall("query")
  /\ todo' = <<Rel(Target(asked) - pointer)>> \o Tail(todo)
  /\ exact' = (inFlight["mouse"] = <<>>)
  /\ UNCHANGED <<asked, held, frame, inFlight, pointer, failed>>

\* suinput_emit(EV_REL): a distance of 0, which the kernel ignores, adds nothing.
EmitRel ==
  /\ NextCall("rel")
  /\ frame' = [frame EXCEPT !["mouse"].by = @ + Head(todo).by]
  /\ todo' = Tail(todo)
  /\ UNCHANGED <<asked, held, inFlight, pointer, exact, failed>>

\* suinput_emit(EV_KEY): the kernel ignores what the device was not created
\* with, and what does not change the state of the key.
EmitKey ==
  /\ NextCall("key")
  /\ LET k == Head(todo)
         known == k.dev = "mouse" \/ k.code \in Enabled
         now == IF k.value = 1 THEN held[k.dev] \cup {k.code} ELSE held[k.dev] \ {k.code}
     IN IF known /\ now # held[k.dev]
        THEN /\ held' = [held EXCEPT ![k.dev] = now]
             /\ frame' = [frame EXCEPT ![k.dev].keys = TRUE]
        ELSE UNCHANGED <<held, frame>>
  /\ todo' = Tail(todo)
  /\ UNCHANGED <<asked, inFlight, pointer, exact, failed>>

\* suinput_syn(): the frame becomes visible, unless there is nothing in it.
\* A click carries what was asked for and whether it has to happen there.
EmitSyn ==
  /\ NextCall("syn")
  /\ LET d == Head(todo).dev
         shown == [by |-> frame[d].by,
                   click |-> d = "mouse" /\ frame[d].keys,
                   for |-> IF d = "mouse" THEN asked ELSE 0,
                   exact |-> d = "mouse" /\ exact]
     IN /\ Len(inFlight[d]) < MaxInFlight
        /\ inFlight' = IF frame[d] = Nothing THEN inFlight
                       ELSE [inFlight EXCEPT ![d] = Append(@, shown)]
        /\ frame' = [frame EXCEPT ![d] = Nothing]
  /\ todo' = Tail(todo)
  /\ UNCHANGED <<asked, held, pointer, exact, failed>>

\* XOpenDisplay() or a write to a device fails, or the event is not
\* supported: the exception leaves the thread.
Throw ==
  /\ todo # <<>>
  /\ failed' = TRUE
  /\ UNCHANGED <<asked, todo, held, frame, inFlight, pointer, exact>>

\* The X server applies the oldest frame of a device.
Apply(d) ==
  /\ inFlight[d] # <<>>
  /\ pointer' = Confine(pointer + Head(inFlight[d]).by)
  /\ inFlight' = [inFlight EXCEPT ![d] = Tail(@)]
  /\ UNCHANGED <<asked, todo, held, frame, exact, failed>>

\* Somebody moves a mouse of the machine.
UserMoves(x) ==
  /\ x # pointer
  /\ pointer' = x
  /\ exact' = FALSE
  /\ inFlight' = [d \in Devices |->
                    [i \in DOMAIN inFlight[d] |-> [inFlight[d][i] EXCEPT !.exact = FALSE]]]
  /\ UNCHANGED <<asked, todo, held, frame, failed>>

Next ==
  \/ /\ ~failed
     /\ \/ \E e \in Events : Begin(e)
        \/ QueryPosition
        \/ EmitRel
        \/ EmitKey
        \/ EmitSyn
        \/ Throw
        \/ \E d \in Devices : Apply(d)
        \/ \E x \in 0 .. Width - 1 : UserMoves(x)
  \/ failed /\ UNCHANGED vars    \* the process is gone

SafeSpec == Init /\ [][Next]_vars

-----------------------------------------------------------------------------

AllCodes == Codes \cup {"BTN_LEFT", "BTN_RIGHT"}

AllCalls ==
  [call : {"query", "throw"}]
  \cup [call : {"rel"}, dev : {"mouse"}, by : Int]
  \cup [call : {"key"}, dev : Devices, code : AllCodes, value : {0, 1}]
  \cup [call : {"syn"}, dev : Devices]

Frames == [by : Int, click : BOOLEAN, for : Int, exact : BOOLEAN]

TypeOK ==
  /\ asked \in Coordinates \cup {0}
  /\ todo \in Seq(AllCalls)
  /\ held \in [Devices -> SUBSET AllCodes]
  /\ frame \in [Devices -> [by : Int, keys : BOOLEAN]]
  /\ inFlight \in [Devices -> Seq(Frames)]
  /\ pointer \in 0 .. Width - 1
  /\ exact \in BOOLEAN
  /\ failed \in BOOLEAN

(***************************************************************************)
(* Between two events nothing is held pressed and nothing waits for a      *)
(* SYN_REPORT: a client that stops sending leaves no key down and no       *)
(* motion unseen.                                                          *)
(***************************************************************************)
DevicesAtRest ==
  todo = <<>> => \A d \in Devices : held[d] = {} /\ frame[d] = Nothing

\* While something is pressed, the next call is its release, which the device
\* knows: no motion, no other key and no exception of the dispatch comes in
\* between.
PressThenRelease ==
  /\ \A d \in Devices : \A c \in held[d] : todo # <<>> /\ Head(todo) = Release(d, c)
  /\ held["keyboard"] \subseteq Enabled

\* What follows a call: a press its release, a release or a motion its SYN.
\* A motion comes first.
InOrder ==
  \A i \in 1 .. Len(todo) :
    /\ todo[i].call \in {"query", "rel"} =>
         i = 1 /\ Len(todo) > 1 /\ todo[2] = Syn("mouse")
    /\ todo[i].call = "key" =>
         /\ i < Len(todo)
         /\ todo[i + 1] = IF todo[i].value = 1 THEN Release(todo[i].dev, todo[i].code)
                                             ELSE Syn(todo[i].dev)

\* A frame is begun by the calls before its SYN and holds a motion or keys.
SynFollows ==
  \A d \in Devices :
    /\ frame[d] # Nothing =>
         /\ todo # <<>>
         /\ \/ Head(todo) = Syn(d)
            \/ Head(todo).call = "key" /\ Head(todo).dev = d /\ Head(todo).value = 0
               /\ frame[d].by = 0
    /\ frame[d].keys \/ d = "keyboard" => frame[d].by = 0

\* The distance that the X server has not been told of yet.
Pending == IF todo # <<>> /\ Head(todo).call = "rel" THEN Head(todo).by
                                                    ELSE frame["mouse"].by

\* The exact frames in flight are those of one event, and the first ones;
\* only the very first can be a motion, and it ends where it was asked to.
MotionLands ==
  LET queue == inFlight["mouse"]
  IN /\ \A i \in 1 .. Len(inFlight["keyboard"]) : inFlight["keyboard"][i].by = 0
     /\ \A i \in 1 .. Len(queue) :
          /\ queue[i].click => queue[i].by = 0
          /\ queue[i].exact /\ i > 1 =>
               queue[i].click /\ queue[i - 1].exact /\ queue[i - 1].for = queue[i].for
     /\ queue # <<>> /\ queue[1].exact =>
          Confine(pointer + queue[1].by) = Confine(queue[1].for)

\* The event in progress, if its position was exact: where the pointer is,
\* or will be when the frames in flight have been applied.
EventLands ==
  LET queue == inFlight["mouse"]
  IN /\ exact /\ queue = <<>> => Confine(pointer + Pending) = Confine(asked)
     /\ exact /\ queue # <<>> =>
          Pending = 0 /\ queue[Len(queue)].exact /\ queue[Len(queue)].for = asked
     /\ todo # <<>> /\ Head(todo).call = "query" => ~exact

\* The devices and the pointer in every reachable state: the inductive
\* invariant.
DispatchInv ==
  /\ TypeOK
  /\ DevicesAtRest
  /\ PressThenRelease
  /\ InOrder
  /\ SynFollows
  /\ MotionLands
  /\ EventLands

(***************************************************************************)
(* A click happens where the client asked for it, or at the nearest point  *)
(* of the screen, provided the pointer was at rest when its position was   *)
(* queried and nobody moved it since: although the two frames are applied  *)
(* later, and although a negative coordinate is not clamped by the code.   *)
(***************************************************************************)
ClickLands ==
  inFlight["mouse"] # <<>> =>
    LET f == Head(inFlight["mouse"])
    IN f.exact /\ f.click => pointer = Confine(f.for)
=============================================================================
