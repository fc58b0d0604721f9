-------------------------- MODULE ServerDescriptors --------------------------
(***************************************************************************)
(* The descriptors the server opens and the uinput devices it creates with *)
(* them, from the start of main() and then from client to client           *)
(* (main.cpp, src/BluetoothServerSocket.cpp, src/Mouse.cpp,                *)
(* src/Keyboard.cpp, src/suinput.c).                                       *)
(*                                                                         *)
(* Every object keeps its descriptor in a field of its own, and nothing    *)
(* but the order of constructions and destructions keeps these numbers,    *)
(* which the kernel hands out again, from meaning another object's file.   *)
(* Not modelled: the X connection, opened once before main(), and those    *)
(* of Mouse::queryMousePosition(), closed by the call that opens them.     *)
(***************************************************************************)
EXTENDS Naturals, FiniteSets

CONSTANTS
  MouseEvents,     \* the buttons and axes of the mouse
  KeyboardEvents,  \* KEYBOARD_EVENTS of the keyboard
  LastChannel,     \* the last RFCOMM channel construct() tries
  MaxFd            \* the number of descriptors the process may have open

ASSUME DescriptorAssumption ==
  /\ LastChannel \in Nat \ {0}
  /\ MaxFd \in Nat \ {0}

Objects == {"server", "sdp", "socket", "mouse", "keyboard"}
Devices == {"mouse", "keyboard"}
Events == [mouse |-> MouseEvents, keyboard |-> KeyboardEvents]

Channels == 1 .. LastChannel
Fds == 1 .. MaxFd

VARIABLES
  pc,           \* what main() does next
  file,         \* what each descriptor of the process refers to, or "free"
  fd,           \* the field of each object, 0 while there is no object
  enabled,      \* the events the device of a descriptor was given
  created,      \* the descriptors whose device the kernel has created
  busy,         \* the channels on which bind() fails
  port,         \* _port of the server socket, 0 for -1
  advertised,   \* the channel in the service record, 0 before it is registered
  served        \* the clients whose session is over

vars == <<pc, file, fd, enabled, created, busy, port, advertised, served>>
deviceVars == <<enabled, created>>
serviceVars == <<busy, port, advertised>>

\* Where the construction of a device is about to open or to enable.
OpenAt   == [mouse |-> "openMouse",   keyboard |-> "openKeyboard"]
EnableAt == [mouse |-> "enableMouse", keyboard |-> "enableKeyboard"]

\* Calls that may throw are made in the first group only.
Throwing == {"socket", "bind", "register", "listen", "accept", "serve",
             "openMouse", "enableMouse", "openKeyboard", "enableKeyboard"}
PC == Throwing \cup {"deleteSocket", "destroyKeyboard", "destroyMouse", "aborted"}

FreeFds == {f \in Fds : file[f] = "free"}

\* open(), socket(), accept(): the kernel gives the lowest free number.
Open(o, f) ==
  /\ f \in FreeFds
  /\ \A g \in FreeFds : f <= g
  /\ file' = [file EXCEPT ![f] = o]
  /\ fd' = [fd EXCEPT ![o] = f]

\* close() of whatever the number in the field of o refers to.
Close(o) ==
  /\ file' = [file EXCEPT ![fd[o]] = "free"]
  /\ fd' = [fd EXCEPT ![o] = 0]

Init ==
  /\ pc = "socket"
  /\ file = [f \in Fds |-> "free"]
  /\ fd = [o \in Objects |-> 0]
  /\ enabled = [f \in Fds |-> {}]
  /\ created = {}
  /\ busy \in SUBSET Channels
  /\ port = 0
  /\ advertised = 0
  /\ served = 0

-----------------------------------------------------------------------------
(* The service *)

ServerSocket ==
  /\ pc = "socket"
  /\ \E f \in Fds : Open("server", f)
  /\ pc' = "bind"
  /\ UNCHANGED <<deviceVars, serviceVars, served>>

\* Mutant: the channel is counted up after a success as well.
BindOnePast ==
  /\ pc = "bind"
  /\ port < LastChannel
  /\ port' = IF port + 1 \in busy THEN port + 1 ELSE port + 2
  /\ pc' = IF port + 1 \in busy THEN "bind" ELSE "register"
  /\ UNCHANGED <<file, fd, deviceVars, busy, advertised, served>>

\* One round of the loop of construct(); after the last, Aborts is left.
Bind ==
  /\ pc = "bind"
  /\ port < LastChannel
  /\ port' = port + 1
  /\ pc' = IF port + 1 \in busy THEN "bind" ELSE "register"
  /\ UNCHANGED <<file, fd, deviceVars, busy, advertised, served>>

\* registerService(): the session with the SDP daemon stays open.
Register ==
  /\ pc = "register"
  /\ \E f \in Fds : Open("sdp", f)
  /\ advertised' = port
  /\ pc' = "listen"
  /\ UNCHANGED <<deviceVars, busy, port, served>>

Listen ==
  /\ pc = "listen"
  /\ pc' = "accept"
  /\ UNCHANGED <<file, fd, deviceVars, serviceVars, served>>

-----------------------------------------------------------------------------
(* A client *)

Accept ==
  /\ pc = "accept"
  /\ \E f \in Fds : Open("socket", f)
  /\ pc' = OpenAt["mouse"]
  /\ UNCHANGED <<deviceVars, serviceVars, served>>

\* suinput_open()
OpenDevice(d) ==
  /\ pc = OpenAt[d]
  /\ \E f \in Fds : Open(d, f) /\ enabled' = [enabled EXCEPT ![f] = {}]
  /\ pc' = EnableAt[d]
  /\ UNCHANGED <<created, serviceVars, served>>

\* suinput_enable_event(), in the order of an array.
EnableEvent(d, e) ==
  /\ pc = EnableAt[d]
  /\ e \notin enabled[fd[d]]
  /\ enabled' = [enabled EXCEPT ![fd[d]] = @ \cup {e}]
  /\ UNCHANGED <<pc, file, fd, created, serviceVars, served>>

\* What comes after a device has been created.
Constructed(d) == IF d = "mouse" THEN OpenAt["keyboard"] ELSE "serve"

\* Mutant: the loop over the events ends one event early.
CreateDeviceEarly(d) ==
  /\ pc = EnableAt[d]
  /\ Cardinality(enabled[fd[d]]) + 1 >= Cardinality(Events[d])
  /\ created' = created \cup {fd[d]}
  /\ pc' = Constructed(d)
  /\ UNCHANGED <<file, fd, enabled, serviceVars, served>>

\* suinput_create(), after the loop over the events.
CreateDevice(d) ==
  /\ pc = EnableAt[d]
  /\ enabled[fd[d]] = Events[d]
  /\ created' = created \cup {fd[d]}
  /\ pc' = Constructed(d)
  /\ UNCHANGED <<file, fd, enabled, serviceVars, served>>

\* The handler is started and joined: module ClientSession.
Serve ==
  /\ pc = "serve"
  /\ pc' = "deleteSocket"
  /\ UNCHANGED <<file, fd, deviceVars, serviceVars, served>>

DeleteSocket ==
  /\ pc = "deleteSocket"
  /\ Close("socket")
  /\ pc' = "destroyKeyboard"
  /\ UNCHANGED <<deviceVars, serviceVars, served>>

\* Mutant: ~Keyboard closes, but the descriptor of the mouse.
DestroyKeyboardAndMouse ==
  /\ pc = "destroyKeyboard"
  /\ file' = [file EXCEPT ![fd["mouse"]] = "free"]
  /\ fd' = [fd EXCEPT !["keyboard"] = 0]
  /\ served' = served + 1
  /\ pc' = "destroyMouse"
  /\ UNCHANGED <<deviceVars, serviceVars>>

\* ~Keyboard frees the description; descriptor and device stay.  The members
\* of EventProcessorAsync are destroyed last to first.
DestroyKeyboard ==
  /\ pc = "destroyKeyboard"
  /\ fd' = [fd EXCEPT !["keyboard"] = 0]
  /\ served' = served + 1
  /\ pc' = "destroyMouse"
  /\ UNCHANGED <<file, deviceVars, serviceVars>>

\* Mutant: suinput_destroy() returns before close() when UI_DEV_DESTROY fails.
DestroyMouseUnclosed ==
  /\ pc = "destroyMouse"
  /\ Close("mouse") \/ (fd' = [fd EXCEPT !["mouse"] = 0] /\ UNCHANGED file)
  /\ created' = created \ {fd["mouse"]}
  /\ pc' = "accept"
  /\ UNCHANGED <<enabled, serviceVars, served>>

\* ~Mouse: suinput_destroy() closes whether or not UI_DEV_DESTROY succeeds,
\* and the device goes with its descriptor.
DestroyMouse ==
  /\ pc = "destroyMouse"
  /\ Close("mouse")
  /\ created' = created \ {fd["mouse"]}
  /\ pc' = "accept"
  /\ UNCHANGED <<enabled, serviceVars, served>>

\* Every system call of the constructions may fail, and does when descriptors
\* or channels run out.  Nothing catches the exception: the process is gone,
\* with its files, including those the throwing function has closed before.
Aborts ==
  /\ pc \in Throwing
  /\ pc' = "aborted"
  /\ file' = [f \in Fds |-> "free"]
  /\ fd' = [o \in Objects |-> 0]
  /\ enabled' = [f \in Fds |-> {}]
  /\ created' = {}
  /\ UNCHANGED <<serviceVars, served>>

Next ==
  \/ ServerSocket
  \/ Bind
  \/ Register
  \/ Listen
  \/ Accept
  \/ \E d \in Devices : \/ OpenDevice(d)
                        \/ \E e \in Events[d] : EnableEvent(d, e)
                        \/ CreateDevice(d)
  \/ Serve
  \/ DeleteSocket
  \/ DestroyKeyboard
  \/ DestroyMouse
  \/ Aborts
  \/ pc = "aborted" /\ UNCHANGED vars

SafeSpec == Init /\ [][Next]_vars

-----------------------------------------------------------------------------

TypeOK ==
  /\ pc \in PC
  /\ file \in [Fds -> Objects \cup {"free"}]
  /\ fd \in [Objects -> Fds \cup {0}]
  /\ enabled \in [Fds -> SUBSET (MouseEvents \cup KeyboardEvents)]
  /\ created \subseteq Fds
  /\ busy \subseteq Channels
  /\ port \in Channels \cup {0}
  /\ advertised \in Channels \cup {0}
  /\ served \in Nat

\* An object that exists refers to a file of its own, although the numbers
\* are used again: no destructor closes, and no call writes to, another's.
OwnDescriptor ==
  \A o \in Objects : fd[o] # 0 => file[fd[o]] = o

\* Which objects exist is a matter of where main() is.
Existing ==
  [server   |-> PC \ {"socket", "aborted"},
   sdp      |-> PC \ {"socket", "bind", "register", "aborted"},
   socket   |-> {"openMouse", "enableMouse", "openKeyboard", "enableKeyboard",
                 "serve", "deleteSocket"},
   mouse    |-> {"enableMouse", "openKeyboard", "enableKeyboard", "serve",
                 "deleteSocket", "destroyKeyboard", "destroyMouse"},
   keyboard |-> {"enableKeyboard", "serve", "deleteSocket", "destroyKeyboard"}]

ObjectsExist ==
  \A o \in Objects : fd[o] # 0 <=> pc \in Existing[o]

Complete(d) == fd[d] \in created /\ enabled[fd[d]] = Events[d]

\* A device that is past its construction is complete, until it is destroyed.
DevicesComplete ==
  /\ pc \in Existing["mouse"] \ {"enableMouse"} => Complete("mouse")
  /\ pc \in Existing["keyboard"] \ {"enableKeyboard"} => Complete("keyboard")

\* The search: what was tried is busy, unless it is what was found.
SearchedUpTo ==
  /\ \A c \in Channels : c < port => c \in busy
  /\ pc \in {"socket", "bind"} => (port # 0 => port \in busy) /\ advertised = 0
  /\ pc \notin {"socket", "bind", "aborted"} => port \in Channels \ busy
  /\ advertised # 0 => advertised = port /\ port \notin busy

DescriptorInv ==
  TypeOK /\ OwnDescriptor /\ ObjectsExist /\ DevicesComplete /\ SearchedUpTo

(***************************************************************************)
(* While a client is served both devices exist and know all their events:  *)
(* no failure half way through their construction leads into a session.    *)
(***************************************************************************)
DevicesReady ==
  pc = "serve" => \A d \in Devices : Complete(d)

\* What is open although no object refers to it any more.
Orphans == {f \in Fds : file[f] # "free" /\ \A o \in Objects : fd[o] # f}

(***************************************************************************)
(* The orphans are one keyboard for each client served, whose device still *)
(* exists, and nothing else: ~Keyboard is the only destructor that closes  *)
(* nothing.                                                                *)
(***************************************************************************)
OnlyKeyboardsLeak ==
  /\ \A f \in Orphans : file[f] = "keyboard" /\ f \in created
  /\ pc # "aborted" => Cardinality(Orphans) = served

\* Clients are told the channel the server listens on, "the first available
\* port" of the comment of construct(), and none when all are taken.
AdvertisesFirstFree ==
  advertised # 0 => /\ advertised \notin busy
                    /\ \A c \in Channels : c < advertised => c \in busy
=============================================================================
