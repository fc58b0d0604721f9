----------------------- MODULE ServerDescriptors_proof -----------------------
(***************************************************************************)
(* Proofs about ServerDescriptors, for every number of descriptors and     *)
(* channels and every set of events.                                       *)
(***************************************************************************)
EXTENDS ServerDescriptors, FiniteSetTheorems, TLAPS

-----------------------------------------------------------------------------
(* Opening and closing *)

\* A new object gets a file no other object refers to.
LEMMA OpenIsFresh ==
  ASSUME TypeOK, OwnDescriptor, NEW o \in Objects, NEW f \in Fds, Open(o, f)
  PROVE  /\ file' \in [Fds -> Objects \cup {"free"}]
         /\ fd' \in [Objects -> Fds \cup {0}]
         /\ fd'[o] = f /\ f # 0
         /\ \A p \in Objects \ {o} : fd'[p] = fd[p] /\ fd[p] # f
         /\ OwnDescriptor'
<1>1. f \in Nat \ {0} /\ file[f] = "free" /\ "free" \notin Objects
  BY DescriptorAssumption DEF Open, FreeFds, Fds, Objects
<1>2. /\ file' = [file EXCEPT ![f] = o] /\ fd' = [fd EXCEPT ![o] = f]
      /\ file \in [Fds -> Objects \cup {"free"}]
      /\ fd \in [Objects -> Fds \cup {0}]
  BY DEF Open, TypeOK
<1>3. \A p \in Objects \ {o} : fd'[p] = fd[p] /\ fd[p] # f
  BY <1>1, <1>2 DEF OwnDescriptor
<1>4. OwnDescriptor'
  BY <1>1, <1>2, <1>3 DEF OwnDescriptor
<1>5. QED
  BY <1>1, <1>2, <1>3, <1>4

\* A closed file was nobody else's.
LEMMA CloseIsOwn ==
  ASSUME TypeOK, OwnDescriptor, NEW o \in Objects, fd[o] # 0, Close(o)
  PROVE  /\ file' \in [Fds -> Objects \cup {"free"}]
         /\ fd' \in [Objects -> Fds \cup {0}]
         /\ fd'[o] = 0
         /\ \A p \in Objects \ {o} : fd'[p] = fd[p] /\ (fd[p] # 0 => fd[p] # fd[o])
         /\ OwnDescriptor'
BY DEF TypeOK, OwnDescriptor, Close, Fds

-----------------------------------------------------------------------------
(* The inductive invariant *)

LEMMA ServiceSteps ==
  ASSUME DescriptorInv, DescriptorAssumption,
         ServerSocket \/ Bind \/ Register \/ Listen \/ Serve
  PROVE  DescriptorInv'
<1> USE DEF DescriptorInv, ObjectsExist, DevicesComplete, Complete, SearchedUpTo, Existing
<1>0. ASSUME UNCHANGED <<file, fd>> PROVE OwnDescriptor'
  BY <1>0 DEF OwnDescriptor
<1>1. CASE ServerSocket
  <2>1. PICK f \in Fds : Open("server", f)
    BY <1>1 DEF ServerSocket
  <2>2. /\ fd["server"] = 0
        /\ pc = "socket" /\ pc' = "bind"
        /\ UNCHANGED <<deviceVars, serviceVars, served>>
    BY <1>1 DEF ServerSocket, PC, Objects
  <2>3. TypeOK' /\ OwnDescriptor'
    BY <2>1, <2>2, OpenIsFresh DEF TypeOK, Objects, PC, Throwing, deviceVars, serviceVars
  <2>4. ObjectsExist'
    BY <2>1, <2>2, OpenIsFresh DEF Objects, PC, Throwing
  <2>5. DevicesComplete' /\ SearchedUpTo'
    BY <2>2 DEF serviceVars
  <2>6. QED
    BY <2>3, <2>4, <2>5
<1>2. CASE Bind
  <2>1. TypeOK' /\ OwnDescriptor'
    BY <1>2, <1>0 DEF Bind, TypeOK, PC, Throwing, Channels, deviceVars, DescriptorAssumption
  <2>2. ObjectsExist' /\ DevicesComplete'
    BY <1>2 DEF Bind, PC, Throwing, Objects
  <2>3. SearchedUpTo'
    BY <1>2 DEF Bind, TypeOK, Channels, DescriptorAssumption
  <2>4. QED
    BY <2>1, <2>2, <2>3
<1>3. CASE Register
  <2>1. PICK f \in Fds : Open("sdp", f)
    BY <1>3 DEF Register
  <2>2. /\ fd["sdp"] = 0
        /\ pc = "register" /\ pc' = "listen" /\ advertised' = port
        /\ UNCHANGED <<deviceVars, busy, port, served>>
    BY <1>3 DEF Register, PC, Objects
  <2>3. TypeOK' /\ OwnDescriptor'
    BY <2>1, <2>2, OpenIsFresh DEF TypeOK, Objects, PC, Throwing, deviceVars
  <2>4. ObjectsExist'
    BY <2>1, <2>2, OpenIsFresh DEF Objects, PC, Throwing
  <2>5. DevicesComplete' /\ SearchedUpTo'
    BY <2>2
  <2>6. QED
    BY <2>3, <2>4, <2>5
<1>4. CASE Listen \/ Serve
  <2>1. TypeOK' /\ OwnDescriptor'
    BY <1>4, <1>0 DEF Listen, Serve, TypeOK, PC, Throwing, deviceVars, serviceVars
  <2>2. ObjectsExist' /\ DevicesComplete' /\ SearchedUpTo'
    BY <1>4 DEF Listen, Serve, PC, Throwing, Objects, deviceVars, serviceVars
  <2>3. QED
    BY <2>1, <2>2
<1>5. QED
  BY <1>1, <1>2, <1>3, <1>4

LEMMA ConstructionSteps ==
  ASSUME DescriptorInv,
         Accept \/ \E d \in Devices : \/ OpenDevice(d)
                                      \/ \E e \in Events[d] : EnableEvent(d, e)
                                      \/ CreateDevice(d)
  PROVE  DescriptorInv'
<1> USE DEF DescriptorInv, ObjectsExist, DevicesComplete, Complete, SearchedUpTo, Existing,
            OpenAt, EnableAt
<1>1. CASE Accept
  <2>1. PICK f \in Fds : Open("socket", f)
    BY <1>1 DEF Accept
  <2>2. /\ fd["socket"] = 0
        /\ pc = "accept" /\ pc' = "openMouse"
        /\ UNCHANGED <<deviceVars, serviceVars, served>>
    BY <1>1 DEF Accept, PC, Objects
  <2>3. TypeOK' /\ OwnDescriptor'
    BY <2>1, <2>2, OpenIsFresh DEF TypeOK, Objects, PC, Throwing, deviceVars, serviceVars
  <2>4. ObjectsExist'
    BY <2>1, <2>2, OpenIsFresh DEF Objects, PC, Throwing
  <2>5. DevicesComplete' /\ SearchedUpTo'
    BY <2>2 DEF serviceVars
  <2>6. QED
    BY <2>3, <2>4, <2>5
<1>2. ASSUME NEW d \in Devices, OpenDevice(d) PROVE DescriptorInv'
  <2>1. PICK f \in Fds : Open(d, f) /\ enabled' = [enabled EXCEPT ![f] = {}]
    BY <1>2 DEF OpenDevice
  <2>2. /\ d \in Objects /\ fd[d] = 0
        /\ pc = OpenAt[d] /\ pc' = EnableAt[d]
        /\ UNCHANGED <<created, serviceVars, served>>
    BY <1>2 DEF OpenDevice, PC, Objects, Devices
  <2>3. TypeOK' /\ OwnDescriptor'
    BY <2>1, <2>2, OpenIsFresh DEF TypeOK, Devices, PC, Throwing, serviceVars
  <2>4. ObjectsExist'
    BY <2>1, <2>2, OpenIsFresh DEF Objects, PC, Throwing, Devices
  <2>5. DevicesComplete'
    BY <2>1, <2>2, OpenIsFresh DEF Objects, Devices, TypeOK
  <2>6. SearchedUpTo'
    BY <2>2 DEF serviceVars, Devices
  <2>7. QED
    BY <2>3, <2>4, <2>5, <2>6
<1>3. ASSUME NEW d \in Devices, NEW e \in Events[d], EnableEvent(d, e) PROVE DescriptorInv'
  <2>1. TypeOK' /\ OwnDescriptor'
    <3>1. e \in MouseEvents \cup KeyboardEvents
      BY DEF Devices, Events
    <3>2. QED
      BY <1>3, <3>1 DEF EnableEvent, TypeOK, OwnDescriptor, serviceVars
  <2>2. ObjectsExist' /\ SearchedUpTo'
    BY <1>3 DEF EnableEvent, serviceVars
  <2>3. DevicesComplete'
    \* The keyboard's descriptor is not the mouse's.
    BY <1>3 DEF EnableEvent, TypeOK, OwnDescriptor, Devices, Objects, PC, Throwing
  <2>4. QED
    BY <2>1, <2>2, <2>3
<1>4. ASSUME NEW d \in Devices, CreateDevice(d) PROVE DescriptorInv'
  <2>1. fd[d] \in Fds /\ pc = EnableAt[d]
    BY <1>4 DEF CreateDevice, TypeOK, Devices, Objects
  <2>2. TypeOK' /\ OwnDescriptor'
    BY <1>4, <2>1 DEF CreateDevice, Constructed, TypeOK, OwnDescriptor, Devices, PC,
                      Throwing, serviceVars
  <2>3. ObjectsExist' /\ SearchedUpTo'
    BY <1>4, <2>1 DEF CreateDevice, Constructed, Devices, Objects, PC, Throwing, serviceVars
  <2>4. DevicesComplete'
    BY <1>4, <2>1 DEF CreateDevice, Constructed, Devices
  <2>5. QED
    BY <2>2, <2>3, <2>4
<1>5. QED
  BY <1>1, <1>2, <1>3, <1>4

LEMMA DestructionSteps ==
  ASSUME DescriptorInv, DeleteSocket \/ DestroyKeyboard \/ DestroyMouse \/ Aborts
  PROVE  DescriptorInv'
<1> USE DEF DescriptorInv, ObjectsExist, DevicesComplete, Complete, SearchedUpTo, Existing
<1>1. CASE DeleteSocket
  <2>1. /\ Close("socket") /\ fd["socket"] # 0
        /\ pc = "deleteSocket" /\ pc' = "destroyKeyboard"
        /\ UNCHANGED <<deviceVars, serviceVars, served>>
    BY <1>1 DEF DeleteSocket, Objects
  <2>2. TypeOK' /\ OwnDescriptor'
    BY <2>1, CloseIsOwn DEF TypeOK, Objects, PC, deviceVars, serviceVars
  <2>3. ObjectsExist'
    BY <2>1, CloseIsOwn DEF Objects, PC, Throwing
  <2>4. DevicesComplete' /\ SearchedUpTo'
    BY <2>1, CloseIsOwn DEF Objects, deviceVars, serviceVars
  <2>5. QED
    BY <2>2, <2>3, <2>4
<1>2. CASE DestroyKeyboard
  <2>1. TypeOK' /\ OwnDescriptor'
    BY <1>2 DEF DestroyKeyboard, TypeOK, OwnDescriptor, Objects, PC, deviceVars, serviceVars
  <2>2. ObjectsExist'
    BY <1>2 DEF DestroyKeyboard, TypeOK, Objects, PC, Throwing
  <2>3. DevicesComplete' /\ SearchedUpTo'
    BY <1>2 DEF DestroyKeyboard, TypeOK, Objects, deviceVars, serviceVars
  <2>4. QED
    BY <2>1, <2>2, <2>3
<1>3. CASE DestroyMouse
  <2>1. /\ Close("mouse") /\ fd["mouse"] # 0
        /\ pc = "destroyMouse" /\ pc' = "accept"
        /\ created' = created \ {fd["mouse"]}
        /\ UNCHANGED <<enabled, serviceVars, served>>
    BY <1>3 DEF DestroyMouse, Objects
  <2>2. TypeOK' /\ OwnDescriptor'
    BY <2>1, CloseIsOwn DEF TypeOK, Objects, PC, Throwing, serviceVars
  <2>3. ObjectsExist'
    BY <2>1, CloseIsOwn DEF Objects, PC, Throwing
  <2>4. DevicesComplete' /\ SearchedUpTo'
    BY <2>1 DEF serviceVars
  <2>5. QED
    BY <2>2, <2>3, <2>4
<1>4. CASE Aborts
  <2>1. TypeOK' /\ OwnDescriptor'
    BY <1>4 DEF Aborts, TypeOK, OwnDescriptor, PC, Fds, serviceVars
  <2>2. ObjectsExist' /\ DevicesComplete'
    BY <1>4 DEF Aborts, Objects, PC, Throwing
  <2>3. SearchedUpTo'
    BY <1>4 DEF Aborts, serviceVars
  <2>4. QED
    BY <2>1, <2>2, <2>3
<1>5. QED
  BY <1>1, <1>2, <1>3, <1>4

LEMMA InitInv == ASSUME Init PROVE DescriptorInv
<1>1. TypeOK /\ OwnDescriptor
  BY DEF Init, TypeOK, OwnDescriptor, PC, Throwing
<1>2. ObjectsExist /\ DevicesComplete
  BY DEF Init, ObjectsExist, Existing, DevicesComplete, PC, Throwing, Objects
<1>3. SearchedUpTo
  BY DescriptorAssumption DEF Init, SearchedUpTo, Channels
<1>4. QED
  BY <1>1, <1>2, <1>3 DEF DescriptorInv

LEMMA StutterInv == ASSUME DescriptorInv, UNCHANGED vars PROVE DescriptorInv'
BY DEF DescriptorInv, TypeOK, OwnDescriptor, ObjectsExist, DevicesComplete, Complete,
       SearchedUpTo, vars

(***************************************************************************)
(* Every descriptor in use is that of the object that uses it, whatever    *)
(* numbers the kernel gives out again.                                     *)
(***************************************************************************)
THEOREM DescriptorsCorrect == SafeSpec => []DescriptorInv
<1>1. DescriptorInv /\ [Next]_vars => DescriptorInv'
  BY ServiceSteps, ConstructionSteps, DestructionSteps, StutterInv, DescriptorAssumption DEF Next
<1>2. QED
  BY InitInv, <1>1, PTL DEF SafeSpec

\* A session has a complete mouse and a complete keyboard.
THEOREM SessionHasDevices == SafeSpec => []DevicesReady
<1>1. DescriptorInv => DevicesReady
  BY DEF DescriptorInv, DevicesComplete, DevicesReady, Devices, Existing
<1>2. QED
  BY DescriptorsCorrect, <1>1, PTL

\* The channel in the service record is the first that could be bound.
THEOREM AdvertisedIsFirstFree == SafeSpec => []AdvertisesFirstFree
<1>1. DescriptorInv => AdvertisesFirstFree
  BY DEF DescriptorInv, SearchedUpTo, AdvertisesFirstFree
<1>2. QED
  BY DescriptorsCorrect, <1>1, PTL

-----------------------------------------------------------------------------
(* The leak *)

LEMMA OpenKeepsOrphans ==
  ASSUME TypeOK, OwnDescriptor, NEW o \in Objects, fd[o] = 0, NEW f \in Fds, Open(o, f)
  PROVE  Orphans' = Orphans /\ \A g \in Orphans : file'[g] = file[g]
<1>1. /\ file[f] = "free" /\ f # 0 /\ o # "free"
      /\ file' = [file EXCEPT ![f] = o] /\ fd' = [fd EXCEPT ![o] = f]
      /\ file \in [Fds -> Objects \cup {"free"}]
      /\ fd \in [Objects -> Fds \cup {0}]
  BY DescriptorAssumption DEF Open, FreeFds, Fds, Objects, TypeOK
<1>2. \A g \in Fds : g # 0
  BY DescriptorAssumption DEF Fds
<1>3. \A g \in Fds : g \in Orphans' <=> g \in Orphans
  BY <1>1, <1>2 DEF Orphans
<1>4. QED
  BY <1>1, <1>3 DEF Orphans

LEMMA CloseKeepsOrphans ==
  ASSUME TypeOK, OwnDescriptor, NEW o \in Objects, fd[o] # 0, Close(o)
  PROVE  Orphans' = Orphans /\ (\A g \in Orphans : file'[g] = file[g]) /\ fd[o] \notin Orphans
<1>1. /\ file' = [file EXCEPT ![fd[o]] = "free"] /\ fd' = [fd EXCEPT ![o] = 0]
      /\ file \in [Fds -> Objects \cup {"free"}]
      /\ fd \in [Objects -> Fds \cup {0}]
  BY DEF Close, TypeOK
<1>2. \A g \in Fds : g # 0
  BY DescriptorAssumption DEF Fds
<1>3. \A g \in Fds : g \in Orphans' <=> g \in Orphans
  BY <1>1, <1>2 DEF Orphans
<1>4. QED
  BY <1>1, <1>3 DEF Orphans

\* The one step that adds an orphan, a keyboard that exists.
LEMMA DestroyKeyboardLeaks ==
  ASSUME DescriptorInv, OnlyKeyboardsLeak, DestroyKeyboard
  PROVE  OnlyKeyboardsLeak'
<1> DEFINE k == fd["keyboard"]
<1>1. /\ k \in Fds /\ k # 0 /\ file[k] = "keyboard" /\ k \in created
      /\ fd \in [Objects -> Fds \cup {0}]
      /\ fd' = [fd EXCEPT !["keyboard"] = 0]
      /\ UNCHANGED <<file, created>> /\ served' = served + 1
      /\ pc # "aborted"
  BY DEF DestroyKeyboard, DescriptorInv, TypeOK, OwnDescriptor, ObjectsExist, Existing,
         DevicesComplete, Complete, Objects, deviceVars
<1>2. \A o \in Objects \ {"keyboard"} : fd[o] # k
  BY <1>1 DEF DescriptorInv, OwnDescriptor
<1>3. "keyboard" \in Objects /\ \A g \in Fds : g # 0
  BY DescriptorAssumption DEF Objects, Fds
<1>4. \A g \in Fds : g \in Orphans' <=> g \in Orphans \cup {k}
  BY <1>1, <1>2, <1>3 DEF Orphans
<1>5. Orphans' = Orphans \cup {k} /\ k \notin Orphans
  BY <1>1, <1>3, <1>4 DEF Orphans
<1>6. IsFiniteSet(Fds) /\ Orphans \subseteq Fds
  BY FS_Interval, DescriptorAssumption DEF Orphans, Fds
<1>7. IsFiniteSet(Orphans)
  BY <1>6, FS_Subset
<1>8. Cardinality(Orphans') = Cardinality(Orphans) + 1
  BY <1>5, <1>7, FS_AddElement
<1>9. QED
  BY <1>1, <1>5, <1>8 DEF OnlyKeyboardsLeak

\* Every other step leaves the orphans alone; the end of the process takes
\* them with it.
LEMMA OthersDoNotLeak ==
  ASSUME DescriptorInv, OnlyKeyboardsLeak, [Next]_vars, ~DestroyKeyboard
  PROVE  OnlyKeyboardsLeak'
<1> USE DEF DescriptorInv
<1>1. CASE ServerSocket \/ Register \/ Accept
  <2>1. PICK o \in Objects, f \in Fds : Open(o, f) /\ fd[o] = 0
    BY <1>1 DEF ServerSocket, Register, Accept, ObjectsExist, Existing, Objects
  <2>2. UNCHANGED <<created, served>> /\ pc # "aborted"
    BY <1>1 DEF ServerSocket, Register, Accept, deviceVars
  <2>3. QED
    BY <2>1, <2>2, OpenKeepsOrphans DEF OnlyKeyboardsLeak
<1>2. ASSUME NEW d \in Devices, OpenDevice(d) PROVE OnlyKeyboardsLeak'
  <2>1. PICK f \in Fds : Open(d, f)
    BY <1>2 DEF OpenDevice
  <2>2. d \in Objects /\ fd[d] = 0 /\ UNCHANGED <<created, served>> /\ pc # "aborted"
    BY <1>2 DEF OpenDevice, ObjectsExist, Existing, Objects, Devices, OpenAt
  <2>3. QED
    BY <2>1, <2>2, OpenKeepsOrphans DEF OnlyKeyboardsLeak
<1>3. CASE DeleteSocket \/ DestroyMouse
  <2>1. PICK o \in Objects : /\ Close(o) /\ fd[o] # 0
                             /\ created \ {fd[o]} \subseteq created'
    BY <1>3 DEF DeleteSocket, DestroyMouse, ObjectsExist, Existing, Objects, deviceVars
  <2>2. UNCHANGED served /\ pc # "aborted"
    BY <1>3 DEF DeleteSocket, DestroyMouse
  <2>3. QED
    BY <2>1, <2>2, CloseKeepsOrphans DEF OnlyKeyboardsLeak
<1>4. CASE Aborts
  <2>1. Orphans' = {} /\ pc' = "aborted"
    BY <1>4 DEF Aborts, Orphans
  <2>2. QED
    BY <2>1 DEF OnlyKeyboardsLeak
<1>5. CASE \/ Bind \/ Listen \/ Serve \/ UNCHANGED vars
           \/ \E d \in Devices : CreateDevice(d) \/ \E e \in Events[d] : EnableEvent(d, e)
  <2>1. /\ UNCHANGED <<file, fd, served>> /\ created \subseteq created'
        /\ pc = "aborted" <=> pc' = "aborted"
    BY <1>5 DEF Bind, Listen, Serve, vars, CreateDevice, EnableEvent, Constructed, OpenAt,
                EnableAt, Devices, deviceVars
  <2>2. Orphans' = Orphans
    BY <2>1 DEF Orphans
  <2>3. QED
    BY <2>1, <2>2 DEF OnlyKeyboardsLeak
<1>6. QED
  BY <1>1, <1>2, <1>3, <1>4, <1>5 DEF Next

(***************************************************************************)
(* What a client leaves behind is the keyboard, whatever happens.          *)
(***************************************************************************)
THEOREM LeakIsTheKeyboard == SafeSpec => []OnlyKeyboardsLeak
<1>1. Init => OnlyKeyboardsLeak
  <2>1. Init => Orphans = {} /\ served = 0
    BY DEF Init, Orphans
  <2>2. QED
    BY <2>1, FS_EmptySet DEF OnlyKeyboardsLeak
<1>2. DescriptorInv /\ OnlyKeyboardsLeak /\ [Next]_vars => OnlyKeyboardsLeak'
  BY DestroyKeyboardLeaks, OthersDoNotLeak
<1>3. QED
  BY DescriptorsCorrect, <1>1, <1>2, PTL DEF SafeSpec
=============================================================================
