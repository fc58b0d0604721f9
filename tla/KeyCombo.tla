------------------------------- MODULE KeyCombo -------------------------------
(***************************************************************************)
(* suinput_emit_combo() of src/suinput.c: the keys of a combination are    *)
(* pressed in order and released in the opposite order, through a device   *)
(* each write to which can fail.  The device is shared: keys that were     *)
(* held before the call stay as they are unless they are in the            *)
(* combination.                                                            *)
(***************************************************************************)
EXTENDS Integers, Sequences, SequencesExt

CONSTANTS
  Codes,    \* the key codes there are
  MaxLen    \* bound of the model: the keys of a combination

VARIABLES
  keyCodes,   \* the arguments of the call, whose length is len
  before,     \* history: the keys the device held before it
  held,       \* those it holds now
  i, retval,  \* the local variables of the function
  pc,         \* "press", "release", or "return"
  pressed,    \* history: the keys a press was written of
  stuck       \* history: the keys a release could not be written of

vars == <<keyCodes, before, held, i, retval, pc, pressed, stuck>>

len == Len(keyCodes)

\* suinput_emit_combo(fd, keyCodes, len) is called.
Init ==
  /\ keyCodes \in BoundedSeq(Codes, MaxLen)
  /\ before \in SUBSET Codes
  /\ held = before
  /\ i = 0
  /\ retval = 0
  /\ pc = "press"
  /\ pressed = {}
  /\ stuck = {}

\* suinput_emit(EV_KEY, code, value): the event is written, or it is not.
Emit(code, value) ==
  held' = IF value = 1 THEN held \cup {code} ELSE held \ {code}
EmitFails == held' = held /\ retval' = -1

\* The loop over the presses, which ends with the first that fails.
Press ==
  /\ pc = "press"
  /\ i < len
  /\ \/ /\ Emit(keyCodes[i + 1], 1)
        /\ i' = i + 1
        /\ pressed' = pressed \cup {keyCodes[i']}
        /\ UNCHANGED <<retval, pc>>
     \/ EmitFails /\ pc' = "release" /\ UNCHANGED <<i, pressed>>
  /\ UNCHANGED <<keyCodes, before, stuck>>

PressesDone ==
  /\ pc = "press"
  /\ i = len
  /\ pc' = "release"
  /\ UNCHANGED <<keyCodes, before, held, i, retval, pressed, stuck>>

\* Mutant: the releases end with the first that fails.
ReleaseUntilFailure ==
  /\ pc = "release"
  /\ i > 0
  /\ \/ Emit(keyCodes[i], 0) /\ i' = i - 1 /\ UNCHANGED <<retval, stuck>>
     \/ EmitFails /\ i' = 0 /\ stuck' = stuck \cup {keyCodes[i]}
  /\ UNCHANGED <<keyCodes, before, pc, pressed>>

\* while (i--): the key that could not be pressed is not released.
Release ==
  /\ pc = "release"
  /\ i > 0
  /\ i' = i - 1
  /\ \/ Emit(keyCodes[i], 0) /\ UNCHANGED <<retval, stuck>>
     \/ EmitFails /\ stuck' = stuck \cup {keyCodes[i]}
  /\ UNCHANGED <<keyCodes, before, pc, pressed>>

Return ==
  /\ pc = "release"
  /\ i = 0
  /\ pc' = "return"
  /\ UNCHANGED <<keyCodes, before, held, i, retval, pressed, stuck>>

Next ==
  \/ Press
  \/ PressesDone
  \/ Release
  \/ Return
  \/ pc = "return" /\ UNCHANGED vars

SafeSpec == Init /\ [][Next]_vars

-----------------------------------------------------------------------------

TypeOK ==
  /\ keyCodes \in Seq(Codes)
  /\ before \subseteq Codes /\ held \subseteq Codes
  /\ i \in 0 .. len
  /\ retval \in {0, -1}
  /\ pc \in {"press", "release", "return"}

\* The keys of the first n arguments.
FirstKeys(n) == {keyCodes[j] : j \in 1 .. n}

\* Of the keys pressed, the first i arguments are still to be released, and
\* nothing else is held but what could not be.
LoopsAgree ==
  /\ FirstKeys(i) \subseteq pressed
  /\ pc = "press" => pressed = FirstKeys(i) /\ stuck = {}
  /\ pc # "press" => held \cap pressed \subseteq stuck \cup FirstKeys(i)
  /\ pc = "return" => i = 0
  /\ retval = 0 => stuck = {} /\ (pc # "press" => pressed = Range(keyCodes))

NoKeyLeftPressed == pc = "return" => held \cap pressed \subseteq stuck

OthersUntouched == held \ pressed = before \ pressed

SuccessIsComplete ==
  pc = "return" /\ retval = 0 =>
    pressed = Range(keyCodes) /\ held = before \ Range(keyCodes)

(***************************************************************************)
(* src/suinput.c:81: "Try to release every pressed key, no matter what."   *)
(* A key stays pressed only if writing its own release has failed, however *)
(* many other writes have failed before or after.  A key the call has not  *)
(* pressed keeps its position: neither the key that broke the combination  *)
(* nor those behind it are released.  0 is returned only if the whole      *)
(* combination was pressed and is released again.  The first two parts     *)
(* make it inductive.                                                      *)
(***************************************************************************)
ComboInv ==
  /\ TypeOK
  /\ LoopsAgree
  /\ NoKeyLeftPressed
  /\ OthersUntouched
  /\ SuccessIsComplete
=============================================================================
