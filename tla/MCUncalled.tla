------------------------------ MODULE MCUncalled ------------------------------
(***************************************************************************)
(* Four parts of the code of which the program uses little or nothing so   *)
(* far: the service registrer beyond its first registration, the timed     *)
(* sleep, the key combinations and the frame encoder.  They share nothing; *)
(* they are checked in one run, in which one of them moves and the others  *)
(* stay as they are.                                                       *)
(***************************************************************************)
EXTENDS MCServiceRegistrer

CONSTANTS Second, Millis, MaxTime, Codes, MaxLen, Delay, MaxFrames

ASSUME UncalledAssumption ==
  /\ Second \in Nat \ {0} /\ Millis \subseteq Nat /\ MaxTime \in Nat
  /\ MaxLen \in Nat
  /\ Delay \in Nat /\ MaxFrames \in Nat

VARIABLES
  part,     \* the part that moves
  now, sleeper, timewait, start, millis, locked, sleeping, signalled, waker,
  keyCodes, before, held, i, retval, pc, pressed, stuck,
  encoder, memory, image, out, gotOutput, currentFrame, inside, delivered, stage, broken

sleepVars == <<now, sleeper, timewait, start, millis, locked, sleeping, signalled, waker>>
comboVars == <<keyCodes, before, held, i, retval, pc, pressed, stuck>>
encoderVars == <<encoder, memory, image, out, gotOutput, currentFrame, inside,
                 delivered, stage, broken>>

Sleep == INSTANCE TimedSleep
Combo == INSTANCE KeyCombo
Encoder == INSTANCE FrameEncoder

MCInit ==
  /\ part \in {"registrer", "sleep", "combo", "encoder"}
  /\ Init
  /\ Sleep!Init /\ (part # "sleep" => now = 0)
  /\ Combo!Init /\ (part # "combo" => keyCodes = <<>> /\ before = {})
  /\ Encoder!Init

MCNext ==
  \/ /\ part = "registrer" /\ Next
     /\ UNCHANGED <<part, sleepVars, comboVars, encoderVars>>
  \/ /\ part = "sleep" /\ Sleep!Next
     /\ UNCHANGED <<part, vars, comboVars, encoderVars>>
  \/ /\ part = "combo" /\ Combo!Next
     /\ UNCHANGED <<part, vars, sleepVars, encoderVars>>
  \/ /\ part = "encoder" /\ Encoder!Next
     /\ UNCHANGED <<part, vars, sleepVars, comboVars>>

MCvars == <<part, vars, sleepVars, comboVars, encoderVars>>

MCSpec == MCInit /\ [][MCNext]_MCvars /\ (part = "sleep" => Sleep!Fairness)

\* The properties are stated in the modules.
NotTooShort == Sleep!NotTooShort
SleepEnds == Sleep!SleepEnds
ComboInv == Combo!ComboInv
EncoderInv == Encoder!EncoderInv
AllDelivered == Encoder!AllDelivered
=============================================================================
