---------------------------- MODULE RemoteControl ----------------------------
(***************************************************************************)
(* What the server promises its clients: they are served one at a time.    *)
(* A client is greeted, and then served or turned away; whoever works for  *)
(* it - reads its events, injects them, writes the screen to it - does so  *)
(* between the greeting and the end of its session only, and its socket is *)
(* closed, and the next client accepted, when nobody does any more.        *)
(***************************************************************************)

VARIABLES
  phase,    \* "idle", "greeting", "serving", "closing", "over", or "down"
  client,   \* the client's socket: "none", "up", or "lost"
  working   \* somebody works for the client

vars == <<phase, client, working>>

Init ==
  /\ phase = "idle"
  /\ client = "none"
  /\ working = FALSE

Accept ==
  /\ phase = "idle"
  /\ phase' = "greeting"
  /\ client' = "up"
  /\ UNCHANGED working

\* The greeting is exchanged.
Welcome ==
  /\ phase = "greeting"
  /\ client = "up"
  /\ phase' = "serving"
  /\ UNCHANGED <<client, working>>

TurnAway ==
  /\ phase = "greeting"
  /\ phase' = "over"
  /\ UNCHANGED <<client, working>>

Work ==
  /\ phase \in {"serving", "closing"}
  /\ working' \in BOOLEAN
  /\ UNCHANGED <<phase, client>>

Close ==
  /\ phase = "serving"
  /\ phase' = "closing"
  /\ UNCHANGED <<client, working>>

Finish ==
  /\ phase = "closing"
  /\ ~working
  /\ phase' = "over"
  /\ UNCHANGED <<client, working>>

Lost ==
  /\ client = "up"
  /\ client' = "lost"
  /\ UNCHANGED <<phase, working>>

Disconnect ==
  /\ phase = "over"
  /\ client' = "none"
  /\ UNCHANGED <<phase, working>>

Forget ==
  /\ phase = "over"
  /\ client = "none"
  /\ phase' = "idle"
  /\ UNCHANGED <<client, working>>

\* The process ends, whatever it was doing.
Down ==
  /\ phase # "down"
  /\ phase' = "down"
  /\ UNCHANGED <<client, working>>

Next ==
  \/ Accept
  \/ Welcome
  \/ TurnAway
  \/ Work
  \/ Close
  \/ Finish
  \/ Lost
  \/ Disconnect
  \/ Forget
  \/ Down

Spec == Init /\ [][Next]_vars
=============================================================================
