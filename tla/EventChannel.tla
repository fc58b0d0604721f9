---------------------------- MODULE EventChannel ----------------------------
(***************************************************************************)
(* What a Consumer promises to the code that uses it: the items offered    *)
(* while it is open are handled once each, in the order in which they were *)
(* offered.  Closing it does not flush it: it ends after some of the items *)
(* that are still in it, possibly all, possibly none, and the rest is      *)
(* never handled.  An item whose handling fails takes the process down.    *)
(***************************************************************************)
EXTENDS Naturals, Sequences

CONSTANTS Items, MaxBacklog

VARIABLES
  chan,     \* the items offered and not yet handled, oldest first
  phase     \* "open", "closed" (asked to end), "ended" or "failed"

vars == <<chan, phase>>

Init ==
  /\ chan = <<>>
  /\ phase = "open"

Offer(x) ==
  /\ phase = "open"
  /\ Len(chan) < MaxBacklog
  /\ chan' = Append(chan, x)
  /\ UNCHANGED phase

Deliver ==
  /\ phase \in {"open", "closed"}
  /\ chan # <<>>
  /\ chan' = Tail(chan)
  /\ UNCHANGED phase

Fail ==
  /\ phase \in {"open", "closed"}
  /\ chan # <<>>
  /\ phase' = "failed"
  /\ UNCHANGED chan

Close ==
  /\ phase = "open"
  /\ phase' = "closed"
  /\ UNCHANGED chan

End ==
  /\ phase = "closed"
  /\ phase' = "ended"
  /\ UNCHANGED chan

\* A new consumer takes the place of one that has ended.
Replace ==
  /\ phase = "ended"
  /\ chan' = <<>>
  /\ phase' = "open"

Next ==
  \/ \E x \in Items : Offer(x)
  \/ Deliver
  \/ Fail
  \/ Close
  \/ End
  \/ Replace

SafeSpec == Init /\ [][Next]_vars

\* Nothing offered waits for ever, and a channel that is closed ends.
Fairness ==
  /\ WF_vars(Deliver \/ Fail \/ End)
  /\ WF_vars(phase = "closed" /\ (Fail \/ End))

Spec == SafeSpec /\ Fairness
=============================================================================
