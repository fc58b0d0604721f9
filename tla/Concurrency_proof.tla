--------------------------- MODULE Concurrency_proof ---------------------------
(***************************************************************************)
(* Proofs about the two classes the session is built on: the Thread        *)
(* objects, for every number of them, and the Consumer, for every set of   *)
(* items and every bound.  The two share no state.                         *)
(***************************************************************************)
EXTENDS Consumer, MCThread, TLAPS

-----------------------------------------------------------------------------
(* Thread: the inductive invariant, and what the callers of join() rely on *)

\* A step on one object keeps the types of the three variables.
LEMMA StepTypes ==
  ASSUME T!TypeOK, NEW t \in Threads,
         \/ T!StartCreate(t) \/ T!StartMark(t) \/ T!RunReturns(t)
         \/ T!Exit(t) \/ T!JoinTest(t) \/ T!JoinWait(t)
  PROVE  T!TypeOK'
<1> USE DEF T!TypeOK, T!Life, T!OwnerStep
<1>1. CASE T!StartCreate(t)
  BY <1>1 DEF T!StartCreate
<1>2. CASE T!StartMark(t)
  BY <1>2 DEF T!StartMark
<1>3. CASE T!RunReturns(t)
  BY <1>3 DEF T!RunReturns
<1>4. CASE T!Exit(t)
  BY <1>4 DEF T!Exit
<1>5. CASE T!JoinTest(t)
  BY <1>5 DEF T!JoinTest
<1>6. CASE T!JoinWait(t)
  BY <1>6 DEF T!JoinWait
<1>7. QED
  BY <1>1, <1>2, <1>3, <1>4, <1>5, <1>6

\* A step on one object keeps the relation between its pthread and its owner:
\* the store to _runs by the pthread comes after the one that ends "running".
LEMMA StepMatches ==
  ASSUME T!TypeOK, T!LifeMatchesOwner, T!JoinedMeansReturned, NEW t \in Threads,
         \/ T!StartCreate(t) \/ T!StartMark(t) \/ T!RunReturns(t)
         \/ T!Exit(t) \/ T!JoinTest(t) \/ T!JoinWait(t)
  PROVE  T!LifeMatchesOwner' /\ T!JoinedMeansReturned'
<1> USE DEF T!TypeOK, T!LifeMatchesOwner, T!JoinedMeansReturned, T!Life, T!OwnerStep
<1>1. CASE T!StartCreate(t)
  BY <1>1 DEF T!StartCreate
<1>2. CASE T!StartMark(t)
  BY <1>2 DEF T!StartMark
<1>3. CASE T!RunReturns(t)
  BY <1>3 DEF T!RunReturns
<1>4. CASE T!Exit(t)
  BY <1>4 DEF T!Exit
<1>5. CASE T!JoinTest(t)
  BY <1>5 DEF T!JoinTest
<1>6. CASE T!JoinWait(t)
  BY <1>6 DEF T!JoinWait
<1>7. QED
  BY <1>1, <1>2, <1>3, <1>4, <1>5, <1>6

\* Replacing any set of objects by new ones keeps the invariant.
LEMMA RenewInv ==
  ASSUME T!ThreadInv, NEW S \in SUBSET Threads, T!Renew(S)
  PROVE  T!ThreadInv'
BY DEF T!ThreadInv, T!TypeOK, T!LifeMatchesOwner, T!JoinedMeansReturned, T!Renew, T!Life, T!OwnerStep

LEMMA ThreadInvInductive ==
  T!ThreadInv /\ [T!Next]_(T!vars) => T!ThreadInv'
<1> SUFFICES ASSUME T!ThreadInv, [T!Next]_(T!vars)
             PROVE  T!ThreadInv'
  OBVIOUS
<1>1. ASSUME NEW t \in Threads,
             \/ T!StartCreate(t) \/ T!StartMark(t) \/ T!RunReturns(t)
             \/ T!Exit(t) \/ T!JoinTest(t) \/ T!JoinWait(t)
      PROVE  T!ThreadInv'
  <2>1. T!TypeOK'
    BY <1>1, StepTypes DEF T!ThreadInv
  <2>2. T!LifeMatchesOwner' /\ T!JoinedMeansReturned'
    BY <1>1, StepMatches DEF T!ThreadInv
  <2>3. QED
    BY <2>1, <2>2 DEF T!ThreadInv
<1>2. ASSUME NEW S \in SUBSET Threads, T!Renew(S)
      PROVE  T!ThreadInv'
  BY <1>2, RenewInv
<1>3. CASE UNCHANGED T!vars
  BY <1>3 DEF T!vars, T!ThreadInv, T!TypeOK, T!LifeMatchesOwner, T!JoinedMeansReturned
<1>4. QED
  BY <1>1, <1>2, <1>3 DEF T!Next

(***************************************************************************)
(* The types of the three variables, and how far the pthread can be for    *)
(* each step of start() and join(), for every interleaving of the pthread  *)
(* with its owner (src/Thread.cpp:37-66).                                  *)
(***************************************************************************)
THEOREM ThreadCorrect == ThreadSafeSpec => []ThreadInv
<1>1. T!Init => T!ThreadInv
  BY DEF T!Init, T!ThreadInv, T!TypeOK, T!LifeMatchesOwner, T!JoinedMeansReturned, T!Life, T!OwnerStep
<1>2. QED
  BY <1>1, ThreadInvInductive, PTL DEF ThreadSafeSpec, T!SafeSpec, ThreadInv

(***************************************************************************)
(* After join() (src/Thread.cpp:48-58), run() is over, whether or not      *)
(* pthread_join was called, for any number of objects.                     *)
(***************************************************************************)
THEOREM JoinIsSafe == ThreadSafeSpec => []JoinedMeansReturned
<1>1. ThreadInv => JoinedMeansReturned
  BY DEF ThreadInv, JoinedMeansReturned, T!ThreadInv
<1>2. QED
  BY <1>1, ThreadCorrect, PTL

-----------------------------------------------------------------------------
(* Consumer: the inductive invariant *)

LEMMA CallerSteps ==
  ASSUME ConsumerInv,
         \/ \E item \in Items : stop = "idle" /\ Add(item)
         \/ StopRunning
         \/ StopSignal
         \/ Renew
  PROVE  ConsumerInv'
<1> USE DEF ConsumerInv, TypeOK, NoLostWakeup, BatchWorkedOff, StopsOnRequest,
            ConsumerStep, StopStep
<1>1. CASE \E item \in Items : stop = "idle" /\ Add(item)
  BY <1>1 DEF Add, Signal, Locked
<1>2. CASE StopRunning
  BY <1>2 DEF StopRunning
<1>3. CASE StopSignal
  BY <1>3 DEF StopSignal, Signal, Locked
<1>4. CASE Renew
  BY <1>4 DEF Renew
<1>5. QED
  BY <1>1, <1>2, <1>3, <1>4

LEMMA ThreadSteps ==
  ASSUME ConsumerInv, Run \/ SpuriousWakeup
  PROVE  ConsumerInv'
<1> USE DEF ConsumerInv, TypeOK, NoLostWakeup, BatchWorkedOff, StopsOnRequest,
            ConsumerStep, StopStep
<1>1. CASE LoopTest
  BY <1>1 DEF LoopTest
<1>2. CASE WaitNeeded
  BY <1>2 DEF WaitNeeded
<1>3. CASE Drain
  BY <1>3 DEF Drain
<1>4. CASE Wait
  BY <1>4 DEF Wait
<1>5. CASE Process
  BY <1>5 DEF Process
<1>6. CASE ProcessThrows
  BY <1>6 DEF ProcessThrows
<1>7. CASE ProcessDone
  BY <1>7 DEF ProcessDone
<1>8. CASE SpuriousWakeup
  BY <1>8 DEF SpuriousWakeup
<1>9. QED
  BY <1>1, <1>2, <1>3, <1>4, <1>5, <1>6, <1>7, <1>8 DEF Run

LEMMA ConsumerInvInductive ==
  ConsumerInv /\ [Next]_vars => ConsumerInv'
<1> SUFFICES ASSUME ConsumerInv, [Next]_vars
             PROVE  ConsumerInv'
  OBVIOUS
<1>1. CASE \/ \E item \in Items : stop = "idle" /\ Add(item)
           \/ StopRunning \/ StopSignal \/ Renew
  BY <1>1, CallerSteps
<1>2. CASE Run \/ SpuriousWakeup
  BY <1>2, ThreadSteps
<1>3. CASE UNCHANGED vars
  BY <1>3 DEF vars, ConsumerInv, TypeOK, NoLostWakeup, BatchWorkedOff, StopsOnRequest
<1>4. QED
  BY <1>1, <1>2, <1>3 DEF Next

(***************************************************************************)
(* The queue of include/Consumer.h in every reachable state: what its      *)
(* thread may assume of the queues and of the running flag at each point   *)
(* of run(), whoever calls add() and shutdown() and when.                  *)
(***************************************************************************)
THEOREM ConsumerCorrect == SafeSpec => []ConsumerInv
<1>1. Init => ConsumerInv
  BY DEF Init, ConsumerInv, TypeOK, NoLostWakeup, BatchWorkedOff, StopsOnRequest,
         ConsumerStep, StopStep
<1>2. QED
  BY <1>1, ConsumerInvInductive, PTL DEF SafeSpec

(***************************************************************************)
(* The wait of Consumer::run() (include/Consumer.h:32-34) never misses the *)
(* signal of an add() or of a shutdown().                                  *)
(***************************************************************************)
THEOREM ConsumerNeverMissesSignal == SafeSpec => []NoLostWakeup
<1>1. ConsumerInv => NoLostWakeup
  BY DEF ConsumerInv
<1>2. QED
  BY <1>1, ConsumerCorrect, PTL

-----------------------------------------------------------------------------
(* Consumer: the refinement of EventChannel *)

\* Adding to the queue adds to the end of the content.
LEMMA AppendToSecond ==
  ASSUME NEW S, NEW p \in Seq(S), NEW q \in Seq(S), NEW x \in S
  PROVE  p \o Append(q, x) = Append(p \o q, x)
OBVIOUS

\* Finishing the first item of the batch takes it off the front of the content.
LEMMA TailOfFirst ==
  ASSUME NEW S, NEW p \in Seq(S), NEW q \in Seq(S), p # <<>>
  PROVE  /\ p \o q # <<>>
         /\ Tail(p \o q) = Tail(p) \o q
OBVIOUS

LEMMA AddOffers ==
  ASSUME ConsumerInv, NEW item \in Items, stop = "idle", cpc # "thrown", Add(item)
  PROVE  Channel!Offer(item)
<1> USE DEF ConsumerInv, TypeOK, StopsOnRequest
<1>1. r /\ cpc # "exited" /\ cpc' \notin {"exited", "thrown"} /\ r' = r
  BY DEF Add, Signal
<1>2. proccesing' \o pending' = Append(proccesing \o pending, item)
  BY AppendToSecond DEF Add
<1>3. Len(proccesing \o pending) < MaxBacklog
  BY DEF Add
<1>4. QED
  BY <1>1, <1>2, <1>3 DEF Channel!Offer

LEMMA StopCloses ==
  ASSUME ConsumerInv, cpc # "thrown", StopRunning
  PROVE  Channel!Close
BY DEF ConsumerInv, StopsOnRequest, StopRunning, Channel!Close

LEMMA SignalIsInvisible ==
  ASSUME ConsumerInv, StopSignal
  PROVE  UNCHANGED Channel!vars
BY DEF StopSignal, Signal, Channel!vars

LEMMA RenewReplaces ==
  ASSUME ConsumerInv, stop = "done", cpc = "exited", Renew
  PROVE  Channel!Replace
BY DEF ConsumerInv, StopsOnRequest, Renew, Channel!Replace

LEMMA RunImplements ==
  ASSUME ConsumerInv, Run
  PROVE  [Channel!Next]_(Channel!vars)
<1> USE DEF ConsumerInv, TypeOK
<1>1. CASE LoopTest
  BY <1>1 DEF LoopTest, Channel!Next, Channel!End, Channel!vars
<1>2. CASE WaitNeeded \/ Wait \/ ProcessDone
  BY <1>2 DEF WaitNeeded, Wait, ProcessDone, Channel!vars
<1>3. CASE Drain
  <2>1. proccesing = <<>>
    BY <1>3 DEF Drain, BatchWorkedOff
  <2>2. proccesing' \o pending' = proccesing \o pending
    BY <1>3, <2>1 DEF Drain
  <2>3. QED
    BY <1>3, <2>2 DEF Drain, Channel!vars
<1>4. CASE Process
  <2>1. /\ proccesing \o pending # <<>>
        /\ proccesing' \o pending' = Tail(proccesing \o pending)
    BY <1>4, TailOfFirst DEF Process
  <2>2. QED
    BY <1>4, <2>1 DEF Process, Channel!Next, Channel!Deliver
<1>5. CASE ProcessThrows
  <2>1. proccesing \o pending # <<>>
    BY <1>5, TailOfFirst DEF ProcessThrows
  <2>2. QED
    BY <1>5, <2>1 DEF ProcessThrows, Channel!Next, Channel!Fail
<1>6. QED
  BY <1>1, <1>2, <1>3, <1>4, <1>5 DEF Run

LEMMA StepImplements ==
  ConsumerInv /\ [Next]_vars => [Channel!Next]_(Channel!vars)
<1> SUFFICES ASSUME ConsumerInv, [Next]_vars
             PROVE  [Channel!Next]_(Channel!vars)
  OBVIOUS
<1>1. CASE \E item \in Items : stop = "idle" /\ cpc # "thrown" /\ Add(item)
  BY <1>1, AddOffers DEF Channel!Next
<1>2. CASE cpc # "thrown" /\ StopRunning
  BY <1>2, StopCloses DEF Channel!Next
<1>3. CASE StopSignal
  BY <1>3, SignalIsInvisible
<1>4. CASE Run
  BY <1>4, RunImplements
<1>5. CASE SpuriousWakeup
  BY <1>5 DEF SpuriousWakeup, Channel!vars
<1>6. CASE stop = "done" /\ cpc = "exited" /\ Renew
  BY <1>6, RenewReplaces DEF Channel!Next
<1>7. CASE UNCHANGED vars
  BY <1>7 DEF vars, Channel!vars
<1>8. QED
  BY <1>1, <1>2, <1>3, <1>4, <1>5, <1>6, <1>7 DEF Next

(***************************************************************************)
(* The safety half of ImplementsChannel: the two queues, the flag, the     *)
(* mutex and the condition of Consumer (include/Consumer.h:22-63) together *)
(* handle what was added once and in order, and end only when asked to.    *)
(***************************************************************************)
THEOREM ConsumerIsChannel == SafeSpec => Channel!SafeSpec
<1>1. Init => Channel!Init
  BY DEF Init, Channel!Init
<1>2. QED
  BY <1>1, StepImplements, ConsumerCorrect, PTL DEF SafeSpec, Channel!SafeSpec
=============================================================================
