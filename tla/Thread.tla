------------------------------- MODULE Thread -------------------------------
(***************************************************************************)
(* The Thread class (include/Thread.h, src/Thread.cpp): a thin wrapper     *)
(* over one joinable pthread.  An object is used by one owner thread, that *)
(* calls start() and later join(), and by the pthread it creates, that     *)
(* executes run() and then clears _runs without holding runsLock.  That    *)
(* store races with the owner's `_runs = true' and with the test in join() *)
(* so each of the three is a step of its own.                              *)
(*                                                                         *)
(* runsLock is taken by start() and join() only, and both are calls of the *)
(* same owner: it never makes anybody wait and is not part of the state.   *)
(***************************************************************************)

CONSTANT Threads    \* the Thread objects

VARIABLES
  life,     \* the pthread behind each object
  runs,     \* Thread::_runs
  owner     \* where the owner is in the calls it makes on the object

vars == <<life, runs, owner>>

(***************************************************************************)
(* "returned": run() is over and _runs has been cleared, which is the last *)
(* access of the pthread to the object.  "exited": pthread_exit was called *)
(* and the pthread waits to be joined.  "reaped": pthread_join took it.    *)
(***************************************************************************)
Life == {"none", "running", "returned", "exited", "reaped"}

\* "creating" and "joining" are the middle of start() and of join().
OwnerStep == {"unstarted", "creating", "started", "joining", "joined"}

Init ==
  /\ life  = [t \in Threads |-> "none"]
  /\ runs  = [t \in Threads |-> FALSE]
  /\ owner = [t \in Threads |-> "unstarted"]

-----------------------------------------------------------------------------
(* start() *)

\* pthread_create succeeds: from here on run() executes concurrently.
StartCreate(t) ==
  /\ owner[t] = "unstarted"
  /\ owner' = [owner EXCEPT ![t] = "creating"]
  /\ life'  = [life  EXCEPT ![t] = "running"]
  /\ UNCHANGED runs

\* Mutant: the assignment to _runs is forgotten.
StartMarkForgotten(t) ==
  /\ owner[t] = "creating"
  /\ owner' = [owner EXCEPT ![t] = "started"]
  /\ UNCHANGED <<life, runs>>

\* `_runs = true' and the return from start().
StartMark(t) ==
  /\ owner[t] = "creating"
  /\ owner' = [owner EXCEPT ![t] = "started"]
  /\ runs'  = [runs  EXCEPT ![t] = TRUE]
  /\ UNCHANGED life

-----------------------------------------------------------------------------
(* The new thread: _start() *)

\* run() has returned and `t->_runs = false' is stored, without the lock.
RunReturns(t) ==
  /\ life[t] = "running"
  /\ life' = [life EXCEPT ![t] = "returned"]
  /\ runs' = [runs EXCEPT ![t] = FALSE]
  /\ UNCHANGED owner

\* Mutant: the pthread was created detached, so nothing is left to join.
ExitDetached(t) ==
  /\ life[t] = "returned"
  /\ life' = [life EXCEPT ![t] = "reaped"]
  /\ UNCHANGED <<runs, owner>>

\* pthread_exit(0)
Exit(t) ==
  /\ life[t] = "returned"
  /\ life' = [life EXCEPT ![t] = "exited"]
  /\ UNCHANGED <<runs, owner>>

-----------------------------------------------------------------------------
(* join() *)

\* The test of _runs: a thread that has already cleared it is not joined.
JoinTest(t) ==
  /\ owner[t] = "started"
  /\ owner' = [owner EXCEPT ![t] = IF runs[t] THEN "joining" ELSE "joined"]
  /\ UNCHANGED <<life, runs>>

\* pthread_join returns once the pthread has terminated.
JoinWait(t) ==
  /\ owner[t] = "joining"
  /\ life[t] = "exited"
  /\ owner' = [owner EXCEPT ![t] = "joined"]
  /\ life'  = [life  EXCEPT ![t] = "reaped"]
  /\ UNCHANGED runs

-----------------------------------------------------------------------------

(***************************************************************************)
(* The objects in S are destroyed, and their places taken by new ones.     *)
(* The destructor only releases the attributes: it does not look at the    *)
(* state of the thread, hence no guard here.                               *)
(***************************************************************************)
Renew(S) ==
  /\ life'  = [t \in Threads |-> IF t \in S THEN "none" ELSE life[t]]
  /\ runs'  = [t \in Threads |-> IF t \in S THEN FALSE ELSE runs[t]]
  /\ owner' = [t \in Threads |-> IF t \in S THEN "unstarted" ELSE owner[t]]

\* What the users of the class do: an object is destroyed only when it was
\* never started or has been joined.
Discardable(t) == owner[t] \in {"unstarted", "joined"}

Next ==
  \/ \E t \in Threads :
       \/ StartCreate(t)
       \/ StartMark(t)
       \/ RunReturns(t)
       \/ Exit(t)
       \/ JoinTest(t)
       \/ JoinWait(t)
  \/ \E S \in SUBSET Threads :
       /\ \A t \in S : Discardable(t)
       /\ Renew(S)

SafeSpec == Init /\ [][Next]_vars

(***************************************************************************)
(* A created pthread is scheduled until it terminates (run() is assumed to *)
(* return), and pthread_join returns once it may.                          *)
(***************************************************************************)
Fairness ==
  \A t \in Threads :
    /\ WF_vars(StartMark(t))
    /\ WF_vars(RunReturns(t))
    /\ WF_vars(Exit(t))
    /\ WF_vars(JoinWait(t))

Spec == SafeSpec /\ Fairness

-----------------------------------------------------------------------------

TypeOK ==
  /\ life  \in [Threads -> Life]
  /\ runs  \in [Threads -> BOOLEAN]
  /\ owner \in [Threads -> OwnerStep]

(***************************************************************************)
(* Once join() has returned, run() is over and the pthread will not touch  *)
(* the object again, although join() may return without pthread_join and   *)
(* although _runs is written by both threads in either order.  Everything  *)
(* that is deleted after a join() depends on it.                           *)
(***************************************************************************)
JoinedMeansReturned ==
  \A t \in Threads : owner[t] = "joined" => life[t] \in {"returned", "exited", "reaped"}

(***************************************************************************)
(* How far the pthread can be for each step of the owner, and the fact     *)
(* join() relies on: once start() has returned, _runs is false only if     *)
(* run() is over.                                                          *)
(***************************************************************************)
LifeMatchesOwner ==
  \A t \in Threads :
    /\ owner[t] = "unstarted" <=> life[t] = "none"
    /\ owner[t] \in {"creating", "started", "joining"}
         => life[t] \in {"running", "returned", "exited"}
    /\ owner[t] = "started" /\ life[t] = "running" => runs[t]

\* The inductive invariant: the two above, with the types.
ThreadInv == TypeOK /\ LifeMatchesOwner /\ JoinedMeansReturned

\* A join() that has to wait for the pthread returns.
JoinReturns ==
  \A t \in Threads : owner[t] = "joining" ~> owner[t] = "joined"

(***************************************************************************)
(* What include/RdClientHandler.h:105 says of the workers ("when the       *)
(* connection is terminated the workers are joined"), taken at its word:   *)
(* after join() the pthread has been joined and its resources released.    *)
(* The code does not do it for a thread that has already cleared _runs.    *)
(***************************************************************************)
JoinReaps ==
  \A t \in Threads : owner[t] = "joined" => life[t] = "reaped"
=============================================================================
