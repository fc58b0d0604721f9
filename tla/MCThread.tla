------------------------------ MODULE MCThread ------------------------------
\* Three Thread objects: the four of a session behave independently here, and
\* three already give every combination of two racing with a third.
CONSTANT Threads
VARIABLES life, runs, owner

T == INSTANCE Thread

ThreadSafeSpec == T!SafeSpec
ThreadSpec == T!Spec

\* The properties are stated in the module.
ThreadInv == T!ThreadInv
JoinedMeansReturned == T!JoinedMeansReturned
JoinReturns == T!JoinReturns
JoinReaps == T!JoinReaps
=============================================================================
