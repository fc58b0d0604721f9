-------------------------- MODULE MCEventDispatch --------------------------
\* A screen of three columns, with a target on it, on its right edge and off
\* it on both sides; one key the keyboard has and one it does not have.
EXTENDS EventDispatch
MCCoordinates == {-1, 1, 3}
=============================================================================
