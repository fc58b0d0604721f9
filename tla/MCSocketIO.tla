----------------------------- MODULE MCSocketIO -----------------------------
\* Reads of one byte (a packet type) and of more than the kernel holds (a
\* coordinate); the bytes of the two messages tell where they belong.
EXTENDS SocketIO
MCMessages == {<<1>>, <<2, 3, 4>>}
=============================================================================
