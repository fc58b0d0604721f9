----------------------------- MODULE MCConsumer -----------------------------
\* Two items that can be handled and one that cannot, at most three at a time:
\* a batch of two with a third arriving behind it is the longest situation in
\* which run() behaves differently from what it did before.
EXTENDS Consumer
=============================================================================
