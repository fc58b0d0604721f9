---------------------------- MODULE MCFrameWriter ----------------------------
(* The model checked by TLC: an image of two chunks. *)
EXTENDS FrameWriter

MCPng == <<<<7, 1>>, <<6>>>>
=============================================================================
