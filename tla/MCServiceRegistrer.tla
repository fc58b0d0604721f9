-------------------------- MODULE MCServiceRegistrer --------------------------
(* The model checked by TLC: <<0, 0>> and <<1, 1>> are less and greater than *)
(* one another as they should be, the other keys contradict each other.      *)
EXTENDS ServiceRegistrer

MCKeys == {<<0, 0>>, <<0, 2>>, <<1, 1>>, <<2, 0>>}
=============================================================================
