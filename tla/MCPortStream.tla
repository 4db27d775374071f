---------------------------- MODULE MCPortStream ----------------------------
(* An empty message, two that a read can cut anywhere, one too long.       *)
EXTENDS PortStream

Messages == {<<>>, <<1>>, <<0, 1>>, <<0, 0, 0, 0>>}
=============================================================================
