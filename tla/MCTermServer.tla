---------------------------- MODULE MCTermServer ----------------------------
(* Two tasks put strings through the output buffers.                       *)
EXTENDS TermServer

CONSTANTS c1, c2

TwoClients == {c1, c2}
=============================================================================
