---------------------------- MODULE MCTermInput ----------------------------
(* One reader of the terminal; a buffer of four bytes.                     *)
EXTENDS TermInput

CONSTANTS r1

OneReader == {r1}
=============================================================================
