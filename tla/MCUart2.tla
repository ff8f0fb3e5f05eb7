------------------------------ MODULE MCUart2 ------------------------------
(* One reader of the terminal, as the repository has at any time, and      *)
(* FIFOs of four bytes.                                                    *)
EXTENDS Uart2

CONSTANTS r1

OneReader == {r1}
=============================================================================
