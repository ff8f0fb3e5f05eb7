------------------------------ MODULE MCKernel ------------------------------
(* Small instances of the kernel for TLC.                                  *)
EXTENDS Kernel

\* A launcher and the idle task; every other task is created.
BootPair == <<1, 0>>

\* The whole table is in use from the start.
BootFull == <<1, 0, 1, 1>>
=============================================================================
