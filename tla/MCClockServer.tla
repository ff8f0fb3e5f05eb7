--------------------------- MODULE MCClockServer ---------------------------
(* Two or three clients of the clock server.                               *)
EXTENDS ClockServer

CONSTANTS c1, c2, c3

ThreeClients == {c1, c2, c3}
TwoClients == {c1, c2}

\* No delay, one of a tick and a longer one.
SomeTicks == {0, 1, 2}
LongTicks == {1, 3}
=============================================================================
