----------------------------- MODULE MCEasyBlink -----------------------------
(* Short and long beeps, single and double, against a heartbeat that is    *)
(* on for a tick and off for three; enough calls for one series to run,    *)
(* one to wait in the backup place and one to replace it.                  *)
EXTENDS EasyBlink

MCBeeps == {[nums |-> 1, pulse |-> 2, npulse |-> 2],
            [nums |-> 2, pulse |-> 1, npulse |-> 1]}
MCHeartbeat == [nums |-> -1, pulse |-> 1, npulse |-> 3]
=============================================================================
