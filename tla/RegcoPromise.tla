---------------------------- MODULE RegcoPromise ----------------------------
(***************************************************************************)
(* What the recognition mode ("regco") promises about the results the      *)
(* OpenART camera sends: there is one slot, a result is taken only when    *)
(* the slot is empty, the gesture performed is the one of the result in    *)
(* the slot, it is performed once, and the slot is not refilled before it  *)
(* is over.  The promise is at-most-once: a result can be lost before its  *)
(* gesture begins, and from then on nothing more is accepted.              *)
(***************************************************************************)
EXTENDS Integers

CONSTANT OpenArtNums    \* the numbers an OpenART line may carry

Gestures == 0 .. 5      \* the numbers main() has a gesture for
NoNum == -1             \* f1.regco_num when no result is held

VARIABLES
  job,      \* the number in the slot, NoNum when it holds none
  phase     \* "idle", "pending", "running", or "stuck" after a lost result

vars == <<job, phase>>

TypeOK ==
  /\ job \in OpenArtNums \cup {NoNum}
  /\ phase \in {"idle", "pending", "running", "stuck"}

Init == job = NoNum /\ phase = "idle"

(* A result is taken; one no gesture exists for fills the slot for good.   *)
Accept(n) ==
  /\ phase = "idle"
  /\ job' = n
  /\ phase' = IF n \in Gestures THEN "pending" ELSE "stuck"

Start ==
  /\ phase = "pending"
  /\ phase' = "running"
  /\ UNCHANGED job

Finish ==
  /\ phase = "running"
  /\ phase' = "idle"
  /\ job' = NoNum

(* The result is wiped before its gesture began.                           *)
Lose ==
  /\ phase \in {"pending", "stuck"}
  /\ phase' = "stuck"
  /\ job' = NoNum

Next ==
  \/ \E n \in OpenArtNums : Accept(n)
  \/ Start
  \/ Finish
  \/ Lose

Spec == Init /\ [][Next]_vars
=============================================================================
