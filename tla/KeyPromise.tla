----------------------------- MODULE KeyPromise -----------------------------
(***************************************************************************)
(* What the button driver promises the callbacks of its keys: a key goes   *)
(* down, is clicked once, and must come up before it can go down again;    *)
(* at most one callback runs at any time.                                  *)
(***************************************************************************)
CONSTANT Keys

VARIABLES
  down,     \* the keys accepted as pressed and not yet done with
  running   \* the keys whose callback is running

vars == <<down, running>>

Init == down = {} /\ running = {}

Press(k) ==
  /\ k \notin down
  /\ down' = down \cup {k}
  /\ UNCHANGED running

Call(k) ==
  /\ k \in down
  /\ running = {}
  /\ running' = {k}
  /\ UNCHANGED down

Return(k) ==
  /\ k \in running
  /\ running' = {}
  /\ down' = down \ {k}

Next == \E k \in Keys : Press(k) \/ Call(k) \/ Return(k)

Spec == Init /\ [][Next]_vars
=============================================================================
