--------------------------- MODULE FrameMailbox ---------------------------
(***************************************************************************)
(* What the camera driver and csi_done_sem promise the thread that reads   *)
(* images: of two buffers one is being filled and one is shown; a report   *)
(* swaps them; a reader that is woken reads what is shown, and a frame     *)
(* shown is sooner or later read, unless a later one or a restart of the   *)
(* camera takes its place.  Wake-ups may be spurious: the reader may find  *)
(* a frame it has already read, or, after a restart, none.                 *)
(***************************************************************************)
CONSTANTS Buf1, Buf2

VARIABLES
  filling,   \* the buffer the next frame reported will be in
  shown,     \* the buffer the reader is pointed to
  news,      \* the frame shown has not been read yet
  woken      \* the reader is on its way to read

vars == <<filling, shown, news, woken>>

Other(b) == IF b = Buf1 THEN Buf2 ELSE Buf1

Init == filling = Buf1 /\ shown = Buf1 /\ news = FALSE /\ woken = FALSE

(* A report may also wake the reader, if it is waiting.                    *)
Report ==
  /\ shown' = filling
  /\ filling' = Other(filling)
  /\ news' = TRUE
  /\ woken' \in {woken, TRUE}

Restart ==
  /\ filling' = Buf1
  /\ shown' = Buf1
  /\ news' = FALSE
  /\ UNCHANGED woken

Wake ==
  /\ ~woken
  /\ woken' = TRUE
  /\ UNCHANGED <<filling, shown, news>>

Read ==
  /\ woken
  /\ woken' = FALSE
  /\ news' = FALSE
  /\ UNCHANGED <<filling, shown>>

Next == Report \/ Restart \/ Wake \/ Read

Spec == Init /\ [][Next]_vars

NewsIsRead == news ~> ~news
=============================================================================
