------------------------------- MODULE Camera -------------------------------
(***************************************************************************)
(* How a frame gets from the camera to the main thread:                    *)
(*   - the CSI peripheral fills two frame buffers by DMA, alternating      *)
(*     between the addresses in its registers FB1 and FB2,                 *)
(*   - NXP's driver (fsl_csi.c) keeps a queue of buffers and handles the   *)
(*     interrupt raised when a buffer is full,                             *)
(*   - its callback csi_isr() takes the full buffer from the queue, puts   *)
(*     it back as an empty one at once, points mt9v03x_csi_image to it and *)
(*     releases csi_done_sem,                                              *)
(*   - the main thread takes and resets csi_done_sem and then reads the    *)
(*     pointer and copies the image,                                       *)
(*   - the button thread initialises camera and driver again whenever a    *)
(*     key changes the exposure.                                           *)
(*                                                                         *)
(* The main thread runs only while no interrupt is pending, the button     *)
(* thread only while the main thread is blocked as well.  The interrupt    *)
(* may be late by any number of frames.  The handler is two steps: it      *)
(* reads and clears the status register, then does the rest; a frame may   *)
(* end in between.                                                         *)
(***************************************************************************)
EXTENDS Integers

CONSTANTS
  Buf1, Buf2,        \* mt9v03x_csi1_image and mt9v03x_csi2_image
  NoBuf,             \* a queue place no buffer was ever stored in
  RT_SEM_VALUE_MAX,  \* the largest value of a semaphore
  FrameEndsInReset   \* TRUE: a frame may also end between the handler's
                     \* finding both flags set and its stopping the camera

ASSUME BufAssumption == Buf1 # Buf2 /\ NoBuf \notin {Buf1, Buf2}
ASSUME SemAssumption == RT_SEM_VALUE_MAX \in Nat \ {0}
ASSUME ResetAssumption == FrameEndsInReset \in BOOLEAN

Bufs == {Buf1, Buf2}
CSI_DRIVER_QUEUE_SIZE == 2
CSI_DRIVER_ACTUAL_QUEUE_SIZE == CSI_DRIVER_QUEUE_SIZE + 1
Idx == 0 .. CSI_DRIVER_QUEUE_SIZE     \* places of the queue
Regs == {0, 1}                        \* the registers FB1 and FB2

VARIABLES
  csi,       \* the driver's handle and the camera's registers (see CsiState)
  done,      \* the buffer-done flags of the status register
  isr,       \* the flags the handler has read, {} while it does not run
  image,     \* mt9v03x_csi_image
  sem,       \* the value of csi_done_sem
  pc,        \* where the main thread is
  src,       \* the buffer the main thread copies, or copied last
  whole,     \* history: the buffers that hold one complete frame
  sound,     \* history: a frame was reported since the camera was started
  reads,     \* history: how often the frame reported last was read (up to 3)
  torn       \* history: the copy mixes two frames

mainVars == <<pc, src, reads, torn>>
vars == <<csi, done, isr, image, sem, whole, sound, mainVars>>

NoFrame == -1     \* reads: nothing was reported since the camera's (re)start

(* The handle's fields, and: fb, the two address registers; slot, the one  *)
(* of them the frame now coming in is written to; running, CSI_ENABLE.     *)
CsiState ==
  [queue : [Idx -> Bufs \cup {NoBuf}],
   queueUserReadIdx : Idx, queueUserWriteIdx : Idx,
   queueDrvReadIdx : Idx, queueDrvWriteIdx : Idx,
   activeBufferNum : 0 .. 2, nextBufferIdx : Regs,
   transferStarted : BOOLEAN, transferOnGoing : BOOLEAN,
   fb : [Regs -> Bufs \cup {NoBuf}], slot : Regs, running : BOOLEAN]

TypeOK ==
  /\ csi \in CsiState
  /\ done \in SUBSET Regs
  /\ isr \in SUBSET Regs
  /\ image \in Bufs
  /\ sem \in 0 .. RT_SEM_VALUE_MAX
  /\ pc \in {"take", "blocked", "reset", "read", "copy", "delay"}
  /\ src \in Bufs
  /\ whole \in SUBSET Bufs
  /\ sound \in BOOLEAN
  /\ reads \in NoFrame .. 3
  /\ torn \in BOOLEAN
-----------------------------------------------------------------------------
(* The driver's queue.                                                     *)

(* As written: when the end index has wrapped round, start and end change  *)
(* places in the result.                                                   *)
QueueDelta(startIdx, endIdx) ==
  IF endIdx >= startIdx
  THEN endIdx - startIdx
  ELSE startIdx + CSI_DRIVER_ACTUAL_QUEUE_SIZE - endIdx

(* The number of places from one index on to another.                      *)
Distance(startIdx, endIdx) ==
  IF endIdx >= startIdx
  THEN endIdx - startIdx
  ELSE endIdx + CSI_DRIVER_ACTUAL_QUEUE_SIZE - startIdx

IncreaseQueueIdx(idx) ==
  IF idx + 1 >= CSI_DRIVER_ACTUAL_QUEUE_SIZE THEN 0 ELSE idx + 1

EmptyBufferCount(c) == QueueDelta(c.queueDrvReadIdx, c.queueUserWriteIdx)

(* The next empty buffer's address goes to the next register.              *)
LoadBufferToDevice(c) ==
  [c EXCEPT !.fb[c.nextBufferIdx] = c.queue[c.queueDrvReadIdx],
            !.queueDrvReadIdx = IncreaseQueueIdx(@),
            !.activeBufferNum = @ + 1,
            !.nextBufferIdx = 1 - @]

(* After the reflash the DMA writes to the first register's buffer.        *)
ReflashAndStart(c) == [c EXCEPT !.slot = 0, !.running = TRUE]

RestartWithTwo(c) ==
  ReflashAndStart(LoadBufferToDevice(LoadBufferToDevice(c)))

Store(c, b) ==
  [c EXCEPT !.queue[c.queueUserWriteIdx] = b,
            !.queueUserWriteIdx = IncreaseQueueIdx(@)]

(* A full queue refuses the buffer; a camera that was stopped for want of  *)
(* buffers goes on when there are two.                                     *)
SubmitEmptyBuffer(c, b) ==
  LET stored == Store(c, b)
  IN  IF QueueDelta(c.queueUserReadIdx, c.queueUserWriteIdx)
           = CSI_DRIVER_QUEUE_SIZE
      THEN c
      ELSE IF /\ stored.transferStarted
              /\ ~stored.transferOnGoing
              /\ EmptyBufferCount(stored) >= 2
           THEN RestartWithTwo([stored EXCEPT !.transferOnGoing = TRUE,
                                              !.nextBufferIdx = 0])
           ELSE stored

(* Mutant: the newest full buffer is looked for one place further on.      *)
FullBufferNext(c) == c.queue[IncreaseQueueIdx(c.queueUserReadIdx)]

HasFullBuffer(c) == c.queueUserReadIdx # c.queueDrvWriteIdx
FullBuffer(c) == c.queue[c.queueUserReadIdx]
TakeFullBuffer(c) ==
  [c EXCEPT !.queueUserReadIdx = IncreaseQueueIdx(@)]

TransferStart(c) ==
  IF EmptyBufferCount(c) < 2
  THEN c
  ELSE RestartWithTwo([c EXCEPT !.nextBufferIdx = 0,
                                !.activeBufferNum = 0,
                                !.transferStarted = TRUE,
                                !.transferOnGoing = TRUE])

(* The handle is zeroed; the registers keep what they held.                *)
CreateHandle(fb) ==
  [queue |-> [i \in Idx |-> NoBuf],
   queueUserReadIdx |-> 0, queueUserWriteIdx |-> 0,
   queueDrvReadIdx |-> 0, queueDrvWriteIdx |-> 0,
   activeBufferNum |-> 0, nextBufferIdx |-> 0,
   transferStarted |-> FALSE, transferOnGoing |-> FALSE,
   fb |-> fb, slot |-> 0, running |-> FALSE]

(* What mt9v03x_csi_init() does to the driver, from any state of it.       *)
InitialisedCsi(fb) ==
  TransferStart(SubmitEmptyBuffer(SubmitEmptyBuffer(CreateHandle(fb), Buf1),
                                  Buf2))
-----------------------------------------------------------------------------
(* The main thread enters its loop with the camera initialised and nothing *)
(* reported; the pointer shows the first buffer all the same.              *)
Init ==
  /\ csi = InitialisedCsi([r \in Regs |-> NoBuf])
  /\ done = {}
  /\ isr = {}
  /\ image = Buf1
  /\ sem = 0
  /\ pc = "take"
  /\ src = Buf1
  /\ whole = {}
  /\ sound = FALSE
  /\ reads = NoFrame
  /\ torn = FALSE

(* A frame is complete: its register's flag rises, and the DMA turns to    *)
(* the other register's buffer, which a thread may be copying.             *)
FrameEnd ==
  /\ csi.running
  /\ isr = Regs => FrameEndsInReset
  /\ LET overwritten == csi.fb[1 - csi.slot]
     IN  /\ done' = done \cup {csi.slot}
         /\ csi' = [csi EXCEPT !.slot = 1 - @]
         /\ whole' = (whole \cup {csi.fb[csi.slot]}) \ {overwritten}
         /\ torn' = (torn \/ (pc = "copy" /\ src = overwritten))
  /\ UNCHANGED <<isr, image, sem, sound, pc, src, reads>>

(* The handler reads the status register and clears what it read.          *)
IsrEnter ==
  /\ done # {}
  /\ isr = {}
  /\ isr' = done
  /\ done' = {}
  /\ UNCHANGED <<csi, image, sem, whole, sound, mainVars>>

(* Mutant: the camera is restarted with its registers as they are.         *)
ResyncedRegistersKept(c) == ReflashAndStart(c)

(* Both flags: the driver cannot tell which buffer was filled last, stops  *)
(* the camera and starts it again on the buffers in the order of the       *)
(* queue.  The frames are lost and nobody is told.                         *)
Resynced(c) ==
  LET first == c.queueDrvWriteIdx
  IN  ReflashAndStart(
        CASE c.activeBufferNum = 2 ->
               [c EXCEPT !.fb = [r \in Regs |->
                           IF r = 0 THEN c.queue[first]
                                    ELSE c.queue[IncreaseQueueIdx(first)]],
                         !.nextBufferIdx = 0]
          [] c.activeBufferNum = 1 ->
               [c EXCEPT !.fb[0] = c.queue[first], !.nextBufferIdx = 1]
          [] OTHER -> c)

IsrResync ==
  /\ isr = Regs
  /\ isr' = {}
  /\ csi' = Resynced(csi)
  /\ whole' = whole \ {csi'.fb[0]}
  /\ sound' = FALSE
  /\ torn' = (torn \/ (pc = "copy" /\ src = csi'.fb[0]))
  /\ UNCHANGED <<done, image, sem, pc, src, reads>>

(* One flag: the oldest active buffer is full.                             *)
Filled(c) ==
  [c EXCEPT !.queueDrvWriteIdx = IncreaseQueueIdx(@),
            !.activeBufferNum = @ - 1]

(* csi_isr() gives the full buffer back before anyone has read it.         *)
CalledBack(c) ==
  IF HasFullBuffer(c)
  THEN SubmitEmptyBuffer(TakeFullBuffer(c), FullBuffer(c))
  ELSE c

(* The camera stops when it has no buffer left to write to.                *)
Continued(c) ==
  IF c.activeBufferNum = 0
  THEN [c EXCEPT !.running = FALSE, !.transferOnGoing = FALSE]
  ELSE IF EmptyBufferCount(c) > 0 THEN LoadBufferToDevice(c) ELSE c

(* Mutant: only a thread that waits is woken; the value does not rise.     *)
SemReleaseWaiterOnly ==
  /\ pc' = IF pc = "blocked" THEN "reset" ELSE pc
  /\ UNCHANGED sem

(* rt_sem_release(): a thread that waits is resumed, else the value rises. *)
SemRelease ==
  IF pc = "blocked"
  THEN pc' = "reset" /\ UNCHANGED sem
  ELSE /\ sem' = IF sem < RT_SEM_VALUE_MAX THEN sem + 1 ELSE sem
       /\ UNCHANGED pc

IsrReport ==
  /\ isr # {} /\ isr # Regs
  /\ isr' = {}
  /\ csi' = Continued(CalledBack(Filled(csi)))
  /\ IF HasFullBuffer(Filled(csi))
     THEN /\ image' = FullBuffer(Filled(csi))
          /\ SemRelease
          /\ sound' = TRUE
          /\ reads' = 0
     ELSE UNCHANGED <<image, sem, pc, sound, reads>>
  /\ UNCHANGED <<done, whole, src, torn>>
-----------------------------------------------------------------------------
(* A thread has the processor only while no interrupt is served or due.    *)
NoInterrupt == done = {} /\ isr = {}

SemTake ==
  /\ NoInterrupt /\ pc = "take"
  /\ IF sem > 0
     THEN sem' = sem - 1 /\ pc' = "reset"
     ELSE pc' = "blocked" /\ UNCHANGED sem
  /\ UNCHANGED <<csi, done, isr, image, whole, sound, src, reads, torn>>

(* Mutant: the semaphore is not reset.                                     *)
SemResetDropped ==
  /\ NoInterrupt /\ pc = "reset"
  /\ pc' = "read"
  /\ UNCHANGED <<csi, done, isr, image, sem, whole, sound, src, reads, torn>>

SemReset ==
  /\ NoInterrupt /\ pc = "reset"
  /\ sem' = 0
  /\ pc' = "read"
  /\ UNCHANGED <<csi, done, isr, image, whole, sound, src, reads, torn>>

(* The pointer is read once, as the argument of img_resize().              *)
ReadPointer ==
  /\ NoInterrupt /\ pc = "read"
  /\ pc' = "copy"
  /\ src' = image
  /\ torn' = (image \notin whole)
  /\ reads' = IF reads \in 0 .. 2 THEN reads + 1 ELSE reads
  /\ UNCHANGED <<csi, done, isr, image, sem, whole, sound>>

(* The image is copied and worked on; the thread may sleep before it asks  *)
(* for the next one.                                                       *)
Copied ==
  /\ NoInterrupt /\ pc = "copy"
  /\ pc' \in {"take", "delay"}
  /\ UNCHANGED <<csi, done, isr, image, sem, whole, sound, src, reads, torn>>

DelayEnds ==
  /\ NoInterrupt /\ pc = "delay"
  /\ pc' = "take"
  /\ UNCHANGED <<csi, done, isr, image, sem, whole, sound, src, reads, torn>>

MainStep == SemTake \/ SemReset \/ ReadPointer \/ Copied \/ DelayEnds

(* Mutant: the pointer keeps the buffer shown before.                      *)
ReInitPointerKept ==
  /\ NoInterrupt /\ pc \in {"blocked", "delay"}
  /\ csi' = InitialisedCsi(csi.fb)
  /\ whole' = whole \ {Buf1}
  /\ sound' = FALSE
  /\ reads' = NoFrame
  /\ UNCHANGED <<done, isr, image, sem, pc, src, torn>>

(* The button thread calls mt9v03x_csi_init(): from CSI_Init() to the new  *)
(* pointer value interrupts are off, and CSI_Reset() clears the flags.     *)
(* The semaphore keeps its value.                                          *)
ReInit ==
  /\ NoInterrupt /\ pc \in {"blocked", "delay"}
  /\ csi' = InitialisedCsi(csi.fb)
  /\ image' = Buf1
  /\ whole' = whole \ {Buf1}
  /\ sound' = FALSE
  /\ reads' = NoFrame
  /\ UNCHANGED <<done, isr, sem, pc, src, torn>>

Next ==
  \/ FrameEnd \/ IsrEnter \/ IsrResync \/ IsrReport
  \/ SemTake \/ SemReset \/ ReadPointer \/ Copied \/ DelayEnds
  \/ ReInit

Spec == Init /\ [][Next]_vars

(* A pending interrupt is served; and the main thread, runnable again and  *)
(* again between interrupts, gets to run.                                  *)
Fairness ==
  /\ WF_vars(IsrEnter)
  /\ WF_vars(IsrResync \/ IsrReport)
  /\ SF_vars(SemTake) /\ SF_vars(SemReset) /\ SF_vars(ReadPointer)
  /\ SF_vars(Copied) /\ SF_vars(DelayEnds)

FairSpec == Spec /\ Fairness

(* The strong fairness of the main thread's steps once more, in terms the  *)
(* prover knows: each of them is enabled, and changes pc, exactly where    *)
(* the main thread stands before it and no interrupt is pending.           *)
MainRuns ==
  /\ []<>(NoInterrupt /\ pc = "take") => []<><<SemTake>>_vars
  /\ []<>(NoInterrupt /\ pc = "reset") => []<><<SemReset>>_vars
  /\ []<>(NoInterrupt /\ pc = "read") => []<><<ReadPointer>>_vars
  /\ []<>(NoInterrupt /\ pc = "copy") => []<><<Copied>>_vars
  /\ []<>(NoInterrupt /\ pc = "delay") => []<><<DelayEnds>>_vars
-----------------------------------------------------------------------------
(* Properties                                                              *)

(* The buffer the driver hands out is the one whose flag the camera raised *)
(* (fsl_csi.c:810 and csi_isr): driver and camera agree on the order of    *)
(* the buffers, also after a late interrupt and a restart.                 *)
ReportsFilledBuffer ==
  [][\A r \in Regs : isr = {r} /\ isr' = {} => image' = csi.fb[r]]_vars

(* The image the main thread may read is one complete frame, although its  *)
(* buffer is back in the camera's queue since before it was shown.  Until  *)
(* the first report after a start or a resynchronisation it need not be.   *)
ShownIsWhole == sound /\ NoInterrupt => image \in whole

(* The camera is never left without a buffer and never stops               *)
(* (fsl_csi.c:819): outside the handler both registers are loaded.         *)
NeverStarved ==
  isr = {} => csi.running /\ csi.transferOnGoing /\ csi.activeBufferNum = 2

(* Every decision the driver takes on a wrong queue count (fsl_csi.c:148)  *)
(* would be the same on the right one: whether the queue has room for the  *)
(* buffer given back, and whether there is an empty buffer to load next.   *)
MiscountHarmless ==
  LET taken == TakeFullBuffer(Filled(csi))
      back == CalledBack(Filled(csi))
      Agree(Test(_), s, e) == Test(QueueDelta(s, e)) <=> Test(Distance(s, e))
      Full(n) == n = CSI_DRIVER_QUEUE_SIZE
      SomeEmpty(n) == n > 0
  IN  isr # {} /\ isr # Regs =>
        /\ Agree(Full, taken.queueUserReadIdx, taken.queueUserWriteIdx)
        /\ Agree(SomeEmpty, back.queueDrvReadIdx, back.queueUserWriteIdx)

(* A frame reported and not yet read is on its way to be: the semaphore    *)
(* says so, or the thread has taken it and will read after the reset       *)
(* (main.cpp:269): no reset wipes the wake-up of a frame it does not read. *)
NoLostWakeup == reads = 0 => sem > 0 \/ pc \in {"reset", "read"}

(* A frame that comes between the reset and the read is worked on twice,   *)
(* and none more often, however long the thread slept (main.cpp:269).      *)
AtMostTwice == reads <= 2

(* A copy that mixed two frames is followed by another at once: the frame  *)
(* that spoilt it has released the semaphore.                              *)
TornIsReplaced ==
  torn /\ sound /\ pc = "copy" /\ NoInterrupt => sem > 0

Mailbox == INSTANCE FrameMailbox WITH
  filling <- csi.queue[csi.queueDrvWriteIdx],
  shown <- image,
  news <- reads = 0,
  woken <- pc \in {"reset", "read"}

(* Driver, callback and semaphore together keep the promise of             *)
(* FrameMailbox: two buffers that swap places, one reader.                 *)
KeepsPromise == Mailbox!Spec

(* A frame that is reported is read in the end, unless a restart comes     *)
(* first: as long as the interrupt leaves the threads any time at all, a   *)
(* handler being far shorter than a frame.                                 *)
NewsIsRead == []<>NoInterrupt => Mailbox!NewsIsRead
=============================================================================
