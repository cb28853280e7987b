---------------------------- MODULE Camera_proof ----------------------------
(***************************************************************************)
(* Proofs about the camera hand-over, for every value of the constants     *)
(* with FrameEndsInReset = FALSE: the type invariant, the safety           *)
(* properties of the runs, the refinement of FrameMailbox, and, while the  *)
(* main thread gets to run, that what is reported is read.  Everything     *)
(* rests on the invariant CameraInv, which says where the driver's         *)
(* indices, the registers and the flags stand to one another.              *)
(***************************************************************************)
EXTENDS Camera, TLAPS

Inc(i) == IncreaseQueueIdx(i)

(* The queue whenever the handler does not run: two buffers, both loaded,  *)
(* the older one in the register the driver will load next.                *)
QueueOK(c) ==
  LET w == c.queueDrvWriteIdx
  IN  /\ c.queueUserReadIdx = w
      /\ c.queueUserWriteIdx = Inc(Inc(w))
      /\ c.queueDrvReadIdx = Inc(Inc(w))
      /\ c.activeBufferNum = 2
      /\ c.transferStarted /\ c.transferOnGoing /\ c.running
      /\ c.queue[w] \in Bufs
      /\ c.queue[Inc(w)] \in Bufs
      /\ c.queue[w] # c.queue[Inc(w)]
      /\ c.fb[c.nextBufferIdx] = c.queue[w]
      /\ c.fb[1 - c.nextBufferIdx] = c.queue[Inc(w)]

(* The register whose flag is up, or was read, is the one the driver will  *)
(* report; the camera is then writing to the other one.                    *)
FlagsOK ==
  LET next == csi.nextBufferIdx
  IN  /\ isr = {} /\ done = {} => csi.slot = next
      /\ \A r \in Regs :
           /\ isr = {} /\ done = {r} => r = next /\ csi.slot = 1 - r
           /\ isr = {r} => /\ r = next
                           /\ done # {r}
                           /\ done = {} => csi.slot = 1 - r
                           /\ done = {1 - r} => csi.slot = r
      /\ isr = Regs => done = {}

(* The buffer the camera turned from holds a whole frame, and when no      *)
(* interrupt is due it is the one shown.                                   *)
WholeOK ==
  /\ done # {} \/ isr # {} \/ sound => csi.fb[1 - csi.slot] \in whole
  /\ sound /\ NoInterrupt => image = csi.fb[1 - csi.slot]

CameraInv == TypeOK /\ QueueOK(csi) /\ FlagsOK /\ WholeOK
-----------------------------------------------------------------------------
(* The driver's operators.                                                 *)

LEMMA IncFacts ==
  ASSUME NEW w \in Idx
  PROVE  /\ Inc(w) \in Idx
         /\ Inc(w) # w
         /\ Inc(Inc(w)) # w
         /\ Inc(Inc(w)) # Inc(w)
         /\ Inc(Inc(Inc(w))) = w
         /\ QueueDelta(Inc(w), Inc(Inc(w))) # CSI_DRIVER_QUEUE_SIZE
         /\ QueueDelta(Inc(Inc(w)), w) > 0
         /\ Distance(Inc(w), Inc(Inc(w))) = 1
         /\ Distance(Inc(Inc(w)), w) = 1
  BY DEF Inc, IncreaseQueueIdx, Idx, CSI_DRIVER_ACTUAL_QUEUE_SIZE,
         CSI_DRIVER_QUEUE_SIZE, QueueDelta, Distance

Fields(c) ==
  /\ c.queue \in [Idx -> Bufs \cup {NoBuf}]
  /\ c.queueUserReadIdx \in Idx /\ c.queueUserWriteIdx \in Idx
  /\ c.queueDrvReadIdx \in Idx /\ c.queueDrvWriteIdx \in Idx
  /\ c.activeBufferNum \in 0 .. 2 /\ c.nextBufferIdx \in Regs
  /\ c.transferStarted \in BOOLEAN /\ c.transferOnGoing \in BOOLEAN
  /\ c.fb \in [Regs -> Bufs \cup {NoBuf}]
  /\ c.slot \in Regs /\ c.running \in BOOLEAN

AsRecord(c) ==
  [queue |-> c.queue,
   queueUserReadIdx |-> c.queueUserReadIdx,
   queueUserWriteIdx |-> c.queueUserWriteIdx,
   queueDrvReadIdx |-> c.queueDrvReadIdx,
   queueDrvWriteIdx |-> c.queueDrvWriteIdx,
   activeBufferNum |-> c.activeBufferNum, nextBufferIdx |-> c.nextBufferIdx,
   transferStarted |-> c.transferStarted,
   transferOnGoing |-> c.transferOnGoing,
   fb |-> c.fb, slot |-> c.slot, running |-> c.running]

LEMMA CsiStateByFields ==
  ASSUME NEW c, c = AsRecord(c), Fields(c)
  PROVE  c \in CsiState
  BY DEF AsRecord, Fields, CsiState

LEMMA CsiStateFields ==
  ASSUME NEW c \in CsiState
  PROVE  Fields(c)
  BY DEF Fields, CsiState

LEMMA IncInIdx == ASSUME NEW i \in Idx PROVE IncreaseQueueIdx(i) \in Idx
  BY IncFacts DEF Inc

LEMMA TakeIsCsi ==
  ASSUME NEW c \in CsiState
  PROVE  TakeFullBuffer(c) \in CsiState
  <1>1. TakeFullBuffer(c) = AsRecord(TakeFullBuffer(c))
    BY DEF TakeFullBuffer, AsRecord, CsiState
  <1>2. Fields(TakeFullBuffer(c))
    BY IncInIdx DEF TakeFullBuffer, Fields, CsiState
  <1> QED
    BY <1>1, <1>2, CsiStateByFields

LEMMA FilledIsCsi ==
  ASSUME NEW c \in CsiState, c.activeBufferNum \in 1 .. 2
  PROVE  Filled(c) \in CsiState
  <1> DEFINE d == Filled(c)
  <1>1. d = [c EXCEPT !.queueDrvWriteIdx = IncreaseQueueIdx(@),
                       !.activeBufferNum = @ - 1]
    BY DEF Filled
  <1> HIDE DEF d
  <1>2. d = AsRecord(d)
    BY <1>1 DEF AsRecord, CsiState
  <1>3. Fields(d)
    BY <1>1, IncInIdx DEF Fields, CsiState
  <1>4. d \in CsiState
    BY <1>2, <1>3, CsiStateByFields
  <1> QED
    BY <1>4 DEF d

LEMMA StoreIsCsi ==
  ASSUME NEW c \in CsiState, NEW b \in Bufs
  PROVE  Store(c, b) \in CsiState
  <1> DEFINE d == Store(c, b)
  <1>1. d = [c EXCEPT !.queue[c.queueUserWriteIdx] = b,
                       !.queueUserWriteIdx = IncreaseQueueIdx(@)]
    BY DEF Store
  <1> HIDE DEF d
  <1>2. d = AsRecord(d)
    BY <1>1 DEF AsRecord, CsiState
  <1>3. Fields(d)
    BY <1>1, IncInIdx DEF Fields, CsiState
  <1>4. d \in CsiState
    BY <1>2, <1>3, CsiStateByFields
  <1> QED
    BY <1>4 DEF d

LEMMA LoadIsCsi ==
  ASSUME NEW c \in CsiState, c.activeBufferNum \in 0 .. 1
  PROVE  LoadBufferToDevice(c) \in CsiState
  <1> DEFINE d == LoadBufferToDevice(c)
  <1>1. d = [c EXCEPT !.fb[c.nextBufferIdx] = c.queue[c.queueDrvReadIdx],
                       !.queueDrvReadIdx = IncreaseQueueIdx(@),
                       !.activeBufferNum = @ + 1,
                       !.nextBufferIdx = 1 - @]
    BY DEF LoadBufferToDevice
  <1> HIDE DEF d
  <1>2. d = AsRecord(d)
    BY <1>1 DEF AsRecord, CsiState
  <1>3. Fields(d)
    BY <1>1, IncInIdx DEF Fields, CsiState, Regs
  <1>4. d \in CsiState
    BY <1>2, <1>3, CsiStateByFields
  <1> QED
    BY <1>4 DEF d

LEMMA LoadFields ==
  ASSUME NEW c \in CsiState
  PROVE  LET l == LoadBufferToDevice(c)
         IN  /\ l.queueUserReadIdx = c.queueUserReadIdx
             /\ l.queueUserWriteIdx = c.queueUserWriteIdx
             /\ l.queueDrvReadIdx = IncreaseQueueIdx(c.queueDrvReadIdx)
             /\ l.queueDrvWriteIdx = c.queueDrvWriteIdx
             /\ l.transferStarted = c.transferStarted
             /\ l.transferOnGoing = c.transferOnGoing
             /\ l.activeBufferNum = c.activeBufferNum + 1
             /\ l.nextBufferIdx = 1 - c.nextBufferIdx
             /\ l.queue = c.queue
             /\ l.fb = [c.fb EXCEPT ![c.nextBufferIdx] =
                                        c.queue[c.queueDrvReadIdx]]
             /\ l.slot = c.slot
             /\ l.running = c.running
  BY DEF LoadBufferToDevice, CsiState

(* When the handler reports a frame the queue turns by one place: the      *)
(* buffer reported comes last again and stays in its register.             *)
LEMMA ReportTurnsQueue ==
  ASSUME NEW c \in CsiState, QueueOK(c)
  PROVE  LET w == c.queueDrvWriteIdx
             r == Continued(CalledBack(Filled(c)))
         IN  /\ r \in CsiState
             /\ QueueOK(r)
             /\ HasFullBuffer(Filled(c))
             /\ FullBuffer(Filled(c)) = c.queue[w]
             /\ r.queue[r.queueDrvWriteIdx] = c.queue[Inc(w)]
             /\ r.fb = c.fb
             /\ r.slot = c.slot
             /\ r.nextBufferIdx = 1 - c.nextBufferIdx
  <1> DEFINE w == c.queueDrvWriteIdx
             b == c.queue[w]
             f == Filled(c)
             t == TakeFullBuffer(f)
             s == Store(t, b)
             r == LoadBufferToDevice(s)
  <1>0. /\ w \in Idx /\ Inc(w) \in Idx /\ Inc(Inc(w)) \in Idx
        /\ b \in Bufs
        /\ c.nextBufferIdx \in Regs
    BY IncFacts DEF CsiState, QueueOK
  <1>1. /\ f \in CsiState
        /\ f.queueDrvWriteIdx = Inc(w)
        /\ f.activeBufferNum = 1
        /\ f.queueUserReadIdx = w
        /\ f.queueUserWriteIdx = Inc(Inc(w))
        /\ f.queueDrvReadIdx = Inc(Inc(w))
        /\ f.nextBufferIdx = c.nextBufferIdx
        /\ f.transferStarted /\ f.transferOnGoing /\ f.running
        /\ f.queue = c.queue /\ f.fb = c.fb /\ f.slot = c.slot
    <2>1. c.activeBufferNum = 2
      BY DEF QueueOK
    <2>2. f \in CsiState
      BY <2>1, FilledIsCsi
    <2> QED
      BY <2>1, <2>2 DEF Filled, CsiState, QueueOK, Inc
  <1>2. HasFullBuffer(f) /\ FullBuffer(f) = b
    BY <1>0, <1>1, IncFacts DEF HasFullBuffer, FullBuffer
  <1>3. /\ t \in CsiState
        /\ t.queueDrvWriteIdx = Inc(w)
        /\ t.activeBufferNum = 1
        /\ t.queueUserReadIdx = Inc(w)
        /\ t.queueUserWriteIdx = Inc(Inc(w))
        /\ t.queueDrvReadIdx = Inc(Inc(w))
        /\ t.nextBufferIdx = c.nextBufferIdx
        /\ t.transferStarted /\ t.transferOnGoing /\ t.running
        /\ t.queue = c.queue /\ t.fb = c.fb /\ t.slot = c.slot
    <2> HIDE DEF f, w
    <2>1. t \in CsiState
      BY <1>1, TakeIsCsi
    <2> QED
      BY <2>1, <1>1 DEF TakeFullBuffer, CsiState, Inc
  <1>4. /\ s \in CsiState
        /\ s.queueDrvWriteIdx = Inc(w)
        /\ s.activeBufferNum = 1
        /\ s.queueUserReadIdx = Inc(w)
        /\ s.queueUserWriteIdx = w
        /\ s.queueDrvReadIdx = Inc(Inc(w))
        /\ s.nextBufferIdx = c.nextBufferIdx
        /\ s.transferStarted /\ s.transferOnGoing /\ s.running
        /\ s.queue = [c.queue EXCEPT ![Inc(Inc(w))] = b]
        /\ s.fb = c.fb /\ s.slot = c.slot
    <2> HIDE DEF f, t, w, b
    <2>1. s \in CsiState
      BY <1>0, <1>3, StoreIsCsi
    <2>2. Inc(Inc(Inc(w))) = w
      BY <1>0, IncFacts
    <2> QED
      BY <2>1, <2>2, <1>3 DEF Store, CsiState, Inc
  <1>5. SubmitEmptyBuffer(t, b) = s
    <2> HIDE DEF f, t, w, b
    <2>1. QueueDelta(t.queueUserReadIdx, t.queueUserWriteIdx) # CSI_DRIVER_QUEUE_SIZE
      BY <1>0, <1>3, IncFacts
    <2>2. Store(t, b).transferOnGoing
      BY <1>4
    <2> QED
      BY <2>1, <2>2 DEF SubmitEmptyBuffer
  <1>6. CalledBack(f) = s
    BY <1>2, <1>5 DEF CalledBack
  <1>7. Continued(s) = r
    <2> HIDE DEF f, t, w, b, s
    <2>1. EmptyBufferCount(s) > 0
      BY <1>0, <1>4, IncFacts DEF EmptyBufferCount
    <2> QED
      BY <2>1, <1>4 DEF Continued
  <1>8. /\ r \in CsiState
        /\ r.queueDrvWriteIdx = Inc(w)
        /\ r.activeBufferNum = 2
        /\ r.queueUserReadIdx = Inc(w)
        /\ r.queueUserWriteIdx = w
        /\ r.queueDrvReadIdx = w
        /\ r.nextBufferIdx = 1 - c.nextBufferIdx
        /\ r.transferStarted /\ r.transferOnGoing /\ r.running
        /\ r.queue = [c.queue EXCEPT ![Inc(Inc(w))] = b]
        /\ r.fb = [c.fb EXCEPT ![c.nextBufferIdx] = s.queue[Inc(Inc(w))]]
        /\ r.slot = c.slot
    <2> HIDE DEF f, t, w, b, s
    <2>1. r \in CsiState
      BY <1>4, LoadIsCsi
    <2>2. Inc(Inc(Inc(w))) = w
      BY <1>0, IncFacts
    <2> QED
      BY <2>1, <2>2, <1>4 DEF LoadBufferToDevice, CsiState, Inc
  <1>9. s.queue[Inc(Inc(w))] = b
    <2> HIDE DEF f, t, s
    <2> QED
      BY <1>0, <1>4 DEF CsiState
  <1>10. r.fb = c.fb
    <2> HIDE DEF f, t, s, r
    <2>1. c.fb[c.nextBufferIdx] = b /\ c.fb \in [Regs -> Bufs \cup {NoBuf}]
      BY DEF QueueOK, CsiState
    <2> QED
      BY <1>8, <1>9, <2>1
  <1>11. /\ r.queue[Inc(w)] = c.queue[Inc(w)]
         /\ r.queue[Inc(Inc(w))] = b
    <2> HIDE DEF f, t, s, r
    <2> QED
      BY <1>0, <1>8, IncFacts DEF CsiState
  <1>12. QueueOK(r)
    <2> HIDE DEF f, t, s, r
    <2>1. /\ c.queue[w] \in Bufs /\ c.queue[Inc(w)] \in Bufs
          /\ c.queue[w] # c.queue[Inc(w)]
          /\ c.fb[c.nextBufferIdx] = c.queue[w]
          /\ c.fb[1 - c.nextBufferIdx] = c.queue[Inc(w)]
      BY DEF QueueOK
    <2>2. 1 - (1 - c.nextBufferIdx) = c.nextBufferIdx
      BY <1>0 DEF Regs
    <2>3. Inc(Inc(Inc(w))) = w
      BY <1>0, IncFacts
    <2> QED
      BY <1>8, <1>10, <1>11, <2>1, <2>2, <2>3 DEF QueueOK
  <1> QED
    BY <1>2, <1>6, <1>7, <1>8, <1>10, <1>11, <1>12

LEMMA ReflashIsCsi ==
  ASSUME NEW c \in CsiState
  PROVE  ReflashAndStart(c) \in CsiState
  <1> DEFINE d == ReflashAndStart(c)
  <1>1. d = [c EXCEPT !.slot = 0, !.running = TRUE]
    BY DEF ReflashAndStart
  <1> HIDE DEF d
  <1>2. d = AsRecord(d)
    BY <1>1 DEF AsRecord, CsiState
  <1>3. Fields(d)
    BY <1>1 DEF Fields, CsiState, Regs
  <1>4. d \in CsiState
    BY <1>2, <1>3, CsiStateByFields
  <1> QED
    BY <1>4 DEF d

(* After mt9v03x_csi_init() both buffers are loaded in order, and the      *)
(* first frame goes to the first one.                                      *)
LEMMA InitialisedQueue ==
  ASSUME NEW fb \in [Regs -> Bufs \cup {NoBuf}]
  PROVE  LET r == InitialisedCsi(fb)
         IN  /\ r \in CsiState
             /\ QueueOK(r)
             /\ r.queue[r.queueDrvWriteIdx] = Buf1
             /\ r.fb[0] = Buf1
             /\ r.slot = 0
             /\ r.nextBufferIdx = 0
  <1> DEFINE c0 == CreateHandle(fb)
             c1 == Store(c0, Buf1)
             c2 == Store(c1, Buf2)
             c3 == [c2 EXCEPT !.nextBufferIdx = 0, !.activeBufferNum = 0,
                              !.transferStarted = TRUE,
                              !.transferOnGoing = TRUE]
             c4 == LoadBufferToDevice(c3)
             c5 == LoadBufferToDevice(c4)
             r == ReflashAndStart(c5)
  <1>0. /\ 0 \in Idx /\ 1 \in Idx /\ 2 \in Idx
        /\ IncreaseQueueIdx(0) = 1 /\ IncreaseQueueIdx(1) = 2
        /\ Buf1 \in Bufs /\ Buf2 \in Bufs
    BY DEF Idx, IncreaseQueueIdx, CSI_DRIVER_ACTUAL_QUEUE_SIZE,
           CSI_DRIVER_QUEUE_SIZE, Bufs
  <1>1. /\ c0 \in CsiState
        /\ c0.queueUserReadIdx = 0 /\ c0.queueUserWriteIdx = 0
        /\ c0.queueDrvReadIdx = 0 /\ c0.queueDrvWriteIdx = 0
        /\ ~c0.transferStarted
        /\ c0.queue = [i \in Idx |-> NoBuf]
        /\ c0.fb = fb
    BY <1>0 DEF CreateHandle, CsiState, Regs
  <1>2. /\ c1 \in CsiState
        /\ c1.queueUserReadIdx = 0 /\ c1.queueUserWriteIdx = 1
        /\ c1.queueDrvReadIdx = 0 /\ c1.queueDrvWriteIdx = 0
        /\ ~c1.transferStarted
        /\ c1.queue = [[i \in Idx |-> NoBuf] EXCEPT ![0] = Buf1]
        /\ c1.fb = fb
    <2> HIDE DEF c0
    <2>1. c1 \in CsiState
      BY <1>0, <1>1, StoreIsCsi
    <2> QED
      BY <1>0, <1>1, <2>1 DEF Store, CsiState
  <1>3. SubmitEmptyBuffer(c0, Buf1) = c1
    <2> HIDE DEF c0
    <2>1. QueueDelta(c0.queueUserReadIdx, c0.queueUserWriteIdx)
            # CSI_DRIVER_QUEUE_SIZE
      BY <1>1 DEF QueueDelta, CSI_DRIVER_QUEUE_SIZE
    <2> QED
      BY <1>2, <2>1 DEF SubmitEmptyBuffer
  <1>4. /\ c2 \in CsiState
        /\ c2.queueUserReadIdx = 0 /\ c2.queueUserWriteIdx = 2
        /\ c2.queueDrvReadIdx = 0 /\ c2.queueDrvWriteIdx = 0
        /\ ~c2.transferStarted
        /\ c2.queue = [c1.queue EXCEPT ![1] = Buf2]
        /\ c2.fb = fb
    <2> HIDE DEF c1
    <2>1. c2 \in CsiState
      BY <1>0, <1>2, StoreIsCsi
    <2> QED
      BY <1>0, <1>2, <2>1 DEF Store, CsiState
  <1>5. SubmitEmptyBuffer(c1, Buf2) = c2
    <2> HIDE DEF c1
    <2>1. QueueDelta(c1.queueUserReadIdx, c1.queueUserWriteIdx)
            # CSI_DRIVER_QUEUE_SIZE
      BY <1>2 DEF QueueDelta, CSI_DRIVER_QUEUE_SIZE
    <2> QED
      BY <1>4, <2>1 DEF SubmitEmptyBuffer
  <1>6. c2.queue[0] = Buf1 /\ c2.queue[1] = Buf2
    BY <1>0, <1>2, <1>4
  <1>7. /\ c3 \in CsiState
        /\ c3.queueUserReadIdx = 0 /\ c3.queueUserWriteIdx = 2
        /\ c3.queueDrvReadIdx = 0 /\ c3.queueDrvWriteIdx = 0
        /\ c3.transferStarted /\ c3.transferOnGoing
        /\ c3.activeBufferNum = 0 /\ c3.nextBufferIdx = 0
        /\ c3.queue = c2.queue /\ c3.fb = fb
    <2> DEFINE d == c3
    <2> HIDE DEF c2
    <2>1. d = [c2 EXCEPT !.nextBufferIdx = 0, !.activeBufferNum = 0,
                         !.transferStarted = TRUE, !.transferOnGoing = TRUE]
      OBVIOUS
    <2> HIDE DEF c3
    <2>2. c3 = AsRecord(c3)
      BY <1>4, <2>1 DEF AsRecord, CsiState
    <2>3. Fields(c3)
      BY <1>4, <2>1 DEF Fields, CsiState, Regs
    <2>4. c3 \in CsiState
      BY <2>2, <2>3, CsiStateByFields
    <2> QED
      BY <1>4, <2>1, <2>4 DEF CsiState
  <1>8. /\ c4 \in CsiState
        /\ c4.queueUserReadIdx = 0 /\ c4.queueUserWriteIdx = 2
        /\ c4.queueDrvReadIdx = 1 /\ c4.queueDrvWriteIdx = 0
        /\ c4.transferStarted /\ c4.transferOnGoing
        /\ c4.activeBufferNum = 1 /\ c4.nextBufferIdx = 1
        /\ c4.queue = c2.queue /\ c4.fb = [fb EXCEPT ![0] = Buf1]
    <2> HIDE DEF c3, c2
    <2>1. c4 \in CsiState
      BY <1>7, LoadIsCsi
    <2>2. c3.queue[c3.queueDrvReadIdx] = Buf1
      BY <1>6, <1>7
    <2>3. /\ c4.queueUserReadIdx = c3.queueUserReadIdx
          /\ c4.queueUserWriteIdx = c3.queueUserWriteIdx
          /\ c4.queueDrvReadIdx = IncreaseQueueIdx(c3.queueDrvReadIdx)
          /\ c4.queueDrvWriteIdx = c3.queueDrvWriteIdx
          /\ c4.transferStarted = c3.transferStarted
          /\ c4.transferOnGoing = c3.transferOnGoing
          /\ c4.activeBufferNum = c3.activeBufferNum + 1
          /\ c4.nextBufferIdx = 1 - c3.nextBufferIdx
          /\ c4.queue = c3.queue
          /\ c4.fb = [c3.fb EXCEPT ![c3.nextBufferIdx] =
                                     c3.queue[c3.queueDrvReadIdx]]
      BY <1>7, LoadFields
    <2> HIDE DEF c4
    <2> QED
      BY <1>0, <1>7, <2>1, <2>2, <2>3
  <1>9. /\ c5 \in CsiState
        /\ c5.queueUserReadIdx = 0 /\ c5.queueUserWriteIdx = 2
        /\ c5.queueDrvReadIdx = 2 /\ c5.queueDrvWriteIdx = 0
        /\ c5.transferStarted /\ c5.transferOnGoing
        /\ c5.activeBufferNum = 2 /\ c5.nextBufferIdx = 0
        /\ c5.queue = c2.queue /\ c5.fb = [c4.fb EXCEPT ![1] = Buf2]
    <2> HIDE DEF c4, c2
    <2>1. c5 \in CsiState
      BY <1>8, LoadIsCsi
    <2>2. c4.queue[c4.queueDrvReadIdx] = Buf2
      BY <1>6, <1>8
    <2>3. /\ c5.queueUserReadIdx = c4.queueUserReadIdx
          /\ c5.queueUserWriteIdx = c4.queueUserWriteIdx
          /\ c5.queueDrvReadIdx = IncreaseQueueIdx(c4.queueDrvReadIdx)
          /\ c5.queueDrvWriteIdx = c4.queueDrvWriteIdx
          /\ c5.transferStarted = c4.transferStarted
          /\ c5.transferOnGoing = c4.transferOnGoing
          /\ c5.activeBufferNum = c4.activeBufferNum + 1
          /\ c5.nextBufferIdx = 1 - c4.nextBufferIdx
          /\ c5.queue = c4.queue
          /\ c5.fb = [c4.fb EXCEPT ![c4.nextBufferIdx] =
                                     c4.queue[c4.queueDrvReadIdx]]
      BY <1>8, LoadFields
    <2> HIDE DEF c5
    <2> QED
      BY <1>0, <1>8, <2>1, <2>2, <2>3
  <1>10. c5.fb[0] = Buf1 /\ c5.fb[1] = Buf2
    <2> HIDE DEF c4, c5
    <2> QED
      BY <1>8, <1>9 DEF Regs
  <1>11. /\ r \in CsiState
         /\ r.queueUserReadIdx = 0 /\ r.queueUserWriteIdx = 2
         /\ r.queueDrvReadIdx = 2 /\ r.queueDrvWriteIdx = 0
         /\ r.transferStarted /\ r.transferOnGoing /\ r.running
         /\ r.activeBufferNum = 2 /\ r.nextBufferIdx = 0 /\ r.slot = 0
         /\ r.queue = c2.queue /\ r.fb = c5.fb
    <2> HIDE DEF c5, c2
    <2>1. r \in CsiState
      BY <1>9, ReflashIsCsi
    <2> QED
      BY <1>9, <2>1 DEF ReflashAndStart, CsiState
  <1>12. TransferStart(c2) = r
    <2> HIDE DEF c2
    <2>1. ~(EmptyBufferCount(c2) < 2)
      BY <1>4 DEF EmptyBufferCount, QueueDelta
    <2> QED
      BY <2>1 DEF TransferStart, RestartWithTwo
  <1>13. InitialisedCsi(fb) = r
    BY <1>3, <1>5, <1>12 DEF InitialisedCsi
  <1>14. QueueOK(r)
    <2> HIDE DEF r, c5, c2
    <2> QED
      BY <1>0, <1>6, <1>10, <1>11, BufAssumption DEF QueueOK, Inc
  <1> QED
    BY <1>6, <1>10, <1>11, <1>13, <1>14

(* A restart after both flags keeps the queue and loads the registers in   *)
(* its order.                                                              *)
LEMMA ResyncKeepsQueue ==
  ASSUME NEW c \in CsiState, QueueOK(c)
  PROVE  LET r == Resynced(c)
         IN  /\ r \in CsiState
             /\ QueueOK(r)
             /\ r.queue = c.queue
             /\ r.queueDrvWriteIdx = c.queueDrvWriteIdx
             /\ r.slot = 0
             /\ r.nextBufferIdx = 0
  <1> DEFINE w == c.queueDrvWriteIdx
             g == [i \in Regs |-> IF i = 0 THEN c.queue[w]
                                  ELSE c.queue[IncreaseQueueIdx(w)]]
             d == [c EXCEPT !.fb = g, !.nextBufferIdx = 0]
             r == ReflashAndStart(d)
  <1>1. w \in Idx /\ Inc(w) \in Idx
    BY IncFacts DEF CsiState
  <1>2. Resynced(c) = r
    BY DEF Resynced, QueueOK
  <1>3. g \in [Regs -> Bufs \cup {NoBuf}] /\ g[0] = c.queue[w] /\ g[1] = c.queue[Inc(w)]
    BY DEF QueueOK, Inc, Regs
  <1> HIDE DEF g
  <1>4. /\ d \in CsiState
        /\ d.fb = g
        /\ d.nextBufferIdx = 0
    <2>1. d = [c EXCEPT !.fb = g, !.nextBufferIdx = 0]
      OBVIOUS
    <2> HIDE DEF d
    <2>2. d = AsRecord(d)
      BY <2>1 DEF AsRecord, CsiState
    <2>3. Fields(d)
      BY <1>3, <2>1 DEF Fields, CsiState, Regs
    <2>4. d \in CsiState
      BY <2>2, <2>3, CsiStateByFields
    <2> QED
      BY <2>1, <2>4 DEF CsiState
  <1>5. /\ d.queue = c.queue
        /\ d.queueUserReadIdx = c.queueUserReadIdx
        /\ d.queueUserWriteIdx = c.queueUserWriteIdx
        /\ d.queueDrvReadIdx = c.queueDrvReadIdx
        /\ d.queueDrvWriteIdx = c.queueDrvWriteIdx
        /\ d.activeBufferNum = c.activeBufferNum
        /\ d.transferStarted = c.transferStarted
        /\ d.transferOnGoing = c.transferOnGoing
    BY DEF CsiState
  <1> HIDE DEF d
  <1>6. /\ r \in CsiState
        /\ r.queue = d.queue
        /\ r.queueUserReadIdx = d.queueUserReadIdx
        /\ r.queueUserWriteIdx = d.queueUserWriteIdx
        /\ r.queueDrvReadIdx = d.queueDrvReadIdx
        /\ r.queueDrvWriteIdx = d.queueDrvWriteIdx
        /\ r.activeBufferNum = d.activeBufferNum
        /\ r.transferStarted = d.transferStarted
        /\ r.transferOnGoing = d.transferOnGoing
        /\ r.fb = g
        /\ r.nextBufferIdx = 0
        /\ r.slot = 0
        /\ r.running
    <2>1. r \in CsiState
      BY <1>4, ReflashIsCsi
    <2> QED
      BY <1>4, <2>1 DEF ReflashAndStart, CsiState
  <1> HIDE DEF r
  <1>7. QueueOK(r)
    BY <1>3, <1>5, <1>6 DEF QueueOK
  <1> QED
    BY <1>2, <1>5, <1>6, <1>7
-----------------------------------------------------------------------------
(* The invariant.                                                          *)

LEMMA SlotFields ==
  ASSUME NEW c \in CsiState
  PROVE  LET d == [c EXCEPT !.slot = 1 - @]
         IN  /\ d \in CsiState
             /\ QueueOK(c) => QueueOK(d)
             /\ d.slot = 1 - c.slot
             /\ d.fb = c.fb
             /\ d.nextBufferIdx = c.nextBufferIdx
  <1> DEFINE d == [c EXCEPT !.slot = 1 - @]
  <1>1. d = AsRecord(d)
    BY DEF AsRecord, CsiState
  <1>2. Fields(d)
    BY DEF Fields, CsiState, Regs
  <1>3. d \in CsiState
    BY <1>1, <1>2, CsiStateByFields
  <1>4. d.slot = 1 - c.slot /\ d.fb = c.fb /\ d.nextBufferIdx = c.nextBufferIdx
    BY DEF CsiState
  <1>5. /\ d.queue = c.queue
        /\ d.queueUserReadIdx = c.queueUserReadIdx
        /\ d.queueUserWriteIdx = c.queueUserWriteIdx
        /\ d.queueDrvReadIdx = c.queueDrvReadIdx
        /\ d.queueDrvWriteIdx = c.queueDrvWriteIdx
        /\ d.activeBufferNum = c.activeBufferNum
        /\ d.transferStarted = c.transferStarted
        /\ d.transferOnGoing = c.transferOnGoing
        /\ d.running = c.running
    BY DEF CsiState
  <1> HIDE DEF d
  <1>6. QueueOK(c) => QueueOK(d)
    BY <1>4, <1>5 DEF QueueOK
  <1> QED
    BY <1>3, <1>4, <1>6 DEF d

(* Both registers hold a buffer of the camera.                             *)
LEMMA RegistersLoaded ==
  ASSUME NEW c \in CsiState, QueueOK(c)
  PROVE  c.fb[0] \in Bufs /\ c.fb[1] \in Bufs /\ c.fb[0] # c.fb[1]
  BY DEF CsiState, QueueOK, Regs

LEMMA InitInv == Init => CameraInv
  <1> SUFFICES ASSUME Init PROVE CameraInv
    OBVIOUS
  <1> DEFINE none == [r \in Regs |-> NoBuf]
  <1>1. none \in [Regs -> Bufs \cup {NoBuf}] /\ csi = InitialisedCsi(none)
    BY DEF Init
  <1> HIDE DEF none
  <1>2. csi \in CsiState /\ QueueOK(csi) /\ csi.slot = 0 /\ csi.nextBufferIdx = 0
    BY <1>1, InitialisedQueue
  <1>3. TypeOK
    <2>1. image \in Bufs /\ src \in Bufs
      BY DEF Init, Bufs
    <2>2. sem \in 0 .. RT_SEM_VALUE_MAX /\ reads \in NoFrame .. 3
      BY SemAssumption DEF Init, NoFrame
    <2> QED
      BY <1>2, <2>1, <2>2 DEF Init, TypeOK
  <1>4. FlagsOK
    BY <1>2 DEF Init, FlagsOK
  <1>5. WholeOK
    BY DEF Init, WholeOK
  <1> QED
    BY <1>2, <1>3, <1>4, <1>5 DEF CameraInv

LEMMA FrameEndInv ==
  ASSUME CameraInv, FrameEnd, ~FrameEndsInReset
  PROVE  CameraInv'
  <1>0. /\ csi \in CsiState /\ QueueOK(csi) /\ FlagsOK /\ TypeOK
        /\ csi.slot \in Regs /\ csi.nextBufferIdx \in Regs
    BY DEF CameraInv, TypeOK, CsiState
  <1>1. csi' = [csi EXCEPT !.slot = 1 - @]
    BY DEF FrameEnd
  <1>2. /\ csi' \in CsiState /\ QueueOK(csi')
        /\ csi'.slot = 1 - csi.slot
        /\ csi'.fb = csi.fb
        /\ csi'.nextBufferIdx = csi.nextBufferIdx
    BY <1>0, <1>1, SlotFields
  <1>3. /\ csi.fb[0] \in Bufs /\ csi.fb[1] \in Bufs /\ csi.fb[0] # csi.fb[1]
    BY <1>0, RegistersLoaded
  <1>4. TypeOK'
    BY <1>0, <1>2, <1>3 DEF FrameEnd, TypeOK, Regs
  <1>5. FlagsOK'
    <2>1. isr # Regs
      BY DEF FrameEnd
    <2>2. /\ isr' = isr
          /\ done' = done \cup {csi.slot}
      BY DEF FrameEnd
    <2>3. csi.slot \in {0, 1} /\ csi.nextBufferIdx \in {0, 1} /\ done \subseteq {0, 1} /\ isr \subseteq {0, 1}
      BY <1>0 DEF TypeOK, Regs
    <2> QED
      BY <1>0, <1>2, <2>1, <2>2, <2>3 DEF FlagsOK, Regs
  <1>6. WholeOK'
    <2>1. csi.fb[csi.slot] \in whole'
      BY <1>0, <1>3 DEF FrameEnd, Regs
    <2>2. 1 - (1 - csi.slot) = csi.slot
      BY <1>0 DEF Regs
    <2>3. done' # {}
      BY DEF FrameEnd
    <2> QED
      BY <1>2, <2>1, <2>2, <2>3 DEF WholeOK, NoInterrupt
  <1> QED
    BY <1>2, <1>4, <1>5, <1>6 DEF CameraInv

LEMMA IsrEnterInv ==
  ASSUME CameraInv, IsrEnter
  PROVE  CameraInv'
  <1>0. /\ csi' = csi /\ csi \in CsiState /\ QueueOK(csi) /\ FlagsOK /\ TypeOK
        /\ csi.slot \in Regs /\ csi.nextBufferIdx \in Regs
    BY DEF CameraInv, TypeOK, CsiState, IsrEnter
  <1>1. isr = {} /\ isr' = done /\ done' = {} /\ done # {} /\ done \subseteq {0, 1}
    BY <1>0 DEF IsrEnter, TypeOK, Regs
  <1>2. TypeOK'
    BY <1>0 DEF IsrEnter, TypeOK, mainVars
  <1>3. FlagsOK'
    BY <1>0, <1>1 DEF FlagsOK, Regs
  <1>4. WholeOK'
    BY <1>1, <1>0 DEF CameraInv, WholeOK, NoInterrupt, IsrEnter
  <1> QED
    BY <1>0, <1>2, <1>3, <1>4 DEF CameraInv

LEMMA IsrResyncInv ==
  ASSUME CameraInv, IsrResync
  PROVE  CameraInv'
  <1>1. csi \in CsiState /\ QueueOK(csi) /\ FlagsOK /\ TypeOK
    BY DEF CameraInv, TypeOK
  <1>2. csi' \in CsiState /\ QueueOK(csi') /\ csi'.slot = 0 /\ csi'.nextBufferIdx = 0
    BY <1>1, ResyncKeepsQueue DEF IsrResync
  <1>3. isr' = {} /\ done' = {} /\ ~sound'
    BY <1>1 DEF IsrResync, FlagsOK
  <1>4. TypeOK'
    BY <1>1, <1>2 DEF IsrResync, TypeOK
  <1>5. FlagsOK'
    BY <1>2, <1>3 DEF FlagsOK
  <1>6. WholeOK'
    BY <1>3 DEF WholeOK
  <1> QED
    BY <1>2, <1>4, <1>5, <1>6 DEF CameraInv

(* What a report does to queue, pointer and flags.                         *)
LEMMA ReportFacts ==
  ASSUME CameraInv, IsrReport
  PROVE  /\ csi' \in CsiState /\ QueueOK(csi')
         /\ csi'.fb = csi.fb
         /\ csi'.slot = csi.slot
         /\ csi'.nextBufferIdx = 1 - csi.nextBufferIdx
         /\ csi'.queue[csi'.queueDrvWriteIdx]
              = csi.queue[Inc(csi.queueDrvWriteIdx)]
         /\ image' = csi.queue[csi.queueDrvWriteIdx]
         /\ image' = csi.fb[csi.nextBufferIdx]
         /\ image' \in Bufs
         /\ sound' = TRUE /\ reads' = 0
         /\ SemRelease
         /\ isr = {csi.nextBufferIdx}
  <1>1. csi \in CsiState /\ QueueOK(csi) /\ FlagsOK /\ TypeOK
    BY DEF CameraInv, TypeOK
  <1>2. /\ HasFullBuffer(Filled(csi))
        /\ FullBuffer(Filled(csi)) = csi.queue[csi.queueDrvWriteIdx]
    BY <1>1, ReportTurnsQueue
  <1>3. /\ csi' \in CsiState /\ QueueOK(csi')
        /\ csi'.fb = csi.fb
        /\ csi'.slot = csi.slot
        /\ csi'.nextBufferIdx = 1 - csi.nextBufferIdx
        /\ csi'.queue[csi'.queueDrvWriteIdx]
             = csi.queue[Inc(csi.queueDrvWriteIdx)]
    BY <1>1, ReportTurnsQueue DEF IsrReport
  <1>4. isr = {csi.nextBufferIdx}
    <2>1. isr \in SUBSET {0, 1} /\ isr # {} /\ isr # {0, 1}
      BY <1>1 DEF TypeOK, IsrReport, Regs
    <2>2. PICK r \in {0, 1} : isr = {r}
      BY <2>1
    <2> QED
      BY <1>1, <2>2 DEF FlagsOK, Regs
  <1>5. /\ csi.queue[csi.queueDrvWriteIdx] = csi.fb[csi.nextBufferIdx]
        /\ csi.queue[csi.queueDrvWriteIdx] \in Bufs
    BY <1>1 DEF QueueOK
  <1> QED
    BY <1>2, <1>3, <1>4, <1>5 DEF IsrReport

LEMMA IsrReportInv ==
  ASSUME CameraInv, IsrReport
  PROVE  CameraInv'
  <1>1. /\ csi \in CsiState /\ FlagsOK /\ TypeOK /\ WholeOK
        /\ csi.slot \in Regs /\ csi.nextBufferIdx \in Regs
    BY DEF CameraInv, TypeOK, CsiState
  <1>2. /\ isr' = {} /\ done' = done /\ whole' = whole /\ src' = src
        /\ torn' = torn
    BY DEF IsrReport
  <1>3. TypeOK'
    <2>1. sem' \in 0 .. RT_SEM_VALUE_MAX
      BY <1>1, ReportFacts, SemAssumption DEF SemRelease, TypeOK
    <2>2. pc' \in {"take", "blocked", "reset", "read", "copy", "delay"}
      BY <1>1, ReportFacts DEF SemRelease, TypeOK
    <2>3. reads' \in NoFrame .. 3
      BY ReportFacts DEF NoFrame
    <2> QED
      BY <1>1, <1>2, <2>1, <2>2, <2>3, ReportFacts DEF TypeOK
  <1>4. FlagsOK'
    <2> DEFINE n == csi.nextBufferIdx
    <2>1. n \in {0, 1} /\ isr = {n}
      BY <1>1, ReportFacts DEF Regs
    <2>2. /\ done # {n}
          /\ done = {} => csi.slot = 1 - n
          /\ done = {1 - n} => csi.slot = n
      BY <1>1, <2>1 DEF FlagsOK, Regs
    <2>3. /\ csi'.nextBufferIdx = 1 - n /\ csi'.slot = csi.slot
          /\ isr' = {} /\ done' = done
      BY <1>2, ReportFacts
    <2> HIDE DEF n
    <2>4. isr' # Regs /\ \A r \in Regs : isr' # {r}
      BY <2>3 DEF Regs
    <2>5. done' = {} => csi'.slot = csi'.nextBufferIdx
      BY <2>2, <2>3
    <2>6. ASSUME NEW r \in Regs, done' = {r}
          PROVE  r = csi'.nextBufferIdx /\ csi'.slot = 1 - r
      <3>1. r = 1 - n
        BY <2>1, <2>2, <2>3, <2>6 DEF Regs
      <3> QED
        BY <2>1, <2>2, <2>3, <2>6, <3>1 DEF Regs
    <2> QED
      BY <2>4, <2>5, <2>6 DEF FlagsOK
  <1>5. WholeOK'
    <2>1. csi.fb[1 - csi.slot] \in whole
      BY <1>1, ReportFacts DEF WholeOK
    <2>2. done = {} => csi.nextBufferIdx = 1 - csi.slot
      BY <1>1, ReportFacts DEF FlagsOK, Regs
    <2> QED
      BY <1>2, <2>1, <2>2, ReportFacts DEF WholeOK, NoInterrupt
  <1> QED
    BY <1>3, <1>4, <1>5, ReportFacts DEF CameraInv

LEMMA MainStepInv ==
  ASSUME CameraInv, MainStep
  PROVE  CameraInv'
  <1>1. TypeOK /\ QueueOK(csi) /\ FlagsOK /\ WholeOK
    BY DEF CameraInv
  <1>2. UNCHANGED <<csi, done, isr, image, whole, sound>>
    BY DEF MainStep, SemTake, SemReset, ReadPointer, Copied, DelayEnds
  <1>3. TypeOK'
    <2>1. CASE SemTake
      BY <1>1, <1>2, <2>1, SemAssumption DEF SemTake, TypeOK
    <2>2. CASE SemReset
      BY <1>1, <1>2, <2>2, SemAssumption DEF SemReset, TypeOK
    <2>3. CASE ReadPointer
      <3>1. reads' \in NoFrame .. 3
        BY <1>1, <2>3 DEF ReadPointer, TypeOK, NoFrame
      <3>2. torn' \in BOOLEAN
        BY <2>3 DEF ReadPointer
      <3> QED
        BY <1>1, <1>2, <2>3, <3>1, <3>2 DEF ReadPointer, TypeOK
    <2>4. CASE Copied \/ DelayEnds
      BY <1>1, <1>2, <2>4 DEF Copied, DelayEnds, TypeOK
    <2> QED
      BY <2>1, <2>2, <2>3, <2>4 DEF MainStep
  <1>4. QueueOK(csi)' /\ FlagsOK' /\ WholeOK'
    BY <1>1, <1>2 DEF QueueOK, FlagsOK, WholeOK, NoInterrupt
  <1> QED
    BY <1>3, <1>4 DEF CameraInv

LEMMA ReInitInv ==
  ASSUME CameraInv, ReInit
  PROVE  CameraInv'
  <1>1. TypeOK /\ csi.fb \in [Regs -> Bufs \cup {NoBuf}]
    BY DEF CameraInv, TypeOK, CsiState
  <1>2. csi' \in CsiState /\ QueueOK(csi') /\ csi'.slot = 0 /\ csi'.nextBufferIdx = 0
    BY <1>1, InitialisedQueue DEF ReInit
  <1>3. done' = {} /\ isr' = {} /\ ~sound'
    BY DEF ReInit, NoInterrupt
  <1>4. TypeOK'
    <2>1. image' \in Bufs
      BY DEF ReInit, Bufs
    <2>2. reads' \in NoFrame .. 3
      BY DEF ReInit, NoFrame
    <2> QED
      BY <1>1, <1>2, <2>1, <2>2 DEF ReInit, TypeOK
  <1>5. FlagsOK' /\ WholeOK'
    BY <1>2, <1>3 DEF FlagsOK, WholeOK
  <1> QED
    BY <1>2, <1>4, <1>5 DEF CameraInv

LEMMA NextInv ==
  ASSUME CameraInv, [Next]_vars, ~FrameEndsInReset
  PROVE  CameraInv'
  <1>1. CASE Next
    BY <1>1, FrameEndInv, IsrEnterInv, IsrResyncInv, IsrReportInv,
       MainStepInv, ReInitInv DEF Next, MainStep
  <1>2. CASE UNCHANGED vars
    BY <1>2 DEF CameraInv, TypeOK, QueueOK, FlagsOK, WholeOK, NoInterrupt,
                vars, mainVars
  <1> QED
    BY <1>1, <1>2

(* The whole state keeps its type and the invariant holds: the driver's    *)
(* indices, the camera's registers and the flags stand in the relation     *)
(* the properties below rest on.                                           *)
THEOREM InvHolds ==
  ASSUME ~FrameEndsInReset
  PROVE  Spec => []CameraInv
  <1>1. Init => CameraInv
    BY InitInv
  <1>2. CameraInv /\ [Next]_vars => CameraInv'
    BY NextInv
  <1> QED
    BY <1>1, <1>2, PTL DEF Spec
-----------------------------------------------------------------------------
(* The properties.                                                         *)

(* Every variable keeps its type: the driver's indices stay inside the     *)
(* queue, no buffer but the two is ever shown.                             *)
THEOREM TypeCorrect ==
  ASSUME ~FrameEndsInReset
  PROVE  Spec => []TypeOK
  <1>1. CameraInv => TypeOK
    BY DEF CameraInv
  <1> QED
    BY <1>1, InvHolds, PTL

(* The image the main thread may read is one complete frame.               *)
THEOREM ShownWhole ==
  ASSUME ~FrameEndsInReset
  PROVE  Spec => []ShownIsWhole
  <1>1. CameraInv => ShownIsWhole
    BY DEF CameraInv, WholeOK, ShownIsWhole
  <1> QED
    BY <1>1, InvHolds, PTL

(* The camera always has two buffers and never stops.                      *)
THEOREM CameraRuns ==
  ASSUME ~FrameEndsInReset
  PROVE  Spec => []NeverStarved
  <1>1. CameraInv => NeverStarved
    BY DEF CameraInv, QueueOK, NeverStarved
  <1> QED
    BY <1>1, InvHolds, PTL

(* The wrong count of the queue never changes a decision.                  *)
THEOREM MiscountNeverMatters ==
  ASSUME ~FrameEndsInReset
  PROVE  Spec => []MiscountHarmless
  <1>1. ASSUME CameraInv PROVE MiscountHarmless
    <2> DEFINE w == csi.queueDrvWriteIdx
               f == Filled(csi)
               t == TakeFullBuffer(f)
               b == CalledBack(f)
    <2>1. /\ csi \in CsiState /\ QueueOK(csi) /\ w \in Idx
          /\ csi.activeBufferNum = 2
      BY <1>1 DEF CameraInv, TypeOK, QueueOK, CsiState
    <2>2. /\ f \in CsiState
          /\ f.queueDrvWriteIdx = Inc(w)
          /\ f.queueUserReadIdx = w
          /\ f.queueUserWriteIdx = Inc(Inc(w))
          /\ f.queueDrvReadIdx = Inc(Inc(w))
          /\ f.transferOnGoing
      <3>1. f \in CsiState
        BY <2>1, FilledIsCsi
      <3> QED
        BY <2>1, <3>1 DEF Filled, CsiState, QueueOK, Inc
    <2>3. HasFullBuffer(f) /\ FullBuffer(f) \in Bufs
      BY <2>1, ReportTurnsQueue DEF QueueOK
    <2> HIDE DEF f, w
    <2>4. /\ t \in CsiState
          /\ t.queueUserReadIdx = Inc(w)
          /\ t.queueUserWriteIdx = Inc(Inc(w))
          /\ t.queueDrvReadIdx = Inc(Inc(w))
          /\ t.transferOnGoing
      BY <2>2, TakeIsCsi DEF TakeFullBuffer, CsiState, Inc
    <2> HIDE DEF t
    <2>5. /\ QueueDelta(t.queueUserReadIdx, t.queueUserWriteIdx)
               # CSI_DRIVER_QUEUE_SIZE
          /\ Distance(t.queueUserReadIdx, t.queueUserWriteIdx)
               # CSI_DRIVER_QUEUE_SIZE
      BY <2>1, <2>4, IncFacts DEF CSI_DRIVER_QUEUE_SIZE
    <2>6. /\ Store(t, FullBuffer(f)).queueUserWriteIdx = w
          /\ Store(t, FullBuffer(f)).queueDrvReadIdx = Inc(Inc(w))
          /\ Store(t, FullBuffer(f)).transferOnGoing
      <3>1. Inc(Inc(Inc(w))) = w
        BY <2>1, IncFacts
      <3> QED
        BY <2>4, <3>1 DEF Store, CsiState, Inc
    <2>7. b = Store(t, FullBuffer(f))
      BY <2>3, <2>5, <2>6 DEF CalledBack, SubmitEmptyBuffer, t
    <2> HIDE DEF b
    <2>8. /\ QueueDelta(b.queueDrvReadIdx, b.queueUserWriteIdx) > 0
          /\ Distance(b.queueDrvReadIdx, b.queueUserWriteIdx) > 0
      BY <2>1, <2>6, <2>7, IncFacts
    <2> QED
      BY <2>5, <2>8 DEF MiscountHarmless, f, t, b
  <1> QED
    BY <1>1, InvHolds, PTL

(* The buffer handed out is the one whose flag the camera raised.          *)
THEOREM ReportsTheFilledBuffer ==
  ASSUME ~FrameEndsInReset
  PROVE  Spec => ReportsFilledBuffer
  <1>1. ASSUME CameraInv, [Next]_vars
        PROVE  [\A r \in Regs : isr = {r} /\ isr' = {}
                                  => image' = csi.fb[r]]_vars
    <2> SUFFICES ASSUME NEW r \in Regs, isr = {r}, isr' = {}
                 PROVE  image' = csi.fb[r]
      OBVIOUS
    <2>1. isr # {} /\ isr # Regs
      BY DEF Regs
    <2>2. CASE IsrReport
      BY <1>1, <2>2, ReportFacts
    <2>3. ~IsrReport => FALSE
      <3>1. isr' # isr
        OBVIOUS
      <3> QED
        BY <1>1, <2>1, <3>1
        DEF Next, vars, FrameEnd, IsrEnter, IsrResync, SemTake, SemReset,
            ReadPointer, Copied, DelayEnds, ReInit, NoInterrupt
    <2> QED
      BY <2>2, <2>3
  <1> QED
    BY <1>1, InvHolds, PTL DEF Spec, ReportsFilledBuffer

(* No reset of the semaphore wipes the wake-up of a frame that is not read *)
(* afterwards.                                                             *)
THEOREM WakeupsNotLost ==
  ASSUME ~FrameEndsInReset
  PROVE  Spec => []NoLostWakeup
  <1>1. Init => NoLostWakeup
    BY DEF Init, NoLostWakeup, NoFrame
  <1>2. ASSUME CameraInv, NoLostWakeup, [Next]_vars
        PROVE  NoLostWakeup'
    <2>1. sem \in Nat
      BY <1>2, SemAssumption DEF CameraInv, TypeOK
    <2>2. CASE IsrReport
      <3>1. SemRelease
        BY <1>2, <2>2, ReportFacts
      <3> QED
        BY <2>1, <3>1, SemAssumption DEF SemRelease, NoLostWakeup
    <2>3. CASE SemTake \/ SemReset \/ Copied \/ DelayEnds
      BY <1>2, <2>1, <2>3
      DEF SemTake, SemReset, Copied, DelayEnds, NoLostWakeup
    <2>4. CASE ReadPointer
      BY <1>2, <2>4 DEF ReadPointer, NoLostWakeup
    <2>5. CASE FrameEnd \/ IsrEnter \/ IsrResync \/ ReInit
      BY <1>2, <2>5
      DEF FrameEnd, IsrEnter, IsrResync, ReInit, NoLostWakeup, NoFrame,
          mainVars
    <2>6. CASE UNCHANGED vars
      BY <1>2, <2>6 DEF NoLostWakeup, vars, mainVars
    <2> QED
      BY <1>2, <2>2, <2>3, <2>4, <2>5, <2>6 DEF Next
  <1> QED
    BY <1>1, <1>2, InvHolds, PTL DEF Spec

(* What keeps a frame from being read a third time: after the second time  *)
(* the semaphore is empty, and only a new frame fills it.                  *)
ReadsOK ==
  /\ reads = 1 /\ pc = "read" => sem = 0
  /\ reads = 2 => sem = 0 /\ pc \notin {"reset", "read"}
  /\ reads # 3

(* A frame is worked on twice at the most.                                 *)
THEOREM FrameReadAtMostTwice ==
  ASSUME ~FrameEndsInReset
  PROVE  Spec => []AtMostTwice
  <1>1. Init => ReadsOK
    BY DEF Init, ReadsOK, NoFrame
  <1>2. ASSUME CameraInv, ReadsOK, [Next]_vars
        PROVE  ReadsOK'
    <2>1. sem \in Nat /\ reads \in -1 .. 3
      BY <1>2, SemAssumption DEF CameraInv, TypeOK, NoFrame
    <2>2. CASE IsrReport
      BY <1>2, <2>2, ReportFacts DEF ReadsOK
    <2>3. CASE SemTake \/ SemReset \/ Copied \/ DelayEnds
      BY <1>2, <2>1, <2>3
      DEF SemTake, SemReset, Copied, DelayEnds, ReadsOK
    <2>4. CASE ReadPointer
      BY <1>2, <2>1, <2>4 DEF ReadPointer, ReadsOK
    <2>5. CASE FrameEnd \/ IsrEnter \/ IsrResync \/ ReInit
      BY <1>2, <2>5
      DEF FrameEnd, IsrEnter, IsrResync, ReInit, ReadsOK, NoFrame, mainVars
    <2>6. CASE UNCHANGED vars
      BY <1>2, <2>6 DEF ReadsOK, vars, mainVars
    <2> QED
      BY <1>2, <2>2, <2>3, <2>4, <2>5, <2>6 DEF Next
  <1>3. CameraInv /\ ReadsOK => AtMostTwice
    BY DEF CameraInv, TypeOK, ReadsOK, AtMostTwice, NoFrame
  <1> QED
    BY <1>1, <1>2, <1>3, InvHolds, PTL DEF Spec

(* A spoilt copy is spoilt by a frame that is still to be reported, or has *)
(* released the semaphore.                                                 *)
TornOK == torn /\ sound /\ pc = "copy" => sem > 0 \/ done # {} \/ isr # {}

(* A copy that mixed two frames is followed by another at once.            *)
THEOREM TornCopyReplaced ==
  ASSUME ~FrameEndsInReset
  PROVE  Spec => []TornIsReplaced
  <1>1. Init => TornOK
    BY DEF Init, TornOK
  <1>2. ASSUME CameraInv, TornOK, [Next]_vars
        PROVE  TornOK'
    <2>1. sem \in Nat
      BY <1>2, SemAssumption DEF CameraInv, TypeOK
    <2>2. CASE IsrReport
      <3>1. SemRelease /\ torn' = torn
        BY <1>2, <2>2, ReportFacts DEF IsrReport
      <3> QED
        BY <2>1, <3>1, SemAssumption DEF SemRelease, TornOK
    <2>3. CASE FrameEnd
      BY <2>3 DEF FrameEnd, TornOK
    <2>4. CASE IsrEnter
      BY <2>4 DEF IsrEnter, TornOK
    <2>5. CASE IsrResync \/ ReInit
      BY <2>5 DEF IsrResync, ReInit, TornOK
    <2>6. CASE ReadPointer
      <3>1. sound => image \in whole
        BY <1>2, <2>6 DEF ReadPointer, CameraInv, WholeOK, NoInterrupt
      <3> QED
        BY <2>6, <3>1 DEF ReadPointer, TornOK
    <2>7. CASE SemTake \/ SemReset \/ Copied \/ DelayEnds
      BY <2>7 DEF SemTake, SemReset, Copied, DelayEnds, TornOK
    <2>8. CASE UNCHANGED vars
      BY <1>2, <2>8 DEF TornOK, vars, mainVars
    <2> QED
      BY <1>2, <2>2, <2>3, <2>4, <2>5, <2>6, <2>7, <2>8 DEF Next
  <1>3. TornOK => TornIsReplaced
    BY DEF TornOK, TornIsReplaced, NoInterrupt
  <1> QED
    BY <1>1, <1>2, <1>3, InvHolds, PTL DEF Spec

(* Driver, callback, semaphore and main thread implement FrameMailbox: a   *)
(* report swaps the two buffers, a read is preceded by a wake-up.          *)
THEOREM ImplementsMailbox ==
  ASSUME ~FrameEndsInReset
  PROVE  Spec => KeepsPromise
  <1>1. ASSUME Init PROVE Mailbox!Init
    <2>1. csi = InitialisedCsi([r \in Regs |-> NoBuf])
      BY <1>1 DEF Init
    <2>2. [r \in Regs |-> NoBuf] \in [Regs -> Bufs \cup {NoBuf}]
      OBVIOUS
    <2>3. csi.queue[csi.queueDrvWriteIdx] = Buf1
      BY <2>1, <2>2, InitialisedQueue
    <2> QED
      BY <1>1, <2>3 DEF Init, Mailbox!Init, NoFrame
  <1>2. ASSUME CameraInv, [Next]_vars
        PROVE  [Mailbox!Next]_(Mailbox!vars)
    <2> DEFINE filling == csi.queue[csi.queueDrvWriteIdx]
    <2> USE DEF Mailbox!vars
    <2>1. CASE FrameEnd
      <3>1. csi \in CsiState /\ csi' = [csi EXCEPT !.slot = 1 - @]
        BY <1>2, <2>1 DEF CameraInv, TypeOK, FrameEnd
      <3>2. csi'.queue = csi.queue /\ csi'.queueDrvWriteIdx = csi.queueDrvWriteIdx
        BY <3>1 DEF CsiState
      <3> QED
        BY <2>1, <3>2 DEF FrameEnd
    <2>2. CASE IsrEnter
      BY <2>2 DEF IsrEnter, mainVars
    <2>3. CASE IsrResync
      <3>1. csi \in CsiState /\ QueueOK(csi) /\ csi' = Resynced(csi)
        BY <1>2, <2>3 DEF CameraInv, TypeOK, IsrResync
      <3>2. csi'.queue = csi.queue /\ csi'.queueDrvWriteIdx = csi.queueDrvWriteIdx
        BY <3>1, ResyncKeepsQueue
      <3> QED
        BY <2>3, <3>2 DEF IsrResync
    <2>4. CASE IsrReport
      <3>1. /\ csi \in CsiState /\ QueueOK(csi)
            /\ filling \in Bufs
            /\ csi.queue[Inc(csi.queueDrvWriteIdx)] \in Bufs
            /\ filling # csi.queue[Inc(csi.queueDrvWriteIdx)]
        BY <1>2 DEF CameraInv, TypeOK, QueueOK
      <3>2. csi.queue[Inc(csi.queueDrvWriteIdx)] = Mailbox!Other(filling)
        BY <3>1, BufAssumption DEF Mailbox!Other, Bufs
      <3>3. /\ filling' = Mailbox!Other(filling)
            /\ image' = filling
            /\ (reads = 0)' = TRUE
        BY <1>2, <2>4, <3>2, ReportFacts
      <3>4. (pc' \in {"reset", "read"}) \in {(pc \in {"reset", "read"}), TRUE}
        BY <1>2, <2>4, ReportFacts DEF SemRelease
      <3> QED
        BY <3>3, <3>4 DEF Mailbox!Report, Mailbox!Next
    <2>5. CASE SemTake
      <3>1. UNCHANGED <<csi, image, reads>> /\ pc = "take"
        BY <2>5 DEF SemTake
      <3>2. CASE sem > 0
        BY <2>5, <3>1, <3>2 DEF SemTake, Mailbox!Wake, Mailbox!Next
      <3>3. CASE ~(sem > 0)
        BY <2>5, <3>1, <3>3 DEF SemTake
      <3> QED
        BY <3>2, <3>3
    <2>6. CASE SemReset
      BY <2>6 DEF SemReset
    <2>7. CASE ReadPointer
      <3>1. reads' # 0
        BY <1>2, <2>7 DEF ReadPointer, CameraInv, TypeOK, NoFrame
      <3> QED
        BY <2>7, <3>1 DEF ReadPointer, Mailbox!Read, Mailbox!Next
    <2>8. CASE Copied \/ DelayEnds
      BY <2>8 DEF Copied, DelayEnds
    <2>9. CASE ReInit
      <3>1. csi.fb \in [Regs -> Bufs \cup {NoBuf}] /\ csi' = InitialisedCsi(csi.fb)
        BY <1>2, <2>9 DEF CameraInv, TypeOK, CsiState, ReInit
      <3>2. filling' = Buf1
        BY <3>1, InitialisedQueue
      <3> QED
        BY <2>9, <3>2 DEF ReInit, Mailbox!Restart, Mailbox!Next, NoFrame
    <2>10. CASE UNCHANGED vars
      BY <2>10 DEF vars, mainVars
    <2> QED
      BY <1>2, <2>1, <2>2, <2>3, <2>4, <2>5, <2>6, <2>7, <2>8, <2>9, <2>10
      DEF Next
  <1> QED
    BY <1>1, <1>2, InvHolds, PTL DEF Spec, KeepsPromise, Mailbox!Spec

(* The main thread waits for csi_done_sem only while its value is 0.       *)
WaitsForSem == pc = "blocked" => sem = 0

LEMMA WaitsKept ==
  ASSUME ~FrameEndsInReset
  PROVE  Spec => []WaitsForSem
  <1>1. Init => WaitsForSem
    BY DEF Init, WaitsForSem
  <1>2. ASSUME CameraInv, WaitsForSem, [Next]_vars
        PROVE  WaitsForSem'
    <2>1. sem \in Nat
      BY <1>2, SemAssumption DEF CameraInv, TypeOK
    <2>2. CASE IsrReport
      <3>1. SemRelease
        BY <1>2, <2>2, ReportFacts
      <3> QED
        BY <1>2, <3>1 DEF SemRelease, WaitsForSem
    <2>3. CASE SemTake
      BY <1>2, <2>1, <2>3 DEF SemTake, WaitsForSem
    <2>4. CASE SemReset \/ ReadPointer \/ Copied \/ DelayEnds
      BY <2>4 DEF SemReset, ReadPointer, Copied, DelayEnds, WaitsForSem
    <2>5. CASE FrameEnd \/ IsrEnter \/ IsrResync \/ ReInit \/ UNCHANGED vars
      BY <1>2, <2>5
      DEF FrameEnd, IsrEnter, IsrResync, ReInit, mainVars, vars, WaitsForSem
    <2> QED
      BY <1>2, <2>2, <2>3, <2>4, <2>5 DEF Next
  <1> QED
    BY <1>1, <1>2, InvHolds, PTL DEF Spec

(* Wherever the main thread stands with a frame it has not read, it stays  *)
(* there until it steps on, or until the camera is started anew.           *)
LEMMA NewsMovesOn ==
  ASSUME CameraInv, NoLostWakeup, WaitsForSem, [Next]_vars, reads = 0
  PROVE  /\ pc \in {"take", "reset", "read", "copy", "delay"}
         /\ pc = "take" => pc' \in {"take", "reset"}
         /\ pc = "reset" => pc' \in {"reset", "read"}
         /\ pc = "read" => pc' = "read" \/ reads' # 0
         /\ pc = "copy" => pc' \in {"copy", "take", "delay"}
         /\ pc = "delay" => pc' \in {"delay", "take"}
  <1>1. sem \in Nat /\ pc \in {"take", "blocked", "reset", "read", "copy", "delay"}
    BY SemAssumption DEF CameraInv, TypeOK
  <1>2. pc # "blocked" /\ (pc = "take" => sem > 0)
    BY <1>1 DEF NoLostWakeup, WaitsForSem
  <1>3. CASE IsrReport
    <2>1. SemRelease \/ UNCHANGED pc
      BY <1>3 DEF IsrReport
    <2> QED
      BY <1>1, <1>2, <2>1 DEF SemRelease
  <1>4. CASE FrameEnd \/ IsrEnter \/ IsrResync \/ ReInit \/ UNCHANGED vars
    BY <1>1, <1>2, <1>4
    DEF FrameEnd, IsrEnter, IsrResync, ReInit, mainVars, vars
  <1>5. CASE SemTake \/ SemReset \/ Copied \/ DelayEnds
    BY <1>1, <1>2, <1>5 DEF SemTake, SemReset, Copied, DelayEnds
  <1>6. CASE ReadPointer
    BY <1>1, <1>2, <1>6 DEF ReadPointer
  <1> QED
    BY <1>3, <1>4, <1>5, <1>6 DEF Next

(* Every frame reported is read, or the camera is started anew, while the  *)
(* interrupts leave the main thread time: from whichever step it stands    *)
(* before, the semaphore lets it come round to reading mt9v03x_csi_image.  *)
THEOREM EveryFrameIsRead ==
  ASSUME ~FrameEndsInReset
  PROVE  Spec /\ MainRuns => NewsIsRead
  <1> DEFINE Inv == CameraInv /\ NoLostWakeup /\ WaitsForSem
  <1> USE NewsMovesOn
  <1>1. Inv /\ [Next]_vars /\ reads = 0 /\ pc = "take"
          => (pc = "take")' \/ (pc = "reset")'
    OBVIOUS
  <1>2. Inv /\ [Next]_vars /\ reads = 0 /\ pc = "reset"
          => (pc = "reset")' \/ (pc = "read")'
    OBVIOUS
  <1>3. Inv /\ [Next]_vars /\ reads = 0 /\ pc = "read"
          => (pc = "read")' \/ ~(reads = 0)'
    OBVIOUS
  <1>4. Inv /\ [Next]_vars /\ reads = 0 /\ pc = "copy"
          => (pc = "copy")' \/ (pc = "take")' \/ (pc = "delay")'
    OBVIOUS
  <1>5. Inv /\ [Next]_vars /\ reads = 0 /\ pc = "delay"
          => (pc = "delay")' \/ (pc = "take")'
    OBVIOUS
  <1>6. /\ <<SemTake>>_vars => ~(pc = "take")'
        /\ <<SemReset>>_vars => ~(pc = "reset")'
        /\ <<ReadPointer>>_vars => ~(pc = "read")'
        /\ <<Copied>>_vars => ~(pc = "copy")'
        /\ <<DelayEnds>>_vars => ~(pc = "delay")'
    BY DEF SemTake, SemReset, ReadPointer, Copied, DelayEnds
  <1>7. Spec => []Inv
    BY InvHolds, WakeupsNotLost, WaitsKept, PTL
  <1>8. Spec /\ MainRuns /\ []<>NoInterrupt
          => (reads = 0 /\ pc = "read" ~> ~(reads = 0))
    BY <1>3, <1>6, <1>7, PTL DEF Spec, MainRuns
  <1>9. Spec /\ MainRuns /\ []<>NoInterrupt
          => (reads = 0 /\ pc = "reset" ~> ~(reads = 0))
    BY <1>2, <1>6, <1>7, <1>8, PTL DEF Spec, MainRuns
  <1>10. Spec /\ MainRuns /\ []<>NoInterrupt
          => (reads = 0 /\ pc = "take" ~> ~(reads = 0))
    BY <1>1, <1>6, <1>7, <1>9, PTL DEF Spec, MainRuns
  <1>11. Spec /\ MainRuns /\ []<>NoInterrupt
          => (reads = 0 /\ pc = "delay" ~> ~(reads = 0))
    BY <1>5, <1>6, <1>7, <1>10, PTL DEF Spec, MainRuns
  <1>12. Spec /\ MainRuns /\ []<>NoInterrupt
          => (reads = 0 /\ pc = "copy" ~> ~(reads = 0))
    BY <1>4, <1>6, <1>7, <1>10, <1>11, PTL DEF Spec, MainRuns
  <1>13. Inv /\ [Next]_vars /\ reads = 0
          => \/ pc = "take" \/ pc = "reset" \/ pc = "read" \/ pc = "copy"
             \/ pc = "delay"
    OBVIOUS
  <1> HIDE DEF Inv
  <1> QED
    BY <1>7, <1>8, <1>9, <1>10, <1>11, <1>12, <1>13, PTL
    DEF Spec, NewsIsRead, Mailbox!NewsIsRead
=============================================================================
