# A verification of the smart car's control program

The program drives a model car around a track with ramps, forks and loops. A
grey camera shows the road; a second camera (OpenART) recognises pictures and
sends numbers over a UART, to which the car answers with gestures. It runs on
an i.MX RT1064 under RT-Thread. The sources are in `src/Project/src`; this
directory holds TLA+ models of the parts where order, interruption and state
matter, TLC runs that check them on small instances, and TLAPS proofs of their
invariants for every instance.

## The system

| Part | Source | State | Operations | Runs in |
| --- | --- | --- | --- | --- |
| main loop | `main.cpp` | `f2.sch_sm_state`, `f1.chassis_update_type`, `f1.no_ele_start_flag`, position loops | one camera frame; START; recognition mode and its six gestures | main thread (priority 10) |
| OpenART link | `ctrl_openart.cpp` | `data[]`, its index, the mailbox `f1.regco_num` / `f1.finish_regco_flag` | a byte; a line | UART3 interrupt |
| road elements | `f_elems.cpp` (`find_elements`), `f_loop.cpp`, `f_yroad.cpp` | a state per element, enables, `ramp_num`, `fork_num`, `loop_num`, distances | one frame | main thread |
| road search | `f_elems.cpp` (`find_track_gray`, `midline_proc2`, `find_toppoint`) | edges, flags, centre line, start rows, top point | one row; the end of a frame | main thread |
| binarisation | `img_proc.cpp` | histogram, running sums, threshold | one frame | main thread |
| timers | `main.cpp` (`*_thread`) | wheel control, distances, yaw, battery, switch 8 | a period | interrupt context |
| keys | `HalLibs/agile_button.c` | a state machine and a time-out per key, a mutex | visit every key | button thread (28) |
| menu | `display_ui.cpp` | level, cursors, pages, settings, `refresh_lcd_signal`, START and RESET flags | a click; draw the screen | button thread (28), display thread (31) |
| blinker | `HalLibs/easyblink.c` | a series and a backup per LED, a semaphore, a mutex | ask for a series; the daemon | callers' threads, a daemon (10) |
| camera hand-over | `fsl_csi.c`, `SEEKFREE_MT9V03X_CSI.c`, `main.cpp` | two frame buffers, the driver's queue, `mt9v03x_csi_image`, `csi_done_sem` | a frame arrives; read the image; initialise again | CSI interrupt, main thread, button thread |
| camera configuration | `SEEKFREE_MT9V03X.c`, `SEEKFREE_MT9V03X_CSI.c` | the wanted and the read settings, the bytes of an answer | read settings; send them; a byte | UART5 interrupt, main or button thread |
| speed, steering, chassis | `ctrl_dymparam.cpp`, `ctrl_steer.cpp`, `ctrl_chassis.cpp` | set speeds, gains, distances | one frame | main thread |

How they interact: the parts share the global structs `f1`, `f2` and `chassis`
without locks. The camera interrupt wakes the main thread through a semaphore;
timers and the UART interrupt run between any two instructions of it; the
button thread runs whenever the main thread blocks (waiting for a frame or in
`rt_thread_mdelay`) and is itself interrupted at any point by the main thread.

The hard behaviours: an interrupt between two writes that belong together
(the mailbox); a key handler between two steps of a sleeping main loop (START
against RESET, a gesture against `clear_dis`); a state machine that is entered
on a mistake of the image and must be left all the same; enables that one
element takes away and another must give back; counters of the lap that must
agree; arrays that keep the last frame's values; eight-bit counters; a daemon
that must neither oversleep nor wake for nothing; an image that is shown while
its buffer is back in the camera's queue; a semaphore that is reset after it was
taken; a tick counter that wraps; a screen drawn while the keys change what it
shows. `PROJECT.json` lists each hazard at its line.

What makes each part correct:

* main loop: the laser burns only for a fruit, standing; a held
  result is not replaced and is performed; the car stands while it performs;
  current control runs again after START and RESET; no drive under the hold.
* link: a whole line is parsed whole, whatever came before; of a long or
  spliced line its beginning is parsed. Nothing should be written behind the
  array, and something is: see the violations.
* elements: one element at a time, on its leg of the lap; the counters keep the
  order of the lap; the direction of a fork is that of its pair; off every
  element ramp and start are looked for; a start ends, and a loop from its corner
  on.
* road search: the centre lies between the edges; a visible road is found
  exactly and followed; flags, start rows and top point say what is in the image.
* loop judges: a loop is recognised only from four rows that were found, and
  the edges show it.
* camera: what the main thread reads is one complete frame; no frame's wake-up
  is lost, none is worked on more than twice; a torn copy is followed by another
  at once; driver and camera agree on the order of the buffers; the camera never
  runs out of buffers.
* keys: comparing ticks is right across the wrap; a press is debounced and
  clicked once; a key held or released is followed.
* menu: cursors, pages and values stay in their tables and limits; nothing stays
  on the screen that is no longer selected, and the screen catches up.
* binarisation: the one-pass scan computes Otsu's threshold of its histogram.
* blinker: nothing is slept over, nothing is cut short, an accepted series is
  given exactly once.

## Modules

| Module | Models | Role |
| --- | --- | --- |
| `RegcoPromise` | what the recognition mode promises | abstract specification |
| `MainLoop` | main loop, mailbox, START/RESET, switch 8, wheels | component; implements `RegcoPromise` |
| `MainLoop_proof` | | theorems about `MainLoop` and `OpenArtLine` |
| `OpenArtLine` | `openart_callback` | component |
| `Elements` | `find_elements` and the loop patches | component |
| `ElementsPace` | how far the car turns between two frames | `Elements` with an extra constraint |
| `Elements_proof` | | theorems about `Elements` and `LoopJudge` |
| `Track` | `find_track_gray`, `midline_proc2`, `find_toppoint` | component |
| `Track_proof` | | theorems about `Track` |
| `Otsu` | `ostu_threshold`, `solve_ostu`, `gray_to_binary` | component |
| `Otsu_proof` | | theorems about `Otsu` |
| `EasyBlink` | the blinker's daemon and its callers | component |
| `EasyBlink_proof` | | theorems about `EasyBlink` |
| `FrameMailbox` | what the camera promises its reader | abstract specification |
| `Camera` | CSI driver, `csi_isr`, `csi_done_sem`, reading the image | component; implements `FrameMailbox` |
| `Camera_proof` | | theorems about `Camera` |
| `KeyPromise` | what the button driver promises its callbacks | abstract specification |
| `AgileButton` | `btn_process` and its ticks | component; implements `KeyPromise` |
| `AgileButton_proof` | | theorems about `AgileButton` |
| `Menu` | `btn_event_cb` and `display_thread` | component |
| `Menu_proof` | | theorems about `Menu` |
| `LoopJudge` | `L_loop_judge`, `R_loop_judge` | component |
| `MC*` | | instances for TLC: one per component, but `MCInputs` for the three that work on one input at a time (`Otsu`, `OpenArtLine`, `LoopJudge`) |

Operators named `...Lit`, `...Twice`, `...Late` and so on, marked as bugs or
mutants in their comment, are mutated forms of the operator below them. Nothing uses
them; `PROJECT.json` ("mutants") says which property notices which of them.

### MainLoop

`pc` names where the main thread is: blocked on a frame, in the START delay
(`standstill`), in one of the three position loops (`home`, `out`, `back`), in a
delay of a gesture, or between two accesses to the mailbox (`dispatch`,
`release`, `clear`). A step of the model is the code from one blocking point or
mailbox access to the next. `Receive(n)` is `cmd_parse`; `BatTimer` the copy of
switch 8 into the mode; `Wheels` the car reaching the target of a position loop;
`PressStart` and the five steps of RESET are the key handler, split where the
main thread can come between and finds a difference: the distances are cleared
(`ResetDistance`) one step after `chassis_update_type`, and the timer is started
last. Distances are abstracted to `place`: within three
centimetres of the current target, or away from it. Moving the target (the next
leg) or the origin (`clear_dis`) moves `place`.

`RegcoPromise` says: one slot, filled only when empty; the gesture is the slot's;
performed at most once; a lost result blocks the slot. `KeepsPromise` maps
`job` to the mailbox and `phase` to the program counter.

### Elements

One frame of `find_elements` is a walk of `pc` through its stages: the gate
(RESET and the place on the lap), ramp, start, fork judgement, the two direction
blocks of a fork, loop. Timers may move the car, and RESET may strike, between
any two stages. What the image shows is an input. `open` and `crowded` are
auxiliary: `enable_all_elements()` at the end of an element undoes the gate for
the rest of the frame, and `crowded` records that an element was entered in such
a frame. The properties about the order of the lap hold while that has not
happened; that it can happen is the hazard at `f_elems.cpp:1329`.

In `Elements` the car may turn by any angle between two frames. `ElementsPace`
bounds that (`MaxTurns`): a loop is closed by a frame that finds the yaw angle
between 335 and 360 degrees, where `update_gyro_z` sets it to zero
(`ctrl_inoutdev.cpp:230`). The gyroscope's range, 2^15 times 0.0305, is 1000 degrees
per second; the update counts 10.3 degrees for each 5 ms of it, and a frame comes every
10 ms (`cam_fps`), so the angle moves by at most 20.6 degrees from frame to frame, less
than the 25 of the window. In `MCElementsPace.cfg` a turn has four steps, the window is
two of them and so is `MaxTurns`; with 3 TLC finds a car that goes round for ever. A
frame that comes late (the main thread sleeping, the camera started anew) is outside
this bound.

The variant modelled is the one the project builds: `garage_dir = 1`, which is
what the struct's initialiser sets and nothing else writes.

### Track

A step is one row of `find_track_gray` with its call of `midline_proc2`. A row of
the image is the set of its white columns. The arrays hold only the rows already
scanned in this frame; that no other element is read is part of what TLC and the
prover check, since the model's functions are undefined there. In a fork the
search column is moved to the right whatever the direction, because both tests
on `fork2_dir`, which is never set, hold; a centre carried over may then be left
of the left edge, which is why `CentreBetween` asks for the centre only outside
a fork. `NextFrame` is a search after `find_post_proc`, which keeps the start column
off the border; `ScanAgain` is one without it, in a position loop (`main.cpp:146`) or
again in the frame that begins a fork (`f_elems.cpp:1100`), from whatever column the
last search left. `RoadFollowed` asks for white on both sides of the search column:
from the rim of a road the code takes a neighbouring one, if there is one.

### Otsu

The counters are eight bits wide (`Wrap`), `frame` is the true count. Variances
are exact fractions where the code rounds to `float`: `ThresholdIsOtsu` says
nothing of frames whose best two thresholds are closer than the rounding.
`ThresholdIsFrames` says how the histogram scanned and the frame's own hang together:
where no level occurs `Wrap` times, and there are two, it finds the frame's own threshold.

### OpenArtLine

A byte is the pair of its line and its position. `Array` are the places of
`data[]`; the variable has one more (`Places`), the byte behind it, because a line of
fifty bytes puts its NUL there. In the build kept in the repository that byte is
padding, and the string ends there all the same: that is what `WholeLineParsed` and
`BeginningParsed` suppose. `WritesInArray` asks that it not be written, and fails. Lost
bytes and newlines are steps of the sender. The specification is `LinkSpec` (and `JudgeSpec`
in `LoopJudge`), so that one module of proofs can extend two components.

### EasyBlink

`Lock` and the mutex field make the time the daemon holds its mutex visible, so
that calls of the main thread can be dropped (`Drop`). `left` is the time that
really remains before an LED may change, against which the daemon's own ticks
are compared. A thread of lower priority than the daemon runs only while the
daemon is blocked (`DaemonBlocked`). `ticks` of an inactive LED, which the daemon
decrements for ever and nobody reads, stays 0 in the model.

### Camera

`csi` is the driver's handle with the camera's registers; the driver's functions
are operators on it. The interrupt handler is two steps, because a frame may end
after it has read and cleared the status register. The main thread's steps lie
between its accesses to the semaphore, the pointer and the image; it runs only
while no interrupt is due (`NoInterrupt`), the button thread only while the main
thread is blocked as well. `whole`, `sound`, `reads` and `torn` are history: which
buffers hold one complete frame, whether a frame was reported since the last
start, how often it was read, whether the copy mixes two frames.

The handler may be late by any number of frames. Then both flags are set, the
driver starts the transfer again and tells nobody; and after a re-initialisation
`csi_done_sem` may still be up. In both cases the main thread may read a buffer
before a frame is in it: `ShownIsWhole` speaks of the time after the first report
(`sound`). A copy that takes longer than a frame may be torn; that is not
excluded, but `TornIsReplaced` holds.

`FrameMailbox` is the promise: two buffers that swap places, one reader, spurious
wake-ups allowed, lost ones not.

### AgileButton

One step per visit and per read of the pin, with ticks in between. `due` and `firm`
are history that a counter without end would show; the properties
compare them with what the code decides on the wrapped one. A callback lasts as
long as it likes within a round (`MaxRound` bounds the ticks from one sleep to the
next, and the proof asks that four of them fit in half the counter). A press that
lies wholly within another key's callback is not seen: nothing samples it.

### Menu

A click is one step, except that the display thread may run while
`mt9v03x_csi_init` sleeps. `screen` abstracts what has been drawn since the screen
was cleared: nothing, what is selected, or a mixture. `lost` marks a click that
came while `ui_title_fresh` was on its way into a function: if that function is
`ui_modify_fresh` it clears the screen by itself and takes the request back, after
the click or before it was drawn. `NoRemnants` and `ScreenCatchesUp` except these
clicks and no others; what remains then stays until the next click. "STOPED", which
`inoutdev.init` leaves on the screen, is such a remnant too. The third picture
(`disp_pic_type` 2) draws none, so the centre lines of earlier frames remain in
view; the model speaks of the view, not of its pixels.

### LoopJudge

The frame is given row by row, then one of the two judges looks at it; mirrored,
they are one operator. Rows beyond the arrays are as the memory holds them: the
flags of rows -1, 0 and 119 are never written. `TestsAssumption` states what the
verdict relies on: the row four below `down` is tested for `down` (where the edge
must be lost) and for `circle` (where it must be seen), so the two rows differ; and
the jumps looked for at `up` and `top` go in opposite directions. `L_loop_frame`, which is positive
exactly when the flag is set, is left out.

## Runs

| Run | Question | States | Bounds |
| --- | --- | --- | --- |
| `main_loop` | laser, standstill and current control at every step; refinement of `RegcoPromise`; what is accepted is performed | 40740 | every number with a gesture and two without; 3 key presses |
| `fruit` (violation) | does an accepted fruit always get its laser? | | one number for each kind of gesture; 1 press |
| `elements` | order of elements and counters, directions, enables | 3117156 | distances 0..2, counters to 4, 1 press |
| `elements_pace` | a start ends, and a loop on its way round is left | 428011 | distances 0..2, counters to 1, 2 presses, a full turn of 4 steps, 2 of them a frame |
| `inputs` | the threshold of a histogram, the string of a line, the rows and edges of a loop | 907920 | 5 levels, 8 pixels, counters modulo 4; an array of 3, lines of 0, 1, 3, 4 bytes; 8 rows of 5 kinds |
| `otsu_wraps` (violation) | is it the threshold of the frame? | | as `inputs` |
| `track` | edges, centre, start rows, top point | 367675 | 5 rows of 10 columns, 6 kinds of row |
| `openart_bound` (violation) | is every byte written inside the array? | | as `inputs` |
| `easyblink` | sleeping, pulses, series, a heartbeat that never stops | 33690 | 5 calls, heartbeat 1+3 ticks |
| `camera` | whole frames, wake-ups, buffers, refinement of `FrameMailbox`; a reported frame is read | 15952 | semaphore up to 3 |
| `buttons` | debouncing, refinement of `KeyPromise`; keys held and released are followed | 39417 | 1 key, counter of 18 ticks |
| `menu` | remnants on the screen; the screen catches up | 143112 | 2 entries, 2 pages, one value per setting |

Each run checks the invariants, action properties, refinement and liveness of its
component (`inputs` those of three, of which one runs at a time) on one instance, under the fair specification where there is liveness;
fairness removes no step, so the safety properties see every behaviour. Properties
that only the proofs state (type correctness, `GestureMatchesMailbox`,
`NoDriveUnderHold`, `ForkStaysBetween`, `LostMeansLost`, `ThresholdIsFrames`,
`TimeoutsExact`, `NeverStarved`, `MiscountHarmless`, `NoLostWakeup`) are in no run.

Why the bounds are enough. `main_loop`: a hazard needs a START and a RESET, or a
RESET in a gesture; a third press lets one of them happen twice; a number
without a gesture and each gesture occur. `elements`: four forks are
both pairs, so a fork is driven in either direction, and the frame occurs in which one
direction block changes `fork1_dir` before the other reads it; loops up to four are
more than the forks' half, so that one may be counted too many. `elements_pace` has
two presses, so that RESET can follow START into the turn it began; every threshold can
be met, missed and exceeded, and thresholds compared with the same distance in
the same state keep their order. `track`: rows with no edge, one, two, and with
two roads, below and above the row where carrying over starts; a road narrower
and wider than the step of a fork. `inputs`: empty, one-coloured, adjacent, gapped
and tied histograms, and counters that wrap, also to zero; lines shorter than the
array, filling it, and too long, and two lines run together; of a loop its mouth, an
edge coming back, two rows, a bulge with a row on each side, and broken outer edges.
`easyblink`: a series that runs, one in the backup place, one that replaces it,
and the start of the heartbeat, with one call to spare. `camera`: nothing but the
semaphore is bounded; it saturates, as the code's does at 65535. `buttons`: one
key, since the keys meet only in the thread that visits them, which the proof covers
for any number; the counter wraps within every wait, and the times keep their order.
`menu`: every title, level, page and both kinds of entry occur.

The runs marked as violations are disagreements between the code and its own
comments; `PROJECT.json` ("findings") quotes them:

* `fruit`: `main()` frees the mailbox with two writes. A result accepted between
  them is wiped, and `finish_regco_flag` stays set: nothing more is accepted.
  `AcceptedIsPerformed` shows that this is the only way to lose a result.
* `openart_bound`: a line of 50 bytes or more leaves the index at 50, and the newline
  writes its NUL there, one behind `data[50]` (`ctrl_openart.cpp:73`). The theorem
  `NulInArrayUnlessFull` says that only such lines do.
* `otsu_wraps`: 19200 pixels are counted in `uint8_t` counters, so the threshold
  is that of the counts modulo 256.

Other things met while modelling, which no run is spent on:

* the search for the largest grey level (`img_proc.cpp:209`) tests the smallest
  one, so the early returns for frames of one or two colours are not taken; such
  frames go through the scan, which `inputs` covers;
* the queue count of NXP's driver (`fsl_csi.c:148`) is not the distance its
  comment names when the index has wrapped; `MiscountHarmless`, proved, says that
  with two buffers nothing comes of it;
* a frame that ends while the driver resets the transfer (`fsl_csi.c:787`) leaves its
  flag standing, and the driver takes the wrong buffer for the filled one. That is
  what `FrameEndsInReset` stands for: the run and the theorems suppose that the
  reset is shorter than what is left of the frame, and with TRUE in `MCCamera.cfg`
  TLC finds `ReportsFilledBuffer` violated;
* a bounce makes the 500 ms after which the count of presses is cleared end early,
  since `tick_timeout` serves both (`agile_button.c:270`); hold times are multiplied by
  1000 / 10000 in integers (`agile_button.c:245`), so the hold event never comes. The
  program uses neither: it asks for single clicks;
* the display thread tests the level and then calls the function under a cursor
  that may have moved since (`display_ui.cpp:180`), which may be one that is to run
  once per key;
* the binarisation threshold is stepped up to 600 in eight bits (`display_ui.cpp:433`);
* leaving the recognition mode keeps the hold until RESET (`main.cpp:316`), and a
  START pressed in it starts the car when switch 8 is turned off (`main.cpp:282`).

## Fairness

* `MainLoop`: the main thread goes on whenever it can (the camera delivers
  frames, delays end), driven wheels turn, the battery timer expires. The button
  thread gets strong fairness: it runs in each of the main thread's waits, which
  come again and again but do not last. Nobody has to press a key, move the
  switch or send a line, and `LoopPassed`, which depends on how far the car
  slides, has no fairness.
* `ElementsPace`: frames keep coming, distance is counted while the car moves
  (`Move`), and the RESET handler ends. In a loop the car goes on turning (`Turn`):
  this is not the code's scheduling but the car's, which follows the centre line the
  patches draw around the loop. Elsewhere the gyroscope has no fairness, and the image
  has none anywhere: `StartIsLeft` and `RoundLoopIsLeft` hold without them. Forks and
  the states of a loop before its corner end only on what the image shows, so no
  liveness is claimed for them.
* `Camera`: the handler runs when an interrupt is due, and the main thread has
  strong fairness per step, since interrupts come again and again. Frames need not
  come. `NewsIsRead` supposes that there is, again and again, a moment without an
  interrupt: the handler is far shorter than a frame, but the model has no time.
* `AgileButton`: ticks, rounds and visits go on; the main thread starts the keys,
  with strong fairness because it needs the mutex between two rounds.
* `Menu`: the display thread, of the lowest priority, runs again and again, because
  the main thread waits for frames and the button thread sleeps; the camera takes
  its configuration. Nobody has to press a key.
* `EasyBlink`: the daemon and time go on; a caller returns from `easyblink()`. The
  number of calls is bounded; the heartbeat, which is one series without end, does
  not depend on that.

## What is proved

TLAPS checks, for every value of the constants that meets the named assumptions,
every safety property of every passing run, and three of the seven liveness ones:

* `MainLoop_proof`: type correctness, `LaserOnlyForFruit`, `GestureMatchesMailbox`,
  `StandsWhilePerforming`, `NoDriveUnderHold`, `CurrentControlRuns`, and the
  refinement of `RegcoPromise`, for any set of numbers OpenART may send and any
  number of key presses. The inductive invariant is the conjunction of these with
  the type invariant: none is inductive alone. The laser's clause speaks of the
  result held and of the standing car, so it needs the mailbox's and the speed's;
  the speed's needs the loops' clause on the hold. Of liveness:
  `AcceptedIsPerformed` (see below).
* `Elements_proof`: type correctness, `OneElementAtATime`, `LapOrder`,
  `DirectionOfPair`, `NeverDeaf`, `AheadStaysAhead`, for all thresholds and counter
  bounds. The strengthening ties `enable` to the active element (an active element
  is the only one enabled, unless the frame is `open`) and to the leg of the lap.
* `Track_proof`: type correctness, `CentreBetween`, `ForkStaysBetween`,
  `RoadFollowed`, `LostMeansLost`, `StartRowsLowest`, `ToppointIsRoadsEnd`, for every frame size, look-back distances and
  set of images. The strengthening says of each scanned row that its edges are
  the nearest ones to the column it was searched from, that its centre follows
  from them, and that the next row was searched from `NextStart` of it. `TopFound`
  says that the top point is the lowest row where the centre leaves the road; in a
  straight road the lowest row where the search loses it is its end (`StraightRoad`).
* `MainLoop_proof`, of `OpenArtLine`: type correctness (the index never leaves `data[]`
  and the place behind it), `NulInArrayUnlessFull` (that place is written only after
  as many bytes as the array has), `WholeLineParsed`, `BeginningParsed`, for every length of
  the array, any lines and any losses. The strengthening says that the index is the
  number of bytes heard, cut at the array's length; that below it `data[]` holds
  what was heard and no NUL (in the last place only a line that fits); and that
  without a loss what was heard is the sender's line so far.
* `Otsu_proof`: `ThresholdIsOtsu`, `BothColours` and `ThresholdIsFrames`, for every
  number of levels, size of the frame and width of the counters. Counts and sums are
  folds over sets of levels; that a fold over a set is the fold over one level less
  plus that level's share (`SumStep`), that it is determined by this (`SumUnique`) and
  adds up over disjoint parts (`SumParts`) is proved by taking a smallest set for
  which it fails. The invariant `OtsuInv` says that the running sums of the scan are
  those of the levels passed, and that the threshold held is the lowest best one among the
  splits passed; `VarianceAlgebra` says that the variance `ostu_threshold` computes from
  the sums it has left orders the splits as the variance by definition does.
* `Elements_proof`, of `LoopJudge`: `RowsWereFound` and `LoopIsThere`, for every
  distance between the rows compared, every jump and every image. A row that is not
  found is 0, and the verdict then needs a flag of a row that is never written;
  a row that is found is the first that passes its tests (`FirstFound`), and its
  tests are what `LoopIsThere` says of the image (`DownIs`, `CircleIs`, `UpIs`, `TopIs`).
* `EasyBlink_proof`: type correctness, `NoOversleep`, `BeepsAsAsked`, `NeverEarly`, for any series,
  heartbeat and number of calls. The strengthening ties a LED's pin to its flag, the
  pulses owed to the two places of the beeper, and the mark of a series begun in
  the daemon's sleep to the semaphore that ends it. For `NeverEarly` it adds `OnTime`:
  what is really left of a pulse or pause is never more than the daemon believes.
* `Camera_proof`: type correctness, `ShownIsWhole`, `NeverStarved`,
  `MiscountHarmless`, `ReportsFilledBuffer`, `NoLostWakeup`, `AtMostTwice`,
  `TornIsReplaced` and the refinement of `FrameMailbox`, for every bound of the
  semaphore and any delay of the interrupt, under the named hypothesis
  `~FrameEndsInReset`, without which they are false. The strengthening says where the four indices,
  the two registers and the flags stand to one another: outside the handler the
  driver's index is two places behind the user's, the older buffer is in the
  register loaded next, and the flag that is up belongs to it. Of liveness:
  `NewsIsRead`.
* `AgileButton_proof`: type correctness, `TimeoutsExact`, `Debounced` and the
  refinement of `KeyPromise`, for any number of keys, width of the counter and
  times, if four rounds fit in half the counter and the times in the other half
  (`WrapAssumption`; half of 2^32 ticks is two and a half days). The
  strengthening bounds how late a key can be visited, key by key, by its place in
  the round.
* `Menu_proof`: type correctness and `NoRemnants`, for any limits, entries and
  pages. The strengthening says at each place of the display thread when the
  screen may be mixed: only while a request stands, or a click was lost. Of liveness:
  `ScreenCatchesUp`.

The prover does not know ENABLED, and so neither WF nor SF. The theorems about
liveness therefore take as their hypothesis the fairness the runs assume, spelled out:
`[]<>` "the step has nothing to do, or is taken", with a state predicate in the place
of ENABLED. These are `MainGoesOn` and `OthersGoOn` of `MainLoop`, `MainRuns` of
`Camera` and `DisplayRuns` of `Menu`, next to `Fairness` in their modules. On the
instances of `MCMainLoop.cfg`, `MCCamera.cfg` and `MCMenu.cfg` each of these predicates
is, in every reachable state, ENABLED of its step (or, for `MainWaits` and the mode the
timer would set, its negation); an invariant that says so, evaluated by TLC, confirms it.
The arguments:

* `ResultIsPerformed` also supposes that the keys rest at last, after however many
  presses (`KeysRest`); a run bounds them by `MaxPresses`. It needs this: each RESET may move the car's
  distance away from the target again. First the RESET handler comes to its end,
  because the main thread blocks again and again (`BlocksAgain`, `ResetEnds`). Then the
  mode is recognition for good: a RESET still pending can take it back and START can
  cause one more standstill, but each only once (`ModeStays`). Then a result that waits,
  and nothing but its own release takes it away (`ResultWaits`), is found: the main
  thread drives home, under current control (`CurrentControlRuns`), and looks.
* `EveryFrameIsRead`: wherever the main thread stands with a frame unread, the
  semaphore lets it pass (`NoLostWakeup`; it blocks only at value 0), so it comes round
  to reading the pointer.
* `ScreenShowsSelection`: the display thread comes round (`ComesRound`), serves the last request
  (`RequestServed`), and by the invariant of `NoRemnants` draws from then on only what
  is selected; a function that runs once is never entered as a screen (`NeverOnce`).

The assumptions are those of the modules: sizes are naturals, thresholds lie
below the bound of the distances, look-back rows exist.

## What is only model-checked

* `StartIsLeft`, `RoundLoopIsLeft`, `HeartBeats` and `KeysFollow`. What ends here
  ends because a distance or a tick is counted up to a bound, so the proof is an induction
  over that number under a temporal operator, which the prover cannot do; and
  the step of time or of the car is not one the other proofs can take for granted.
* That the spelled-out fairness is the fairness of the runs (ENABLED), as said above.
* The violations.

## What is not modelled

* Floating point control: the wheel, position and steering controllers, the
  fuzzy gains, the gyroscope filters. Their inputs (where the car is, how far it
  has turned) are abstract.
* What `fork_road_judge`, the corner and the straightness tests answer: an input of
  `Elements` and `LoopJudge`. How the patches redraw the centre line.
* Cross and curve handling (`f_cross.cpp`, `f_curve.cpp`), which keeps no state
  machine the lap depends on; garage and QR code, which are compiled out.
* `ctrl_dymparam.cpp`: speed and foresight are clamped arithmetic on the states
  `Elements` has, without state of their own.
* RT-Thread, the SDK and the vendor library, except where a component depends on
  their details (the CSI driver, `rt_sem_release`, the tick). They are more than
  nine tenths of the source tree, and most of them (file systems, network, USB,
  CMSIS) is not called; the program's own logic is what these modules cover.
* The configuration of the camera over UART5 (`SEEKFREE_MT9V03X.c`): one request, one
  answer, no time-out. What one could say of it rests on the external camera alone.
* Functions of the two vendored packages that nothing calls (`agile_btn_stop`,
  `easyblink_stop`, ...). Debug output; sources that are
  commented out (`main_sl.cpp`, `main_zl.cpp`, `my_isr.cpp`, copies of `main.cpp`).

Two remarks on the documents: `src/readme.md` calls switch 8 the starting
direction, while `adc_bat_thread` selects the recognition mode with it; and it
gives one beep to forks and two to loops, while keys, gestures and the start also
beep once.

## Plan

Done, in this order: `MainLoop` with `RegcoPromise`; `Elements`; `Track`; `Otsu`;
`OpenArtLine`; `EasyBlink`; `Camera` with `FrameMailbox`; `AgileButton` with
`KeyPromise`; `Menu`; `LoopJudge`; the safety proofs of all; the liveness proofs that
need no counting.

What could follow:

1. `fork_road_judge` on the arrays of `Track`, composed with it, so that the inputs
   of `Elements` become consequences of the image.
2. Composition of `MainLoop` with `OpenArtLine` (bytes to gestures), of `MainLoop`
   with `Elements` (START and RESET as one handler).
3. The liveness of `Elements`, `EasyBlink` and `AgileButton`, where something is
   counted, for bounds that are numerals.
