# octabam: specifications, model checking and proofs

octabam builds remixes of the Elektron Octatrack's firmware: a composer takes
the stock OS image, and modules written in ColdFire assembly, C and DSP56k
assembly are placed in it and hooked into stock code. This directory holds TLA+
models of the modules whose behaviour depends on the order of events: frame
interrupts, the two DSP cores, the UI task, page keys, project loads.

- [1. The system](#1-the-system)
- [2. Plan](#2-plan)
- [3. The demand loader](#3-the-demand-loader)
- [4. STORE's native Part service](#4-stores-native-part-service)
- [5. TRACK PATTERNS](#5-track-patterns)
- [6. FREE LOOP](#6-free-loop)
- [7. Runs, bounds and fairness](#7-runs-bounds-and-fairness)
- [8. What is proved](#8-what-is-proved)
- [9. What the models leave out](#9-what-the-models-leave-out)
- [10. Findings](#10-findings)

## 1. The system

### Where the code runs

| context | what runs there | can be interrupted by |
|---|---|---|
| UI task (ColdFire) | screens, choosers, project and Part commands, STORE | every interrupt and the other tasks |
| sequencer / engine task | pattern launches, trig services | interrupts |
| frame interrupt | one call per DSP frame, 2,756 a second; sends to the DSPs through the host port | nothing of the modules |
| USB interrupt | endpoint completions and resets | nothing of the modules |
| DSP core A, DSP core B | one frame loop each, kept in step word by word at its head; tracks 1-4 and 5-8 | nothing |

### Components

| component | state it keeps | operations | hard behaviour | what makes it correct |
|---|---|---|---|---|
| DLPUMP (`src/modules/dlpump/pump.s`) | which demand effects are loaded, in which home, which blocks are busy, debounce and grace counts, one message in flight, one load owed repeats | comparison pass, send chunk, doorbell, resend; choosers' veto; toast at a page key | several passes and frames between a decision and its effect; a reverb and other effects want the same block | one holder a block; the wire agrees with the books; holders are not evicted; it comes to rest |
| DLCOPY, stubs, reverb guards (`src/modules/dlcopy/`) | entry of each effect (BOUND, address, length), staged message, per-instance init flags | copier at the frame head, lazy-binding stub, reverb guard | two DSP cores, a copy over code, host writes that may be lost | code that is BOUND is whole; init runs before proc; the DSP ends where the books are |
| STORE: native Part service (`src/modules/store/part*.s`) | snapshot of four Parts, the mask of Parts being replaced, an epoch per Part | begin, finish, init, read, write, contexts | readers interrupt a replacement half way; nested stock calls | a reader sees old or new, never a mixture; the epoch moves with the bytes |
| STORE: side files (`src/modules/store/store.s`) | clients, refused files, a prompt | event dispatch | clients called in order during project commands | every client sees every event; a refused file is not overwritten |
| TRACK PATTERNS (`src/modules/trackpatterns/`) | per track the pattern it plays and the one queued, its last step; the global pattern last seen | key gesture, tick, per-track length, rebuild, LED pass | the frame interrupt between any two steps of the gesture; a global change around it | a pass reads one pattern; a queued change lands once; the toast is true; a global change brings every track back |
| PATTERN MUTE (`src/modules/pattern-mute/`) | two mute layers behind the stock mute words | UI edits, engine updates, store and recall | two writers of one word | the stock word is always the union of its layers |
| USB MIDI (`src/modules/usb/`) | transmit ring, packet accumulator, session | send, flush, endpoint completion, reset | task against interrupt, a reset in the middle of a transfer | packets in order, none of a dead session |
| FREE LOOP (`src/modules/free-loop/`) | per track a recording state, two buffers and which plays, a pass in progress, UNDO TO's mark, a pending END, a REPLACE's mute | pedals, long presses, gate of the recorder trigs, step handler, UI tick, clears | a press, a step and a UI tick in any order; recorders that start a step late and stop a fade late | an overdub never writes the loop that plays; UNDO and REDO lead back; nothing stays muted |
| REMIX SWITCH, KITS | files on the card | menus, file I/O | power loss between writes | - |
| RECORDER LOOP FIX | a memo of the last length | one computation per arm | 32-bit products | the length never exceeds the buffer |
| small ColdFire patches | little or none | answer one stock event | - | - |
| DSP effects | audio state | one call a frame | numeric | - |
| composer and builder (`src/tools/remix`, `src/tools/build`) | files | sequential | layout arithmetic | nothing overlaps |
| emulator, panel, hardware, verify tools | - | they test the firmware | - | - |

### How they interact

- DLPUMP reads the ids on the live FX slots, which the UI, a Part, a pattern or
  a project load writes; it sends messages through the host port to DSP core B.
- DLCOPY runs at core B's frame head, applies a message whose doorbell has rung,
  and writes code and entry into memory both cores read.
- The stub of an effect and the guard of a reverb run on each core, once per
  frame and slot, and read the entries.
- STORE gives the other modules coherent access to Parts, and calls them back
  around a replacement; the mirrored CS1 copy of the current bank is stock state.
- TRACK PATTERNS is called by the sequencer's tick and by the key handler; its
  state is in memory of its own and is not saved.
- PATTERN MUTE is a client of the sequencer's events and keeps its settings
  through STORE.
- FREE LOOP is called by the MIDI thread (the pedals), by the sequencer's step
  handler, and 60 times a second by the UI task. It drives the stock recorders,
  a track's Flex slot, its mute and the transport.

## 2. Plan

In order of what is hardest to test:

1. *Done:* the demand loader. `DlPump` with its abstract specification
   `BlockOwner`, `DlPanel`, `DlDsp`, and their composition `DemandLoader`;
   every safety property of the four proved.
2. *Done:* STORE's native Part service. `PartService` with its abstract
   specification `PartStore`, and `PartEdits`, the writes' second half; the
   refinements and every safety property proved.
3. *Done:* TRACK PATTERNS. `TrackPatterns` with its abstract specification
   `PatternClips`; the refinement and every safety property proved.
4. *Done:* FREE LOOP on one track. `LoopEngine`, `FreeLoop`, and the abstract
   specification `LoopHistory`; the refinement and every safety property proved.

If the project is continued, in this order:

5. FREE LOOP: two looping tracks that share a recorder.
6. `PatternMute`: the two layers and the mirror hook, which drops the interrupt
   mask around its store.
7. `UsbMidiTx`: ring, accumulator, kick and reset.
8. Pure algorithms with a reference definition: the tempo of a take
   (`fl_tempo`), the recorder length (32-bit), the arena layout.
9. DLPUMP's page key, split between its read and its clear of the toast.

## 3. The demand loader

A demand effect's code is on no DSP until a track uses it. It has a short list
of *homes*: addresses at which its code may be loaded, each in the *block* that
one track's FX2 slot owns. A reverb on that slot uses the block as its delay
memory; how far it reaches decides whether it touches the code.

### Modules

| module | models | state |
|---|---|---|
| `DlLayout` | the layout the builder emits: homes, blocks, reverbs, messages; the order of homes and effects | none |
| `DlPump` | the frame interrupt's half of `pump.s`: `dl_pump` | `live`, `ping`, `dl_state`, `dl_src`, `dl_left`, `dl_loaded`, `dl_hm`, `dl_busy`, `dl_seen`, `dl_gone`, `dl_rwait`, `dl_rk`, `dl_rn`, `dl_rsrc` |
| `BlockOwner` | what the pump promises: blocks allocated exclusively | `owner` |
| `DlPanel` | the UI's half of `pump.s`: the choosers' veto, the toasts, the page keys; extends `DlPump` | `dl_ta`, `dl_tb`, `dl_pend`; `chk`, the choice judged and the read its veto is at; and `alone`, which records |
| `DlDsp` | `dlcopy.asm`, `dlstub.asm`, `dlwrap.asm`: copier, stub, guard | entries, code at each home, staging buffer, instances, slots |
| `DemandLoader` | `DlPump` and `DlDsp` joined by the host port | both |
| `DlPumpProofs`, `DlPanelProofs`, `DemandLoaderProofs` | theorems about `DlPump`, `DlPanel`, `DemandLoader` | - |
| `MCDlPump`, `MCDlPanel`, `MCDemandLoader` | instances for TLC | - |

### Actions and code

- `Frame` is one call of `dl_pump` (one frame interrupt). The call does one of:
  nothing (`Skip`, a ping-1 frame of the PING0 build), send one chunk
  (`SendChunk`), ring the doorbell (`RingBell`), count down to a repeat
  (`WaitRepeat`), arm a repeat (`Resend`), or compare (`Compare`).
- A comparison pass goes through the effects in order and returns at the first
  that arms a message. `Acts(k)` says the pass would arm one for effect `k`,
  `Examined(k)` that it gets as far as `k`; `Load(k)`, `Withdraw(k)` and
  `NothingToDo` are its three outcomes, and `Count` is what it does to the
  counts of the effects it examined. A move is a withdrawal: the load that
  follows is an ordinary one.
- `PanelFrame` is a `Frame` with the toast bookkeeping of the same pass.
- The veto runs in the UI task with the frame interrupt enabled, so it is one
  action per read of the pump's books: `Choose` starts it, `VetoLoaded`
  (`dl_loaded`), `VetoHome` (`dl_hm`), `VetoUsed` (the live ids) and `VetoPick`
  (one home of `dl_pick`: `dl_busy` and the live id) take it through the effects
  in order, and `GoesLive` puts on the slot what it let through. Frames may come
  between any two of them, and before the choice goes live. A choice refused
  is over.
- `LoadId` is an id that arrives by another route (a song, pattern, Part or
  project load), at any point; `PageKey` is the toast shown.
- `DemandLoader`'s frame is the pump's call, then the copier at core B's frame
  head, then the slots of both cores. This order is the hardware's: the head of
  the frame loop is a word-by-word handshake of the two cores
  (`src/docs/firmware/DSP.md:384-387`), and the copier's hook lies between two
  of its words, so no slot runs while a copy is made.

### Decisions of the model

- The live ids change between frames, and the id a DSP slot runs is the live
  id. A load takes at least two delivered frames after the comparison, so a
  lag of the DSP's id by a frame changes no order the properties see.
- A pass reads one consistent set of live ids. The loop of `dl_used` over the
  slots is one read of the veto.
- Reading and clearing the toast at a page key are one step, a hazard that no
  property covers; and no page key is pressed while a chooser's veto runs, which
  is the same task.
- A message is its effect and home, and is sent as `Chunks` chunks. The sum is
  right exactly when every staged chunk is of the message in the header: that
  two different damages cancel in 24 bits is ignored.
- A repeated load that finds its effect already bound at that home rewrites the
  same code, as the code does.
- `left` stands for `dl_src`, `dl_dest` and `dl_left`, which advance together.
- A stub whose flag is set resumes the real proc after a reload without the
  real init, as the code does.
- A stock FX other than a reverb stays out of the blocks: its delay memory ends
  below the homes.

### Properties

Of `DlPump` (run *pump*):

- `OneHolder`: no block has two holders and `dl_busy`, which the pass maintains
  apart from `dl_loaded` and `dl_hm`, names exactly the blocks held.
- `InFlightIsHeld`, `RepeatIsHeld`: what is on the wire, or owed to it, agrees
  with the books. It follows that the branch for a repeat whose effect was
  withdrawn meanwhile (`pump.s:114-119`) is never taken: no pass is made while
  a repeat is owed.
- `HolderKeeps`: a used effect that is not soft and cannot move keeps its block.
- `AllocatesBlocks`: the pump implements `BlockOwner`.
- `Settles`: with the ids at rest, loads, moves and withdrawals end.
- `WantedIsLoaded`: an effect that stays used is loaded again and again although
  a pass ends at the first effect that acts. It needs a debounce that is long
  against the number of earlier effects, as the real one is (200 passes against
  at most a handful of effects).
- `NearsRest`: why `Settles`. Every call that delivers brings the pump closer to
  rest or finds it there: a measure of the messages still needed, the repeats,
  calls and passes to go comes down in every one, whatever the ids are. It
  would break if a load could undo a withdrawal, or a repeat start over.

Of `DlPanel` (run *panel*):

- `VetoStands`: the veto's reads are apart, and its answer is used later. It
  stands when the choice goes live, whatever was withdrawn, counted or sent
  meanwhile: no used effect is left under a reverb with nowhere to move, and an
  effect chosen has a home unless it replaces what is on the track of one. It
  needs that nothing was loaded and no other id changed since the choice was
  made; what happens otherwise is in section 10.
- `AnnouncedOnce`: a collision that lasts is announced once, although a pass may
  end at an earlier effect. There is one cell for the toast, so of two collisions
  found before a page key the later one is shown; the property says so.
- `UsedHoldMeansHeld`: the toast to evict an effect that some slot uses comes from
  a pass that leaves it loaded.

Of `DemandLoader` (runs *loader* and *lossy*):

- `BoundIsWhole`: an effect that is BOUND has its whole code, from its home's
  message, at its address, and no other effect is BOUND in its block.
- `AgreesAtRest`: with the pump at rest the entries on the DSP say what the
  pump's books say.
- `InitBeforeProc`: no slot runs an effect's or a reverb's proc before its init
  has been run for that use of the slot.
- `OneFrameIsEnough`: with nothing in flight every slot runs what it should at
  the end of the very frame: no stub passes through what is loaded, no reverb is
  left dry because it was dry before.
- `SlotsSettle`: with the ids at rest every slot ends up running what it should.
- `TornIsUnbound`, `PublishesOnlyWhole`: with host writes lost, code that is not
  whole is never published.

## 4. STORE's native Part service

A bank in memory has four working Parts. Modules keep settings in bytes of them
that the stock firmware leaves unused, and read them from interrupts, for
instance when a note is due. The stock firmware replaces Parts (paste,
reload, clear, a bank load) with a copy and an initialise routine. STORE wraps
both, so that a reader that interrupts a replacement does not see it half done.

### Modules

| module | models | state |
|---|---|---|
| `PartStore` | what readers are promised | `content`, `epoch` |
| `PartService` | `part-copy.s`, and the read and the write of `part.s` | `work` (the working Parts), `epochs`, `bank`, `parts`, `snap` (`store_part_epochs`, `store_part_snapshot_bank`, `_parts`, `store_part_snapshot`), `ui`, `next` (where the UI task is in `.begin`), `stack` (the wrappers' frames) |
| `PartEdits` | `store_part_write` whole, among the stock commands; extends `PartService` | `cs1`, `unsaved`, `csUnsaved`, `edited`, `csEdited`, `cur`, `saved`; and two variables that record: `touched`, `changed` |
| `PartServiceProofs`, `PartEditsProofs` | theorems about `PartService`, `PartEdits` | - |
| `MCPartService`, `MCPartEdits` | instances for TLC | - |

### Actions and code

- A call of the copy or the initialise routine is `Begin` when `.begin` starts a
  transaction and `PassThrough` when it does not (`part-copy.s:99-119`): a
  transaction is under way, or the copy is empty, outside the banks or reaches
  no working Part. An initialise call is a copy of `PartSize` bytes.
- `SnapshotPart` is a turn of `.snapshot_part`; `Publish` is the store at
  `part-copy.s:153`, after which readers of the masked Parts read the snapshot.
- `NativeByte` is a store of the stock routine. It may store any byte of its
  range, in any order and as often as it likes.
- `Return` and `Finish` are the wrapper's end without and with the flag of its
  frame; `Finish` is the critical section at `part-copy.s:53-75`.
- `Write` is the first half of `store_part_write`: the busy test and the byte.
  `PartEdits` adds the second half (`Mark`): the unsaved bit, the edited flag
  and, for the current bank, the copy in battery-backed memory (CS1).
- What a reader gets is not an action: readers interrupt the UI task and run to
  their end, so what one reads at any point is the state function `Visible`.

### Decisions of the model

- One UI task replaces and writes (`src/docs/specs/STORE.md:190-193`); a client
  may not write from an interrupt. It may write between a replacement's
  publication and its end, from a callback, and the busy test is for that. No
  write is made between `.begin` and the publication.
- A call made by the stock routine that a wrapper is running stays in that
  routine's range (`Nests`). Calls nest to any depth in the proofs.
- Copies that span banks are outside the contract (`STORE.md:216-217`):
  `CallsAssumption`.
- A bank's memory is kept at the registered offsets of its Parts only.
- The service starts activated, as the boot leaves it.
- The counters wrap after `LastEpoch`, as a longword does.
- `PartEdits` takes the stock commands from `src/docs/firmware/PARTS.md`: a
  command ends its copies with their CS1 copies and marks (`Settle`) before the
  UI task does anything else. A client's callback may write to another Part
  meanwhile.

### Properties

Of `PartService` (run *part_service*):

- `ReadersSeeWholeParts`: the service implements `PartStore`. To a reader, a
  replacement is one step in which all the Parts it touches change and their
  counters move; every other change of a byte is an edit.
- `CountersExact`: the Parts whose counters move are exactly those with a byte
  in the range of the outermost copy. The code decides with two comparisons of
  ends; the property says it with bytes.
- `OuterOwns`: the transaction is the outermost call's, and a call outside one
  never has a byte of a Part in its range.
- `AcceptedIsSeen`: what an accepted write wrote is what readers read.

Of `PartEdits` (run *part_edits*): `MirrorAgrees`, CS1 and its marks agree with the
current bank in memory, whichever bank is written or selected;
`ChangesAreMarked`, a Part that differs from its saved one has its unsaved bit,
and a bank changed since it was written is written by the next bank write.

## 5. TRACK PATTERNS

The Octatrack plays every track from one global pattern of a bank. TRACK
PATTERNS lets a track play another pattern of the playing bank. PATTERN and a
TRACK key held, a trig queues its pattern for that track; the change lands when
the track's own step counter is back at its loop start. A change of the global
pattern brings every track back.

### Modules

| module | models | state |
|---|---|---|
| `PatternClips` | what each track is promised | `global`, `plays`, `wants`, `heard` |
| `TrackPatterns` | `trackpattern.c` whole, `adapter.c` and `hooks.s` as far as they change or use its state | `tp` (`TpState`); stock's `id`, `pend`, `playing`, `pos`, `counter`, `across`; `ui` (the UI task within a gesture or a LED pass); `heard`; and two variables that record: `told`, `ready` |
| `TrackPatternsProofs` | theorems about `TrackPatterns` | - |
| `MCTrackPatterns` | the instance for TLC | - |

### Actions and code

- `Tick` is the frame interrupt at a step: for every track `tp_seq_pattern`
  (`tp_sync`, `tp_step`), the step given, then stock's advance of the counter,
  which compares it with `tp_track_length`. Stock sets every counter back to 0
  at the MASTER LENGTH. The tracks are taken together: none reads another's.
- Just before a global change stock prepares a step of the next pattern
  (`across`); `ChangeLands` makes the change. `Choose` selects or chains it,
  `Start` and `Stop` are the transport. STOP makes a change that is chosen and
  waiting at once (`src/docs/firmware/PARTS.md:102`).
- A key gesture is four steps, and the interrupt may come between any two:
  `Gesture` (`tp_sync` has read the playing pattern), `Sync` (`tp_global` with
  it), `Queue` (`tp_queue` has read `src` and whether the sequencer plays),
  `Write` (it stores), `Toast` (`tp_label` reads again, and the rebuild that
  follows the toast). `LedPass` and `Sync` are the LED pass, which follows the
  global pattern and otherwise draws.
- `Rebuild` is stock's rebuild of the prepared steps after an edit, through
  `tp_peek_pattern`.

### Decisions of the model

- A gesture or a LED pass takes microseconds, a step milliseconds: at most one
  of tick, choice, start and stop comes within one (`Between`), and the landing
  of a change that the tick made due.
- Two changes of the global pattern are apart by at least one LED pass: the
  LEDs are drawn many times a second. It is a guard of `Choose` while stopped,
  and of `Stop` with a change waiting; while playing the tick sees to it.
- The rebuild's counter is the counter of the step to come and its `len` is 0,
  as `hooks.s` passes it. A rebuild is one step: it runs with the engine's state
  and either agrees with the tick or is followed by one.
- Lengths are given per pattern and track (SCALE MODE PER TRACK); NORMAL is the
  case where they agree and equal the MASTER LENGTH. A length of 0 is stock's.
- `tp_transport_start`, and so `tp_restart`, is called by no hook: a track's
  `started` is set by its first step and never cleared. PLAY sets the counters
  to 0, so its first step is a loop start all the same (`raw <= last_raw`).
- Counters are natural numbers; the code keeps a byte, and a pattern has at most
  64 steps.

### Properties

Run *track_patterns*:

- `ClipsSpec`: the engine and its glue implement `PatternClips`. An override
  for which a global change has not been seen yet counts as cleared: nothing
  reads it before it is.
- `PassKeepsItsPattern`: within a pass of its loop a track is given steps of one
  pattern, whatever is asked, withdrawn or cleared meanwhile. The one exception
  is a press that found the sequencer stopped just before an external start.
- `ToastIsKept`: what the last toast named is what the track plays or will play,
  until a global change; without an interrupt in between it is what was asked.
- `RebuildAgrees`: while playing, the step the rebuild prepared is the step the
  track is then given, if nothing changed in between.
- `QueuedLands`: a queued change lands, unless the sequencer stops.
- `NearsLoopStart`: why it does. A step that leaves a change queued was not the
  track's loop start and brings it nearer, at most the rest of the MASTER LENGTH
  away; nothing but a change of the global pattern puts it off.

The race in `tp_queue` (a tick lands a change between its read of `src` and its
write) loses a withdrawal, or leaves one queued for what the track already
plays. Both are in the state space: `ToastIsKept` holds because `tp_label`
reads what the write left.

## 6. FREE LOOP

A loop pedal for a track's recorder. REC arms an overdub, which starts with the
track's next recorder trig; UNDO goes back to the loop before it. A track with
an UNDO buffer plays one of two buffers, X (its own) and Y; a pass records into
the other one, and the track follows. UNDO TO *n* keeps the loop of the *n*-th
recording. END mutes or unmutes at the loop start; REPLACE records a new loop
over a muted one.

### Modules

| module | models | state |
|---|---|---|
| `LoopEngine` | `freeloop.c`: the functions that move one track's `FlState`, as operators from a state to a state and what the adapter has to do | none |
| `FreeLoop` | `adapter.c` and `hooks.s` around it, with the parts of the unit they drive | `fl` (`FlState`), `clr`, `clrall`, `was`, `auth`, `newtake`, `qany` (`fl_clear`, `fl_clear_all` or a bank not seen yet, `fl_playing_was`, `fl_auth`, `fl_takes`, `fl_qany`), `ui` (where the UI tick is); the unit's `playing`, `pos`, `tick`, `due`, `run`, `buf`, `lane`, `voice`, `muted`; `entry`; the setting `cfg`; `nth`, `late`, `uncut` record |
| `LoopHistory` | what UNDO and REDO promise | `heard`, `back` |
| `FreeLoopProofs`, `FreeLoopHistoryProofs` | theorems about `FreeLoop` | - |
| `MCFreeLoop` | the instances for TLC | - |

### Actions and code

- The stock step handler prepares each step while the one before it sounds.
  `SeqStep` is a step: at the last of the loop `fl_gate_track` decides on the
  first's recorder trig (`Prepare`), at the first the recorder starts, the
  voice takes the slot's buffer, and `fl_step_track` makes END's and REPLACE's
  mutes (`LoopBegins`, `Toggles`).
- `RecDown`, `PlayDown`, `UndoDown`, `EndDown`, `PedalUp` are `fl_pedal`: an
  engine function, then `perform`.
- A UI tick is two steps, `UiHead` (a stop seen, the stray guard, a clear of
  everything, a new pattern) and `UiTrack` (a long press, the unmute, a clear,
  the switch to the buffer a pass records, the slot). Steps and pedals may come
  between them, and the second uses the `run` the first read.
- `ClearAll` is CC 84 and `BankLands` a pattern of another bank: either makes
  the next UI tick clear everything. A clear of the track's own loop is
  a REC held; it is asked and carried out in `UiTrack` (`Clearing`).
- `RecorderDone` is a recorder that was told to stop and has faded out: it
  writes its buffer's length, so a buffer emptied under it is filled again.
- A buffer's content is a model value, a new one for each recording.

### Decisions of the model

Where the code relies on time, the model has a guard, and says so:

- There is a UI tick between two steps. How many there are at most is the
  setting's: a `slow` one has steps of up to `StepTicks` ticks, as many as
  `FL_AUTH_TICKS` or more (1/4X and 1/8X at ordinary tempos), and gates that come
  before a UI tick has seen the last recording end. `late` records that a start
  came out of the guard's time in one of these two ways. A setting that is not
  `slow` is a track for which neither happens.
- The transport does not change twice between two UI ticks (`Seen`); a recorder
  told to stop is done before the next step and before the sequencer starts
  again (`Settled`).
- CLEAR ALL comes while the sequencer is stopped, a bank change while it plays.
  In a setting that is `under` both come under running recorders, as the code
  allows, and a clear of the track comes under a recorder that it does not
  know of. `uncut` records the recorders a clear left running. In the other
  settings a clear of everything finds the recorders off (`Quiet`), and a clear
  of the track knows every recorder that runs.
- A free take whose length gives a tempo, and a press of one second, last many
  UI ticks (`Lasts`, `LongHeld`). A free take starts after a UI tick has told
  whether the track has a loop (`Refreshed`).
- With `Early` FALSE no UNDO, long REC or bank change comes in the one step
  between a start's preparation and the start (`Calm`), and no start is prepared
  and no free take begun while a clear is due (`ClearDue`). With `Chained`
  FALSE no REPLACE pattern lands during a REPLACE pass. The runs *undo_early*,
  *bank* and *replaced* show what the code does without the first, with `under`
  and without the last.
- A track's MIDI channel may be off (`c.chan`): then no mute or unmute of the
  pedals and of the UI tick is made (`adapter.c:241-243`), while the step
  handler's own mutes are.
- A pedal (END, PLAY) moves the engine, makes its mute, works out `fl_qany` and
  stores it (`adapter.c:427`, `435`; the UI tick does so at `959`); in the model
  that is one step, although the step interrupt may come in between. `DueAtLoopStart`
  and `EndComes` are shown under that assumption; section 10 says what happens
  without it.
- The loop that UNDO TO keeps is a track's with an UNDO buffer: `NthStays` says
  nothing of one without, where there is nowhere else to record.
- The track has its recorder trig and its play trig on step 1. Its UNDO buffer
  has a higher number than the track, so the word handed on is taken in the
  same step. What the other tracks are at is an input (`others`).
- `muted` is the stock mute or the fade that leads to it.
- `npass` stays 0 without UNDO TO, which alone reads it.

### Properties

Run *free_loop*:

- `NeverWritesWhatPlays`: no pass records into the buffer the voice plays. The
  slot follows a UI tick after the recorder's start and before the next trig.
- `HistorySpec`: the two buffers, their marks and every interruption of a pass
  implement `LoopHistory`: UNDO puts the track back on the loop before the pass,
  exactly as it was, REDO on the pass again, a pass dropped leaves no trace.
- `NthStays`: UNDO TO's loop is unchanged as long as it is marked.
- `OwnRecordingIsNotStray`: the stray guard stops a recording of FREE LOOP's own
  only if it started `FL_AUTH_TICKS` after its gate or more, or its gate came
  before a UI tick had seen the last recording end. The `slow` settings have
  both, so the property says how far the guard is right, not that it is.
- `ClearedStaysEmpty`: a cleared buffer, X or Y, is filled by a recording that
  starts, never by what a recorder leaves as it stops. The exceptions are the
  recorders a clear did not wait for, and only those: one that a clear of
  everything found running, or one no pass of the engine names any more.
- `EndComes`: an END comes, is cancelled or is dropped by a stop.
- `ReplaceHeardAgain`: a track with a MIDI channel that a REPLACE pass has muted
  is heard again.
- `DueAtLoopStart`: why both. The first step of the loop takes a pending END, and
  the unmute of a REPLACE pass where there is a channel.

Runs *undo_early* and *bank* check `NeverWritesWhatPlays` where it fails, and
*replaced* checks `UnmuteIsOwed`: a track with a channel that a REPLACE pass has
muted has its unmute to come.

## 7. Runs, bounds and fairness

| run | module, cfg | expects | what it asks |
|---|---|---|---|
| pump | `MCDlPump` | pass | three effects, two blocks, a reverb, every change of ids |
| panel | `MCDlPanel` | pass | the choosers and the toasts with the pump, a frame between any two reads of a veto |
| loader | `MCDemandLoader` | pass | both processors, PING0 build, nothing lost |
| lossy | `MCDemandLoader`, `MCDlLossy.cfg` | pass | the ANY build, host writes of half the frames may be lost |
| part_service | `MCPartService` | pass | copies of every shape, nested calls, writes, interrupting readers |
| part_edits | `MCPartEdits` | pass | writes to both banks among paste, save, bank write and bank change |
| track_patterns | `MCTrackPatterns` | pass | two tracks, three global patterns in two banks, gestures and LED passes, the interrupt anywhere in them |
| free_loop | `MCFreeLoop` | pass | one looping track under nine settings; pedals, patterns, banks, stops, clears between steps and UI ticks |
| lost | `MCDemandLoader`, `MCDlLost.cfg` | violation | a lost withdrawal leaves code BOUND in a block that is given away |
| undo_early | `MCFreeLoop`, `MCFreeUndo.cfg` | violation | UNDO between the preparation of a recorder start and the start |
| bank | `MCFreeLoop`, `MCFreeBank.cfg` | violation | a bank change under a running overdub, then ENTRY ARM |
| replaced | `MCFreeLoop`, `MCFreeReplaced.cfg` | violation | a REPLACE pattern during a REPLACE pass, then a STOP |

**Bounds.** Two tracks (3 and 4) with an FX1 and an FX2 slot each, one block a
track, one reverb (DARK, which reaches a low home of its track's block), two or
three effects. Three effects for two blocks is the smallest instance in which a
block is contested while another effect moves; one effect is soft, one has a
home that no reverb reaches, two share both blocks. `Debounce`, `Grace`,
`Repeat` and `Chunks` are 1 or 2 (in the code 200 passes, 2,756 or 13,780 passes, 30
calls, and as many chunks of 100 halfwords as the message has): the code
compares each with its threshold only, so 2 has the values "not yet", "at the
threshold". `Repeats` is 2 as in the code. The run *panel* has two effects, of
which one fits both blocks, and a `Debounce` of 1, to leave room for the veto's
reads; its choices are those that can collide. Nothing else is bounded: every counter
is reset by the code at its threshold, so the state spaces are finite and
explored whole.

The Part service: two banks of two Parts of two bytes. The copies of
*part_service* are those that differ in the tests of `.begin` and the mask: both
Parts, one, the tail of one with the head of the next, a part of one, one that
ends at the first Part's first byte, one that starts behind the last Part, an
empty one, one of the other bank. `Depth` is 2 (the initialise routine calls the
copy routine), `LastEpoch` 1, so the counters wrap. In *part_edits*, where the
question is the marks, a Part is one byte and one Part is ever pasted over.
Both state spaces are explored whole. The mask is a matter of arithmetic: that
it is right for the real sizes is proved, not checked.

TRACK PATTERNS: two tracks, two patterns, three global patterns (two of one
bank, and the first one's number in another bank). A track has 2 and 3 steps in
the two patterns, the other 1 and none of its own; the MASTER LENGTHs are 3 and
2. So there is a track that wraps within the pattern, one the MASTER LENGTH cuts,
one that is on its loop start at every step, and one whose length changes with
its pattern. The gestures ask for the global pattern and the other. Everything
is explored; that it does not depend on the numbers is proved.

FREE LOOP: a loop of two steps, the shortest in which preparing the first step
and sounding it differ. `AuthTicks` is 2 (30 in the code); a slow step lasts up
to `StepTicks` = 2 UI ticks, so long enough for the guard to give up, another
step one tick. `NPassMax` is 2 (255): UNDO TO 1 needs a second recording, and
the count's end is met. Four contents suffice: two buffers, the marked loop and
the one to come. Nine settings are explored, each with the pedals and ENTRY
modes that bear on it, since a track has one setting at a time and a pedal acts
only on what its setting allows: UNDO and REDO; UNDO TO 1 after a free take; a
free take and END without an UNDO buffer; REPLACE and UNDO; ENTRY and a held
PLAY; bank changes with slow steps; CLEAR ALL under a free take with slow steps;
bank changes under overdubs in place; and REPLACE and END without a channel.

The type invariants of `DlPanel`, `PartService`, `PartEdits`, `DemandLoader` and
`TrackPatterns` are in no run: they are proved (section 8), and so hold in the
runs' instances too.

**Fairness.** The frame interrupt comes whatever the UI does: `WF` of `Frame`
(`PanelFrame`, the composed frame). The frame includes the DSP cores, which are
driven by the same clock. What the user, a Part or a pattern does has no
fairness. Liveness is stated either for ids that come to rest (`Settles`,
`SlotsSettle`) or for a condition that lasts while everything else goes on
(`WantedIsLoaded`). The panel and the Part service have safety properties
only, and no fairness.

In TRACK PATTERNS the tick is strongly fair: the interrupt comes again and
again while the sequencer plays, but a press that is not finished may hold the
action back now and then (`Between`), so weak fairness would not make it happen.
A change that is due lands, and a gesture once begun goes on: weak fairness. The
user presses nothing by fairness. `QueuedLands` allows for a STOP.

In FREE LOOP the steps, the ends of the recorders and the UI tick are weakly
fair: three clocks of the unit that no press holds up. No press, pattern, start
or stop is fair. `EndComes` and `ReplaceHeardAgain` need both the steps (the
loop start) and the UI tick (which sees a stop).

## 8. What is proved

### The pump

`DlPumpProofs` proves about `DlPump`, for every layout and every timing that
satisfies the assumptions below, checked by TLAPS:

| theorem | states |
|---|---|
| `InvHolds` | the inductive invariant |
| `TypeCorrect` | `Spec => []TypeOK` |
| `HoldersExclusive` | `Spec => []OneHolder` |
| `MessagesHeld`, `RepeatsHeld` | `Spec => []InFlightIsHeld`, `Spec => []RepeatIsHeld` |
| `HolderKept` | `Spec => HolderKeeps` |
| `PumpAllocates` | `Spec => AllocatesBlocks`, the refinement of `BlockOwner` |
| `PumpNearsRest` | `Spec => NearsRest` |
| `WantedKeepsItsPlace` | `Spec => PlaceKept`: a wanted effect keeps the passes it has waited, and every pass that examines it counts one more or loads it |

**Assumptions.** Of the layout (`DlLayout`), what the builder emits:
`CountAssumption`, `IdsAssumption`, `HomesAssumption` (numbers, ids and homes
are of their kinds), `TrackAssumption` (each block is one track's, two blocks are
two tracks', `manifest.py:12`), `HomesApartAssumption` (an effect has no two
homes in one block: `src/tools/remix/schema.py:2228-2238` refuses them),
`SoftAssumption`. Of the timings: `TimingAssumption`, positive thresholds. Of
what may be put on a slot: `OfferAssumption`, reverbs go on FX2 slots only.

**The invariant.** `OneHolder` and `InFlightIsHeld` are not inductive. A resend
arms the message kept in `dl_rsrc`, so `InFlightIsHeld` after it needs to know
that this message is for an effect still loaded in that home: `RepeatIsHeld`.
That in turn survives a withdrawal only because a pass is made when no repeat
is owed (`PassOwesNothing`), which needs `RepeatIsHeld` again and the type
facts: a repeat that falls due with its effect withdrawn would let a pass run
with repeats to send. A repeat is put back to 0 exactly when its count runs
out, so "`rn > 0` while one is owed" is part of it. The type invariant needs
`OneHolder`'s facts only for the homes. The inductive invariant is the conjunction of
`TypeOK`, `OneHolder`, `InFlightIsHeld` and `RepeatIsHeld`; the proof has one
step per action and one lemma for each of the two actions that change the books.

**The refinement.** `owner` is read off the books (the effect loaded whose home
is in the block). With `OneHolder` the holder is unique (`OwnerFacts`), so a
`Load` takes one free block for an effect that has none (`LoadTakes`), a
`Withdraw` releases one (`WithdrawReleases`), and every other step stutters.

**Towards rest.** `NearsRest` compares five measures, the first that differs
deciding: the messages the effects still need (`MessagesToGo`: two for a home
that will not do, one for none, none for a home that will), the repeats owed
(`rn`), the calls that finish the message (`CallsToGo`), the calls to the next
repeat (`rwait`), the passes until an effect acts or leaves its count alone
(`PassesToGo`). A load picks a free home no live reverb reaches, so it takes its
effect's need from one to none; a withdrawal from two to one. A pass that arms
nothing counts one effect nearer its threshold or changes nothing at all, and
then the pump is at rest. With the ids standing still the measures, natural numbers
in lexicographic order, only fall: what is left of `Settles` to the fairness of the frame
interrupt is that the calls come. `PlaceKept` is the same of `WantedIsLoaded`: a
pass that ends at an earlier effect leaves a later one its count.

### The choosers

`DlPanelProofs` proves about `DlPanel`, over the pump's invariant:

| theorem | states |
|---|---|
| `PanelIsPump` | `PanelSpec => Spec`: what is proved of the pump holds with the panel |
| `PanelInvHolds` | the invariant behind the choosers' theorem: what a veto has read so far still holds |
| `PanelTypesHold` | `PanelSpec => []PanelTypeOK` |
| `ChoosersStrandNobody` | `PanelSpec => VetoStands` |
| `ToastQueuedOnce` | `PanelSpec => AnnouncedOnce` |
| `UsedHoldIsHeld` | `PanelSpec => UsedHoldMeansHeld`: the toast to evict an effect that some slot uses comes from a pass that leaves it loaded |


**The argument.** Every step of the panel is one of the pump or a stutter
(`PanelStepsPump`). `Judged` says what a veto has established when it is part of
the way: no effect looked at refuses the choice, the home it looks from is the
one the effect is in, the effect chosen comes last. It starts with no reverb
over loaded code (`Calm`), and each read extends it (`VetoJudged`). A frame that
loads nothing takes no home and only frees blocks (`NoLoadFrees`), so what has
been read stays true over it (`FrameJudged`): this is why a withdrawal between
two reads is harmless, and where a load would not be. When the choice goes
live, an effect newly under a reverb is under the reverb chosen; the veto has
then seen another home free; that home is in another block
(`HomesApartAssumption`), and so on another track (`TrackAssumption`), where the
choice has put no reverb. `UsedHoldIsHeld` bounds the toast case of section 10: only
of an effect that nobody uses any more, and that is not withdrawn yet, can the
toast be wrong.

### The two processors

`DemandLoaderProofs` proves about `DemandLoader`, for any layout and timing and
any number of chunks:

| theorem | states |
|---|---|
| `DspInvHolds` | what holds of the DSPs whatever is lost on the way |
| `LoaderTypesHold` | `LoaderSpec => []LoaderTypeOK` |
| `InitAlwaysFirst` | `LoaderSpec => []InitBeforeProc` |
| `TornNeverBound` | `LoaderSpec => []TornIsUnbound` |
| `OnlyWholePublished` | `LoaderSpec => PublishesOnlyWhole` |
| `LoaderInvHolds` | of a build that loses nothing, the inductive invariant |
| `BoundAlwaysWhole` | `~PhaseAny => (LoaderSpec => []BoundIsWhole)` |
| `AlwaysAgreesAtRest` | `~PhaseAny => (LoaderSpec => []AgreesAtRest)` |
| `SlotsFitHolds` | `LoaderSpec => []SlotsFit`: at the end of a frame every slot runs what the entries say |
| `OneFrameEnough` | `~PhaseAny => (LoaderSpec => []OneFrameIsEnough)` |
| `LoaderIsPump` | `LoaderSpec => Spec`: what is proved of the pump holds in the composition |

**What losses cannot break.** The copier unbinds an effect before it copies and
binds it only if the sum over the copy is that of the header: with `Copying`
(the header's effect is unbound while the copy runs, and a right sum means that
its own whole message was copied) no torn code is published. `Initialised` ties a
slot's state to what it has run: a stub's flag is 0 or 1 and 1 only after the real
init; a guard is in one of three states and only one of them has run no init.

**What they can.** That an effect BOUND is whole *now* needs that nothing is
loaded over it, so that every withdrawal has arrived: the hypothesis
`~PhaseAny` (the PING0 build), and the run *lost* shows that it is needed. The
invariant follows one message from the pump to the entry. `Staged`: what is
staged so far is of the message in flight, whole when the bell rings. `Between`:
the copier works only on a message whose bell has rung, and the pump waits.
`Agreed`: entries and books agree on every effect but the one of the message in
flight, and the books of that one are what the message says. A copy overwrites a
block whose other effects are all unbound, since the block has one holder
(`OneHolder`) and that is the effect being copied.

**One frame.** The slots of a frame come after its copier, and nothing else in
the frame changes an entry, so each slot's call meets the entries the frame ends
with: a stub of a BOUND effect has run the init by then, a guard is in its
running state exactly if no BOUND entry lies under its reverb. That is
`SlotsFit`, of any build. With nothing in flight and nothing lost the entries are
the books (`Agreed`, with `RepeatIsHeld` for the message that is repeated), and
`SlotsFit` becomes `OneFrameIsEnough`.

### The Part service

`PartServiceProofs` proves about `PartService`, for every layout, every set of
copies, every depth of calls and every length of counter:

| theorem | states |
|---|---|
| `InvHolds` | the inductive invariant |
| `TypeCorrect` | `Spec => []TypeOK` |
| `OuterAlwaysOwns` | `Spec => []OuterOwns` |
| `ServiceImplementsStore` | `Spec => ReadersSeeWholeParts`, the refinement of `PartStore` |
| `AcceptedWritesSeen` | `Spec => AcceptedIsSeen` |
| `CountersAreExact` | `Spec => CountersExact` |

**Assumptions.** `LayoutAssumption`: the Parts lie one after the other within
the bank. `WindowAssumption`: registered offsets lie in a Part, writable ones in
a window (`parts.py` refuses others). `CallsAssumption`: no copy spans banks.
`BytesAssumption`, `MiscAssumption`: the other constants are of their kinds.

**The argument.** `OuterOwns` is not inductive. The step that could break the
refinement is `NativeByte`: it must store either into a Part that is masked, and
so unseen, or into none. Its range is the top frame's, the mask is of the
bottom frame's. The invariant therefore says that the stack is nested, each
frame's range inside the bottom one's (`Nesting`), that while a transaction runs
the bank and the mask are those of the bottom call (`Transaction`), and that
during the snapshot the stack has one frame and the Parts already visited are
copied (`Snapshotting`), so that `Publish` changes nothing a reader sees. The
lemmas `MaskExact` and `GuardComplete` are the arithmetic: the comparisons of the
code pick the Parts with a byte in the range, and a copy with such a byte is
guarded. `NativeHidden` puts them together; `FinishReplaces` and `WriteEdits`
map the two steps a reader sees, `StockHidden` all others to a stutter.

`PartEditsProofs` proves about `PartEdits`, for the same constants, that the whole
writes among the stock commands implement the service (`EditsImplementService`,
`EditsSpec => Spec`: what is proved of the service holds with them), and
`EditsTypesHold`, `MirrorAlwaysAgrees`, `ChangesAlwaysMarked` (`EditsTypeOK`,
`MirrorAgrees`, `ChangesAreMarked`). `ChangesAreMarked` says of the banks only
what holds between commands, so it is not inductive: a command that ends must
know what it owes. `ChangesAreOwed` says it: a changed bank is marked, or is the
bank of a Part the command has touched and will mark when it ends.

### TRACK PATTERNS

`TrackPatternsProofs` proves about `TrackPatterns`, for any set of tracks, any
number of patterns up to 16, any lengths, any global patterns and any gestures:

| theorem | states |
|---|---|
| `TypesHold` | `TpSpec => []TpTypeOK` |
| `ToastsAreKept` | `TpSpec => []ToastIsKept` |
| `PassesKeepTheirPattern` | `TpSpec => PassKeepsItsPattern` |
| `RebuildsAgree` | `TpSpec => RebuildAgrees` |
| `ImplementsClips` | `TpSpec => ClipsSpec`, the refinement of `PatternClips` |
| `QueuedNearsLoopStart` | `TpSpec => NearsLoopStart` |

**Assumptions.** `CountsAssumption`: 1 to 16 patterns, so that `TP_TO_FOLLOW` is
no pattern's code. `LengthAssumption`, `MasterAssumption`: lengths are natural
numbers, the MASTER LENGTH positive. `IdsAssumption`, `KeysAssumption`: ids and
gestures name tracks and patterns there are.

**The argument.** Each property needs to know what the engine has seen of the
global pattern. `SyncInv` says it: before the first `tp_global` nothing is
queued; while a step across a change is out, the pattern to come is not the one
last seen and no stale `tp_sync` is on its way; a stale one can only clear what
a later one clears again, or what is empty. With it, following the global
pattern, current or stale, changes no track's choice (`FollowingKeeps`), which
is the stutter of the refinement and half of `ToldInv`. `PassInv` says that a
track in the middle of a pass has `started`, has its last step before its
counter, and has been given what it still plays, so only a loop start can change
it. `ToldInv` adds what `tp_queue` has read; `ReadyInv` says that a prepared
step is still what `tp_peek` would answer. For the refinement, a tick's loop
starts are the `starts` of `Step` (`TickMaps`), the gesture's write is `Ask` with
the wish it leaves (`WriteMaps`), a change is seen as one wherever it lands
(`ChangeMaps`).

A change queued lands where the track's raw counter is not above its last one
(`tp_step`), and a raw counter of 0 never is: a track the tick leaves waiting was
not at 0 (`TickNears`). The MASTER LENGTH sets every counter to 0 and its rest is
shorter by the step; a track that wraps by its own length is at 0 earlier. All
else that moves a counter, PLAY, sets it to 0 (`OthersNear`).

### FREE LOOP

`FreeLoopProofs` and `FreeLoopHistoryProofs` prove about `FreeLoop`, for loops
of any length, any settings, pedals, contents and number of UI ticks in a step.
`Apart` is `~Early` with no setting `under`, `InTime` is no setting `slow`:

| theorem | states |
|---|---|
| `FreeTypesHold` | `FreeSpec => []FreeTypeOK` |
| `LoopInvHolds` | `Apart => (FreeSpec => []LoopInv)`, the invariant behind the next one |
| `NeverWritten` | `Apart => (FreeSpec => []NeverWritesWhatPlays)` |
| `ClearedStays` | `FreeSpec => ClearedStaysEmpty`, whatever is cleared and when |
| `OwnNotStray` | `Apart => (FreeSpec => []OwnRecordingIsNotStray)`, for steps of any length |
| `NthKept` | `Apart /\ InTime => (FreeSpec => []NthStays)` |
| `HistoryHolds` | `Apart /\ InTime => (FreeSpec => HistorySpec)`, the refinement of `LoopHistory` |
| `MuteInvHolds` | `FreeSpec => []MuteInv`, the invariant behind the next two |
| `UnmuteStaysOwed` | `~Chained => (FreeSpec => []UnmuteIsOwed)` |
| `TakenAtLoopStart` | `~Chained => (FreeSpec => DueAtLoopStart)` |

**Assumptions.** `LoopAssumption`: a loop has two steps or more.
`TicksAssumption`, `NPassMaxAssumption`: the counts are positive, and a slow step
may last as long as an authorisation or longer.
`ContentsAssumption`: a cleared buffer and "nothing" are no recording.
`FreshAssumption`: besides any three loops there is a fourth, so a recording
never repeats one that is kept. `SettingsAssumption`: the settings are ones the
panel can make. Both halves of `Apart` are needed by the theorems about the
loops: *undo_early* violates `NeverWritesWhatPlays` with `Early`, *bank* with a
setting `under`. Nothing else does: with UNDO kept out of the step before a start,
and clears away from running recorders they do not wait for, no order of
presses, stops, clears, bank changes and slow steps makes an overdub write what
plays. `InTime` is needed by what is said of the loops' contents: a recording the
guard cuts for being late may take its loop with it. The clears and the mutes
need neither; the mutes need `~Chained`, as the run *replaced* shows, and a MIDI
channel, which `UnmuteIsOwed` names.

**The argument.** `LoopInv` is what `NeverWritten` rests on. `ClearsAlone`:
while a clear is due nothing is prepared, and one of everything finds the
recorders off; this is what `Apart` gives. `Passes`: the marks
of the engine have the shape its functions give them. `Recorders`: a recorder in
a pass is the one the engine means, except between the last step and the next
first. `Window`: a start that is prepared is the engine's pass, its recorder is
free, and after a UI tick the slot has the other buffer, which is why the voice
that takes the slot at the loop start is not on the buffer about to be recorded.
`RecordedIsFull`: what records has left something.

`ClearedStays` needs little: `EmptiedUncut`, a buffer that is empty while a
recorder of it runs has that recorder among those no clear has waited for.

`StrayInv` has the count of the stray guard: while a start of the track's own
recorder is prepared in time, what is left of the authorisation and the ticks
since the gate come to `AuthTicks` at least (`Authorised`), so it outlasts the
step unless the step is longer, which `late` records.

`HistInv` adds `TwoLoops`: the buffers hold two different loops, the marked one
is the one that was marked, a buffer that was never recorded into is neither
played nor gone back to. Each step is then a step of `LoopHistory` or a
stutter. The gate at the last step ends one pass and begins another: `Commit`,
`Begin` or a stutter (`GateSound`, `PrepareHist`). A recorder that starts is a
`Record` if it records in place and a stutter if it records a buffer the track
is not on (`LoopBeginsHist`). A free take is a `Record`, UNDO an `Undo`
(`Swaps`), a clear a `Clear` (`Wiped`); all else leaves both loops as they are
(`MovedHist`).

`MuteInv` is the types with two facts about the mutes. `Heeded`: while a
mute waits for a loop start the step handler looks at the track (`qany`) and,
once the sequencer has stopped, a UI tick has yet to see it. `OwesUnmute`, where
no REPLACE pattern lands during a REPLACE pass: a track that such a pass has
muted goes on to be unmuted, and the next pass is asked for only when the last
one owes nothing. Most functions of the engine leave the mutes as they are or
bring them forward (`Eases`), so one lemma takes care of each.

### Only model-checked

Liveness under fairness is out of the prover's reach. Each liveness property
stands beside a theorem that carries its argument; what is left to TLC is that
the steps which make the progress are taken:

| model-checked | theorem beside it |
|---|---|
| `Settles` | `PumpNearsRest` |
| `WantedIsLoaded` | `WantedKeepsItsPlace` |
| `SlotsSettle` | `OneFrameEnough`, with `LoaderIsPump` and `PumpNearsRest` |
| `QueuedLands` | `QueuedNearsLoopStart` |
| `EndComes`, `ReplaceHeardAgain` | `TakenAtLoopStart`, `UnmuteStaysOwed` |

Every other property of a passing run is a theorem.

## 9. What the models leave out

- Of the demand loader: the diagnostics counters (`dl_dg`, the copier's), the
  formatter of the key display (`dl_keyfmt`), the text of toasts, the register
  protocol of `dl_xfer`, `dl_core`, the hook stubs, the DSP registers a stub
  keeps across calls.
- Of the Part service: the cold gates and activation (`part-entry.s`), the
  readers of the current contexts (`part.s:10-92`), the MIDI adapters
  (`part.s:210-255`), the NOTE SETUP refresh (`part-setup.s`), the layout of the
  windows and the packed snapshot (`parts.py`), the clients' callbacks; a power
  cut between the stores of a write.
- Of TRACK PATTERNS: what the LED pass draws, the text of the toast, ids out of
  range (folded to 0 by the code), and `tp_restart`, which nothing calls.
- Of FREE LOOP: the tempo and length of a take (`fl_tempo`), the PLAY entries,
  the kept copy of an undone in-place pass (`keep_buffer`), the trim of a take,
  the recording setup lent to an UNDO buffer, the popup and the toasts, fades,
  the settings, their screens and their file; tracks without a role; a second
  looping track.
- The components the table in section 1 lists and the plan does not: DSP effects
  and synthesis engines are numeric; REMIX SWITCH and KITS are mostly file I/O
  whose other half, the stock firmware, is not in the repository; the composer
  and the tools are sequential programs with gates of their own.

## 10. Findings

Four runs show the code disagree with a comment or a document.

- *lost* (document): a load is sent three times, a withdrawal once. In a build
  with `PHASE=ANY` a lost withdrawal leaves the old code BOUND while its block
  is given away. The PING0 build, the default, does not lose it.
- *undo_early* (code): UNDO in the step between the gate's decision and the
  recorder's start drops the pass but not the start. The recorder runs unknown
  to the engine; after another REC the UI tick takes it for the new pass's, and
  the voice ends on the buffer its recorder writes, against `freeloop.h:31-32`.
- *bank* (code): a bank change clears everything in the UI tick that sees it, but
  stops only a free take's recorder (`adapter.c:917-929`). An overdub's runs on.
  With ENTRY ARM the gate prepares a new pass into the same buffer, the UI tick
  takes the old recorder for the new pass's start (`adapter.c:988`) and moves the
  track there, and the voice plays the buffer as it is recorded, against
  `freeloop.h:31-35`.
- *replaced* (code): a second REPLACE pattern during a REPLACE pass overwrites
  the owed unmute with the next mute; a STOP or an UNDO in the step before the
  loop start then leaves the track muted, against `README.md:185-186` of the
  module.

Seen while modelling, and in no run of their own:

- The pass queues `EVICT <effect> 1ST` for a loaded effect under a reverb without
  asking whether a track still uses it (`pump.s:198-210`); the same pass
  withdraws an unused one (`pump.s:262-264`), so the user is asked to evict an
  effect that is gone. `DEMAND_LOADER.md:75` has the effect stay loaded. For an
  effect in use `UsedHoldMeansHeld` shows the toast true.
- Both toasts are "shown once per collision" by `DEMAND_LOADER.md:77`, but they
  share one cell, `dl_pend`: of two collisions found before a page key is pressed
  only the later one is shown, and the flag of the other says that it was.
- A load between the veto and the choice may make the veto's answer wrong. For
  example, DARK is chosen on the FX2 slot of T3 with nothing loaded; the veto
  lets it through; an effect with homes on T3 and T4 arrives with another
  load of ids and is loaded on T3, with a reverb on T4; then DARK goes live, and
  the effect is stranded under it. `VetoStands` therefore asks that nothing was
  loaded in between (`alone`).
- The FX2 chooser lets an effect through on the slot of its home's track because
  the choice "replaces the reverb" (`pump.s:464-466`). When the block is held by
  another effect's code there is no reverb to replace and the effect stays dry.
- Nothing reserves the home a demand effect is withdrawn to move into
  (`pump.s:281`): another may take it within the `DEBOUNCE` passes before the
  load.
- TRACK PATTERNS, stopped with a change still queued (queued while playing, then
  STOP): `tp_peek_pattern` answers with the pattern the track played, PLAY's
  first step lands the queued one. `adapter.c:100-102` says a queued change has
  landed by then.
- FREE LOOP's stray guard gives a recording `FL_AUTH_TICKS` = 30 UI ticks, half
  a second at the 60 ticks `adapter.c:205` implies, where its comment says 1 s. A
  gate decides one step ahead, and a step at 1/4X or 1/8X, scales the module
  picks itself (`freeloop.c:13,27-37`), may last longer: the guard then stops the
  recording it let through. An authorisation counted while the guard's mark is
  still RUN (the recorder's end and the next gate between two UI ticks) is
  dropped, with the same effect. `OwnRecordingIsNotStray` has both as its
  exceptions, and the run has settings in which they happen.
- A recording that starts late on a track that has no loop yet is marked
  `AUTH_STRAY`, and its end clears X (`adapter.c:864-884`).
- UNDO of a pass followed by a clear before its recorder has faded out:
  `pass_recorder` no longer names that recorder, so the clear does not wait for
  it, and the cut take is left in Y (`adapter.c:964-987`). CLEAR ALL and a bank
  change empty buffers under running recorders (`adapter.c:923-926`).
  `ClearedStaysEmpty` shows that nothing else refills a cleared buffer.
- A REPLACE entry dropped by UNDO leaves `repl` set: the next REC is a REPLACE.
- Between a pedal's reading of the engine for `fl_qany` and its store a gate may
  ask for a REPLACE pass's mute (`adapter.c:465-467`): the store puts the flag back
  to 0, and the step handler does not look for that mute until something sets
  the flag again. A loop start between an END and the store is missed in the same
  way, and the END comes a loop later.
- `mute` returns at once for a track without a MIDI channel
  (`adapter.c:241-243`), so the unmute after a REPLACE pass (`FL_RP_NOW`) is lost
  there: the track stays muted, against `README.md:185-186` of the module. The
  properties about the unmute are of tracks that have a channel.
