# CrossInk: a verification project

TLA+ models of the e-reader firmware in this repository, the TLC runs that check
them on small instances, and TLAPS proofs about all of them. The reference is the
code; paths below are relative to the repository (`src/activities/...` is the firmware,
`lib/...` its libraries, `docs/...` the user and developer documentation). In
`PROJECT.json`, `map` names the lines each definition stands for.

## 1. The system

The firmware runs on an ESP32 with one application task (`setup()`, then `loop()` for
ever), one *render task*, the radio's callbacks and an SD card. Everything the user sees
is an *activity*; almost all interesting behaviour comes from how activities hand control
to one another, from what two tasks do at the same time, from what is written to a card
that may fail or lose power, and from what two devices say over a lossy radio.

| Component | State it keeps | Operations | Hard behaviour | What makes it correct |
|---|---|---|---|---|
| **Activity manager** (`ActivityManager.cpp`) | current, pending and stacked activities, pending action, result handlers, rendering mutex, waiting task, deferred-update flag | push, pop, replace, result handlers, `requestUpdate`, `requestUpdateAndWait`, `goToSleep`, the drain loop, the render task | two tasks; requests made inside callbacks of earlier requests; blocking on a paint | nothing painted after it is destroyed; one owner per activity; every request servable; results to the right handler; no lost wake-up; an update shown |
| **Nearby book transfer** (`NearbyBookTransferActivity.cpp`) | two state machines, session and chunk numbers, retry counts, part, backup and final files | discover, offer, accept, chunk and acknowledgement, complete and result, cancel, commit | lost packets, time-outs against late answers, failing renames, power loss | the receiver's card always has whole books; no book lost; both ends in step; both ends terminate |
| **Reading statistics** (`GlobalReadingStats.cpp`, `BookReadingStats.cpp`, `StatsBackup.cpp`) | file, backup, temporary file; copies in RAM in up to two activities | load, save with rotation, reset, edits, aggregation | power loss between renames; newer file formats; stale copies written back | a save is atomic; a newer file is kept; what was read is counted |
| **Boot, restart, sleep** (`main.cpp`, `SilentRestart.h`, `boot_sleep/`) | restart token in RTC memory, quick-resume flag, load count of the reader | `setup()`, silent restart, deep sleep | a crash at any line of `setup()` | no reboot loop; one-shot flags are one-shot |
| **Nearby statistics sync** (`NearbyStatsSyncActivity.cpp`) | per-peer flags, snapshots of peers | hello, record and acknowledgement between readers, time-out, resending | rounds and peers mixed up, queue overflow, restarts of finished readers, power loss | what is shown as synced was stored; no record is replaced by an older one |
| **Nearby position sync** (`NearbyBookPositionSyncActivity.cpp`) | one position | a smaller exchange of the same kind | the same | the same |
| **Dictionary lookup** (`DictionaryLookupWorker.cpp`, `...Controller.cpp`) | the worker's owner, per screen a state, a result and flags | start, cancel, publish on a worker task, prompts, suggestions | a controller destroyed, or used again, while its worker runs | no use after free; a running lookup is left alone; the answer fits the question; every lookup ends |
| **Firmware update** (`OtaBootSwitch.cpp`, `FirmwareFlasher.cpp`, `OtaUpdater.cpp`) | two boot-selection entries, two partitions, the stage of the update | validate, flash, download, erase, write, switch | power loss at any step, a card swapped, unconfirmed images | there is always a whole image to start, and the right one |
| **Readers and progress** (`EpubReaderActivity.cpp`, ...) | position, footnote origins, save debouncer, progress file with backup, restart token | turns, jumps, footnotes, relayout, save, hand-off, restart for memory, exit | two tasks, failing saves, power loss, many ways out | a reader reopens where it was, at most ten pages or five minutes back after a power loss |
| **Settings and stores**, **screens**, **web server and USB**, **KOReader sync**, **input**, **rendering**, **formats and page cache**, **hardware layer** | small files, widgets, sockets, caches | load/save, drawing, parsing | mostly sequential code, I/O or data processing | not state questions; see section 8 |

Interaction: activities call the manager; the manager calls `onEnter`, `loop`, `onExit`
and result handlers on the main task and `render` on the render task. Both nearby screens
are activities whose radio callbacks only queue packets that their `loop()` handles.
Readers and the statistics screen share the statistics file and nothing else, and
are ordered by the manager: a *Replace* exits the current activity first and the
stack after it, without result handlers, which is what finding 3 below is about.
The lookup controllers live in screens the manager destroys, and a reader's `onExit` is
where its progress is saved.

## 2. Modules

| Module | Models |
|---|---|
| `NavigationStack` | abstract: a stack of screens of which the top one may be painted, and which does not change during a paint |
| `ActivityManager` | the two tasks of `ActivityManager.cpp`, `setup()`'s use of it, sleep |
| `ActivityManagerProofs` | its inductive invariant, six safety theorems, the refinement of `NavigationStack`, and three theorems about results and about waiting for the panel |
| `NearbyBookTransfer` | sender, receiver, the queues between them, the receiver's card |
| `NearbyBookTransferProofs` | its inductive invariant (card and packets) and eight safety theorems |
| `GlobalReadingStats` | the statistics file and everyone who keeps a copy of it |
| `GlobalReadingStatsProofs` | its inductive invariant, three theorems about the files, and two about what is counted |
| `ReaderProgress` | the page a reader remembers, from the turn of a page to the file and back |
| `ReaderProgressProofs` | its inductive invariant and theorems about the file, the restart and the loss |
| `FirmwareUpdate` | the OTA partitions, otadata, both ways of updating, the bootloader |
| `FirmwareUpdateProofs` | its inductive invariant and four safety theorems |
| `DictionaryLookup` | the worker task and the controllers of the screens that share it |
| `DictionaryLookupProofs` | its inductive invariant and four safety theorems |
| `NearbyStatsSync` | several readers that exchange their statistics, and their records of each other |
| `NearbyStatsSyncProofs` | its inductive invariant and three safety theorems |
| `MC...` | instances for TLC (symmetry of activity objects and of readers) |

### ActivityManager

*State.* The fields of the class under their names; `kind` says what each activity object
is (or that it is free), `awaiting` for which child each activity's result handler was
registered; `mainPc` and `callback` are the program point of the main task, `renderPc` that
of the render task, `woken` its local `waiter`. `renderNotified` and `mainNotified` are
the two FreeRTOS notification counts, of which the code only uses zero or not. `screen`
observes whether what the main task last wrote is on the panel.

*Actions.* `BootSplash`, `BootRoute`, `BootWait`, `BootDone` are `setup()`'s launches and
its waits; `PanelGesture` and `HomeGesture` the gestures `loop()` looks at first;
`RunActivity` enters the current activity's `loop()`. Inside any callback the
activity may do what the interface offers (`Navigate`, `RequestUpdate`,
`RequestUpdateAndWait`, `TakeRenderLock`, `WriteState`), until `Return`. `Drain` is one
round of the `while (pendingAction != None)` loop, of which a pop, a push and a replace are
separate alternatives, each atomic because the code holds the mutex and the
only other task touches those fields under it. `NotifyRender`, `EndOfPass` and `WakeUp`
are the rest of `loop()` and the return of a blocked call. `RenderTake`, `RenderBegin`,
`RenderRequests`, `RenderEnd`, `RenderWake`, `RenderRelease` are the render task between any two of its accesses to
shared state. FreeRTOS primitives are external: they are modelled by what they
promise (a mutex, a counting notification). `WriteState`, an activity changing what `render()` reads, may come
with or without `RenderLock`: `AlertActivity.cpp:10-18` and `NearbyBookTransferActivity.cpp:409-410, 446-447` do it
without, before a wait.

An activity is any sequence of calls; that covers all of them at once, at the cost
of one restriction: a callback makes at most one navigation request. That is the convention
of the activities in the tree; two in one callback are covered only in so far as
the second one comes from another callback of the same pass, which the model has.

### NearbyBookTransfer

*State.* The variables carry the names of the activity's fields with `s` and `r` in front.
A book is a sequence of chunk numbers, a checksum is equality of sequences; `part`, `backup`
and `file` are the three files of each destination name, of which there are two (the book's, and
the one *keep both* chooses). `before` observes the visible files when the offer was accepted.

*Actions.* Handling one packet is one action per packet type and side; timers
(`DiscoveryTimer`, `ApprovalTimer`, `ChunkTimer`, `CompleteTimer`, `ReceiveTimer`) may fire
whenever they are armed, for time is abstracted; users start, choose, accept, reject, leave.
`finishReceivedFile()` is cut at every storage operation (`Sync`, `DropBackup`, `SetAside`,
`Swap`, `RollBack`, `CleanUp`) so that power can fail in between. Of the packets a handler
sends any subset may be lost; a full queue drops. `ReliableTransferSession` and
ESP-NOW are external: the session is the cumulative sequence number the code reads.

### GlobalReadingStats

*State.* Three files whose contents are `None`, `Corrupt`, `Newer` or statistics;
`blocked` is `s_blockDestructiveSave`; `mem` is the reader's `globalStats`, `copy` the
statistics screen's. The statistics are two of the counters: pages, which only the
reader changes and only in RAM, and finished books, which both screens change. `counted`
observes what the user did, `base` and `whole` what the card held when the save began.

*Actions.* The steps of `saveToFile()`, each of which may fail; opening, turning, marking,
opening the statistics screen, editing in it, its save on the three ways out (`SaveStats`),
the two readers' result handlers (`ReturnToReader`), closing, marking in the browser, the
sync's save, the reset, deep sleep and power loss. Everything runs on the main task, so a
screen acts only when no save is under way. Tracking of statistics is taken to be on.

### ReaderProgress

*State.* A position is one number, chapter by chapter; `deb` is the debouncer, `files` the
progress file with its temporary file and backup, `job` what each of the two tasks is
saving and how far it has come, `drawing` the page the render task has painted but not yet
observed. A file can be one that a task has open (`TornBy`) or one left half-written (`Torn`). `settled`,
`behind`, `stored`, `raced` and `expected` are observers: the page seen, how many new pages since the file held it,
the positions the last save may have left, those of saves that overlap, where one who has just left may expect to
reopen. `format` tells the EPUB reader, which rotates its file, from the TXT and XTC readers, which overwrite it.

*Actions.* Turns, jumps, footnotes and their return, relayout on the main task; `RenderPage`,
`BuildFails`, `SectionFails`, `ObserveShown`, `RestartForLowMemory` on the render task, between which the main
task may turn the page (it does so without the lock within a section). `SaveStep` is
`saveProgress()`, cut at each card operation, each of which may fail or be the last before a
power loss. `SaveForHandOff` is the save before synchronising, sending or file transfer: it takes no lock, so its steps
interleave with those of the render task's own save on the same three files. One task may remove or rename
what the other has open; the bytes then reach the file under its new name (`Sync`), a file that is gone
cannot be renamed, and nothing is renamed over a file (`CanRename`). `RestartForLowMemory` has the three callers:
next to a loaded section (5134-5141, 5207-5211) the page before is saved, at the first layout (4911-4919) the page wanted
itself or the last one laid out. `Exit` is all of `onExit()`. That five minutes are over is a free choice.

### FirmwareUpdate

*State.* `part` holds the blocks of the two partitions, `otadata` its two entries with sequence
number and state, `running` the partition booted from; `stage` is where the update is.
`want` is the image validated, or the one the release manifest pins. `changed` and `tainted`
observe that the file on the card was swapped after its last validation.

*Actions.* `Pick` to `FlashBlock` from the card; `StartDownload` to `FinishDownload` over the
air; `EraseEntry` and `WriteEntry` are `switchTo()`, cut between its two flash operations; the
comparison of sequence numbers and the choice of slot are the code's. `Reset` is a restart or
a power loss at any step, and what the bootloader does then; it is external, as is
the confirmation of a new image by the Arduino core. `esp_ota_set_boot_partition`, which the
download uses where the card uses `switchTo()` (although `OtaBootSwitch.h` says that both
do), is modelled by the same two steps.

### DictionaryLookup

*State.* `stack` are the controllers of the open screens, named by address, which a later
controller may have again; `ctl` what is in them; `owner`, `notified` and `local` are the
worker's `owner_`, its notification and what `run()` has read. `main` is the main task: in its
loop, waiting in `onExit()`, or in the second of an error popup.

*Actions.* The worker is cut at each of its accesses to shared flags, `Publish` before `Clear`
among them. `handleInput()` is one action per branch. A found word opens a definition screen
above the screen it was looked up from, or replaces the definition in place. What the files
answer is a free choice. Screens are left in any state.

### NearbyStatsSync

*State.* `dev` holds the activity's flags per reader, `queue` its event queue with the overflow
flag, `storing` the step of `writeSyncedStatsFile()` it is at; `record` and `part` are the files
of each other reader. Statistics are version numbers. `base` observes everybody's
version when the round began.

*Actions.* One per packet type, per step of the file, for the overflow, for resending and the
time-out, each side symmetric; rounds begun by Sync or by a packet (`Joined`). A packet may be
lost or find the queue full. Rounds have no number in the packets, so left-over packets of
an earlier round are handled like new ones, as in the code.

## 3. Runs

| Run | Question | Result |
|---|---|---|
| `am_core` | do all interleavings of the two tasks keep stack, ownership, lock and wake-up right, and implement `NavigationStack`? | yes |
| `am_live` | does a synchronous update return, is a deferred one painted, is a navigation served? | yes |
| `am_handler` | does a result always go to the handler registered for that child, with the frontlight panel? | **no** (finding 1) |
| `nb_core` | whole books, no lost book, failures that change nothing, both ends in step, every wait bounded, with loss, failures and power loss | yes |
| `nb_stuck` | does a sender always finish? | **no** (finding 2) |
| `gs_core` | is a save atomic, is a newer file kept, is every page counted with the EPUB reader? | yes |
| `gs_edits` | is every finished book counted? | **no** (finding 3) |
| `rp_core` | does a reader reopen at its last save, or at one of two that overlapped, is that at most an interval old, does a restart for memory not move the reader on? | yes |
| `rp_exit` | does a reader who leaves reopen where it was left? | **no** (finding 4) |
| `fw_core` | is there always a whole image to start, the old one until the switch and the new one after? | yes |
| `dl_core` | is no controller used after it is gone, does every lookup end, with the right answer? | yes |
| `ss_core` | does Synced mean stored in both directions, and does a record only ever advance? | yes |

Properties and what they say of the code:

- `RenderTargetIsCurrent` (use after free in the render task), `OneOwner` (leaks, double
  ownership), `RequestIsServable` (the drain loop never spins or pops nothing),
  `WakeUpIsComing` (no lost wake-up, no self-deadlock), `HandlerMatchesChild`,
  `FrameIsComing` (no write of a waiting task stays unpainted), `ImplementsNavigation`; `WaitReturns`, `UpdateIsPainted`,
  `NavigationIsServed`.
- `WholeFilesOnly`, `BookSurvives`, `SuccessMeansStored`, `InStep`, `CompleteIsTrue`,
  `AcceptedWhenShown`, `FailureKeepsFiles` (a transfer that fails replaces no file and leaves no
  part file), `EveryWaitEnds` (approval and chunks are settled or given up); violated:
  `SenderFinishes`.
- `SaveIsAtomic`, `NewerIsKept`, `PagesAreCounted`; violated: `BooksAreCounted`.
- `ReopensAtLastSave`, `LossIsBounded`, `RestartKeepsPlace`; violated:
  `ExitKeepsPosition`.
- `AlwaysBoots`, `SelectedIsWhole`, `InterruptedUpdateKeepsImage`, `FinishedUpdateStarts`.
- `NoUseAfterFree`, `LookupIsUndisturbed`, `ShowsWhatWasAsked`; `LookupEnds`, `ExitReturns`.
- `SyncedIsMutual`, `RecordsOnlyAdvance` (a record is only replaced by the other reader's statistics as they are, or
  forgotten by a fault).

Each property of a passing run has a mutant in `PROJECT.json`: a plausible bug (the drain
loop without its lock, a notification forgotten, an acknowledgement taken for any chunk, the
backup removed and not rotated, the boot entry written over the active one, the wait in
`onExit` for the result and not for the worker, a round that inherits the flags of the last)
under which TLC finds it violated. Each module has its mutated operators beside
the definitions they replace.

## 4. Bounds and why they are enough

- `am_core`: four activity objects and two chained navigations, no panel. A stack of two with a current and a
  pending one is the smallest state in which a push, a pop and a dropped request differ from each
  other at each end of the stack; nothing in the code looks deeper than one below the top.
  Objects are symmetric. The panel is left to `am_handler`, because it breaks `HandlerMatchesChild`.
  The safety properties and the refinement are proved for any number of objects and chained navigations.
- `am_live`: two objects, one hop, with the panel and no symmetry
  (unsound for liveness).
- `am_handler`: three objects suffice for the counterexample.
- `nb_core`: two chunks (a first, a last and a difference between them), two sessions (packets and part files of
  an earlier one), queues of three, one retry of each kind, an existing book, a card
  that may fail. A free destination is reached through *keep both*. The safety properties are proved for any number of these.
- `nb_stuck`: queues of two, two retries, one session and no storage failures: it asks
  about retries only.
- `gs_core`: two pages and two books, so that losing one and losing all differ; one fault.
  Its properties are proved for any number. `gs_edits` allows no fault at all.
- `rp_core`: two pages of one chapter and the end screen, an interval of two (so that a first change, a
  change that makes a save due and one after it differ), one footnote, one fault, saves that overlap or not.
  `MCReaderProgress` bounds the run by a CONSTRAINT: saves overlap only while no origin of a footnote is remembered
  (a save reads none, and a footnote is followed only when neither task is saving). Two
  faults, one in a save and one in the next, do lose the position. The same properties hold with three pages, without
  footnotes and faults (4.8 million states; not kept as a run). Proved, as long as saves do not overlap, for any book and any
  interval above one.
  `rp_exit` is the same without faults.
- `fw_core`: two images of two blocks, sequence numbers up to five: both entries are written
  more than once, in both parities. Proved for any number.
- `dl_core`: three addresses for at most two open screens, so that one may be reused or not; two words.
  The safety properties are proved for any number.
- `ss_core`: two readers, queues of four (the code has eight; a round puts up to three packets in at once),
  three openings, two rounds begun by hand, one packet lost, one resent, one fault. A CONSTRAINT in
  `MCNearbyStatsSync` allows two of these three mishaps while screens have been opened twice (so that a packet
  may be lost and resent) and one of them after the third opening. With a queue this
  small overflow is reached; more packets can only be lost in more ways. The safety properties
  are proved for any number of readers and rounds.

Other bounds: `Sessions` limits how often a sender is started, `QueueLength` the packets
under way, `MaxHops` the navigations in one pass of the drain loop (the counter saturates
in the state and requests stop there).

## 5. Fairness

`ActivityManager`: weak fairness of boot, of the main loop, of giving back a held mutex and
of the render task, because FreeRTOS schedules both tasks for ever; strong fairness
of a callback's return (activities do return from `loop()`, but may keep making requests
first), of the drain and of the render task's turn on the mutex, because FreeRTOS queues
waiters by priority and arrival, so the other task does not overtake for ever. Nothing of
the user, and a device that sleeps need not wake.

`NearbyBookTransfer`: weak fairness of handling a queued packet, of the timers, of painting,
and of the storage steps: all are polled by `loop()`. Nothing of the radio: every
packet may be lost, and the liveness properties hold all the same. Nothing of the users.

`DictionaryLookup`: weak fairness of the worker, of the main loop's polling of a finished lookup, of
the wait in `onExit` and of the popup's end. Whether the user does anything is left open.

The other modules state no liveness: an update, a reader and a sync go on only as
long as their user wants them to.

## 6. Proofs

Proved with TLAPS, for every value of the constants that the named assumptions allow:

*`ActivityManagerProofs`* — `TypeCorrectness`, `NoUseAfterFree`, `RequestsServable`,
`SingleOwner`, `NoLostWakeUp`, on `Invariance`: `Spec => []IInv` with
`IInv == TypeOK /\ Locking /\ Painting /\ Serving /\ Ownership /\ Waking`. None
of the five is inductive alone. `Locking` ties the mutex to the program counters, and
from it follows that the drain cannot change `currentActivity` during a paint, which is
`Painting`. `Serving` adds to `RequestIsServable` that only while booting or going home the
screen is empty; without it a pop could leave a request without a current activity. `Ownership`
states ownership positionally (no activity in two places), because adding up
cardinalities is not inductive in a form the provers can use; `SingleOwner` then derives the count.
`Waking` follows the waiter from the handle to the render task's local and to the notification.
The lemmas about `Front` and `Last` are stated once. Each part has its own step lemma, with
one case for each action that disturbs it.

`ManagerImplementsStack` is the refinement: `currentActivity` on top of `stackActivities` is the
stack of `NavigationStack`, `rendering` its painter. Each alternative of the drain maps to the abstract
operation of that name, and everything else to a stutter or to the begin or end of a paint; that
no navigation happens during a paint is `Painting` again, that a push does not put the same
screen twice on the stack is `Ownership`. One lemma more is needed, `Bare`: without a current activity there is none
below.

`ResultsReachTheirHandler` and `WaitReturnsToThePanel` hold under a condition on steps, which is weaker
than the constants of `am_core` and says exactly what the code lacks. The first one: as long as `GestureDropsNoChild`,
the gesture for the quick panel does not come while the current activity has asked for a child;
then whoever waits for a child waits for the one right above it, on the stack or still pending
(`Handlers`). So the hole of finding 1 is the only one, on every board. The second one: as long as `WritesUnderLock`, what
`render()` shows is written under `RenderLock`; its invariant `Shows` says that a frame begun is of the state
written last (`FreshDraw`), that there is one wake-up at a time (`OneWakeUp`) and that it is under way only
when the panel shows that state (`WokenWhenShown`). Two activities do not keep to that condition, so `RenderedMeansShown` is
false of the firmware as a whole and no run checks it (section 7). What holds for all of them is `WrittenIsPainted`: while the
main task waits, the frame that will show what it wrote is drawn or asked for (`FrameIsComing`, inductive together with
`Serving`). `ResultsWithoutPanel` derives what the run `am_core` checks of results: without the panel the first condition
always holds.

*`GlobalReadingStatsProofs`* — `TypeCorrectness`, `AtomicSave`, `NewerSurvives`, on `Invariance`
with `IInv == TypeOK /\ Saving /\ Keeping`. `Saving` says where the old
statistics are at each step: in the file until the rotation and in the backup after it, and
that the temporary file is complete before anything moves. `Keeping` says that a save under way implies
that the file is not a newer one, nor what a rollback would restore, and that a reader open
above a newer file has set the flag. `AtomicSave` has a hypothesis the code needs: the old statistics were
in the file itself when the save began; if only the backup had them the first step
removes them.

`PagesReachTheFile` and `BooksReachTheFile` follow what was counted (`Counting`, `BookCounting`): it is in the reader's
statistics while the reader is open, then in those being saved, then in the file. For pages the condition is `EpubReturns`:
it is the EPUB reader that returns from its statistics screen; `EpubPagesReachTheFile` derives
what `gs_core` checks. For books it is `NoMarkForgotten`: when the stack is replaced below a statistics screen, the
reader knows of its marks. This is exactly what finding 3 is about: there is no other way to lose a book.

*`NearbyBookTransferProofs`* — `FilesAreWhole`, `BookIsKept`, `SuccessIsStored`, `EndsInStep`, `CompletesAreTrue`,
`AcceptAfterPaint`, `FailuresKeepFiles` and `TypeCorrect`, on `Invariance` with `IInv == TypeOK /\ Card /\ Packeting`.
`Card` is the receiver's half: what is in the part file, and at each step of a commit where
the old book is (`Replacing`: in the file, then in the backup until the new one is in the file). `Packeting` is
about the packets. The sender only moves forward, so that its packets have a *rank*
(discovery, offer, chunk by chunk, complete, cancel; then the next session); none in the queue is ahead of the sender
(`NotAhead`) and the queue is in the order of ranks (`InOrder`). From this one can tell what a
packet left over from before can still do: once a chunk is acknowledged, the
session is never offered again (`NotOfferedAgain`), so that acknowledgements never run ahead of what was received
(`Together`); behind a Complete there is nothing that would begin it again (`AllReceived`); and when
the receiver has reported success nothing is under way that would make it replace the book (`StaysStored`). None of this is
in the properties, and `SuccessMeansStored` is not inductive without it. Loss and overflow only remove packets, which keeps
every part; power loss of the receiver and left-over packets of any number of sessions are among the steps.

*`NearbyStatsSyncProofs`* — `SyncedMeansMutual`, `RecordsAdvance` and `TypeCorrect`, on `Invariance` with
`IInv == TypeOK /\ QueuesOK /\ Current /\ AcksAreTrue /\ NotesAreTrue`. Packets of the sync carry no round, so an
acknowledgement may be one of an earlier round. It is true all the same: a reader whose screen is open is
not read in, so what it has prepared or sent, in whichever queue or being stored, is what it has still
(`PreparedIsCurrent`, `SentIsCurrent`), and whoever acknowledged it holds it (`AcksAreTrue`, before a
fault). `SentIsCurrent` holds after faults too; with `RemovedIsGone`, there is no record between its removal and the
renaming of the new one, it gives that a record is only replaced by what is current or forgotten (`RecordsAdvance`).
Each action of one reader is first shown to do no more than a few things (`Alone`, `SendsOwn`, `OwnState`, `OwnRecords`), and the
invariant is preserved by anything of that shape.

*`ReaderProgressProofs`* — `TypeCorrect` on `Invariance` (`Spec => []Types`) holds whatever overlaps.
`LastSaveIsReopened`, `RestartKeepsThePlace` and `LossBounded` are about the behaviours in which `Apart` holds: while
the main task saves, the render task neither saves nor is between a paint and its observation. The code does not
see to that (`EpubReaderActivity.cpp:3391` and the other hand-offs save without the lock): the theorems say for any book and any
number of faults what happens without an overlap, and `rp_core` says on its instance what happens with one.
`ApartInv` says who saves and what a
format does (`OneSaver`, `ByFormat`), that the EPUB reader never saves the end screen (`InBook`), and
where the last save is at each operation on the card (`SavedSoFar`, `KeptWhole`, `KeptAfterFault`: a fault
between the rotation and the last rename leaves it in the backup until the next save). `TokenPlaced`, on which
`RestartKeepsThePlace` rests, says that an armed token has a page at or before it in the file itself; it needs
no bound on the faults, because the restart is only armed by a save that succeeded.
`LossBounded` adds what each task is saving (`Saving`), that the debouncer counts every page seen that is not the one in
the file (`Counting`), and needs
`Interval > 1`: the first observation of a session is never saved, so that with an interval of one the file is two
pages behind. The code's interval is ten.

*`FirmwareUpdateProofs`* — `DeviceAlwaysBoots`, `SelectionIsWhole`, `InterruptionIsHarmless`,
`UpdateTakesEffect` and `TypeCorrect`, on `Invariance`. `AlwaysBoots` is not inductive alone: one
must know that the running partition is never written (`RunningIsWhole`), that otadata selects
the running image until the other one is whole and its entry written (`SelectsRunning`,
`ReadyIsWhole`, of which `FlashedSoFar` is the induction over blocks), that only the active entry
may be unconfirmed (`EntriesSettled`), and that taking it back selects a whole image
(`FallbackIsWhole`). The lemmas about otadata say that erasing the inactive entry
does not change the selection, and that the number written has the parity of the partition and exceeds
the active one. All but `AlwaysBoots` suppose that no file was swapped while it was flashed.

*`DictionaryLookupProofs`* — `WorkerIsSafe`, `LookupsAreUndisturbed`, `AnswersFit`,
`SuggestionsAreMarked` and `TypeCorrect`, on `Invariance`. `Handshake` ties the notification, `owner_`
and what `run()` has read; `FlightIsTops` says that from hand-over to publication
the controller is the top screen's, which polls or waits for it; `ResultsFit` that a result
in a controller is always one of its present word.

The assumptions are types and disjointness of the constants (`InstancesAssumption`,
`FilesAssumption`, ...); TLC evaluates them on every run.

## 7. Only model-checked

Liveness, which is out of the prover's reach (temporal reasoning with fairness needs ENABLED):
`WaitReturns`, `UpdateIsPainted`, `NavigationIsServed`, `EveryWaitEnds`, `LookupEnds`, `ExitReturns`. Every other
property of a passing run is stated by a theorem; those of `ReaderProgress` only for behaviours in which the saves of the
two tasks do not overlap, so that overlapping saves are only model-checked. The properties of the four violated runs are false of
the code; for two of them a theorem says under which condition they hold (`ResultsReachTheirHandler`,
`BooksReachTheFile`), and it is the condition the finding breaks.

### Findings

1. `am_handler`: the frontlight gesture in the first pass after a routed boot drops the
   pending child; its parent's handler gets the panel's result.
2. `nb_stuck`: `sendComplete()` resets the count that bounds it.
3. `gs_edits`: a book marked finished in the statistics screen is forgotten when the device
   sleeps, or goes Home, from there.
4. `rp_exit`: a reader left at the end screen, or where a chapter could not be laid out, or
   with a footnote preview open, does not save where it was.

`PROJECT.json` quotes the lines of code and the documentation each one contradicts.

### What the models show beyond the runs

- `RenderedMeansShown` (stated in `ActivityManagerProofs`) as a property of `am_core` does not hold.
  `requestUpdateAndWait()` may be woken by a frame begun before the caller's write
  (`ActivityManager.cpp:561-597`), and `AlertActivity::onEnter` (`AlertActivity.cpp:10-18`) and the book transfer
  (`NearbyBookTransferActivity.cpp:409-410, 446-447`) write without the lock; `docs/activity-manager.md:220` promises
  the new state on the screen. `WaitReturnsToThePanel` proves that such writes are the only way.
- `gs_core` with `Readers = {"xtc"}`: `PagesAreCounted` does not hold. The XTC reader takes the
  statistics on the card when the statistics screen returns (`XtcReaderActivity.cpp:619-637`), where
  the session's pages are not. `PagesReachTheFile` proves that this is the only way to lose pages without a fault.
- `FailureKeepsFiles` leaves out a receiver that has succeeded: a Cancel that reaches it then
  (`NearbyBookTransferActivity.cpp:400`) shows a cancelled transfer whose file was replaced, against
  `docs/nearby-file-transfer.md:50-53`.
- Overlapping saves in `ReaderProgress`: when both are over, and nothing failed, the file or its backup is whole and has one of
  the two positions (`ReopensAtLastSave`). In the middle of them one task can rename the other's unfinished temporary file
  into place, so that a power loss or a restart there may leave no readable file; and the position left may be the
  older one, while both saves count as successful and the debouncer is satisfied: `LossIsBounded` makes no claim
  until the next save. Whether the card library lets one task rename what another has open is not to be seen in this repository;
  the model allows it.
- A restart at the first layout of a section (`EpubReaderActivity.cpp:4911-4919`) saves the page wanted, not one that is known to
  be readable; a reader for whom the layout fails again is back at the page that does not fit. `RestartKeepsPlace`
  says no more than that it is not beyond it.
- In `NearbyStatsSync` two readers can restart each other's finished round for ever (lines 413-415, 455);
  a power loss between closing and renaming a `.part` file leaves a whole one, which
  the aggregation counts beside the record (`GlobalReadingStats.cpp:331-350`); a failing rename
  after the removal loses the record.
- In `DictionaryLookup` a lookup begun between `Publish` and `Clear` is refused with an error about
  memory; a list of suggestions cancelled inside a lookup leaves the mark that records the next
  word as a suggestion (`DictionaryLookupController.cpp:382`).

## 8. Not modelled, and why

Within the modelled parts: a `Storage.remove` that fails where the code ignores its result in the transfer; packets
duplicated or reordered by the radio itself (the model takes ESP-NOW to do neither; the
retries of the protocol repeat packets, and are modelled); more than two destination names; real time; the strings
of an alert; failing reads of the statistics; the sums over synced files; which book is marked;
the number of pages of a chapter, which is saved with a position; memory that runs out, but for the
reader's restart and the lookup's popup; the version, size and chip of an image, and that a download erases with its first bytes and not before; a radio that
does not start, malformed packets and device names in the sync; the statistics' other numbers, and a
reader with its statistics switched off; the stem a word was found under.

Whole components: the nearby position sync is a second exchange like the statistics' one; the quick resume and
the crash-loop guard of `main.cpp` are one-shot values read in different parts of `setup()`, without concurrency. Drawing, fonts, parsing and layout, dictionary search and the small stores
are data processing or sequential load/save code; web server, USB, WebDAV, KOReader and OPDS are I/O against external
peers on one task; drivers, the Kindle port and vendored libraries are outside the project's
own logic. They are listed in `PROJECT.json` with the reason.

## 9. Plan

What is left, in the order of what it would add:

1. `ExitKeepsPosition` of `ReaderProgress` under the condition that excludes finding 4, as was done for
   findings 1 and 3: that what was shown last is pending in the debouncer with its section loaded, or in the file.
2. The tokens of `main.cpp`, composed with `ActivityManager`'s boot actions; the sleep screen against
   a navigation of the same pass.
3. `NearbyBookPositionSync`.

## 10. Running

In this directory: `tlc -config am_core.cfg MCActivityManager.tla` and likewise for the other
runs in `PROJECT.json`; `tlapm ActivityManagerProofs.tla` and likewise for the other `...Proofs`
modules. Only `ss_core` disables the deadlock check: its screens may all be closed with nothing
left to do within its bounds. Every other model can always take a step.
