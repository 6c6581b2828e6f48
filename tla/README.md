# A TLA+ model of BuildAI Serial Utility

BuildAI Serial Utility is a Qt 6 desktop program and a command line (`su-fw`) for
people who work with embedded boards: terminal sessions over serial ports and SSH,
and firmware tools that flash one board or a whole bench of them.  This directory
holds TLA+ modules that model its core logic, the TLC configurations that check
them on small instances, and proofs that TLAPS checks for every instance.

Paths below are relative to `src/src/` of the repository unless they say otherwise.

## 1. The system

Almost everything runs on one thread, the Qt event loop: a handler runs to its end,
then the next event is taken.  What makes the program hard is not shared memory but
what happens *between* two events: external processes (`adb`, `upgrade_tool`), USB
devices that re-enumerate, timers, the owner's clicks, questions that run an event loop
of their own, a worker thread per SSH connection, a second program on the same files,
signals that call back into the object that emits them.

| part | state it keeps | operations | what makes it correct |
|---|---|---|---|
| `firmware/FleetFlasher` mapping | the picture before a reboot, the board being mapped, ports and LocationIDs learned | selection, baseline, reboot, poll, confirm, reconcile, stop, cancel | a board is bound to its own device or not at all; nothing that was not learned is reset |
| `firmware/FleetFlasher` writing | stage and slot of every board, rows written, the LD gate, the agenda of the handlers | re-check, WL, RL, RD, ADB wait, cancel and drain, closing picture | LD never next to a writing tool, complete writes only, a run always ends, the report tells the truth |
| `firmware/FirmwareJob` operations | the running operation and its step, what each collaborator was asked, `firmware.lock` | pull, flash, MCU update, role, read, Pull & Flash, fleet, cancel, disconnect | the lock covers the work, a cancel ends, a result is true, nothing is left behind |
| `firmware/FirmwareJob` plan | the image, the board in view, its layout and product, the partition plan | choose, status, read, plan, flash, begin an MCU operation | the plan shown is of the image and board in view; no board loses its power unasked |
| `firmware/SocFlasher`, `BoardProfile` | phase, the adopted board, plan, extract folder, question | query, plan, flash, answer, cancel | writes what was judged, by the layout of its own board; a cancel cuts no write |
| `firmware/ToolRunner` | one process, its pipe and timers | run, write, cancel, detach | one true end, signals and input in order |
| `firmware/FirmwareCli` | the command line, its stages, the stops counted | parse, wait, ask, Ctrl+C, `--timeout` | the exit code is what happened |
| `firmware/McuUpdater`, `CcProtocol` | step, sequence number, retries, offset | probe, reboot, BEGIN, blocks, END, role, cancel | blocks in order, none lost or repeated |
| `firmware/McuLink` | state, generation, bridge, socket | open, close, loss, clean-up | one link at a time, nothing left on the board |
| `firmware/ImagePuller` | the cached images and their notes | pull, skip, rotate, roll back | what is skipped is what is there; a failure keeps the image |
| `firmware/Inventory`, `InventoryRecorder` | one JSON file under a lock | merge, write, set aside, `--expect-image` | no record lost; a board is skipped only for what it runs |
| `core/SerialConnection`, `Transport`, `SerialPortEnumerator` | state, port handle, settings, reconnect timer | open, close, live settings, vanish, reconnect | state and handle agree, reconnects come to an end |
| `core/BaudRateDetector`, `ui/SessionWidget` | candidates, scores, muted terminal | search, cancel, watchdog, replay | a search ends, the rate it leaves is the one it reports |
| `ssh/SshConnection`, `SshWorker` | two threads, two queues, the abort mark, prompts, one transfer | connect, host key, authentication, shell, transfer, reconnect | an answer reaches its question, bytes stay in their session, a copy is whole |
| `core/FileSender`, `dialogs/SendFileDialog` | position, three reasons to pause | start, pace, pause, drain-hold | every chunk once, in order, into an open port |
| `core/SessionLogger`, `LogReplayer` | open file, line position | start, write, stop, replay | a replay shows what the board wrote |
| `terminal/*` | decoder, parser, screen, scrollback, paused queue | feed, resize, pause, resume, select | no output lost, halved or reordered |
| `ui/MainWindow`, `dialogs/RemoteFileDialog` | tabs, questions; two paths and a home | close, quit; derive, switch, start | nothing is lost unasked; a file goes where it was meant to |
| stores (`QuickCommand`, `SshProfile`, `CommandHistory`, `AppSettings`) | lists | edit, load, save | what is loaded is what was saved |

Components interact by Qt signals (queued only across threads), by shared singletons
(`SerialPortEnumerator`, `AppSettings`), by files that two programs share (the
inventory, `firmware.lock`) and through the operating system: the tools, the USB bus
and the serial ports.  `PROJECT.json` lists every component, modelled or not, and the
hazards of this code, each at its line.

## 2. The modules

| module | models |
|---|---|
| `FleetCompare` | `FleetFlasher::compare()` and the table of its class comment |
| `FleetMapping` | selection, baseline, mapping, reconciliation, stop and cancel (`INSTANCE FleetCompare`) |
| `FleetWriting` | the writing phases, from the reconciliation to the report |
| `FirmwareJob` | the operations of one board, the pull over SSH with its worker thread, the lock |
| `BoardPlan` | what the job knows of the board and the image, and the plan made of it |
| `SocFlash` | the flash of one board by `SocFlasher`, on a bench (`EXTENDS BoardProfile`) |
| `BoardProfile` | the evidence for a board's kind, and the rules that refuse a write |
| `ToolRun` | one external command of `ToolRunner` |
| `CliRun` | one run of `su-fw` |
| `McuUpdate` | `McuUpdater` and the CC protocol, with the device at the other end |
| `McuBridge` | `McuLink`: the road to the MCU through a board |
| `ImageCache` | the cache of `ImagePuller`, one file operation after the other |
| `InventoryFile` | the inventory file, its lock and its recorder, in two processes |
| `Transport` | what a tab may rely on: states, auto-reconnect, connection lost and restored |
| `SerialConnection` | the port, its driver, its device, the polls of `SerialPortEnumerator` (`INSTANCE Transport`) |
| `SerialSession` | the tab: bar, connect, baud rate search, mute, watchdog (`EXTENDS SerialConnection`) |
| `SshSession` | the two threads of an SSH tab (`INSTANCE Transport`) |
| `SshTransfer` | one file transfer over it |
| `RemoteFileDialog` | the dialog of a transfer |
| `FileSend` | a file sent over the port, with its dialog |
| `MainWindow` | tabs, closing and quitting |
| `Utf8Stream`, `AnsiParser`, `TerminalRow`, `TerminalView` | the decoder, the control sequences, one row with wide characters, the lines and the view on them |
| `SessionLog` | the capture of a session and its replay |
| `MCFleetMapping`, `MCFleetWriting`, `MCSerialSession` | TLC instances of one module each; they name the groups of properties the runs check |
| `MCFirmwareJob`, `MCTools`, `MCSession`, `MCSessionData` | TLC instances of several parts |
| `FleetMappingProofs`, `FleetWritingProofs`, `FirmwareJobProofs`, `SocProofs`, `ToolsProofs`, `SerialProofs`, `SshProofs`, `SessionProofs` | theorems |

The four modules of the last kind but one put parts side by side that share no state in
the code: a behaviour is one of a single part, chosen by `which` (or `part`) when it
begins, the other parts rest in an initial state in which nothing of theirs is due
(`ToolRests` and `CliRests` say which), so that each part is checked as if it were
alone.  Parts that do share state are one specification: the port and the tab, the GUI
thread and the worker, the job and its collaborators.

Operators such as `StartToolUncounted` or `OpenAtOnce` stand beside the definition they
vary: each is a plausible bug, used to show that the property it is listed with in
`PROJECT.json` (`mutants`) can fail.

### FleetCompare

`compare()` takes two pictures of the bench - the ADB gadgets and download-mode
devices of the USB enumeration and the LocationIDs of `upgrade_tool LD` - and says
what happened between them.  A picture is a record of four sets.  `Compare` follows
the early returns of the code; `Row` is the table of `FleetFlasher.h`, one disjunct a
row.  `TableAgrees`: the table gives each pair exactly one verdict, and it is the
code's.  `ForeignExcluded`: devices that both pictures show change no verdict.

### FleetMapping

The bench is part of the model.  Device d sits on port d and answers, in a download
mode, to LocationID d, so that "the right device" is `port[b] = b` and
`locationId[b] = b`.  `at[d]` is where a device is; `shown[d]` is which of the three
views show it, and a view of the constant `Lag` may follow late (`CatchesUp`).  A
picture is two reads: LD first (`LdReads`), the enumeration when the result arrives,
as `takeSnapshot()` does; devices move in between.  `adb devices` reads the truth.

`step` is the one command that is in flight - the code has one at a time until the
mapping is over - and each `...Ends` action is the whole callback of that command.
`mapNext` is a step of its own only because several callbacks end in it; no other
event is possible there (`Idle`).  `step = "writing"` is the hand-over to
`FleetWriting`, `"done"` a run that ends without it.

Abstracted: the wording of details, the remembered ports, the order in which a reset
of several boards is started, the reasons why a layout is refused (one outcome each),
and retries inside adb.

### FleetWriting

All boards of the run are in Loader mode when the module starts.  A board walks
through Loader, Writing, (verify), Resetting, WaitingForAdb, ReadingInfo, Finished.
The code is a web of handlers that call each other in one event: a WL that ends calls
`requestCheck`, which may answer at once and start the next WL, or start an LD.  The
variable `agenda` is that call stack: a frame names the callee and the jobs it still
has to do, and an event is taken only when the agenda is empty.  One frame is one
call, so that the guards and the early returns of each callee are an action each.
The queues `gateWaiting`, `gateNext` and `afterGateLd` are sets: in which order a
handler serves them is left open.  The code's `if (ended) return` are guards of the
actions; a state in which the code would take that return is a deadlock of the model
and TLC would report it.

The bench has its own actions: `BrownOut`, `ComesBack`, `StrangerArrives`.  A port
hands out a new LocationID after each re-enumeration, up to `MaxGen`.

### Transport, SerialConnection, SerialSession

`Transport` is the abstract specification: the four states, the auto-reconnect flag and
`link`, which is `"lost"` between `connectionLost()` and `connectionRestored()` or the
next `open()`.  `SerialConnection` keeps the code's state (`m_state`, the handle, the
reconnect and BREAK timers, the once-per-outage flag, the baud rate of `m_settings`) and
its surroundings: `device` is in, out or powered off; `listed` is what the enumerator's
last poll saw.  A handle is `"reading"`, `"cut"` once its device has left without the
driver having said so, or `"deaf"`: after an I/O error QSerialPort stops its read loop,
and a fresh scan that still lists the port leaves the session as it is
(`IoErrorOfListed`).  Each handler is one action with the calls it makes: `Vanish` is
`handleDeviceVanished()` whoever calls it, `OpensPort`, `OpenRefused` and `OpenRejected`
are the ways out of `openPort()`.  A `sim` port is a `DeviceSimulator`, which cannot be
busy, refuses no rate and says at once that it reboots or powers off.

`PortSpec` leaves open who asks for a rate and what listeners of `stateChanged()` store
in a port that has just closed.  `SerialSession` closes that: its steps are the ones of
`SerialConnection` with the reactions of `SessionWidget`, `ConnectionBar` and
`BaudRateDetector` in the same step, as the signals are direct calls (`IsPort`).
`CancelledBy(Close)` is a disconnect with the `cancel()` that `stateChanged()` makes.
The board speaks at one rate, at none (`Binary`), or not at all; a sample is readable
where port and board agree.  A driver whose device has left, or whose read loop has ended,
takes a rate or refuses it (`Accepted`); `unrestored` remembers that a search has ended on
a rate its driver would not give back.

Abstracted: the line parameters besides the rate (`other` stands for "one of them
changed"), bytes (the rates at which they were received), the scores (readable or not),
both quiet times of the watchdog.

### SshSession and SshTransfer

`SshSession` is one tab on two threads.  `calls` are queued for the worker, `reports`
for the GUI thread, each with the generation of the `open()` it belongs to; beside the
queues the threads share only what the code shares under its mutex: the mark
`abortGen`, the answer `pending` of the one question asked, and the generations that
have bytes in `outgoing`.  The worker's `w` walks through the blocking steps of libssh
(connect, host key, the plan of authentication methods, shell), and a question is three
of its states: asking, checking the mark, asleep.  The GUI's `gui` is "idle" or the
handler that waits in `abortWorker()` for the mutex; questions carry no number in the
code, so the model numbers them (`w.q`, `pending.to`) for the properties alone.
`QuietAgrees` ties the two halves together when both queues are empty.

`SshTransfer` moves one file in slices of the worker's tick: over SFTP, with reads in
flight that may come back short, or through `cat` on an exec channel.  `board`, `final`
and `part` are what lies on both sides.

Abstracted: tunnels, banner, window sizes, byte counters, permissions, progress; libssh
itself, which answers as the world (`Worlds`) lets it.

### RemoteFileDialog, FileSend, MainWindow

A path of `RemoteFileDialog` is a directory and a name.  The module keeps which of the
two fields was derived and which was typed, the home of the host as the dialog and the
connection remember it, and the requests for it that are not answered.  `typed` is the
destination as the user wrote it, for the properties.  A press of `~` before the user
typed, answered afterwards, fills in the home: that is what he asked for, and
`TypedIsKept` leaves it out.

`FileSend` composes `FileSender`, its dialog and the write buffer of the port; a chunk
is its place in the file.  `MainWindow` has a `question` during which everything that
is not the user goes on (`Behind`), which is what a modal dialog of Qt does.

### Terminal and log

`Utf8Stream` is `decodeChunk()` with what `QStringDecoder` keeps back; `TextOf` is the
reference definition its result is compared with.  `AnsiParser` is the state machine on
classes of characters.  `TerminalRow` is one row and the cursor: what writes, erases,
shifts and fits cells, some of which are halves of a wide character.  `TerminalView`
has the lines, the scrollback and the alternate screen, and the scroll position,
selection and paused queue that refer to lines by number.  `SessionLog` writes a
capture token by token and replays it; boards that end lines with a bare LF are left
out, because `stripTimestamps()` is written for CR LF.

### FirmwareJob and BoardPlan

`FirmwareJob` coordinates seven collaborators by signals, and its slots call each other
while they run: `ssh->close()` may end the puller, whose end ends the step, which ends
the operation or starts the next step.  All of that is one event of the GUI thread.  So
`gui` is one record, a slot is an operator from that record to the next (`PullFinished`,
`StepFinished`, `EndOperation` ...), a nested call a nested operator, and an action is
one event: `Begin`, `Cancel`, `Disconnect`, `Fire`, `Deliver`, `FlasherEnds` ...  What
the environment decides within such an event is the parameter `way`: a step's own checks
let it go or refuse it, it is refused from the event loop, or it asks its owner, whose
dialog runs the event loop (`asking`).

Beside it runs `SshWorker` as a pull uses it: `gui.calls`, `answers`, `abortGeneration`
and `transfer`.  A single shot is a member of `timers` that carries the number of the
operation that started it, fires at any time later, and looks only at what the code's
lambda looks at.  `lock` is `firmware.lock`, which a second program may hold.  `made` is
kept for the properties alone: what the running operation's tools have really achieved.

`BoardPlan` is the other half of the job: which board is in view, what is read from it
once, what the owner remembers, and the plan made of that by a `SocFlasher` that makes
one plan at a time.

Abstracted: extra files, roll back, the destruction of the job, images without an
environment layout, missing tools, the silent refusals of link, puller and fleet, which
their `start()` cannot meet here; an operation that runs unguarded because the lock file
cannot be created; a slot of the result that starts the next operation from within it.

### SocFlash, ToolRun, CliRun

`SocFlash` has a bench of boards that change their mode on their own and an image file
that is rebuilt at any time.  A board is what its PID, its layout, its cmdline and its
product string tell.  WL, UF and RD carry no address, as in the code: they reach some
board in download mode.  A command's effect is taken when it ends.  A cancelled process
counts as gone: that `ToolRunner` really ends it is `CommandEnds` of `ToolRun`.  An
answer to a question is kept for its flow.  A plan made by `upgrade_tool PL` prints the
board's own table, and the owner's memory holds layouts of profiles only; an LD line
without a LocationID, a missing driver and a choice among serials are one outcome each.

`ToolRun` has the process as QProcess knows it and the command itself, which may ignore
a request to end; what is queued in the event loop is `posted`.

`CliRun` takes every short command line (`LinesOf`) through the stages of its command.
Its job is the one of `FirmwareJob` reduced to what `su-fw` sees of it.  There is no
event loop while it asks a question; a phase that waits for a board is not assumed to
end.  A signal that comes between the job's own failure and the poll that looks at it
turns exit code 1 into 5, in the code as in the model.

### McuUpdate and McuBridge

`McuUpdate` has both ends of the line: the updater's step, deadline and retries, and a
device with a bootloader, a line editor and an application.  Bytes may be lost and
answers late (`MaxFaults`); the sequence number wraps at `Numbers`.  A block is its
operation and its place.  `McuBridge` has the adb server's forwards and the board's
`rfmcu` processes, each with the generation that made it.  A command that `close()` cancels
runs on for its grace (`ToolRunner.cpp:240-250`), beside the clean-up and the next
`open()`; `watch()` drops its end (`Listened`), but what it does to the board and the adb
server is done (`Effect`).  So is the forward of a command that timed out or answered
without a port.  `untold` names the generations whose forward was made that way, `refused`
those whose clean-up adb refused.  `abandon()`, which runs when the program quits, is left
out.

### ImageCache and InventoryFile

`ImageCache` runs the renames of `putIntoPlace()` and of a roll back one by one; each
can fail, and the program can die between two.  Content, time and note of a build are
its number and two builds in a row can have one size, which is what `readNote()` looks
at.  `crossed` remembers the images a roll back has left beside the other one's note: its
notes could not be swapped, or the program died between images and notes.

`InventoryFile` has two processes that lock, read, merge and write.  A write is cut, a
process dies with the lock and the other breaks it, a file is damaged and set aside.
`unrecorded` remembers what the inventory was never told.  Left out: the takeover of a
lock that is held for more than 30 s, the `lastSeen` cache of up to 60 s, and columns
that no decision reads.

## 3. What the runs check

A property in a `.cfg` is often a conjunction of named parts that answer one question;
the parts are defined in the component's module, the conjunction in the MC module.

| run | instance | question |
|---|---|---|
| `map_disturbed` | 2 boards, 1 stranger on adb or in Loader mode, late views and boards, 1 fault, MASKROM, four kinds of layout, dry and real runs | does a bench without faults map; is what is reset learned; do code and table agree on every difference it decides on; does the end account for every device? |
| `fleet_run` | 4 boards, 1 row, 3 slots, LD before every write, 1 fault, no ADB wait | a skipped board untouched, no slot lost by a board or left idle while another waits, every check answered by a listing younger than itself, nothing started after a cancel |
| `fleet_closing` | 2 boards, 2 verified rows, 1 fault, the ADB wait, boards that reset back to adb or into Loader mode under ids of their own or new ones, a stranger | complete writes only, LD next to no writing tool, a closing picture and retry lines that are true, every device in Loader mode told of but for two named exceptions, and does every run end? |
| `serial_session` | 3 rates of which the driver refuses one, 2 candidates, boards at 2 rates, at none, silent; 2 departures, 2 failures, drivers that refuse a rate once their device has left; serial and simulated port | do state, handle and timers agree, is what a search took given back where the driver lets it, do searches and waits end, is the port a `Transport`? |
| `session` | five parts: an SSH tab with 2 worlds, 2 secrets, 2 generations, 1 failure; a transfer of 3 blocks with 2 reads in flight; the dialog with 2 hosts, 2 names, 3 edits; a file of 5 chunks with 2 disconnects; a window with 2 sessions, 6 moves | no lost wake-up, nothing of one `open()` in the next, exact copies, destinations that are meant, chunks in order, quitting leaves nothing, everything that begins ends, an SSH tab is a `Transport` |
| `session_data` | five parts: 6 bytes in chunks of 1 to 4; every short stream of parser input; rows of up to 4 columns; a screen of 1 or 2 rows, 2 lines of scrollback, 4 pieces of output, 2 in the paused queue; a log with 3 commands or restarts | is the screen the output however the link cuts it, do selection and view stay on their lines, is a replay the output? |
| `firmware_job` | three parts: two operations of five of the seven kinds (a pull is the first half of `pull-flash`, `set-role` runs as `mcu` does), a second program; an MCU update of 2 blocks, 2 retries, 4 sequence numbers, 1 fault, 2 runs; a plan over 2 images and 3 events | does the lock cover the work, is a result true, is nothing left behind, is what is flashed the package, does the plan fit image and board, does everything end? |
| `tools` | six parts: a flash on a bench of 2 boards with 2 images, 2 owner's choices and 2 events; a command with 2 inputs and 2 outputs; 3 links (each takes two generations), whose cancelled commands run on; 3 builds and 3 pulls or roll backs with 1 failure or death at any file operation; 2 updates and 2 writes of the inventory with 1 fault; every command line of up to 3 options with 2 Ctrl+C | is what is written what was judged, is one end told, is one link open and a closed one clean, can the files be believed, is the exit code true, does everything end? |

Four runs are expected to fail; they show where the code does not do what its own
comments say (`PROJECT.json`, `findings`):

| run | what it shows |
|---|---|
| `map_late` | a board that reboots after its wait ran out is taken for the board being mapped |
| `firmware_cancel` | the grace timer of a cancelled pull ends the next pull as "cancelled" |
| `quit_asked` | a write that begins while the quit question is open is killed by the answer |
| `inventory_cut` | a board written, and written again with a cut, is skipped by `--expect-image` as running the image |

Bounds.  Two boards are enough for every interleaving of one board with another; a
third is there where a third party makes a set of two ambiguous.  `fleet_run` has four on
three slots: while a check of one is answered and a second writes, a third ends and the
fourth takes its slot, whose LD puts the write that was just allowed off again
(`LaunchCancelled`).  Two rows make "some rows written" possible.  Faults are
bounded by `MaxFaults` in total: the properties are about the answer to one or two of
them, not about their number.  `MaxGen = 1` of the fleet lets every port renumber once,
`MaxGen = 2` of `SshSession` lets what one `open()` left meet the next; `MaxAuthAttempts
= 1` makes a wrong secret end its method, and the second world asks twice, a passphrase
and then a password.  `MaxFlaps = 2` lets a device leave while it is waited for again;
with three rates the original, a candidate that is refused and one that is not are
different.  Two operations are the fewest in which a timer, a report or a result of one
can meet the other.  Three blocks, two reads in flight and a read that asks for two let
a short read meet one in flight.  Five chunks fill the write buffer over its mark and let
it drain.  Six bytes hold a cut character before and after a whole one.  The row needs
four columns so that two wide characters can be cut on both sides.  Six generations of
`McuBridge` are three links, so that an `open()` can wait behind the clean-up of one whose
own predecessor left something.  Three builds are two that have one size and one that
has not.

Fairness.  A started tool ends (adb and LD carry timeouts in the code, WL / RL / RD
belong to a device that answers or leaves the bus), timers fire, queued signals are
delivered, the calls of a handler are made, a device on its way arrives and is shown at
last.  No fairness is assumed of the owner's cancel, of faults, of strangers, or of an
answer to a question - except in `SocFlash` and `CliRun`, whose flow cannot end while its
own question is open.  In the serial tab the reconnect tick, the poll of the ports and
the sample timer are fair: they are timers of the event loop.  The driver's report of a
device that left is not: `AbsenceNoticed` rests on the poll alone, as the comment at
`core/SerialConnection.cpp:197` wants.  In `FirmwareJob` only the event loop is fair:
`CancelEnds` holds with a worker, tools and an owner that never move again;
`OperationEnds` names what it needs besides.  In `SshSession` both threads run and the
deadline of a question passes, but not for a wait that was aborted: that one must be
woken.  In `SshTransfer` a broken link is noticed.  In `ToolRun` nothing makes a command
end by itself: `CommandEnds` is about a cancel or a timeout.  In `BoardPlan` a flow may
unpack for ever only while it runs: a plan held up behind it waits for its end.
In `McuUpdate` the device answers what it gets; that it refuses blocks for ever is bounded
by `MaxFaults`, in the code by nothing.

## 4. What is proved

Every theorem holds for all values of the constants; the assumptions are those of the
modules (`FleetAssumption`, `MappingAssumption`, `PortAssumption`, `SessionAssumption`,
`SshAssumption`, `JobAssumption`: ranges of the constants) or stand in the theorem
(`BenchAssumption`, `CacheAssumption`, `FileAssumption`, `CliAssumption`, `HostsAreDirectories` and
`SessionsAreNoQuestions`, each with its comment; TLC's instances satisfy them).

`FleetWritingProofs` proves, for every number of boards, rows, slots, faults and
generations, an inductive invariant

    IInv == TypeOK /\ CountersCover /\ GateApart /\ SlotLimit /\ CompleteInv
            /\ OneThingInv /\ RestInv /\ LinesNameTheBoard /\ ToldInv

`GateLdApart` (no tool next to the gate's LD) is not inductive: whether LD may start is
decided by the counter `inFlight`, so the proof needs that the counter is positive
whenever a board runs a tool (`CountersCover`), and a tool is launched from a frame
that may wait behind an LD that another frame starts (`GateApart`).  `SlotLimit` says that
no more slots are held than `maxParallel()` allows, whatever path gave one up; that none is
lost or left idle (`SlotsAreUsed`) is model-checked.  `OnlyCompleteReset` (an RD of
a started board follows a complete write) needs that every stage and every frame which
leads to the RD carries a complete board (`CompleteInv`).

`WritesAreMeant` (nothing is written to a board that is skipped), `ChecksHold` (a check is answered
by a listing younger than itself, nothing starts after a cancel) and `ClosingIsTrue` need
that a board has one thing under way: one job on the stack, or one place in a queue of the
gate, or one tool, never two (`OneThing`).  The code has no such variable; it follows from
who clears which queue before it asks for the next check, call by call.  The stack is
therefore described by what it may still do for a board (`Launches`, `AnswerDue`,
`UnderCheck`) and not by its frames, and each action is shown to leave the boards alone
that it is not about (`StackKeeps`, `RestKeeps`).  `RowsFit` ties the written rows to the
stage, `QueuesFit` keeps the queues apart, `RestInv` says that the closing picture finds
every board at rest.  `LinesNameTheBoard` and `ToldInv` are about the report: what a board
that is left in Loader mode is told to run is what is missing plus the RD, or its id is
one the port has given up.

Theorems: `TypeCorrect`, `GateLdStaysApart`, `SlotLimitHolds`,
`OnlyCompleteBoardsAreReset`, `WritesStayMeant`, `ChecksAreFresh`, `ClosingStaysTrue`,
`LinesFinish`, `TellsOfAll`, `LinesTell` (the property of the run, which joins the two).
`ClosingTells` names the two devices the code does not tell of: a board that is Done, which
is not looked at again, and a board reset unwritten that is back in Loader mode under a new
LocationID together with another such board (`TakenForReset`, section 6).  Whatever else is
in Loader mode is told of, however many boards were renumbered: the ids left over are as
many as the devices that may own them, so each is somebody's or named as nobody's.

`FirmwareJobProofs` proves for any number of operations and reports an invariant of the
whole job, GUI thread and worker:

    IInv == IsGui(gui) /\ JobInv(gui) /\ QueueInv(gui, worker, answers)
            /\ (gui.holds <=> lock = "job") /\ the types of worker, answers and lock

`LockCoversTheWork` and `NothingIsLeft` say that what works does so for the running
operation and under its lock, and that what has ended is at rest.  Neither is inductive:
a report of the puller, the updater or a timer would end an operation it does not belong
to if the flags of the parts did not fit the step.  `JobInv` says how they fit
(`PullFits`, `FrameFits` and their like for the flasher, the fleet and the link), and
`QueueInv` that every call and report in the queues between the threads is of a
generation that has been opened, the live one last.  Since a handler is an operator on
the record of the GUI thread, the proof follows the code: each handler has a lemma
(`PullFinishedGoes`, `StepFinishedGoes`, `CancelOperationGoes` ...) that says what it
needs of the record it is given and how the record it returns goes on, and a handler that
calls another cites the lemma of that one.  `SuccessIsComplete` is proved with what each
step has really made (`ChainMade`, `ResultIsTrue`); `CancelIsObeyed` (`CancelHolds`: a
cancelled operation starts no further step) from the same lemmas.

The same module proves `PlanHoldsAlways` (`PlanHolds`) of `BoardPlan`, for any images and any
number of boards plugged in, from

    PlanInv == PlanTyped /\ PlansFit /\ ReadsTyped /\ ReadsFit /\ StackedIsItself /\ PowerIsAsked

The first half of the property is about a plan that is there; whether its rows are the
present ones was decided when it was asked for, so `PlansFit` follows the key: what was asked
for last is what the tab has, and what is in flight, and what came of it, is that key unless a
later request is held up or the flow made a plan for itself.  The second half, that the owner
is asked before the power of the stacked board is taken, is about a product string that was
read long before.  `ReadsFit` says of a read nothing disturbed that its board is still the one in
view, and that it leaves a product string; `StackedIsItself` that no detection and no
layout of the other board stands for the stacked one.

`FleetMappingProofs` begins with the statements on `compare()`, for any number of ports
and LocationIDs: `CompareIsTheTable`, `MappedIsOneDevice`, `BaselineIsExcluded`; the run
`map_disturbed` checks the first on the pictures a run really takes (`TableDecides`).

The rest of it is about the mapping itself, for any number of boards and of strangers, any
late views, any faults.  `Base` is the ground: the types and `ControlInv` (boards are
rebooted in selection order, each once; one that has an identity was rebooted; nobody's
ids are noted only when the mapping is over).  `CleanBench` follows.  `LastPictureTellsAll`
(`EndTellsAll`, a part of `MappingIsTold`) needs besides that a board found in MASKROM mode
stays there.

`HealthyBenchMapped` is `HealthyBenchMaps`.  Its invariant says, as long as nothing has
gone wrong (`Healthy`, which is never regained: `HealthyBefore`), where every device is:
a stranger and a board not rebooted yet on ADB and shown there alone, a mapped board in
Loader mode under its own port and id, the one board in between on its way
(`BoardsInv`); that the picture before agrees with the views about everybody but that
board (`PicturesInv`); that no candidate was left out (`OrderInv`); and, once the mapping
is over, that nobody but a bound board is in Loader mode (`EndInv`).  `PollVerdict` is
the difference method itself: if one ADB gadget is all that moved, `compare()` can only
wait, or name that gadget's port and id.

`IdentityStaysLearned` is `IdentityIsLearned` (no two boards share a device, only learned
ids are reset).  That a poll finds new what nobody is bound to is not a matter of the two
pictures alone: a device bound to an earlier board may be missing from the picture before
and show again in the one after.  `LearnedInv` therefore follows every learned device in
the views - it is shown there or has left its download mode for good (`Kept`,
`Dropped`) - and `DevicesInv` that what a view shows has arrived and will not be told again.
The theorem assumes `FewMoves`: no strangers, or at most two faults.  The assumption is
sharp: with two boards, a stranger, three faults and the ADB view late, TLC finds a
behaviour in which the stranger's owner reboots his device into Loader mode, it browns out,
he does it again, and both boards are bound to it.  Both verdicts are right by the table;
`compare()` has only port keys and LocationIDs to go by, and a device that does the same
thing twice at the wrong moments looks like two.

`SerialProofs` proves every safety property of the serial tab for any set of rates,
candidates and boards and any number of departures and failures.  `PortInv` adds to
`StateIsTrue` and `BreakIsTimed` that an outage nobody was told of has no message yet.
`PortIsTransport` maps every step of the port to a step of `Transport` or none, under
that invariant; `SessionDrivesPort` maps every step of the tab to a step of the port (two
settings in a row, the restored rate and the new one, are one setting), so what holds of
the port holds under the tab.  `SessionInv` adds that the muted bytes were received at
the port's rate, which gives `ReplayOfTheWinner`, and that a search without a result
holds the watchdog, which gives `NoStorm`; `SessionSafety` states them together as
`SearchIsQuiet`.  That an outage is told once however
often the port is tried again (`SaidOnce`) is proved with `PortIsTrue` and has no run.
`BarTells` holds for any driver and needs that the rate a search will put back is the
bar's and one the driver has accepted (`RateInv`), also after a search whose restore was
refused: `unrestored` stays until the bar's rate is applied or a search has found one, and
section 6 shows that it must.

`SshProofs` proves for any worlds, secrets, attempts, generations and failures

    IInv == Shape /\ CallsInv /\ ReportsInv /\ DialogInv /\ BytesInv /\ AbortInv

`Shape` is what the types say of the queues and records.  `AnswerReachesItsQuestion` is
not inductive, because questions carry no number in the code: it holds since a question
is only asked while the one before is answered or aborted, so that at most one question
of the current generation is on its way to the GUI thread or open (`ReportsInv`,
`DialogInv`), and since an `open()` or `close()` drops the dialog before the next
question can be queued (`CallsInv`: one `open` in the queue at most is not aborted).
`BytesInv` says the same of the bytes: `takeOutgoing()` runs under the generation that
wrote them.  `AbortInv` is the argument about the lost wake-up: a worker asleep on an
aborted question implies a GUI thread that holds the mutex and has the wake still to do.
`SshIsTransport` maps every step of the two threads to a step of `Transport` or none.
The reports of a session come in one order - connected, lost, connected again, ended
(`TellInv`) - so a report that is taken always finds the tab in the state `Transport`
asks for, although the worker may be several reports ahead.

`GenerationsStayApart` adds what the tab shows (`QuietAgrees`).  That says something only
of moments with both queues empty, so it needs the story in between, `StoryInv`.
`PresentInv` names the phases of the present `open()`: the tab is closed and nothing of it
queued that would start the worker again; asked, with the `open` still queued; served,
with the worker on it and every report taken; told of, with reports on their way whose
last says where the worker is; or recalled, when the tab has taken the loss and its
`reconnect` is queued.  `PastInv` says that whatever may still be served of an earlier
`open()` has been aborted, and that a worker still busy with it has a `close` in its
queue.  With the queues empty three phases are left, and they show that `Disconnected`
means an idle worker and `Connected` a live shell of this very `open()`: `QuietAgrees` is
stated that strongly.

`SessionProofs`: `QuittingLeavesNothing` (for any sessions whose names are not those of
questions) and `OperationsKeepTheirTab`.  What makes the first inductive is that a
question about a session or the window names something that is still open, or the answer
does nothing.

`DestinationsAreMeant`, for any hosts that are directories.  What the user
typed is not kept literally - a directory is completed by a name, `~` by a host - so the
invariant is `Leads`: the field is still what he typed and not derived, or it lies in the
directory he typed; and a destination nobody typed is derived or empty (`FormInv`), so
that a transfer either completes it or is refused (`RequestNames`).

`FilesLeaveInOrder` is `FileLeavesInOrder`, for a file of any length.  What left the port is
not enough of a state: `SendInv` follows every chunk from the sender to the buffer of the
port and to the wire.  Both rise, the wire before the buffer before what the sender has
still to hand over; unless the send was aborted no chunk is missing from wire, buffer and
what was told lost; and a send whose link is gone is paused by the user's own flag, which
is what keeps the drain from letting it go.

`SocProofs` is about the flash of one board, for any boards, layouts, images, settings,
rebuilds and polls: `FlashIsJudgedAlways` and `WritesStaySafe`.  Neither follows from the
step a flow is at.  Rules 1 to 3 judge one build, of one layout, before a question is
asked; the image may be rebuilt and unpacked again before the answer, and the board of
then need not be the board adopted now.

    SocInv == SocTyped /\ FlowFits /\ FilesFit /\ WritesFit /\ RowsFit

`FlowFits` says what a flow knows at the command it waits for (`Suits`): the layout it
has is the PC's memory until a board was asked, and that of the adopted board from then
on (`OwnLayout`), whose PID the profile does not contradict.  `FilesFit` is about the
folder: it holds the build it is said to hold or, rebuilt under the unpacking, a later
one, and only the plan that unpacks changes it.  `WritesFit` then says that from the rules
on the build that will be written is the build rule 1 read (`JudgedFits`), and `RowsFit`
that a reset finds every row read back, also where a row is listed twice.
`BenchAssumption` says what a bench is: a board whose PID names a profile has that
profile's layout, and its kernel command line tells its layout or nothing.

`SocProofs` also has the external commands a flow runs, `ProcessIsToldAlways`, from
`ToolInv`: `EndTold` (a signal list is in order at every point, what has left the pipe has
been told, and an invocation that has ended has no process) and `InputKept` (what the owner
gives to a command that is still starting is what will be delivered, its end last).
`ResultIsTrue` alone is not inductive: it says nothing of the queued ends that a start that
failed and a detached command still have to deliver.

`ToolsProofs` has four components, each with an invariant of its own, for any number of
operations:

- the bridge to the MCU, `BridgeHoldsAlways`: `CommandsFit` (a command of the present
  generation is the one its state waits for, an older one was cancelled), `LinkKnows` (what
  the link remembers of what it did to the board agrees with its state), `CleanupWaits` (a
  clean-up has begun, or something is left that begins it) and `LeftBehind` (a forward at
  the adb server is the link's own, untold, or its removal was refused).  `ClosedIsClean`
  is about links at rest and says nothing of the chain of commands that leads there;
- the inventory, `InventoryAlways`: `LockHeld` (nobody changes what a process has read),
  `OneOperation` (one operation writes or tells, of the board it asked), `ToldIsHeld` and
  `FileIsTrue` (what the file says of a row is so, or is about to be told otherwise, or its
  record was given up by an error).  The claim (`RecordedRowsRun`) is about rows whose every
  change the inventory was told of; a write that is cut is none, which `inventory_cut` shows;
- the image cache, `CacheIsTrueAlways`, which with the second is `FilesAreTrue`
  (`FilesAreTrueAlways`).  Every
  file operation is a step that may fail, so `FolderFits` names each point of
  `putIntoPlace()` and `rollBack()` (`Rotating`, `Replacing`, `RollingImages`,
  `RollingNotes`) with what is on disk there and what would undo it.  What carries it is
  `Pair`: a note is no younger than the image it stands beside, unless the image is
  `crossed`, which no other step than a roll back makes it.  `CacheAssumption` says that
  there is a build;
- a run of su-fw, `CliHoldsAlways`.  `CliInv` relates what the job has done to where it is
  (`JobTells`): nothing is called while it waits or asks, a writing call stands when it
  writes, it has written when it waits for the board to return, and a board whose run ended
  as cancelled after such a call was written.  `ChoiceIsOne` is about the parsed line and
  needs that two entries of `--serials` share a letter only if the user gave it twice
  (`TagsRepeat`): default letters are ranks among the letters nobody gave, which rise, and
  there are more such letters than entries (`RankIsTaken`).

Only model-checked: liveness under fairness (`MappingEnds`, `RunEnds`, `CancelEnds`,
`OperationEnds` and their like); `SlotsAreUsed`, which needs what every list of calls still
holds for every board; `ScreenIsTheOutput` and `LinesStayTheirOwn`, which are about recursive functions over data (decoder, parser,
rows, log), where the prover has no induction; `FlashedIsThePackage` (`McuUpdate`), where
request numbers come round and the argument counts the frames under way, and the transfers
of `SshTransfer`, whose proofs are not written.

## 5. What is not modelled, and why

- Wording, translation, layout, painting, keyboard translation, colours; the parsing of
  the output of tools (`RockchipTool`, `AdbTool`, `UsbProbe`), reports (`FleetReport`),
  conversions (`HexUtils`, `LineEnding`, `CharWidth`): functions without state, with unit
  tests of their own.
- The stores (`QuickCommand`, `CommandHistory`, `SshProfile`, `SecretStore`,
  `AppSettings`): lists edited by one thread.  That no quit loses unsaved profiles is in
  `MainWindow`, what is remembered of a password in `SshSession`.
- `DeviceSimulator`: scripted text; its port is the `sim` port of `SerialConnection`.
- `FirmwareTab`: the presentation of `FirmwareJob`; its phase is in `MainWindow`.
- Of modelled parts: roll back and extra files within `FirmwareJob`; `McuLink::abandon()`;
  two programs that pull into one cache folder; the race of `SshWorker.cpp:765`, where
  another thread still writes the shared home; SSH tunnels; search in the terminal;
  a file send that starts while a baud rate search runs (`ui/SessionWidget.cpp:1418` guards
  only the other order), whose bytes leave at candidate rates; a quick re-plug
  (`core/SerialConnection.cpp:683`) whose I/O error finds the port listed again, which
  `IoErrorOfListed` models without a property about the user's loss.
- Fleets are reached from `su-fw` only; the window has no way to start one.

## 6. Where code and comments part

The violation runs of section 3 are the ones a run shows.  The first four below are in the
instances of passing runs, whose properties name them as their exceptions, each by what
went wrong and not by where it shows; the sentence without the exception is quoted.  Of the
others, each is excused or outside the model.

- "`cancel()` restores the original rate" (`BaudRateDetector.h:35`), as every search without
  a winner does (`:29-31`): `finishSearch()` restores it through a setter
  (`BaudRateDetector.cpp:444-461`) that the driver of a device that has left may refuse.  A
  search that ends before the loss is reported leaves the candidate in the port, and the
  session reconnects at it while the bar shows the original rate.  The exception of
  `BarTellsTheRate` is `unrestored`.
- "The owner is never told "clean" while a device he was not told about sits in Loader
  mode" (`FleetFlasher.h:212`): two boards reset unwritten that are back in Loader mode
  under new LocationIDs are reported to nobody (`FleetFlasher.cpp:2840`).  The exceptions of
  `ClosingTells` are `TakenForReset` and a board that is Done; `ClosingTellsAll` is the
  sentence.
- "A stale note is ignored by readNote() (its size no longer matches unless both builds have
  the same size, which the next pull's mtime check still catches)"
  (`ImagePuller.cpp:943`): a roll back whose notes cannot be swapped, or that dies between
  images and notes, leaves the note of the other build (`ImagePuller.cpp:925-946`).  If both
  have one size and the note is the newest build's, its time is that of the build machine,
  and the next pull takes the older image for unchanged.  The exception of `SkipIsRight` is
  `crossed`; `StaleNoteIsCaught` is the sentence.  "A failing step leaves the cache as it
  was" (`ImagePuller.cpp:218`) is not true either: the older previous image is removed first
  and stays gone.
- `close()` ends with "`killall rfmcu` again [...] and `adb forward --remove tcp:<local>`" on a
  board that was selected (`McuLink.h:33-36`), so that nothing of the link stays.  The
  forward of a command it did not hear does, whose port it never knew: one that `close()`
  cancelled in its grace, that timed out, or whose answer names no port
  (`McuLink.cpp:240-243`).  The exception of `ClosedIsClean` is `untold`.
- An image rebuilt to the same size while it is downloaded is not noticed.
- While output is paused "screen, scrollback and selection are frozen" (`docs/DESIGN.md:259`),
  but a resize during the pause moves and drops lines (`TerminalScreen.cpp:133-148`).
- "A credential entered with 'remember' worked" (`SshWorker.h:193`) is not always true of a
  keyboard-interactive login: an answer given with "remember" in a round that is rejected is
  what is stored when a later round is accepted (`SshWorker.cpp:1510`, `:1537-1540`).
  `RememberedWorked` of `SshSession` says what should hold.
- The power rule ("a board of unknown profile is asked about before its MCU is updated",
  `FirmwareJob.h:200`) has holes that `PowerIsAsked` excuses (`lost`, `layoutTried`): a
  board seen only by an operation's own status, boards swapped while one is read, a
  remembered layout that names no profile and skips the read (`FirmwareJob.cpp:1313`), a
  failed read that is never tried again, a flow that names the profile while a read ends, and
  what a flash detected, which is the board until the next status of the tab's own
  (`FirmwareJob.cpp:910`, `:1305`): a stacked board that took the other's place under a flash
  that failed is taken for it by an MCU update begun before that status.  The last one takes
  more steps than the bound of `firmware_job` allows; the proof of `PlanHoldsAlways` led to it.
- Clearing the image while its plan is under way leaves a Ready plan of an image that is no
  longer chosen; nothing uses it.
- The inventory takes the md5 of the image when the flash ends, not when it was read; writes
  in Loader mode of an unknown serial are not recorded (`unrecorded`).
- A lost answer to END makes an update that is complete be told as failed (`McuUpdater`).
- `SendFileDialog.cpp:317` may compare with a `m_lastPending` of before a disconnect; the
  next tick puts it right.  A log started again in the middle of a line adds a line break.
  A selection is not moved when the device erases the scrollback while nothing is paused.
  An OSC string that never ends swallows the output behind it.
