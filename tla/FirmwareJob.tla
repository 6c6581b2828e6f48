------------------------------ MODULE FirmwareJob ------------------------------
(* The coordinator of the firmware operations (firmware/FirmwareJob.cpp), with  *)
(* what it drives: the image puller on its SSH connection and that connection's *)
(* worker thread, the SoC flasher, the fleet flasher, the link to the MCU and   *)
(* its updater, and the lock file that keeps two programs off one board.        *)
(*                                                                              *)
(* The program has one GUI thread, whose signals call their slots at once: a    *)
(* handler is an operator from the state of that thread to its next state, and  *)
(* nested slots are nested operators.  Only the SSH worker runs beside it.      *)
EXTENDS Naturals, Sequences

CONSTANTS
    MaxOperations,   \* bound: operations begun in a behaviour
    Starters         \* the operations the user starts, a subset of Operations

Operations == {"pull", "flash", "mcu", "set-role", "info", "pull-flash", "fleet-flash"}

ASSUME JobAssumption ==
    /\ MaxOperations \in Nat
    /\ Starters \subseteq Operations

VARIABLES
    gui,       \* the state of the GUI thread: the record of GuiInit
    worker,    \* SshWorker: its generation, a live session, the pull it transfers for
    answers,   \* its signals queued for the GUI thread, each of the worker's generation
    lock       \* firmware.lock: "free", "job" or "other", a second program's

vars == <<gui, worker, answers, lock>>

Steps == {"pull", "flash", "mcu", "set-role", "info", "fleet-flash"}
FlashPhases == {"Detecting", "RebootingToLoader", "WaitingForLoader", "Flashing",
                "WaitingForAdb", "ReadingBoardInfo"}
FlashWaits == {"Detecting", "RebootingToLoader", "WaitingForLoader", "WaitingForAdb"}
Reasons == {"done", "failed", "cancelled", "busy", "no package"}

\* What the environment makes of a step's start: the checks let it go, refuse it,
\* refuse it from the event loop, or put a question to the owner.
Ways == {"goes", "refused", "late", "asks"}

\* How an adb command that reads the MCU ends: the version, compared with the
\* package's; no reply or a busy port; no answer of adb; or on to the next command.
Outcomes == {"same", "older", "silent", "dead", "next"}

NoResult == [op |-> "none", ok |-> FALSE, why |-> "failed", asked |-> FALSE, made |-> {}]

GuiInit ==
    [begun |-> 0,             \* operations begun: the number of the running one
     op |-> "none", step |-> "none", cancelRequested |-> FALSE, keepSsh |-> FALSE,
     pullPhase |-> "Idle", pullerActive |-> FALSE,
     flasherActive |-> FALSE, flashCancellable |-> FALSE, fleetActive |-> FALSE,
     linkActive |-> FALSE, updaterActive |-> FALSE,
     mcuResultPending |-> FALSE, mcuOk |-> FALSE, mcuWhy |-> "failed",
     cli |-> "none",          \* the adb command that reads the MCU: "stop", "version"
     asking |-> FALSE,        \* a question of the owner runs its own event loop
     holds |-> FALSE,         \* operationLock
     \* the SSH connection
     ssh |-> "Disconnected", generation |-> 0, abortGeneration |-> 0,
     transfer |-> FALSE,      \* shared->transfer.active, under its mutex
     calls |-> <<>>,          \* queued for the worker
     \* the image puller
     puller |-> "Idle", pullCancelled |-> FALSE,
     \* SoC flasher, fleet flasher, MCU link ("Queued": Closing, an open() waits)
     flasher |-> "Idle", fleet |-> "Idle", link |-> "Closed",
     timers |-> {},
     \* what the running operation achieved; and of the last one, that and its
     \* result, and whether a Cancel was taken
     made |-> {}, last |-> NoResult]

\* A single shot outlives the operation that started it, whose number it carries
\* here; linkCloseTimer is one and is stopped.
Timers == [kind : {"pullCancel", "dropped", "flashStart", "flashCancel", "linkClose"},
           op : 1..MaxOperations]
SetTimer(g, kind) == [g EXCEPT !.timers = @ \cup {[kind |-> kind, op |-> g.begun]}]

-----------------------------------------------------------------------------
(* SshConnection, the part on the GUI thread.                              *)

Call(g, name) ==
    [g EXCEPT !.calls = Append(@, [name |-> name, gen |-> g.generation, run |-> g.begun])]

AbortWorkerMute(g) ==
    [g EXCEPT !.abortGeneration = g.generation, !.generation = @ + 1]

\* abortWorker(): the worker is told to give up, and whatever it still reports
\* is of an old generation.
AbortWorker(g) ==
    [Call(g, "close") EXCEPT !.abortGeneration = g.generation,
                                !.generation = @ + 1]

OpenSsh(g) ==
    Call([g EXCEPT !.ssh = "Connecting", !.generation = @ + 1, !.transfer = FALSE],
         "open")

\* close() where no step waits for the pull: the puller, if it still runs, hears
\* that its transfer or its connection has ended, and nobody hears the puller.
HangUp(g) ==
    [AbortWorker(g) EXCEPT !.ssh = "Disconnected", !.transfer = FALSE, !.puller = "Idle"]

\* closeSsh()
CloseSsh(g) ==
    IF g.ssh = "Disconnected" THEN g
    ELSE HangUp([g EXCEPT !.pullPhase = IF @ = "Connecting" THEN "Idle" ELSE @])

-----------------------------------------------------------------------------
(* The frame of the operations.                                            *)

\* endOperation(): the lock goes first, a slot of the result may begin the next.
EndOperation(g, ok, why) ==
    [g EXCEPT !.holds = FALSE, !.op = "none", !.step = "none",
              !.cancelRequested = FALSE, !.flashCancellable = FALSE,
              !.made = {},
              !.last = [op |-> g.op, ok |-> ok, why |-> why,
                        asked |-> g.cancelRequested, made |-> g.made]]

StepFailedConnected(g, why) == IF g.op = "none" THEN g ELSE EndOperation(g, FALSE, why)

\* stepFinished() for a step that failed; it ends a Pull & Flash too.
StepFailed(g, why) ==
    CASE g.op = "none" -> g
      [] g.op = "pull-flash" ->
             EndOperation(CloseSsh([g EXCEPT !.step = "none", !.keepSsh = FALSE]), FALSE, why)
      [] OTHER -> EndOperation(g, FALSE, why)

EndChain(g, why) == EndOperation(CloseSsh([g EXCEPT !.keepSsh = FALSE]), TRUE, why)

\* startFlash(): the job's own checks of image and partitions ("refused"), or the
\* flasher's, which it reports from the event loop ("late").
StartFlash(g, way) ==
    LET s == [g EXCEPT !.step = "flash"] IN
    CASE way = "refused" -> StepFailed(s, "failed")
      [] way = "late" -> SetTimer([s EXCEPT !.flasherActive = TRUE, !.flasher = "Refused",
                                            !.flashCancellable = TRUE], "flashStart")
      [] OTHER -> [s EXCEPT !.flasherActive = TRUE, !.flashCancellable = TRUE,
                            !.flasher = "Detecting"]

\* startMcuRead(): a left-over rfmcu is stopped, then the version is read.
StartMcuRead(g) == [g EXCEPT !.cli = "stop"]

StartChainMcuNamed(g, way) == StartMcuRead([g EXCEPT !.step = g.op])

\* startChainMcu()
StartChainMcu(g, way) ==
    IF way = "refused" THEN EndChain(g, "no package")
    ELSE StartMcuRead([g EXCEPT !.step = "mcu"])

\* stepFinished(): a report after the end of the operation is not acted on.
StepFinished(g, step, ok, why, way) ==
    IF ~ok \/ g.op = "none" THEN StepFailed(g, why)
    ELSE CASE g.op # "pull-flash" -> EndOperation(g, TRUE, why)
           [] g.op = "pull-flash" /\ step = "pull" -> StartFlash(g, way)
           [] g.op = "pull-flash" /\ step = "flash" -> StartChainMcu(g, way)
           [] OTHER -> EndChain(g, why)

Made(g, part) == [g EXCEPT !.made = @ \cup {part}]

-----------------------------------------------------------------------------
(* The pull.                                                               *)

\* pullFinished()
PullFinished(g, ok, why, way) ==
    LET s == [g EXCEPT !.pullerActive = FALSE, !.pullPhase = "Idle"] IN
    StepFinished(IF s.keepSsh THEN s ELSE CloseSsh(s), "pull", ok, why, way)

\* ImagePuller: finish(), heard while the job waits for it.
PullerFinish(g, ok, why, way) ==
    LET s == [g EXCEPT !.puller = "Idle", !.pullCancelled = FALSE] IN
    CASE g.puller = "Idle" -> g
      [] g.puller # "Idle" /\ g.pullerActive -> PullFinished(s, ok, why, way)
      [] OTHER -> s

\* startPuller(), and ImagePuller's begin(): the image's size and time are asked for.
StartPuller(g) ==
    Call([g EXCEPT !.pullPhase = "Pulling", !.pullerActive = TRUE,
                   !.puller = "Stat", !.pullCancelled = FALSE], "stat")

\* startPull(): profile, folder or cache refused, else a connection.
StartPull(g, way) ==
    LET s == [g EXCEPT !.step = "pull"] IN
    CASE way = "refused" -> StepFailed(s, "failed")
      [] way # "refused" /\ g.ssh = "Connected" -> StartPuller(s)
      [] OTHER -> OpenSsh([CloseSsh(s) EXCEPT !.pullPhase = "Connecting"])

\* startImageDownload()
StartDownload(g) ==
    IF g.ssh # "Connected" \/ g.transfer THEN PullerFinish(g, FALSE, "failed", "goes")
    ELSE Call([g EXCEPT !.puller = "Download", !.transfer = TRUE], "transfer")

PullerCancelUnnoted(g) ==
    IF g.puller = "Download" THEN Call(g, "cancelTransfer")
    ELSE PullerFinish(g, FALSE, "cancelled", "goes")

\* ImagePuller::cancel(): a transfer ends by itself, everything else ends here.
PullerCancel(g) ==
    CASE g.puller = "Idle" \/ g.pullCancelled -> g
      [] g.puller = "Download" /\ ~g.pullCancelled -> Call([g EXCEPT !.pullCancelled = TRUE], "cancelTransfer")
      [] OTHER -> PullerFinish(g, FALSE, "cancelled", "goes")

\* cancel() of a running pull: it is given kPullCancelGraceMs.
CancelPullUntimed(g) == PullerCancel(g)

CancelPull(g) == SetTimer(PullerCancel(g), "pullCancel")

\* setState(Disconnected): the job hears it first, then the puller.
SshDisconnected(g) ==
    LET s == [g EXCEPT !.ssh = "Disconnected"] IN
    IF g.pullPhase = "Connecting"
    THEN StepFinished([s EXCEPT !.pullPhase = "Idle"], "pull", FALSE,
                      IF g.cancelRequested THEN "cancelled" ELSE "failed", "goes")
    ELSE PullerFinish(IF g.pullPhase = "Pulling" THEN SetTimer(s, "dropped") ELSE s,
                      FALSE, "failed", "goes")

\* close() while the pull is waited for: its listeners hear that the transfer was
\* aborted, or else that the connection has gone.
CloseUnderPull(g) ==
    LET s == [AbortWorker(g) EXCEPT !.transfer = FALSE] IN
    IF g.transfer
    THEN HangUp(PullerFinish([s EXCEPT !.ssh = "Disconnected"], FALSE,
                             IF g.pullCancelled THEN "cancelled" ELSE "failed", "goes"))
    ELSE SshDisconnected(s)

\* A signal of the worker that belongs to the open connection.
Heard(g, a, unchanged, way) ==
    CASE a.kind = "connected" ->
             LET s == [g EXCEPT !.ssh = "Connected"] IN
             IF g.pullPhase = "Connecting" THEN StartPuller(s) ELSE s
      [] a.kind = "disconnected" -> SshDisconnected(g)
      [] a.kind = "dropped" -> SshDisconnected(AbortWorker(g))
      [] a.kind = "stat" /\ g.puller = "Stat" /\ a.run = g.begun ->
             IF a.ok THEN Call([g EXCEPT !.puller = "Git"], "command")
             ELSE PullerFinish(g, FALSE, "failed", way)
      [] a.kind = "command" /\ g.puller = "Git" /\ a.run = g.begun ->
             IF unchanged THEN PullerFinish(Made(g, "pull"), TRUE, "done", way)
             ELSE StartDownload(g)
      [] a.kind = "transfer" /\ g.puller = "Download" ->      \* it carries no number
             LET ok == a.ok /\ ~g.pullCancelled
                 s == IF ok /\ a.run = g.begun THEN Made(g, "pull") ELSE g
             IN PullerFinish(s, ok, CASE g.pullCancelled -> "cancelled" [] ok -> "done"
                                      [] OTHER -> "failed", way)
      [] OTHER -> g

-----------------------------------------------------------------------------
(* The SoC flash, the fleet.                                               *)

\* flashFinished(), where the job waits for it.
FlashFinished(g, ok, why, way) ==
    IF g.flasherActive
    THEN StepFinished([g EXCEPT !.flasherActive = FALSE, !.flashCancellable = FALSE],
                      "flash", ok, why, way)
    ELSE g

\* onFlasherPhase()
FlasherPhase(g, phase) ==
    [g EXCEPT !.flasher = phase,
              !.flashCancellable = IF g.flasherActive THEN phase \in FlashWaits ELSE @]

\* endFlow()
FlasherEndFlow(g, ok, why, way) ==
    LET s == FlasherPhase(g, "Idle") IN
    FlashFinished(IF ok THEN Made(s, "flash") ELSE s, ok, why, way)

\* SocFlasher::cancel(): nothing cuts upgrade_tool off.
FlasherCancel(g) ==
    IF g.flasher \in FlashPhases \ {"Flashing"}
    THEN FlasherEndFlow(g, FALSE, "cancelled", "goes") ELSE g

\* The last part of startFleet()
RunFleet(g, way) ==
    [g EXCEPT !.fleetActive = TRUE, !.fleet = IF way = "late" THEN "Refused" ELSE "Running"]

\* startFleet(): its checks, then the question about bootloader partitions.
StartFleet(g, way) ==
    LET s == [g EXCEPT !.step = "fleet-flash"] IN
    CASE way = "refused" -> StepFailed(s, "failed")
      [] way = "asks" -> [s EXCEPT !.asking = TRUE]
      [] OTHER -> RunFleet(s, way)

-----------------------------------------------------------------------------
(* The MCU: its link and its updater, and the reads of its version.        *)

\* McuLink::open()
OpenLink(g) ==
    [g EXCEPT !.linkActive = TRUE, !.mcuResultPending = FALSE,
              !.link = IF @ = "Closed" THEN "Opening" ELSE "Queued"]

\* startMcuUpdate(): the package, the role and the board, then the question about
\* the power of the SoC.
StartMcuUpdate(g, step, way) ==
    LET s == [g EXCEPT !.step = step] IN
    CASE way = "refused" -> StepFailed(s, "failed")
      [] way = "asks" -> [s EXCEPT !.asking = TRUE]
      [] OTHER -> OpenLink(s)

CompleteMcu(g) ==
    IF ~g.mcuResultPending THEN g
    ELSE LET s == [g EXCEPT !.mcuResultPending = FALSE, !.linkActive = FALSE,
                            !.timers = {t \in @ : t.kind # "linkClose"}]
         IN StepFinished(s, g.step, g.mcuOk, g.mcuWhy, "goes")

McuDoneAtOnce(g, ok, why) ==
    CompleteMcu([g EXCEPT !.mcuOk = ok, !.mcuWhy = why, !.mcuResultPending = TRUE])

McuDoneStale(g, ok, why) ==
    LET s == [g EXCEPT !.mcuOk = @ \/ ok, !.mcuWhy = why, !.mcuResultPending = TRUE] IN
    IF g.link \in {"Opening", "Open", "Queued"}
    THEN SetTimer([s EXCEPT !.link = "Closing"], "linkClose") ELSE CompleteMcu(s)

\* mcuDone(): the link closes before the result is told; not for ever.
McuDone(g, ok, why) ==
    LET s == [g EXCEPT !.mcuOk = ok, !.mcuWhy = why, !.mcuResultPending = TRUE] IN
    IF g.link \in {"Opening", "Open", "Queued"}
    THEN SetTimer([s EXCEPT !.link = "Closing",
                            !.timers = {t \in @ : t.kind # "linkClose"}], "linkClose")
    ELSE CompleteMcu(s)

\* McuUpdater: finished(); what it says of a lost link is that the link is lost.
UpdaterFinished(g, ok, why) ==
    LET s == [g EXCEPT !.updaterActive = FALSE] IN
    McuDone(IF ok THEN Made(s, g.step) ELSE s, ok,
            IF ~ok /\ g.link # "Open" THEN "failed" ELSE why)

\* finishCli(): what waits for it is info's, or the chain's, which updates a board
\* of another version and one that runs rfmcu but does not answer.
FinishCli(g, outcome, way) ==
    LET s == [g EXCEPT !.cli = "none"]
        silent == outcome = "silent" /\ g.cli = "version"
    IN  CASE g.cancelRequested -> StepFailed(s, "cancelled")
          [] ~g.cancelRequested /\ g.op = "info" /\ outcome \in {"same", "older"} ->
                 StepFinished(Made(s, "info"), "info", TRUE, "done", way)
          [] ~g.cancelRequested /\ g.op # "info" /\ outcome = "same" ->
                 StepFinished(Made(s, "mcu"), "mcu", TRUE, "done", way)
          [] ~g.cancelRequested /\ g.op # "info" /\ (outcome = "older" \/ silent) ->
                 StartMcuUpdate(s, "mcu", way)
          [] OTHER -> StepFailed(s, "failed")

-----------------------------------------------------------------------------
(* The slots of the owner.                                                 *)

\* beginOperation(), then the operation's first step
StartOperation(g, op, way) ==
    LET s == [g EXCEPT !.begun = @ + 1, !.op = op, !.step = "none", !.cancelRequested = FALSE]
        h == [s EXCEPT !.holds = TRUE]
    IN  IF lock = "other" THEN EndOperation(s, FALSE, "busy")
        ELSE CASE op \in {"pull", "pull-flash"} ->
                      StartPull([h EXCEPT !.keepSsh = (op = "pull-flash")], way)
               [] op = "flash" -> StartFlash(h, way)
               [] op \in {"mcu", "set-role"} -> StartMcuUpdate(h, op, way)
               [] op = "fleet-flash" -> StartFleet(h, way)
               [] op = "info" -> StartMcuRead([h EXCEPT !.step = "info"])

\* cancel(): a fleet drains, a write is not cut.
CancelOperation(g) ==
    LET s == [g EXCEPT !.cancelRequested = TRUE] IN
    CASE g.op = "none" \/ (g.step = "flash" /\ ~g.flashCancellable) -> g
      [] g.op = "fleet-flash" -> [s EXCEPT !.fleet = IF @ = "Running" THEN "Draining" ELSE @]
      [] g.step = "pull" /\ g.pullPhase = "Connecting" ->
             SshDisconnected(HangUp(s))
      [] g.step = "pull" /\ g.pullPhase # "Connecting" /\ g.pullerActive -> CancelPull(s)
      [] g.step = "flash" /\ g.flashCancellable -> SetTimer(FlasherCancel(s), "flashCancel")
      [] g.step \in {"mcu", "set-role"} /\ g.updaterActive ->
             UpdaterFinished(s, FALSE, "cancelled")
      [] g.step \in {"mcu", "set-role"} /\ ~g.updaterActive /\ g.cli = "none" /\ g.linkActive
             /\ ~g.mcuResultPending ->
             McuDone(s, FALSE, "cancelled")
      [] OTHER -> s                 \* a tool that ends "cancelled", or a question

\* disconnectSource()
Disconnect(g) ==
    LET c == IF g.step = "pull" THEN CancelOperation(g) ELSE g
        s == [c EXCEPT !.keepSsh = FALSE]
    IN  IF s.pullerActive THEN CloseUnderPull(s) ELSE CloseSsh(s)

\* The slot of a single shot.
TimerFires(g, t) ==
    LET s == [g EXCEPT !.timers = @ \ {t}] IN
    CASE t.kind = "pullCancel" /\ g.pullerActive -> PullFinished(s, FALSE, "cancelled", "goes")
      [] t.kind = "dropped" /\ g.pullerActive /\ g.ssh = "Disconnected" ->
             PullFinished(PullerCancel(s), FALSE, "failed", "goes")
      [] t.kind \in {"flashStart", "flashCancel"} /\ g.flasher \notin FlashPhases ->
             FlashFinished(s, FALSE, IF t.kind = "flashCancel" THEN "cancelled" ELSE "failed",
                           "goes")
      [] t.kind = "linkClose" -> CompleteMcu(s)
      [] OTHER -> s

-----------------------------------------------------------------------------
TypeOK ==
    /\ gui.begun \in 0..MaxOperations
    /\ gui.op \in Operations \cup {"none"} /\ gui.step \in Steps \cup {"none"}
    /\ gui.pullPhase \in {"Idle", "Connecting", "Pulling"}
    /\ gui.cli \in {"none", "stop", "version", "help"}
    /\ gui.ssh \in {"Disconnected", "Connecting", "Connected"}
    /\ gui.puller \in {"Idle", "Stat", "Git", "Download"}
    /\ gui.flasher \in FlashPhases \cup {"Idle", "Refused"}
    /\ gui.fleet \in {"Idle", "Refused", "Running", "Draining"}
    /\ gui.link \in {"Closed", "Opening", "Open", "Closing", "Queued"}
    /\ gui.timers \subseteq Timers
    /\ gui.generation \in Nat /\ gui.abortGeneration \in 0..gui.generation
    /\ gui.last.why \in Reasons /\ gui.last.op \in Operations \cup {"none"}
    /\ worker \in [gen : 0..gui.generation, live : BOOLEAN, transfer : 0..MaxOperations]
    /\ \A i \in DOMAIN answers : answers[i].gen \in 0..gui.generation
    /\ lock \in {"free", "job", "other"}

Init ==
    /\ gui = GuiInit
    /\ worker = [gen |-> 0, live |-> FALSE, transfer |-> 0]
    /\ answers = <<>>
    /\ lock = "free"

\* A handler of the GUI thread ran; the operation's lock file goes with it.
Now(g) ==
    /\ gui' = g
    /\ lock' = IF g.holds THEN "job" ELSE IF lock = "job" THEN "free" ELSE lock

\* ... and nothing of the worker's was delivered.
Handle(g) == Now(g) /\ UNCHANGED <<worker, answers>>

-----------------------------------------------------------------------------
(* The user, and a second program on the same PC.                          *)

\* pull(), flashSoc(), updateMcu(), setMcuRole(), readMcuInfo(), pullAndFlash(),
\* flashFleet(); a running operation refuses every one of them.
Begin(op, way) ==
    /\ gui.op = "none" /\ gui.begun < MaxOperations
    /\ Handle(StartOperation(gui, op, way))

Cancel == gui.op # "none" /\ Handle(CancelOperation(gui))

DisconnectSource ==
    /\ gui.ssh # "Disconnected" \/ gui.step = "pull"
    /\ Handle(Disconnect(gui))

\* The owner answers a question: no, or a Cancel meanwhile, ends the step.
AnswerQuestion(allowed, way) ==
    /\ gui.asking
    /\ LET s == [gui EXCEPT !.asking = FALSE] IN
       Handle(IF gui.cancelRequested \/ ~allowed
              THEN StepFailed(s, IF gui.cancelRequested THEN "cancelled" ELSE "failed")
              ELSE IF gui.step = "fleet-flash" THEN RunFleet(s, way) ELSE OpenLink(s))

OtherTakesLock ==
    lock = "free" /\ lock' = "other" /\ UNCHANGED <<gui, worker, answers>>

OtherReleasesLock ==
    lock = "other" /\ lock' = "free" /\ UNCHANGED <<gui, worker, answers>>

-----------------------------------------------------------------------------
(* What the job drives reports to it.                                      *)

FlasherMoves(phase) ==
    /\ gui.flasher \in FlashPhases
    /\ phase \in CASE gui.flasher = "Detecting" -> {"RebootingToLoader", "WaitingForLoader"}
                    [] gui.flasher = "RebootingToLoader" -> {"WaitingForLoader"}
                    [] gui.flasher = "WaitingForLoader" -> {"Flashing"}
                    [] gui.flasher = "Flashing" -> {"WaitingForAdb"}
                    [] gui.flasher = "WaitingForAdb" -> {"ReadingBoardInfo"}
                    [] OTHER -> {}
    /\ Handle(FlasherPhase(gui, phase))

\* The flash is done once the board is back, or at once when nobody waits for it.
FlasherEnds(ok, way) ==
    /\ gui.flasher # "Idle"
    /\ ok => gui.flasher \in {"Flashing", "WaitingForAdb", "ReadingBoardInfo"}
    /\ Handle(FlasherEndFlow(gui, ok, IF ok THEN "done" ELSE "failed", way))

FleetEnds(ok) ==
    /\ gui.fleet # "Idle" /\ (ok => gui.fleet # "Refused")
    /\ LET s == [gui EXCEPT !.fleet = "Idle", !.fleetActive = FALSE] IN
       Handle(CASE ~gui.fleetActive -> s
                [] gui.fleetActive /\ ok ->
                       StepFinished(Made(s, "fleet-flash"), "fleet-flash", TRUE, "done", "goes")
                [] OTHER -> StepFailed(s, "failed"))

\* onStaleRfmcuStopped(), onCliFinished(): an older application lists its role in
\* the answer to a second command.
CliEnds(outcome, way) ==
    /\ outcome \in CASE gui.cli = "stop" -> {"next", "dead"}
                      [] gui.cli = "version" -> Outcomes
                      [] gui.cli = "help" -> Outcomes \ {"next"}
                      [] OTHER -> {}
    /\ Handle(IF outcome = "next" /\ ~gui.cancelRequested
              THEN [gui EXCEPT !.cli = IF @ = "stop" THEN "version" ELSE "help"]
              ELSE FinishCli(gui, outcome, way))

\* opened(): onLinkOpened()
LinkOpens ==
    /\ gui.link = "Opening"
    /\ LET s == [gui EXCEPT !.link = "Open"] IN
       Handle(IF ~s.linkActive \/ s.updaterActive \/ s.mcuResultPending THEN s
              ELSE [s EXCEPT !.updaterActive = TRUE])

\* failed(): the result goes out while the link still cleans up.
LinkFails ==
    /\ gui.link = "Opening"
    /\ LET s == [gui EXCEPT !.link = "Closing"] IN
       Handle(IF s.linkActive /\ ~s.updaterActive /\ ~s.mcuResultPending
              THEN StepFailed([s EXCEPT !.linkActive = FALSE], "failed") ELSE s)

\* linkLost(): told to the updater by its socket.
LinkIsLost ==
    gui.link = "Open" /\ Handle([gui EXCEPT !.link = "Closing"])

LinkClosesForgetful ==
    /\ gui.link \in {"Closing", "Queued"}
    /\ Handle(CompleteMcu([gui EXCEPT !.link = "Closed"]))

\* closed(), and the open() that waited for it
LinkCloses ==
    /\ gui.link \in {"Closing", "Queued"}
    /\ Handle(CompleteMcu([gui EXCEPT !.link = IF @ = "Queued" THEN "Opening" ELSE "Closed"]))

UpdaterEnds(ok) ==
    /\ gui.updaterActive
    /\ ok => gui.link = "Open"
    /\ Handle(UpdaterFinished(gui, ok, IF ok THEN "done" ELSE "failed"))

Fire == \E t \in gui.timers : Handle(TimerFires(gui, t))

-----------------------------------------------------------------------------
(* The worker thread: the calls in their order, and what happens to its        *)
(* session.                                                                    *)

Answer(kind, ok, run) == [gen |-> worker.gen, kind |-> kind, ok |-> ok, run |-> run]

\* finishTransfer(), as a sequence of answers
TransferAnswer(ok) ==
    IF worker.transfer = 0 THEN <<>> ELSE <<Answer("transfer", ok, worker.transfer)>>

\* teardownLive(), what it reports, and what its caller reports after it
Teardown(kind) ==
    /\ worker' = [worker EXCEPT !.live = FALSE, !.transfer = 0]
    /\ answers' = answers \o TransferAnswer(FALSE) \o <<Answer(kind, FALSE, 0)>>

\* The GUI thread's share of a step of the worker: a call it takes, and
\* shared->transfer.active.
Took(ended) ==
    /\ gui' = [gui EXCEPT !.calls = Tail(@), !.transfer = @ /\ ~ended]
    /\ UNCHANGED lock

TakeCall(name) == gui.calls # <<>> /\ Head(gui.calls).name = name

\* open(): runConnect(); an abort mark set meanwhile ends it.
WorkerOpens(ok) ==
    /\ TakeCall("open")
    /\ LET gen == Head(gui.calls).gen IN
       /\ ok => gui.abortGeneration < gen
       /\ worker' = [gen |-> gen, live |-> ok, transfer |-> 0]
       /\ answers' = Append(answers, [gen |-> gen, kind |-> IF ok THEN "connected" ELSE "disconnected",
                                      ok |-> ok, run |-> 0])
    /\ Took(FALSE)

\* close(): one of another generation is not this session's.
WorkerCloses ==
    /\ TakeCall("close")
    /\ IF Head(gui.calls).gen = worker.gen THEN Teardown("disconnected")
       ELSE UNCHANGED <<worker, answers>>
    /\ Took(Head(gui.calls).gen = worker.gen /\ worker.transfer # 0)

\* statRemote(), runCommand(): not run for a session that was closed meanwhile.
WorkerAsks(name, ok) ==
    /\ name \in {"stat", "command"} /\ TakeCall(name)
    /\ LET call == Head(gui.calls) IN
       IF call.gen # worker.gen \/ gui.abortGeneration >= worker.gen
       THEN UNCHANGED answers
       ELSE answers' = Append(answers, Answer(name, ok /\ worker.live, call.run))
    /\ UNCHANGED worker /\ Took(FALSE)

\* startTransfer(), of whatever session is there
WorkerTransfers(ok) ==
    /\ TakeCall("transfer")
    /\ LET run == Head(gui.calls).run
           goes == ok /\ worker.live /\ worker.transfer = 0
       IN /\ worker' = IF goes THEN [worker EXCEPT !.transfer = run] ELSE worker
          /\ answers' = IF goes THEN answers ELSE Append(answers, Answer("transfer", FALSE, run))
          /\ Took(~goes)

\* cancelTransfer()
WorkerCancels ==
    /\ TakeCall("cancelTransfer")
    /\ worker' = [worker EXCEPT !.transfer = 0]
    /\ answers' = answers \o TransferAnswer(FALSE)
    /\ Took(worker.transfer # 0)

\* The tick's last block, or its error: finishTransfer()
TransferEnds(ok) ==
    /\ worker.transfer # 0
    /\ worker' = [worker EXCEPT !.transfer = 0]
    /\ answers' = answers \o TransferAnswer(ok)
    /\ gui' = [gui EXCEPT !.transfer = FALSE] /\ UNCHANGED lock

\* handleConnectionLost(), or the remote shell ends
SessionEnds(kind) ==
    /\ worker.live /\ kind \in {"dropped", "disconnected"}
    /\ Teardown(kind)
    /\ gui' = [gui EXCEPT !.transfer = @ /\ worker.transfer = 0] /\ UNCHANGED lock

\* A signal reaches the GUI thread, where one of another generation is dropped.
Deliver(unchanged, way) ==
    /\ answers # <<>>
    /\ answers' = Tail(answers) /\ UNCHANGED worker
    /\ Now(IF Head(answers).gen # gui.generation THEN gui
           ELSE Heard(gui, Head(answers), unchanged, way))

-----------------------------------------------------------------------------
WorkerStep ==
    \/ \E ok \in BOOLEAN : WorkerOpens(ok) \/ WorkerTransfers(ok) \/ TransferEnds(ok)
    \/ \E name \in {"stat", "command"}, ok \in BOOLEAN : WorkerAsks(name, ok)
    \/ WorkerCloses \/ WorkerCancels

Delivery == \E unchanged \in BOOLEAN, way \in Ways \ {"asks"} : Deliver(unchanged, way)

\* The collaborators, each of which has a time limit of its own for what it waits for
ToolStep ==
    \/ \E phase \in FlashPhases : FlasherMoves(phase)
    \/ \E ok \in BOOLEAN, way \in Ways \ {"asks", "late"} : FlasherEnds(ok, way)
    \/ \E ok \in BOOLEAN : FleetEnds(ok) \/ UpdaterEnds(ok)
    \/ \E outcome \in Outcomes, way \in Ways \ {"late"} : CliEnds(outcome, way)
    \/ LinkOpens \/ LinkFails \/ LinkCloses

OwnerAnswers == \E allowed \in BOOLEAN, way \in {"goes", "late"} : AnswerQuestion(allowed, way)

Next ==
    \/ \E op \in Starters, way \in Ways : Begin(op, way)
    \/ Cancel \/ DisconnectSource
    \/ OtherTakesLock \/ OtherReleasesLock
    \/ WorkerStep \/ (\E kind \in {"dropped", "disconnected"} : SessionEnds(kind))
    \/ Delivery \/ ToolStep \/ OwnerAnswers \/ LinkIsLost \/ Fire

\* The event loop of the GUI thread delivers what was queued and fires its timers.
\* Nothing is assumed of the tools, of the worker, which the build machine may keep
\* waiting, or of the user.
Spec == Init /\ [][Next]_vars /\ WF_vars(Delivery) /\ WF_vars(Fire)

-----------------------------------------------------------------------------
(* Properties.                                                             *)

Working ==
    \/ gui.puller # "Idle" \/ gui.flasher \in FlashPhases \/ gui.fleet \in {"Running", "Draining"}
    \/ gui.cli # "none" \/ gui.updaterActive \/ gui.link \in {"Opening", "Open"}

\* Whatever works on the board or on the image does so for the running operation
\* and under its lock file, so that no second program meets it: no result, no
\* Cancel and no timer of an earlier operation ends the operation over running
\* work.  (The clean-up of an MCU link is not work in this sense, see README.)
LockCoversTheWork == Working => gui.op # "none" /\ lock = "job"

\* An operation that has ended leaves nothing behind in the job: the connection to
\* the build machine is closed and no collaborator is waited for, so that the next
\* operation, which looks at these, starts from nothing.
NoLeftovers ==
    gui.op = "none" =>
        /\ gui.ssh = "Disconnected" /\ gui.pullPhase = "Idle" /\ gui.puller = "Idle"
        /\ ~gui.pullerActive /\ ~gui.flasherActive /\ ~gui.fleetActive
        /\ ~gui.linkActive /\ ~gui.updaterActive /\ ~gui.mcuResultPending
        /\ gui.cli = "none" /\ ~gui.asking /\ ~gui.holds

Needed(result) ==
    CASE result.op # "pull-flash" -> {result.op}
      [] result.op = "pull-flash" /\ result.why = "no package" -> {"pull", "flash"}
      [] OTHER -> {"pull", "flash", "mcu"}

\* An operation that reports success has done each of its parts itself: no result
\* of an earlier operation, still stored or on its way, is taken for its own.
SuccessIsComplete == gui.last.ok => Needed(gui.last) \subseteq gui.last.made

\* A session the worker holds on the build machine is the one the GUI thread has, or
\* is told to close; a late report about an earlier one does not make it forget it.
SessionHasOwner ==
    worker.live =>
        \/ gui.ssh # "Disconnected" /\ gui.generation = worker.gen
        \/ \E i \in DOMAIN gui.calls :
               gui.calls[i].name = "close" /\ gui.calls[i].gen = worker.gen

\* An operation that has ended leaves nothing behind: neither in the job, nor a session of
\* the SSH worker that nobody closes (FirmwareJob::endOperation).
NothingIsLeft == NoLeftovers /\ SessionHasOwner

\* Once a Cancel is taken, the operation does not go on to its next step and does
\* not end in success, though the work it cancels may just have succeeded.  (A
\* fleet drains; an MCU result that only waits for its link stands.)
CancelHolds ==
    [][gui.cancelRequested /\ gui.op # "fleet-flash" /\ ~gui.mcuResultPending
           => \/ gui'.step = gui.step
              \/ gui'.op = "none" /\ ~gui'.last.ok]_vars

\* A cancelled pull, and an MCU step with its result, end whatever the build
\* machine, the worker and the board do: their timers see to it.
CancelEnds ==
    (gui.step = "pull" /\ gui.cancelRequested) \/ gui.mcuResultPending ~> gui.op = "none"

\* Every operation ends, if the tools and the build machine end what they are asked
\* and the owner answers: no report is lost between them and the job, and none is
\* waited for that nobody makes.
OperationEnds ==
    WF_vars(ToolStep) /\ WF_vars(WorkerStep) /\ WF_vars(OwnerAnswers)
        => []<>(gui.op = "none")

\* "A cancelled download ends once the connection removed its .part; never wait
\* longer than this" (FirmwareJob.cpp:33): the wait is of the pull that was
\* cancelled, so only an operation the user cancelled ends as cancelled.
HonestCancel == gui.last.why = "cancelled" => gui.last.asked

=============================================================================
