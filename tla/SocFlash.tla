------------------------------ MODULE SocFlash ------------------------------
(***************************************************************************)
(* Flashing one Rockchip board over USB (firmware/SocFlasher): the device  *)
(* query, the partition plan and the flash flow, three chains of           *)
(* asynchronous commands, together with the boards on the bench, which     *)
(* change their mode on their own, and the image file, which can be        *)
(* rebuilt at any time.  The writes (WL, UF) and the reset (RD) carry no   *)
(* address: they reach some board in download mode.  A command's effect is *)
(* taken when it ends; one that is cancelled ends without an answer.       *)
(***************************************************************************)
EXTENDS BoardProfile, FiniteSets, SequencesExt

CONSTANTS
    Boards,      \* the boards of the bench
    BoardOf,     \* a board's Loader PID, its flash layout, what its cmdline tells
                 \* of it, and its product string
    ImageKinds,  \* what an image file can be: its chip tag and its env.img layout
    Settings,    \* the owner's choices: override, force, handler, verify, wait,
                 \* memory, rows
    MaxEvents,   \* flashes begun, boards that change their mode on their own, images rebuilt
    MaxPolls,    \* polls before a wait is over
    kMaxPlanRounds

VARIABLES
    bench,    \* the mode each board is in
    flash,    \* the build each partition of a board holds; 0: something else
    built,    \* the builds of the image file, the last one on disk
    set,      \* the owner's choices
    phase, flow,
    query,    \* the command of the owner's own query, if one runs
    step,     \* the command the flow waits for
    f,        \* what the flow knows
    kept,     \* the plan kept
    run,      \* the plan being made
    folder,   \* the extract folder: the build it is said to hold and the one it holds
    asking,   \* the open question and its flow
    writing,  \* the rows being written
    log       \* starts, ends and changes counted, and the build rule 1 judged

vars == <<bench, flash, built, set, phase, flow, query, step, f, kept, run, folder, asking, writing, log>>
world == <<bench, flash, built, set>>

Download == {"loader", "maskrom"}
InMode(modes) == {b \in Boards : bench[b] \in modes}
Disk == Len(built)
nobody == "nobody"
Idle == "idle"

isRunning == phase \in {"Detecting", "RebootingToLoader", "WaitingForLoader", "Flashing",
                        "WaitingForAdb", "ReadingBoardInfo"}

NoQuestion == [rule |-> 0, flow |-> 0]
NoPlan == [valid |-> FALSE, build |-> 0, key |-> "none", layout |-> "none", fromImage |-> FALSE]
NoRun == [at |-> Idle, build |-> 0, key |-> "none", flow |-> 0, phase |-> "Idle", own |-> FALSE, round |-> 0]
NoWrites == [rows |-> <<>>, at |-> 1, build |-> 0]

\* A new flow: its own evidence, questions and address.
NewFlow(memory) ==
    [mtd |-> memory, boardRead |-> FALSE, loaderRead |-> FALSE, viaTwo |-> FALSE,
     product |-> Unknown, asked |-> FALSE, profile |-> Unknown, pid |-> Unknown,
     board |-> nobody, at |-> nobody, any |-> FALSE, polls |-> 0,
     layoutAnswer |-> "open", loaderAnswer |-> "open"]

Init ==
    /\ bench \in [Boards -> {"away", "adb"} \cup Download]
    /\ flash = [b \in Boards |-> [r \in {"env", "boot"} |-> 0]]
    /\ built \in {<<k>> : k \in ImageKinds}
    /\ set \in Settings
    /\ phase = "Idle" /\ flow = 0 /\ query = Idle /\ step = Idle /\ f = NewFlow(set.memory)
    /\ kept = NoPlan /\ run = NoRun /\ folder = [key |-> 0, holds |-> 0]
    /\ asking = NoQuestion /\ writing = NoWrites
    /\ log = [starts |-> 0, ends |-> 0, changes |-> 0, judged |-> 0]

----------------------------------------------------------------------------
(* The ends of a flow's step. *)

\* The end retires every callback of the flow and cancels a command that only waits; a question
\* that is still open keeps the number of its flow.  What the flow knew is not used again.
EndFlow(end) ==
    /\ phase' = end /\ flow' = flow + 1 /\ query' = Idle /\ step' = Idle /\ writing' = NoWrites
    /\ f' = NewFlow(set.memory)
    /\ log' = [log EXCEPT !.ends = @ + 1]

\* The next command of the flow, in the phase the flow enters with it.
Go(next, command, known) ==
    /\ phase' = next /\ step' = command /\ f' = known
    /\ UNCHANGED <<flow, query, asking, writing, log>>

Fail == EndFlow("Failed") /\ UNCHANGED asking

layoutEvidence(known) == IF known.boardRead \/ known.loaderRead THEN known.mtd ELSE "none"

\* The flow's detection with what it knows now.
Detected(known) ==
    [known EXCEPT !.profile = detectBoard(set.override, known.pid, known.product, layoutEvidence(known))]

----------------------------------------------------------------------------
(* Rules 1 to 3, before a board is rebooted for an image and before its first write.  A question
   is a dialog with an event loop of its own; its answer is kept for the flow. *)

computeImageProfile ==
    detectImage(built[Disk].tag, IF kept'.valid /\ kept'.fromImage THEN kept'.layout ELSE "none")

LayoutsDiffer(known) == kept'.fromImage /\ layoutRefusal(kept'.layout, known.mtd)
LoaderRowsAtRisk(known) == loaderPartitionRefusal(known.profile, ToSet(set.rows))
Allowed(answer) == set.force \/ answer = "yes"

\* The rules from `first` on that hold the flow up.
Objections(first, known) ==
    {r \in first..3 : \/ r = 1 /\ imageRefusal(known.profile, computeImageProfile)
                      \/ r = 2 /\ LayoutsDiffer(known) /\ ~Allowed(known.layoutAnswer)
                      \/ r = 3 /\ LoaderRowsAtRisk(known) /\ ~Allowed(known.loaderAnswer)}
MayAsk(rule, known) ==
    /\ set.handler
    /\ \/ rule = 2 /\ known.layoutAnswer = "open"
       \/ rule = 3 /\ known.loaderAnswer = "open"

\* What the rules let happen: the reboot of step 2, the first write of step 5.
Passed(next, known, judged) ==
    /\ phase' = next /\ f' = known
    /\ log' = [log EXCEPT !.judged = judged]
    /\ IF next = "RebootingToLoader"
       THEN step' = "reboot" /\ UNCHANGED writing
       ELSE step' = "WL" /\ writing' = [rows |-> set.rows, at |-> 1, build |-> folder'.holds]
    /\ UNCHANGED <<flow, query>>

applyProfileRules(next, first, known) ==
    LET objections == Objections(first, known)
        rule == CHOOSE r \in objections : \A q \in objections : r <= q
        judged == IF first = 1 THEN Disk ELSE log.judged
    IN  \/ objections = {} /\ Passed(next, known, judged) /\ asking' = NoQuestion
        \/ /\ objections # {} /\ MayAsk(rule, known)
           /\ asking' = [rule |-> rule, flow |-> flow]
           /\ phase' = next /\ f' = known /\ step' = "answer"
           /\ log' = [log EXCEPT !.judged = judged]
           /\ UNCHANGED <<flow, query, writing>>
        \/ /\ objections # {} /\ ~MayAsk(rule, known)
           /\ EndFlow("Failed") /\ asking' = NoQuestion

\* The dialog is closed: the rules go on behind the one that asked, if the flow is still the one.
Answer ==
    /\ asking.rule # 0
    /\ UNCHANGED <<world, kept, run, folder>>
    /\ \E yes \in {"yes", "no"} :
          IF asking.flow = flow
          THEN applyProfileRules(phase, asking.rule,
                                 IF asking.rule = 2 THEN [f EXCEPT !.layoutAnswer = yes]
                                                    ELSE [f EXCEPT !.loaderAnswer = yes])
          ELSE asking' = NoQuestion /\ UNCHANGED <<phase, flow, query, step, f, writing, log>>

----------------------------------------------------------------------------
(* The plan: EXF into the folder, unless the folder already holds this build, then the rows in the
   image's own layout, or else in the board's. *)

EnvLayout(build) == IF build = 0 THEN "none" ELSE built[build].env
ResolvedLayout(holds, key) == IF EnvLayout(holds) # "none" THEN EnvLayout(holds) ELSE key
planIsCurrent(known) ==
    /\ kept'.valid /\ kept'.build = Disk /\ kept'.key = known.mtd
    /\ ResolvedLayout(folder'.holds, kept'.key) = kept'.layout

startPlan(mtd, next, round, own) ==
    [at |-> IF folder'.key = Disk THEN "later" ELSE "EXF", build |-> Disk, key |-> mtd,
     flow |-> IF own THEN flow ELSE 0, phase |-> next, own |-> own, round |-> round]

\* Every row is checked before the first byte is written: one that is missing or too large ends it.
writePartitions(known) ==
    \/ Fail
    \/ applyProfileRules("Flashing", 1, known)

WithPlan(next, known) ==
    IF kept'.layout = "none" THEN Fail
    ELSE IF next = "RebootingToLoader" THEN applyProfileRules(next, 1, known)
    ELSE writePartitions(known)

\* A mutant: a plan of the flow's own is not looked at again.
ensurePlanOnce(next, known, round, running) ==
    \/ round > 0 /\ WithPlan(next, known) /\ run' = running
    \/ /\ round = 0 /\ Go(next, "plan", known)
       /\ run' = startPlan(known.mtd, next, round, TRUE)

\* The flow needs a current plan: the kept one, the running one when it reports, or its own.
\* `running`: the plan that runs once this step's are over.
ensurePlan(next, known, round, running) ==
    \/ planIsCurrent(known) /\ WithPlan(next, known) /\ run' = running
    \/ ~planIsCurrent(known) /\ round >= kMaxPlanRounds /\ Fail /\ run' = running
    \/ /\ ~planIsCurrent(known) /\ round < kMaxPlanRounds
       /\ Go(next, "plan", known)
       /\ run' = IF running.at = Idle THEN startPlan(known.mtd, next, round, TRUE)
                 ELSE [running EXCEPT !.flow = flow, !.phase = next, !.own = FALSE, !.round = round]

\* A mutant: the plan's report goes on with whatever waits.
PlanReportsAnyhow(ok) ==
    IF run.flow # 0
    THEN IF ~ok /\ run.own THEN Fail /\ run' = NoRun
         ELSE ensurePlan(run.phase, f, run.round + 1, NoRun)
    ELSE run' = NoRun /\ UNCHANGED <<phase, flow, query, step, f, asking, writing, log>>

\* A plan reports: kept first, then the flow that waits for it - if it still does.
PlanReports(ok) ==
    IF run.flow = flow /\ flow # 0 /\ phase = run.phase /\ step = "plan"
    THEN IF ~ok /\ run.own THEN Fail /\ run' = NoRun
         ELSE ensurePlan(phase, f, run.round + 1, NoRun)
    ELSE run' = NoRun /\ UNCHANGED <<phase, flow, query, step, f, asking, writing, log>>

finishPlan ==
    /\ run.at # Idle
    /\ \E holds \in IF run.at = "later" THEN {folder.holds} ELSE {run.build, Disk} :
          LET layout == ResolvedLayout(holds, run.key) IN
          /\ folder' = [key |-> run.build, holds |-> holds]
          /\ kept' = [valid |-> TRUE, build |-> run.build, key |-> run.key, layout |-> layout,
                      fromImage |-> EnvLayout(holds) # "none"]
    /\ PlanReports(TRUE) /\ UNCHANGED world

failPlan ==
    /\ run.at = "EXF"
    /\ folder' = [key |-> 0, holds |-> 0] /\ kept' = NoPlan
    /\ PlanReports(FALSE) /\ UNCHANGED world

\* The owner's own plan: not while a flow or a plan runs.
planPartitions ==
    /\ ~isRunning /\ log.starts + log.changes < MaxEvents /\ run.at = Idle
    /\ folder' = folder /\ run' = startPlan(set.memory, "Idle", 0, FALSE)
    /\ f' = [f EXCEPT !.mtd = set.memory]
    /\ UNCHANGED <<world, phase, flow, query, step, kept, asking, writing, log>>

----------------------------------------------------------------------------
(* Steps 1 to 4: which board, and how it gets into download mode. *)

queryStatus ==
    /\ ~isRunning /\ log.starts + log.changes < MaxEvents /\ query = Idle
    /\ query' = "LD"
    /\ UNCHANGED <<world, phase, flow, step, f, kept, run, folder, asking, writing, log>>

OwnersQuery ==
    /\ \/ query = "LD" /\ InMode(Download) = {} /\ query' = "adb"
       \/ query # Idle /\ query' = Idle
    /\ UNCHANGED <<world, phase, flow, step, f, kept, run, folder, asking, writing, log>>

\* A mutant: a refresh in flight goes on.
StartKeepsQuery ==
    /\ ~isRunning /\ log.starts + log.changes < MaxEvents /\ asking = NoQuestion
    /\ flow' = flow + 1 /\ UNCHANGED <<world, query, kept, run, folder, asking, writing>>
    /\ log' = [log EXCEPT !.starts = @ + 1, !.ends = IF step = "refuse" THEN @ + 1 ELSE @]
    /\ phase' = "Detecting" /\ step' = "LD" /\ f' = NewFlow(set.memory)

\* A query of the owner's is aborted.  A refused start is told from the event loop, unless another
\* start comes first: its caller has seen it refused.
Start ==
    /\ ~isRunning /\ log.starts + log.changes < MaxEvents /\ asking = NoQuestion
    /\ flow' = flow + 1 /\ query' = Idle /\ UNCHANGED <<world, kept, run, folder, asking, writing>>
    /\ log' = [log EXCEPT !.starts = @ + 1, !.ends = IF step = "refuse" THEN @ + 1 ELSE @]
    /\ \/ phase' = "Detecting" /\ step' = "LD" /\ f' = NewFlow(set.memory)
       \/ step' = "refuse" /\ UNCHANGED <<phase, f>>
Refuse ==
    /\ step = "refuse" /\ EndFlow("Failed")
    /\ UNCHANGED <<world, kept, run, folder, asking>>

enterWaitingForLoader(known, any) ==
    Go("WaitingForLoader", IF any THEN "LD" ELSE "poll", [known EXCEPT !.any = any, !.polls = 0])

\* A mutant: the clock of the wait starts again with every poll.
pollAgainForEver(poll) == Go(phase, poll, f)

\* Nothing yet: the next poll, unless the wait is over.
pollAgain(poll) ==
    \/ f.polls > 0 /\ EndFlow(IF phase = "WaitingForAdb" THEN "Done" ELSE "Failed") /\ UNCHANGED asking
    \/ f.polls < MaxPolls /\ Go(phase, poll, [f EXCEPT !.polls = @ + 1])

\* Step 2: the running board is asked for its layout before it is rebooted.
rebootToLoader(b) ==
    \E product \in {Unknown, BoardOf[b].product} :
       Go("RebootingToLoader", "cmdline", [Detected([f EXCEPT !.product = product]) EXCEPT !.board = b])

\* A mutant: what the PC remembers is the board's.
RememberedTrusted(known) == known.mtd

\* A board's own layout, unless it is remembered wrong: then it is forgotten and read.
Remembered(known) == IF Contradict(byLayout(known.mtd), known.pid) THEN "none" ELSE known.mtd

startFlash(known, b) ==
    IF bench[b] = "maskrom"
    THEN /\ run' = run
         /\ IF imageRefusal(known.profile, computeImageProfile)
            THEN Fail
            ELSE /\ phase' = "Flashing" /\ step' = "UF" /\ f' = known
                 /\ log' = [log EXCEPT !.judged = Disk]
                 /\ UNCHANGED <<flow, query, asking, writing>>
    ELSE ensurePlan("Flashing", known, 0, run)

toStepFive(known, b) ==
    LET mtd == Remembered(known) IN
    IF bench[b] = "loader" /\ ~known.viaTwo /\ mtd = "none"
    THEN Go(phase, "RL env", [known EXCEPT !.mtd = mtd, !.at = b]) /\ UNCHANGED run
    ELSE startFlash([known EXCEPT !.at = b], b)

LoaderPid(b) == IF bench[b] = "loader" THEN BoardOf[b].pid ELSE Unknown

\* The one board in download mode: a Loader PID that contradicts the override ends it.
refuseDownloadDevice(b) == overrideRefusal(set.override, LoaderPid(b)) /\ Fail /\ UNCHANGED run
adoptDownloadDevice(b) == Detected([f EXCEPT !.pid = LoaderPid(b)])
Adoptable(b) == ~overrideRefusal(set.override, LoaderPid(b))

refuseSeveralDevices(devices) == Cardinality(devices) > 1 /\ Fail /\ UNCHANGED run

\* LD, then adb devices: what the query of the flow finds, at the start or in the wait for any board.
NoBoard ==
    /\ UNCHANGED run
    /\ IF phase = "Detecting" THEN enterWaitingForLoader(Detected(f), TRUE) ELSE pollAgain("LD")

FlowFinds(devices) ==
    \/ refuseSeveralDevices(devices)
    \/ \E b \in devices :
          /\ devices = {b}
          /\ \/ refuseDownloadDevice(b)
             \/ /\ Adoptable(b)
                /\ IF phase = "Detecting" THEN enterWaitingForLoader(adoptDownloadDevice(b), FALSE) /\ UNCHANGED run
                   ELSE toStepFive(adoptDownloadDevice(b), b)

\* An LD that could not run or timed out lists nothing.
ListDevices ==
    /\ step = "LD"
    /\ UNCHANGED <<world, kept, folder>>
    /\ \/ Go(phase, "devices", f) /\ UNCHANGED run
       \/ FlowFinds(InMode(Download))

\* Several boards on adb, none, one that is not authorized, or an adb that could not run: no board.
AdbDevices ==
    /\ step = "devices"
    /\ UNCHANGED <<world, kept, folder>>
    /\ \/ NoBoard
       \/ \E b \in InMode({"adb"}) : InMode({"adb"}) = {b} /\ rebootToLoader(b) /\ UNCHANGED run

\* The board's /proc/cmdline, or what the owner remembers for this very board; never the memory of
\* a board met in Loader mode.
ReadFlashLayout ==
    /\ step = "cmdline"
    /\ UNCHANGED <<world, kept, folder>>
    /\ \E read \in {"none"} \cup {BoardOf[b].cmdline : b \in {f.board} \cap InMode({"adb"})},
          own \in {"none", BoardOf[f.board].layout} :
          LET known == Detected([f EXCEPT !.mtd = IF read # "none" THEN read ELSE own,
                                          !.boardRead = read # "none", !.viaTwo = TRUE])
          IN IF known.profile = Unknown /\ ~known.asked
             THEN Go(phase, "product", [known EXCEPT !.asked = TRUE]) /\ UNCHANGED run
             ELSE ensurePlan(phase, known, 0, run)

ReadBoardProduct ==
    /\ step = "product"
    /\ UNCHANGED <<world, kept, folder>>
    /\ \E product \in {Unknown} \cup {BoardOf[b].product : b \in {f.board} \cap InMode({"adb"})} :
          ensurePlan(phase, Detected([f EXCEPT !.product = product]), 0, run)

\* `adb -s <serial> reboot loader`: its exit status is ignored.
RebootIntoLoader ==
    /\ step = "reboot"
    /\ bench' \in {bench} \cup {[bench EXCEPT ![b] = m] : b \in {f.board} \cap InMode({"adb"}), m \in {"loader", "away"}}
    /\ enterWaitingForLoader(f, FALSE)
    /\ UNCHANGED <<flash, built, set, kept, run, folder>>

PollLoader ==
    /\ step = "poll" /\ phase = "WaitingForLoader"
    /\ UNCHANGED <<world, kept, folder>>
    /\ LET devices == InMode(Download) IN
       \/ refuseSeveralDevices(devices)
       \/ devices = {} /\ pollAgain("poll") /\ UNCHANGED run
       \/ \E b \in devices :
             /\ devices = {b}
             /\ \/ refuseDownloadDevice(b)
                \/ Adoptable(b) /\ toStepFive(adoptDownloadDevice(b), b)

\* The env partition of a board met in Loader mode, then the partition table, both by address.
LoaderLayoutFound(layout) ==
    LET known == Detected([f EXCEPT !.mtd = layout, !.loaderRead = TRUE]) IN
    IF overrideRefusal(set.override, f.pid)
    THEN Fail /\ UNCHANGED run
    ELSE ensurePlan("Flashing", known, 0, run)

ReadLayoutInLoaderMode ==
    /\ step \in {"RL env", "PL"}
    /\ UNCHANGED <<world, kept, folder>>
    /\ \/ f.at \in InMode({"loader"}) /\ BoardOf[f.at].layout # "none" /\ LoaderLayoutFound(BoardOf[f.at].layout)
       \/ step = "RL env" /\ Go(phase, "PL", f) /\ UNCHANGED run
       \/ step = "PL" /\ ensurePlan("Flashing", f, 0, run)
----------------------------------------------------------------------------
(* Step 5: UF, or one WL per row - each read back before the next - and RD. *)

Written(b, row, build) == flash' = [flash EXCEPT ![b][row] = build]
afterFlash == IF set.wait THEN Go("WaitingForAdb", "poll", [f EXCEPT !.any = FALSE, !.polls = 0])
              ELSE EndFlow("Done") /\ UNCHANGED asking

\* UF writes every partition of some board; its success line is required.
onFlashFinished ==
    /\ step = "UF"
    /\ \/ \E b \in InMode(Download) :
             /\ flash' = [flash EXCEPT ![b] = [r \in DOMAIN @ |-> Disk]]
             /\ bench' \in {[bench EXCEPT ![b] = m] : m \in {"adb", "away"}}
             /\ afterFlash
       \/ UNCHANGED <<bench, flash>> /\ Fail
    /\ UNCHANGED <<built, set, kept, run, folder>>

\* A mutant: one WL too many.
writeNextPastTheEnd(done) ==
    LET next == IF done THEN writing.at + 1 ELSE writing.at IN
    /\ writing' = [writing EXCEPT !.at = next]
    /\ step' = IF ~done THEN "RL" ELSE IF next > Len(writing.rows) + 1 THEN "RD" ELSE "WL"
    /\ UNCHANGED <<phase, flow, query, f, asking, log>>

writeNext(done) ==
    LET next == IF done THEN writing.at + 1 ELSE writing.at IN
    /\ writing' = [writing EXCEPT !.at = next]
    /\ step' = IF ~done THEN "RL" ELSE IF next > Len(writing.rows) THEN "RD" ELSE "WL"
    /\ UNCHANGED <<phase, flow, query, f, asking, log>>

\* A WL may claim success and have written something else.
onWriteFinished ==
    /\ step = "WL"
    /\ \/ \E b \in InMode({"loader"}), build \in {0, writing.build} :
             Written(b, writing.rows[writing.at], build) /\ writeNext(~set.verify)
       \/ \E b \in InMode({"loader"}) :
             Written(b, writing.rows[writing.at], 0) /\ Fail
       \/ UNCHANGED flash /\ Fail
    /\ UNCHANGED <<bench, built, set, kept, run, folder>>

\* A mutant: an RL that exits clean is enough.
onVerifyFinishedUnread ==
    /\ step = "RL" /\ f.at \in InMode({"loader"}) /\ writeNext(TRUE)
    /\ UNCHANGED <<world, kept, run, folder>>

\* The read-back is addressed to the board the flow adopted.
onVerifyFinished ==
    /\ step = "RL"
    /\ \/ /\ f.at \in InMode({"loader"}) /\ flash[f.at][writing.rows[writing.at]] = writing.build
          /\ writeNext(TRUE)
       \/ Fail
    /\ UNCHANGED <<world, kept, run, folder>>

resetBoard ==
    /\ step = "RD"
    /\ \/ \E b \in InMode({"loader"}) :
             bench' \in {[bench EXCEPT ![b] = m] : m \in {"adb", "away"}} /\ afterFlash
       \/ UNCHANGED bench /\ Fail
    /\ UNCHANGED <<flash, built, set, kept, run, folder>>

----------------------------------------------------------------------------
(* Steps 6 and 7, and the end. *)

\* No adb in time, or none at all: the board is flashed all the same.
PollAdb ==
    /\ step = "poll" /\ phase = "WaitingForAdb"
    /\ \/ InMode({"adb"}) # {} /\ Go("ReadingBoardInfo", "info", f)
       \/ EndFlow("Done") /\ UNCHANGED asking
       \/ pollAgain("poll")
    /\ UNCHANGED <<world, kept, run, folder>>

ReadBoardInfo ==
    /\ step = "info" /\ EndFlow("Done")
    /\ UNCHANGED <<world, kept, run, folder, asking>>

\* A mutant: cancel ends whatever runs.
CancelAnyTime ==
    /\ isRunning /\ EndFlow("Cancelled")
    /\ UNCHANGED <<world, kept, run, folder, asking>>

\* Refused while the flash is written.
Cancel ==
    /\ isRunning /\ phase # "Flashing"
    /\ EndFlow("Cancelled")
    /\ UNCHANGED <<world, kept, run, folder, asking>>

----------------------------------------------------------------------------
(* The bench and the build server. *)

Move(b, mode) ==
    /\ isRunning /\ bench[b] # mode /\ log.starts + log.changes < MaxEvents
    /\ bench' = [bench EXCEPT ![b] = mode] /\ log' = [log EXCEPT !.changes = @ + 1]
    /\ UNCHANGED <<flash, built, set, phase, flow, query, step, f, kept, run, folder, asking, writing>>

Rebuild(kind) ==
    /\ isRunning /\ log.starts + log.changes < MaxEvents
    /\ built' = Append(built, kind) /\ log' = [log EXCEPT !.changes = @ + 1]
    /\ UNCHANGED <<bench, flash, set, phase, flow, query, step, f, kept, run, folder, asking, writing>>

Commands ==
    \/ OwnersQuery \/ Refuse \/ ListDevices \/ AdbDevices \/ ReadFlashLayout \/ ReadBoardProduct
    \/ RebootIntoLoader \/ PollLoader \/ ReadLayoutInLoaderMode \/ finishPlan \/ failPlan
    \/ onFlashFinished \/ onWriteFinished \/ onVerifyFinished \/ resetBoard \/ PollAdb \/ ReadBoardInfo

Next ==
    \/ queryStatus \/ Start \/ planPartitions \/ Cancel \/ Answer \/ Commands
    \/ \E b \in Boards, mode \in {"away", "adb"} \cup Download : Move(b, mode)
    \/ \E kind \in ImageKinds : Rebuild(kind)

\* A tool that was started ends - by itself, or by its timeout; a dialog is closed some time.
Fairness == WF_vars(Commands) /\ WF_vars(Answer)
Spec == Init /\ [][Next]_vars /\ Fairness

----------------------------------------------------------------------------
TypeOK ==
    /\ bench \in [Boards -> {"away", "adb"} \cup Download]
    /\ built \in Seq(ImageKinds) /\ Disk \in 1..MaxEvents
    /\ \A b \in Boards : \A r \in DOMAIN flash[b] : flash[b][r] \in 0..Disk
    /\ f.mtd \in Layouts /\ f.profile \in Profiles \cup {Unknown}
    /\ writing.at \in 1..Len(writing.rows) + 1 /\ (step = "WL" => writing.at <= Len(writing.rows))
    /\ folder.holds \in 0..Disk /\ log.changes \in 0..MaxEvents /\ f.polls \in 0..MaxPolls

\* Every flash that began reports its end exactly once, also when it is cancelled while a plan, a
\* question or a wait of it is on the way and another flash begins.
FinishedOnce == log.ends + (IF isRunning \/ step = "refuse" THEN 1 ELSE 0) = log.starts

\* While a flow owns the USB device no query of the owner's talks to it, and nothing of a flow that
\* ended still waits for a tool or writes.
ToolsAreFree ==
    /\ isRunning => query = Idle
    /\ ~isRunning => step \in {Idle, "refuse"} /\ writing = NoWrites

\* What is written is the build whose header rule 1 read, however often the image is rebuilt while
\* it is unpacked and the questions are open.
WritesTheJudgedBuild == writing.rows # <<>> => writing.build = log.judged

\* The layout rule 2 judges the image by is the adopted board's own: not the one of another board
\* that the PC remembers, as far as a PID can tell.
JudgedByItsOwnLayout ==
    phase = "Flashing" /\ f.pid \in Profiles /\ f.mtd # "none" /\ f.board \in {nobody, f.at}
    => f.mtd = BoardOf[f.at].layout

\* With the read-back on, a reset is sent only when the adopted board holds every row, even if WL lied
\* or another board took a write.
VerifiedBeforeReset ==
    step = "RD" /\ set.verify => \A i \in DOMAIN writing.rows : flash[f.at][writing.rows[i]] = writing.build

\* A partition of the adopted board never gets an image whose chip tag names another profile than
\* its Loader PID, whatever the owner overrides.
ForeignImageStaysOff ==
    [][step = "WL" /\ flash' # flash /\ flash'[f.at] # flash[f.at]
       => ~Contradict(BoardOf[f.at].pid, built[writing.build].tag)]_vars

\* Nothing but its own end stops a write.
CancelNeverCutsAWrite == [][phase = "Flashing" => phase' # "Cancelled"]_vars

\* A flash ends: no plan, rebuild, wait or question keeps it for ever.
FlowEnds == isRunning ~> ~isRunning
=============================================================================
