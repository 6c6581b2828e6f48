----------------------------- MODULE FleetWriting -----------------------------
(***************************************************************************)
(* The writing half of FleetFlasher: the boards are mapped (each has a     *)
(* port and a LocationID of its own), and the run now checks, writes,      *)
(* verifies, resets and waits for them, up to MaxParallel at once, until   *)
(* the closing picture.                                                    *)
(*                                                                         *)
(* FleetFlasher lives on one event loop.  A handler (a process that ended, *)
(* a timer, cancel()) runs to completion, but its calls nest: a failed     *)
(* check ends a board, which frees a slot, which starts another board,     *)
(* whose check may fail at once.  `agenda' is that call stack, one frame   *)
(* per call still to run; no event is handled while it is not empty.       *)
(* Every call a handler makes is therefore made, and in the order of the   *)
(* code, before the next event.                                            *)
(***************************************************************************)
EXTENDS Naturals, Sequences, FiniteSets

CONSTANTS
    NBoards,      \* boards the mapping handed over, in selection order
    NRows,        \* partitions to write on each of them
    MaxParallel,  \* maxParallel(): boards written at once, 0 = all of them
    Verify,       \* verify-rl: every WL is read back with RL and compared
    WaitAdb,      \* setWaitForAdb(): FALSE is --no-wait
    EveryWrite,   \* LdPolicy::BeforeEveryWrite instead of LdPolicy::Gate
    RebootsTo,    \* where a board that was reset may come up
    Strangers,    \* a device that is no board of the run may arrive
    MaxFaults,    \* bound: failures of tools, folders, cables in one behaviour
    MaxGen        \* bound: LocationIDs one port hands out, minus one

ASSUME FleetAssumption ==
    /\ NBoards \in Nat \ {0}
    /\ NRows \in Nat \ {0}
    /\ MaxParallel \in Nat
    /\ {Verify, WaitAdb, EveryWrite, Strangers} \subseteq BOOLEAN
    /\ RebootsTo \subseteq {"adb", "loader", "maskrom"}
    /\ MaxFaults \in Nat
    /\ MaxGen \in Nat

Board == 1..NBoards
Row == 1..NRows
RDLine == 0          \* the reset line among a board's retry lines
Stranger == 0        \* the device that is no board of the run

\* A LocationID: the device it names and which of its enumerations.
Id == (Board \cup {Stranger}) \X (0..MaxGen)

UpgradeTools == {"WL", "RL", "RD", "undo"}   \* "undo": the RD of a board never written
AdbTools == {"getState", "info", "rfmcu"}

Stages == {"Loader", "Writing", "Resetting", "WaitingForAdb", "ReadingInfo", "Finished"}
Results == {"Pending", "Done", "NotBack", "Failed", "Skipped"}

VARIABLES
    dev,              \* what sits on each board's port (and the stranger's)
    gen,              \* which LocationID that device answers to
    faults,           \* failures that happened so far (bounded by MaxFaults)
    stage, result,    \* FleetBoard::stage, ::result
    row,              \* the row to write next
    written,          \* FleetBoard::written
    retry,            \* the addressed retry lines: rows, and RDLine
    locationId,       \* FleetBoard::locationId
    started,          \* its first WL was started
    inSlot,           \* counts against MaxParallel
    checkQueued,      \* waits for the gate's LD
    checkBeforeRd,    \* that check is the one before its RD
    leftBeforeReset,  \* that check failed: the ADB wait decides
    leftInLoader,     \* FleetBoard::leftInLoader
    resetOk,          \* its undo answered OK
    process,          \* the board's one tool process, "none" = not busy
    waitOver,         \* its ADB wait has run out
    phase, draining, closing,
    inFlight,         \* inFlightUpgradeTools
    gateLdBusy, gateListing, gateFresh,
    gateWaiting, gateNext, afterGateLd,
    adbTimer, snapshotRunning, resetCount,
    unattributed,     \* LocationIDs the end of the run reports as nobody's
    agenda

bus == <<dev, gen, faults>>
progress == <<row, written, started, checkBeforeRd, leftBeforeReset>>
report == <<retry, locationId, leftInLoader, resetOk, resetCount, unattributed>>
ending == <<stage, result, inSlot, checkQueued, gateWaiting, gateNext>>
gate == <<gateLdBusy, gateListing, gateFresh>>
run == <<phase, draining, closing, adbTimer, snapshotRunning>>
tools == <<process, inFlight>>
vars == <<bus, progress, report, ending, gate, run, tools, waitOver, afterGateLd, agenda>>

-----------------------------------------------------------------------------
(* The call stack.  A frame is a call with the jobs it still has to do, one *)
(* <<what, board>> each.  Where the code walks one of its lists (the checks *)
(* an LD answers, the launches that waited for it, the boards a drain       *)
(* resets) the jobs are taken in any order.                                 *)

Calls == {"fill", "maybeFinishRun", "requestCheck", "answer", "evaluateCheck",
          "whenGateFree", "afterAnswers", "gateNext"}
Whats == {"WL", "RD", "listing", "port", "error", "checked", "verify", "undo"}
Job == Whats \X Board

Frames == [call : Calls, jobs : SUBSET Job]
Frame(call, jobs) == [call |-> call, jobs |-> jobs]
Fill == Frame("fill", {})
MaybeFinish == Frame("maybeFinishRun", {})
RequestCheck(b, rd) == Frame("requestCheck", {<<IF rd THEN "RD" ELSE "WL", b>>})
EvaluateCheck(b, evidence) == Frame("evaluateCheck", {<<evidence, b>>})
WhenGateFree(what, b) == Frame("whenGateFree", {<<what, b>>})
ForEach(call, jobs) == IF jobs = {} THEN << >> ELSE <<Frame(call, jobs)>>

Running(call) == agenda # << >> /\ Head(agenda).call = call
Doing(call, what, b) == Running(call) /\ <<what, b>> \in Head(agenda).jobs

\* The stack once the frame on top, or one job of it, is done.
Return == Tail(agenda)
Done(what, b) == ForEach(Head(agenda).call, Head(agenda).jobs \ {<<what, b>>}) \o Tail(agenda)

\* An event is handled only when the previous handler has returned.
Idle == agenda = << >> /\ phase \in {"Writing", "Returning"}

-----------------------------------------------------------------------------
(* The devices.                                                            *)

Fault == faults < MaxFaults /\ faults' = faults + 1
DeviceId(d) == <<d, gen[d]>>
InDownload == {d \in DOMAIN dev : dev[d] \in {"loader", "maskrom"}}
LoaderIds == {DeviceId(d) : d \in {x \in DOMAIN dev : dev[x] = "loader"}}
ListedIds == {DeviceId(d) : d \in InDownload}

\* view.pid # 0 && view.pid == mappedPid: the port shows its Loader mode.
ShowsLoader(b) == dev[b] = "loader"

\* The device the board's LocationID names is there and takes a command.
Answers(b) == locationId[b] \in LoaderIds

\* A board loses power, or drops off its hub, in Loader mode.
BrownOut(b) ==
    /\ Idle
    /\ ShowsLoader(b)
    /\ Fault
    /\ dev' = [dev EXCEPT ![b] = "gone"]
    /\ UNCHANGED <<gen, progress, report, ending, gate, run, tools, waitOver, afterGateLd, agenda>>

\* A device that left the bus comes back: booted, or in a download mode, there
\* under its old LocationID or under a new one.  A tool still addressing it
\* has failed by then.
ComesBack(b) ==
    /\ Idle
    /\ dev[b] \in {"gone", "rebooting"}
    /\ process[b] \notin UpgradeTools
    /\ \E mode \in IF dev[b] = "rebooting" THEN RebootsTo ELSE {"adb", "loader", "maskrom"} :
          /\ dev' = [dev EXCEPT ![b] = mode]
          /\ \E g \in {gen[b], gen[b] + 1} :
                /\ g <= MaxGen
                /\ g # gen[b] => mode # "adb"
                /\ gen' = [gen EXCEPT ![b] = g]
    /\ UNCHANGED <<faults, progress, report, ending, gate, run, tools, waitOver, afterGateLd, agenda>>

\* Someone else's board enters Loader mode on a port of its own.
StrangerArrives ==
    /\ Idle
    /\ Strangers
    /\ dev[Stranger] = "gone"
    /\ dev' = [dev EXCEPT ![Stranger] = "loader"]
    /\ UNCHANGED <<gen, faults, progress, report, ending, gate, run, tools, waitOver, afterGateLd, agenda>>

-----------------------------------------------------------------------------
(* Board ends.                                                             *)

Ended(b) == stage[b] = "Finished"

\* The boards of B leave their slots and the gate's queues (endBoard(), and
\* resetUnwritten() of a board that waits for its check).
Release(B) ==
    /\ inSlot' = [b \in Board |-> b \notin B /\ inSlot[b]]
    /\ checkQueued' = [b \in Board |-> b \notin B /\ checkQueued[b]]
    /\ gateWaiting' = gateWaiting \ B
    /\ gateNext' = gateNext \ B

EndBoardsInTheirSlots(B, res) ==
    /\ stage' = [b \in Board |-> IF b \in B THEN "Finished" ELSE stage[b]]
    /\ result' = [b \in Board |-> IF b \in B THEN res ELSE result[b]]
    /\ checkQueued' = [b \in Board |-> b \notin B /\ checkQueued[b]]
    /\ gateWaiting' = gateWaiting \ B
    /\ gateNext' = gateNext \ B
    /\ UNCHANGED inSlot

\* endBoard(): the results of the boards of B are final.
EndBoards(B, res) ==
    /\ stage' = [b \in Board |-> IF b \in B THEN "Finished" ELSE stage[b]]
    /\ result' = [b \in Board |-> IF b \in B THEN res ELSE result[b]]
    /\ Release(B)

EndBoard(b, res) == EndBoards({b}, res)

\* retryLines(): every row not written yet, then the RD.
RetryLinesSkipFailedRow(b) == {r \in Row : r > row[b]} \cup {RDLine}
RetryLines(b) == (Row \ written[b]) \cup {RDLine}

Left(b, inLoader, lines) ==
    /\ leftInLoader' = [leftInLoader EXCEPT ![b] = inLoader]
    /\ retry' = [retry EXCEPT ![b] = lines]
    /\ UNCHANGED <<locationId, resetOk, resetCount, unattributed>>

\* A failure that leaves the board in Loader mode with its addressed lines.
FailInLoader(b) == Left(b, TRUE, RetryLines(b)) /\ EndBoard(b, "Failed")

\* Exit 255, "No found specific rockusb device!": the id names nothing, so no
\* line can be addressed; only the port can tell whether it is in Loader mode.
FailGone(b) == Left(b, ShowsLoader(b), {}) /\ EndBoard(b, "Failed")

StartToolUncounted(b, tool) ==
    /\ process' = [process EXCEPT ![b] = tool]
    /\ UNCHANGED inFlight

\* The counter first, the process then: the gate must already see it.
StartTool(b, tool) ==
    /\ process' = [process EXCEPT ![b] = tool]
    /\ inFlight' = inFlight + 1

EndTool(b) ==
    /\ process' = [process EXCEPT ![b] = "none"]
    /\ inFlight' = inFlight - 1

-----------------------------------------------------------------------------
(* The scheduler and the LD gate.                                          *)

Mapped == {b \in Board : stage[b] = "Loader"}
SlotsInUse == Cardinality({b \in Board : inSlot[b]})
SlotFree == MaxParallel = 0 \/ SlotsInUse < MaxParallel
MayStart == ~draining /\ ~closing /\ Mapped # {} /\ SlotFree

StartBoardOnly(b) ==
    /\ Running("fill")
    /\ MayStart
    /\ b \in Mapped /\ \A x \in Mapped : b <= x
    /\ inSlot' = [inSlot EXCEPT ![b] = TRUE]
    /\ stage' = [stage EXCEPT ![b] = "Writing"]
    /\ row' = [row EXCEPT ![b] = 1]
    /\ agenda' = <<RequestCheck(b, FALSE)>> \o Return
    /\ UNCHANGED <<bus, report, gate, run, tools, waitOver, afterGateLd, written, started,
                   checkBeforeRd, leftBeforeReset, result, checkQueued, gateWaiting, gateNext>>

\* fill(): the next mapped board in selection order takes a free slot and asks
\* for its first check; the call then goes on with the boards after it.
StartBoard(b) ==
    /\ Running("fill")
    /\ MayStart
    /\ b \in Mapped /\ \A x \in Mapped : b <= x
    /\ inSlot' = [inSlot EXCEPT ![b] = TRUE]
    /\ stage' = [stage EXCEPT ![b] = "Writing"]
    /\ row' = [row EXCEPT ![b] = 1]
    /\ agenda' = <<RequestCheck(b, FALSE)>> \o agenda
    /\ UNCHANGED <<bus, report, gate, run, tools, waitOver, afterGateLd, written, started,
                   checkBeforeRd, leftBeforeReset, result, checkQueued, gateWaiting, gateNext>>

FillEnds ==
    /\ Running("fill")
    /\ ~MayStart
    /\ agenda' = <<MaybeFinish>> \o Return
    /\ UNCHANGED <<bus, progress, report, ending, gate, run, tools, waitOver, afterGateLd>>

\* startGateLd(): the LD is busy before its process exists.
StartGateLd == gateLdBusy' = TRUE /\ UNCHANGED <<gateListing, gateFresh>>

\* requestCheck() where evidence is at hand: mid-wave the port alone, else a
\* listing not older than kGateReuseMs.
CheckNow(b, before) ==
    /\ Doing("requestCheck", before, b)
    /\ ~EveryWrite /\ ~gateLdBusy
    /\ inFlight > 0 \/ gateFresh
    /\ checkBeforeRd' = [checkBeforeRd EXCEPT ![b] = before = "RD"]
    /\ agenda' = <<EvaluateCheck(b, IF inFlight > 0 THEN "port" ELSE "listing")>> \o Return
    /\ UNCHANGED <<bus, report, ending, gate, run, tools, waitOver, afterGateLd, row, written,
                   started, leftBeforeReset>>

\* BeforeEveryWrite: a check never joins an LD that started before it.
AskNextLdNever == FALSE
AskNextLd == EveryWrite /\ gateLdBusy

\* requestCheck() where an LD has to answer: the one running, if the policy lets
\* it answer a check it started before, else one of its own.
QueueCheck(b, before) ==
    /\ Doing("requestCheck", before, b)
    /\ EveryWrite \/ gateLdBusy \/ ~(inFlight > 0 \/ gateFresh)
    /\ checkBeforeRd' = [checkBeforeRd EXCEPT ![b] = before = "RD"]
    /\ checkQueued' = [checkQueued EXCEPT ![b] = TRUE]
    /\ IF AskNextLd
          THEN gateNext' = gateNext \cup {b} /\ UNCHANGED gateWaiting
          ELSE gateWaiting' = gateWaiting \cup {b} /\ UNCHANGED gateNext
    /\ StartGateLd
    /\ agenda' = Return
    /\ UNCHANGED <<bus, report, run, tools, waitOver, afterGateLd, row, written, started,
                   leftBeforeReset, stage, result, inSlot>>

\* onGateLd(): every check that waited is answered, by the listing or by the
\* error, then the launches that waited start, then the next LD.
GateLdEnds ==
    /\ Idle
    /\ gateLdBusy
    /\ gateLdBusy' = FALSE
    /\ gateWaiting' = {}
    /\ \E evidence \in {"listing", "error"} :
          /\ IF evidence = "error"
                THEN Fault /\ gateFresh' = FALSE /\ gateListing' = {}
                ELSE UNCHANGED faults /\ gateFresh' = TRUE /\ gateListing' = LoaderIds
          /\ agenda' = ForEach("answer", {evidence} \X gateWaiting) \o <<Frame("afterAnswers", {})>>
    /\ UNCHANGED <<dev, gen, progress, report, run, tools, waitOver, afterGateLd, stage, result,
                   inSlot, checkQueued, gateNext>>

\* kGateReuseMs have passed; a listing is read only while it is fresh.
ListingAges ==
    /\ Idle
    /\ gateFresh
    /\ gateFresh' = FALSE
    /\ gateListing' = {}
    /\ UNCHANGED <<bus, progress, report, ending, run, tools, waitOver, afterGateLd, gateLdBusy, agenda>>

AnswerCheck(evidence, b) ==
    /\ Doing("answer", evidence, b)
    /\ ~Ended(b) /\ checkQueued[b]
    /\ checkQueued' = [checkQueued EXCEPT ![b] = FALSE]
    /\ agenda' = <<EvaluateCheck(b, evidence)>> \o Done(evidence, b)
    /\ UNCHANGED <<bus, progress, report, gate, run, tools, waitOver, afterGateLd, stage, result,
                   inSlot, gateWaiting, gateNext>>

AfterAnswers ==
    /\ Running("afterAnswers")
    /\ afterGateLd' = {}
    /\ agenda' = ForEach("whenGateFree", afterGateLd) \o <<Frame("gateNext", {}), MaybeFinish>> \o Return
    /\ UNCHANGED <<bus, progress, report, ending, gate, run, tools, waitOver>>

StartNextGateLd ==
    /\ Running("gateNext")
    /\ IF gateNext # {} /\ ~gateLdBusy
          THEN gateWaiting' = gateNext /\ gateNext' = {} /\ StartGateLd
          ELSE UNCHANGED <<gateWaiting, gateNext, gate>>
    /\ agenda' = Return
    /\ UNCHANGED <<bus, progress, report, run, tools, waitOver, afterGateLd, stage, result, inSlot, checkQueued>>

-----------------------------------------------------------------------------
(* The re-check before a WL and before the RD.                             *)

Evaluating(b, evidence) == Doing("evaluateCheck", evidence, b) /\ ~Ended(b)

InLoaderBy(b, evidence) ==
    ShowsLoader(b) /\ (evidence = "listing" => locationId[b] \in gateListing)

CheckPasses(b, evidence) ==
    /\ Evaluating(b, evidence)
    /\ evidence # "error"
    /\ InLoaderBy(b, evidence)
    /\ agenda' = <<WhenGateFree("checked", b)>> \o Return
    /\ UNCHANGED <<bus, progress, report, ending, gate, run, tools, waitOver, afterGateLd>>

\* onGateLdFailed(): an LD that could not run is no evidence that it left.
CheckUnanswered(b) ==
    /\ Evaluating(b, "error")
    /\ FailInLoader(b)
    /\ agenda' = <<Fill>> \o Return
    /\ UNCHANGED <<bus, progress, gate, run, tools, waitOver, afterGateLd>>

LeftBeforeWrite(b, evidence) ==
    /\ Evaluating(b, evidence)
    /\ evidence # "error" /\ ~InLoaderBy(b, evidence)
    /\ ~checkBeforeRd[b]
    /\ EndBoard(b, "Failed")
    /\ agenda' = <<Fill>> \o Return
    /\ UNCHANGED <<bus, progress, report, gate, run, tools, waitOver, afterGateLd>>

\* enterAdbWait()
EnterAdbWait(b) ==
    /\ stage' = [stage EXCEPT ![b] = "WaitingForAdb"]
    /\ waitOver' = [waitOver EXCEPT ![b] = FALSE]
    /\ adbTimer' = TRUE
    /\ UNCHANGED <<phase, draining, closing, snapshotRunning, result>>

\* onLeftBeforeReset(): every row is on the board; the ADB wait decides.
LeftBeforeReset(b, evidence) ==
    /\ Evaluating(b, evidence)
    /\ evidence # "error" /\ ~InLoaderBy(b, evidence)
    /\ checkBeforeRd[b]
    /\ leftBeforeReset' = [leftBeforeReset EXCEPT ![b] = TRUE]
    /\ IF WaitAdb
          THEN EnterAdbWait(b) /\ Release({b})
          ELSE EndBoard(b, "NotBack") /\ UNCHANGED <<run, waitOver>>
    /\ agenda' = <<Fill>> \o Return
    /\ UNCHANGED <<bus, report, gate, tools, afterGateLd, row, written, started, checkBeforeRd>>

-----------------------------------------------------------------------------
(* whenGateFree() and what it launches.                                    *)

LaunchLater(what, b) ==
    /\ Doing("whenGateFree", what, b)
    /\ gateLdBusy
    /\ afterGateLd' = afterGateLd \cup {<<what, b>>}
    /\ agenda' = Done(what, b)
    /\ UNCHANGED <<bus, progress, report, ending, gate, run, tools, waitOver>>

LaunchingNextToLd(what, b) == Doing("whenGateFree", what, b) /\ ~Ended(b)
Launching(what, b) == Doing("whenGateFree", what, b) /\ ~gateLdBusy /\ ~Ended(b)

\* A board whose first WL never ran before the cancel gets none after it.
RevokedNever(b) == FALSE
Revoked(b) == draining /\ ~started[b]

\* A check answered after the cancel, for such a board.
LaunchCancelled(b) ==
    /\ Launching("checked", b)
    /\ Revoked(b)
    /\ stage' = [stage EXCEPT ![b] = "Resetting"]
    /\ Release({b})
    /\ agenda' = <<WhenGateFree("undo", b)>> \o Done("checked", b)
    /\ UNCHANGED <<bus, progress, report, gate, run, tools, waitOver, afterGateLd, result>>

\* startWrite()
StartWrite(b) ==
    /\ Launching("checked", b)
    /\ ~Revoked(b)
    /\ ~checkBeforeRd[b]
    /\ started' = [started EXCEPT ![b] = TRUE]
    /\ StartTool(b, "WL")
    /\ agenda' = Done("checked", b)
    /\ UNCHANGED <<bus, report, ending, gate, run, waitOver, afterGateLd, row, written,
                   checkBeforeRd, leftBeforeReset>>

\* startWrite() / startVerify() whose working folder cannot be used.
NoFolder(what, b) ==
    /\ what \in {"checked", "verify"}
    /\ Launching(what, b)
    /\ what = "checked" => ~Revoked(b) /\ ~checkBeforeRd[b]
    /\ Fault
    /\ FailInLoader(b)
    /\ agenda' = <<Fill>> \o Done(what, b)
    /\ UNCHANGED <<dev, gen, progress, gate, run, tools, waitOver, afterGateLd>>

\* startVerify()
StartVerify(b) ==
    /\ Launching("verify", b)
    /\ StartTool(b, "RL")
    /\ agenda' = Done("verify", b)
    /\ UNCHANGED <<bus, progress, report, ending, gate, run, waitOver, afterGateLd>>

\* startReset()
StartReset(b) ==
    /\ Launching("checked", b)
    /\ ~Revoked(b)
    /\ checkBeforeRd[b]
    /\ stage' = [stage EXCEPT ![b] = "Resetting"]
    /\ StartTool(b, "RD")
    /\ agenda' = Done("checked", b)
    /\ UNCHANGED <<bus, progress, report, gate, run, waitOver, afterGateLd, result, inSlot,
                   checkQueued, gateWaiting, gateNext>>

\* resetUnwritten(): the RD of a board that was never written.
StartUndo(b) ==
    /\ Launching("undo", b)
    /\ StartTool(b, "undo")
    /\ agenda' = Done("undo", b)
    /\ UNCHANGED <<bus, progress, report, ending, gate, run, waitOver, afterGateLd>>

-----------------------------------------------------------------------------
(* WL, RL and RD end.                                                      *)

Ends(b, tool) == Idle /\ process[b] = tool /\ EndTool(b)

\* A tool whose device still answers fails only by a fault of its own.
FailsByItself(b) == IF Answers(b) THEN Fault ELSE UNCHANGED faults

RowDoneOneShort(b) ==
    /\ written' = [written EXCEPT ![b] = @ \cup {row[b]}]
    /\ row' = [row EXCEPT ![b] = @ + 1]
    /\ agenda' = <<RequestCheck(b, row[b] + 1 >= NRows), Fill>>
    /\ UNCHANGED <<started, checkBeforeRd, leftBeforeReset>>

\* The row is on the board: onto the next one, whose check comes first.
RowDone(b) ==
    /\ written' = [written EXCEPT ![b] = @ \cup {row[b]}]
    /\ row' = [row EXCEPT ![b] = @ + 1]
    /\ agenda' = <<RequestCheck(b, row[b] + 1 > NRows), Fill>>
    /\ UNCHANGED <<started, checkBeforeRd, leftBeforeReset>>

\* onWriteFinished(), a clean WL: with verify the row counts only once its
\* read-back equalled the image.
WriteOk(b) ==
    /\ Ends(b, "WL")
    /\ locationId[b] \in LoaderIds
    /\ IF Verify
          THEN agenda' = <<WhenGateFree("verify", b)>> /\ UNCHANGED progress
          ELSE RowDone(b)
    /\ UNCHANGED <<bus, report, ending, gate, run, waitOver, afterGateLd>>

\* onVerifyFinished(), the read-back equals the image.
VerifyOk(b) ==
    /\ Ends(b, "RL")
    /\ locationId[b] \in LoaderIds
    /\ RowDone(b)
    /\ UNCHANGED <<bus, report, ending, gate, run, waitOver, afterGateLd>>

\* A WL or an RL that is not clean, or a read-back that differs: no RD.
WriteFails(b) ==
    /\ \E tool \in {"WL", "RL"} : Ends(b, tool)
    /\ FailsByItself(b)
    /\ FailInLoader(b)
    /\ agenda' = <<Fill>>
    /\ UNCHANGED <<dev, gen, progress, gate, run, waitOver, afterGateLd>>

\* onNoSuchDevice(), onVerifyNoSuchDevice()
WriteFindsNobody(b) ==
    /\ \E tool \in {"WL", "RL"} : Ends(b, tool)
    /\ ~Answers(b)
    /\ FailGone(b)
    /\ agenda' = <<Fill>>
    /\ UNCHANGED <<bus, progress, gate, run, waitOver, afterGateLd>>

\* An RD that answered OK resets the device, or answers OK and does not take.
ResetTakes(b) ==
    \/ dev' = [dev EXCEPT ![b] = "rebooting"] /\ UNCHANGED <<gen, faults>>
    \/ Fault /\ UNCHANGED <<dev, gen>>

ResetOk(b) ==
    /\ Ends(b, "RD")
    /\ Answers(b)
    /\ ResetTakes(b)
    /\ IF WaitAdb
          THEN EnterAdbWait(b) /\ Release({b})
          ELSE EndBoard(b, "Done") /\ UNCHANGED <<run, waitOver>>
    /\ agenda' = <<Fill>>
    /\ UNCHANGED <<progress, report, gate, afterGateLd>>

\* Not clean: the owner is told to replug it, no line and no flag is kept.
ResetFails(b) ==
    /\ Ends(b, "RD")
    /\ FailsByItself(b)
    /\ EndBoard(b, "Failed")
    /\ agenda' = <<Fill>>
    /\ UNCHANGED <<dev, gen, progress, report, gate, run, waitOver, afterGateLd>>

ResetFindsNobody(b) ==
    /\ Ends(b, "RD")
    /\ ~Answers(b)
    /\ FailGone(b)
    /\ agenda' = <<Fill>>
    /\ UNCHANGED <<bus, progress, gate, run, waitOver, afterGateLd>>

UndoOk(b) ==
    /\ Ends(b, "undo")
    /\ Answers(b)
    /\ ResetTakes(b)
    /\ resetOk' = [resetOk EXCEPT ![b] = TRUE]
    /\ resetCount' = resetCount + 1
    /\ EndBoard(b, "Skipped")
    /\ agenda' = <<Fill>>
    /\ UNCHANGED <<progress, retry, locationId, leftInLoader, unattributed, gate, run, waitOver, afterGateLd>>

UndoFails(b) ==
    /\ Ends(b, "undo")
    /\ FailsByItself(b)
    /\ Left(b, TRUE, {RDLine})
    /\ EndBoard(b, "Skipped")
    /\ agenda' = <<Fill>>
    /\ UNCHANGED <<dev, gen, progress, gate, run, waitOver, afterGateLd>>

UndoFindsNobody(b) ==
    /\ Ends(b, "undo")
    /\ ~Answers(b)
    /\ Left(b, ShowsLoader(b), {})
    /\ EndBoard(b, "Skipped")
    /\ agenda' = <<Fill>>
    /\ UNCHANGED <<bus, progress, gate, run, waitOver, afterGateLd>>

-----------------------------------------------------------------------------
(* Returning: the ADB waits.                                               *)

Waiting == {b \in Board : stage[b] = "WaitingForAdb"}

WaitElapses(b) ==
    /\ Idle
    /\ b \in Waiting /\ ~waitOver[b]
    /\ waitOver' = [waitOver EXCEPT ![b] = TRUE]
    /\ UNCHANGED <<bus, progress, report, ending, gate, run, tools, afterGateLd, agenda>>

AdbTickForgetsTheTime ==
    /\ Idle
    /\ adbTimer
    /\ process' = [b \in Board |-> IF b \in Waiting /\ process[b] = "none" THEN "getState" ELSE process[b]]
    /\ adbTimer' = (Waiting # {})
    /\ UNCHANGED <<bus, progress, report, gate, phase, draining, closing, snapshotRunning, inFlight,
                   waitOver, afterGateLd, agenda, stage, result, inSlot, checkQueued, gateWaiting, gateNext>>

\* adbTick(): one timer for every wait, at most one get-state per board; a
\* board whose get-state still runs is left alone, its time up or not.
AdbTick ==
    /\ Idle
    /\ adbTimer
    /\ LET free == {b \in Waiting : process[b] = "none"}
           over == {b \in free : waitOver[b]}
       IN /\ EndBoards(over, "NotBack")
          /\ process' = [b \in Board |-> IF b \in free \ over THEN "getState" ELSE process[b]]
          /\ agenda' = IF over = {} THEN << >> ELSE <<Fill>>
    /\ adbTimer' = (Waiting # {})
    /\ UNCHANGED <<bus, progress, report, gate, phase, draining, closing, snapshotRunning, inFlight,
                   waitOver, afterGateLd>>

AdbEnds(b, tool, next) ==
    /\ Idle
    /\ process[b] = tool
    /\ process' = [process EXCEPT ![b] = next]
    /\ UNCHANGED inFlight

\* get-state did not answer "device" (yet): the next tick asks again.
GetStateNo(b) ==
    /\ AdbEnds(b, "getState", "none")
    /\ b \in Waiting
    /\ UNCHANGED <<bus, progress, report, ending, gate, run, waitOver, afterGateLd, agenda>>

\* It answered "device": the board's info is read (readBoardInfo()).
GetStateDevice(b) ==
    /\ AdbEnds(b, "getState", "info")
    /\ b \in Waiting
    /\ dev[b] = "adb"
    /\ stage' = [stage EXCEPT ![b] = "ReadingInfo"]
    /\ UNCHANGED <<bus, progress, report, gate, run, waitOver, afterGateLd, agenda, result, inSlot,
                   checkQueued, gateWaiting, gateNext>>

\* Its wait was cancelled meanwhile: the board has ended.
GetStateLate(b) ==
    /\ AdbEnds(b, "getState", "none")
    /\ b \notin Waiting
    /\ agenda' = <<Fill>>
    /\ UNCHANGED <<bus, progress, report, ending, gate, run, waitOver, afterGateLd>>

\* readBoardInfo() -> readRfmcu(); neither answer is judged.
InfoEnds(b) ==
    /\ AdbEnds(b, "info", "rfmcu")
    /\ UNCHANGED <<bus, progress, report, ending, gate, run, waitOver, afterGateLd, agenda>>

RfmcuEnds(b) ==
    /\ AdbEnds(b, "rfmcu", "none")
    /\ EndBoard(b, "Done")
    /\ agenda' = <<Fill>>
    /\ UNCHANGED <<bus, progress, report, gate, run, waitOver, afterGateLd>>

-----------------------------------------------------------------------------
(* The drain and the end of the run.                                       *)

\* The boards a drain takes back: mapped and waiting for a slot, or holding one
\* and waiting for their first check.
NotStartedOrQueued == Mapped \cup {b \in Board : inSlot[b] /\ checkQueued[b]}
NotStarted == Mapped \cup {b \in Board : inSlot[b] /\ ~started[b] /\ checkQueued[b]}

\* cancel() with its drain(): ADB waits end, boards not started are reset, a
\* started board keeps going.
Cancel ==
    /\ Idle
    /\ ~draining
    /\ draining' = TRUE
    /\ stage' = [b \in Board |-> IF b \in Waiting THEN "Finished"
                                 ELSE IF b \in NotStarted THEN "Resetting" ELSE stage[b]]
    /\ result' = [b \in Board |-> IF b \in Waiting THEN "NotBack" ELSE result[b]]
    /\ Release(Waiting \cup NotStarted)
    /\ agenda' = ForEach("whenGateFree", {"undo"} \X NotStarted) \o <<MaybeFinish>>
    /\ UNCHANGED <<bus, progress, report, gate, phase, closing, adbTimer, snapshotRunning, tools,
                   waitOver, afterGateLd>>

QuiescentButForResets ==
    /\ ~gateLdBusy /\ ~snapshotRunning
    /\ \A b \in Board : Ended(b) \/ stage[b] = "Resetting"

Quiescent ==
    /\ inFlight = 0 /\ ~gateLdBusy /\ ~snapshotRunning
    /\ \A b \in Board : process[b] = "none" /\ Ended(b)

\* maybeFinishRun(): the last slot freed turns Writing into Returning, and a
\* quiescent run takes its closing picture (closeRun()).
MaybeFinishRun ==
    /\ Running("maybeFinishRun")
    /\ phase' = IF ~closing /\ phase = "Writing" /\ \A b \in Board : ~inSlot[b]
                 THEN "Returning" ELSE phase
    /\ IF ~closing /\ Quiescent
          THEN closing' = TRUE /\ snapshotRunning' = TRUE /\ adbTimer' = FALSE
          ELSE UNCHANGED <<closing, snapshotRunning, adbTimer>>
    /\ agenda' = Return
    /\ UNCHANGED <<bus, progress, report, ending, gate, draining, tools, waitOver, afterGateLd>>

\* finishRun(): ok = every board done and nobody cancelled.
FinishRun ==
    /\ snapshotRunning' = FALSE
    /\ closing' = FALSE
    /\ phase' = IF draining THEN "Cancelled"
                ELSE IF \A b \in Board : result[b] = "Done" THEN "Done" ELSE "Failed"
    /\ UNCHANGED <<draining, adbTimer>>

\* The closing picture against the boards of the run.
StrayIds == ListedIds \ {locationId[b] : b \in Board}
StrayPorts == {d \in InDownload : d = Stranger}
Renumbered == {b \in Board : b \in InDownload /\ locationId[b] \notin ListedIds}

PairedWithAny == Renumbered # {} /\ StrayIds # {} /\ StrayIds \subseteq LoaderIds

\* One board re-enumerated, one id nobody owns, no unknown port: one device.
Paired ==
    /\ StrayPorts = {}
    /\ Cardinality(Renumbered) = 1 /\ Cardinality(StrayIds) = 1
    /\ StrayIds \subseteq LoaderIds

\* correctEndedBoards(), for one board: what its record becomes.
NewId(b) ==
    IF Paired /\ ShowsLoader(b) /\ locationId[b] \notin ListedIds
    THEN CHOOSE id \in StrayIds : TRUE ELSE locationId[b]

CorrectedUnlessReset(b) ==
    /\ result[b] \in {"Failed", "NotBack", "Skipped"}
    /\ ~leftInLoader[b] \/ NewId(b) # locationId[b]
    /\ ~resetOk[b] /\ (ShowsLoader(b) \/ NewId(b) \in LoaderIds)

Corrected(b) ==
    LET listed == NewId(b) \in LoaderIds
    IN /\ result[b] \in {"Failed", "NotBack", "Skipped"}
       /\ ~leftInLoader[b] \/ NewId(b) # locationId[b]
       /\ IF resetOk[b] THEN ShowsLoader(b) /\ listed ELSE ShowsLoader(b) \/ listed

LinesAfter(b) ==
    IF ~(Corrected(b) /\ NewId(b) \in LoaderIds) THEN retry[b]
    ELSE IF result[b] = "Skipped" THEN {RDLine} ELSE RetryLines(b)

\* Boards counted as reset that are found in Loader mode: not reset after all.
TakenBack == {b \in Board : resetOk[b] /\ Corrected(b)}

CloseRun ==
    /\ Idle
    /\ snapshotRunning
    /\ locationId' = [b \in Board |-> IF result[b] # "Done" THEN NewId(b) ELSE locationId[b]]
    /\ leftInLoader' = [b \in Board |-> leftInLoader[b] \/ Corrected(b)]
    /\ retry' = [b \in Board |-> LinesAfter(b)]
    /\ resetOk' = [b \in Board |-> resetOk[b] /\ ~Corrected(b)]
    /\ resetCount' = resetCount - Cardinality(TakenBack)
    /\ unattributed' = IF StrayPorts = {} /\ Cardinality(StrayIds) <= Cardinality(Renumbered)
                       THEN {} ELSE StrayIds
    /\ FinishRun
    /\ UNCHANGED <<bus, progress, ending, gate, tools, waitOver, afterGateLd, agenda>>

\* The LD of the closing picture could not run: the run ends without it.
CloseBlind ==
    /\ Idle
    /\ snapshotRunning
    /\ Fault
    /\ FinishRun
    /\ UNCHANGED <<dev, gen, progress, report, ending, gate, tools, waitOver, afterGateLd, agenda>>

Finished ==
    /\ phase \in {"Done", "Failed", "Cancelled"}
    /\ UNCHANGED vars

-----------------------------------------------------------------------------
(* The specification.                                                      *)

\* "mapping done": every board sits in Loader mode on the port and with the
\* LocationID the mapping learned, and reconcile() calls fill().
Init ==
    /\ dev = [d \in Board \cup {Stranger} |-> IF d = Stranger THEN "gone" ELSE "loader"]
    /\ gen = [d \in Board \cup {Stranger} |-> 0]
    /\ faults = 0
    /\ stage = [b \in Board |-> "Loader"]
    /\ result = [b \in Board |-> "Pending"]
    /\ row = [b \in Board |-> 1]
    /\ written = [b \in Board |-> {}]
    /\ retry = [b \in Board |-> {}]
    /\ locationId = [b \in Board |-> <<b, 0>>]
    /\ started = [b \in Board |-> FALSE]
    /\ inSlot = [b \in Board |-> FALSE]
    /\ checkQueued = [b \in Board |-> FALSE]
    /\ checkBeforeRd = [b \in Board |-> FALSE]
    /\ leftBeforeReset = [b \in Board |-> FALSE]
    /\ leftInLoader = [b \in Board |-> FALSE]
    /\ resetOk = [b \in Board |-> FALSE]
    /\ process = [b \in Board |-> "none"]
    /\ waitOver = [b \in Board |-> FALSE]
    /\ phase = "Writing"
    /\ draining = FALSE /\ closing = FALSE
    /\ inFlight = 0
    /\ gateLdBusy = FALSE /\ gateListing = {} /\ gateFresh = FALSE
    /\ gateWaiting = {} /\ gateNext = {} /\ afterGateLd = {}
    /\ adbTimer = FALSE /\ snapshotRunning = FALSE
    /\ resetCount = 0
    /\ unattributed = {}
    /\ agenda = <<Fill>>

DeviceStep ==
    \/ \E b \in Board : BrownOut(b) \/ ComesBack(b)
    \/ StrangerArrives

CallStep ==
    \/ \E b \in Board :
          \/ StartBoard(b)
          \/ CheckUnanswered(b) \/ LaunchCancelled(b)
          \/ StartWrite(b) \/ StartVerify(b) \/ StartReset(b) \/ StartUndo(b)
          \/ \E what \in Whats :
                \/ CheckNow(b, what) \/ QueueCheck(b, what) \/ AnswerCheck(what, b)
                \/ CheckPasses(b, what) \/ LeftBeforeWrite(b, what) \/ LeftBeforeReset(b, what)
                \/ LaunchLater(what, b) \/ NoFolder(what, b)
    \/ FillEnds \/ AfterAnswers \/ StartNextGateLd \/ MaybeFinishRun

ToolStep(b) ==
    \/ WriteOk(b) \/ VerifyOk(b) \/ WriteFails(b) \/ WriteFindsNobody(b)
    \/ ResetOk(b) \/ ResetFails(b) \/ ResetFindsNobody(b)
    \/ UndoOk(b) \/ UndoFails(b) \/ UndoFindsNobody(b)
    \/ GetStateNo(b) \/ GetStateDevice(b) \/ GetStateLate(b) \/ InfoEnds(b) \/ RfmcuEnds(b)

CloseStep == CloseRun \/ CloseBlind

Next ==
    \/ DeviceStep
    \/ CallStep
    \/ \E b \in Board : ToolStep(b) \/ WaitElapses(b)
    \/ GateLdEnds \/ ListingAges \/ AdbTick \/ Cancel \/ CloseStep
    \/ Finished

\* A handler returns, every tool ends (a WL carries no timeout: that it ends
\* is an assumption about upgrade_tool), timers fire.
Fairness ==
    /\ WF_vars(CallStep)
    /\ \A b \in Board : WF_vars(ToolStep(b)) /\ WF_vars(WaitElapses(b))
    /\ WF_vars(GateLdEnds) /\ WF_vars(AdbTick) /\ WF_vars(CloseStep)

Spec == Init /\ [][Next]_vars /\ Fairness

-----------------------------------------------------------------------------
(* Properties.                                                             *)

DevicesTyped ==
    /\ dev \in [Board \cup {Stranger} -> {"loader", "maskrom", "adb", "gone", "rebooting"}]
    /\ gen \in [Board \cup {Stranger} -> 0..MaxGen]
    /\ faults \in 0..MaxFaults

BoardsTyped ==
    /\ stage \in [Board -> Stages]
    /\ result \in [Board -> Results]
    /\ row \in [Board -> Nat \ {0}]
    /\ written \in [Board -> SUBSET (Nat \ {0})]
    /\ started \in [Board -> BOOLEAN]
    /\ checkBeforeRd \in [Board -> BOOLEAN]
    /\ leftBeforeReset \in [Board -> BOOLEAN]
    /\ inSlot \in [Board -> BOOLEAN]
    /\ checkQueued \in [Board -> BOOLEAN]
    /\ waitOver \in [Board -> BOOLEAN]
    /\ process \in [Board -> UpgradeTools \cup AdbTools \cup {"none"}]

ReportTyped ==
    /\ retry \in [Board -> SUBSET (Row \cup {RDLine})]
    /\ locationId \in [Board -> Id]
    /\ leftInLoader \in [Board -> BOOLEAN]
    /\ resetOk \in [Board -> BOOLEAN]
    /\ resetCount \in Nat
    /\ unattributed \subseteq Id

RunTyped ==
    /\ phase \in {"Writing", "Returning", "Done", "Failed", "Cancelled"}
    /\ draining \in BOOLEAN /\ closing \in BOOLEAN
    /\ adbTimer \in BOOLEAN /\ snapshotRunning \in BOOLEAN
    /\ gateLdBusy \in BOOLEAN /\ gateFresh \in BOOLEAN
    /\ gateListing \subseteq Id
    /\ gateWaiting \subseteq Board
    /\ gateNext \subseteq Board
    /\ afterGateLd \subseteq Job
    /\ inFlight \in Nat

TypeOK ==
    /\ DevicesTyped /\ BoardsTyped /\ ReportTyped /\ RunTyped
    /\ agenda \in Seq(Frames)

Writers == {b \in Board : process[b] \in UpgradeTools}

\* "LD opens every rockusb device, ... so the two never overlap in either
\* direction": under the Gate policy no LD of the gate runs next to a WL, an
\* RL or an RD of the run.
GateLdApart == ~EveryWrite /\ gateLdBusy => Writers = {}

\* Nor does the LD of the closing picture, under either policy.
ClosingLdApart == snapshotRunning => Writers = {} /\ ~gateLdBusy

\* "At most maxParallel() boards are written at once": never more slots in use.
SlotLimit == MaxParallel # 0 => SlotsInUse <= MaxParallel

\* No slot is lost or left idle, whichever of the ways to end a check, a write, a reset or a
\* wait a board took: between two events a slot is held by a board with a tool under way or
\* one to come, and none is free while a mapped board waits (endBoard(), fill()).
SlotsAreUsed ==
    Idle =>
      /\ \A b \in Board : inSlot[b] =>
            process[b] \in UpgradeTools \/ checkQueued[b] \/ \E what \in Whats : <<what, b>> \in afterGateLd
      /\ ~draining /\ Mapped # {} => ~SlotFree

\* A cancel starts nothing: a board whose first WL had not run by then never
\* gets one.
DrainStartsNothing ==
    [][\A b \in Board : draining /\ ~started[b] => ~started'[b]]_vars

\* Only complete writes are reset, cancelled or not: the RD after the rows runs
\* on a board that has every one of them, and so does a board that is reported
\* Done or NotBack ("a board with one new and one old partition is the state
\* the owner must never get").
OnlyCompleteReset ==
    \A b \in Board : process[b] = "RD" \/ result[b] \in {"Done", "NotBack"} => Row \subseteq written[b]

\* The RD of a cancel runs on a board nothing was written to, and a Skipped
\* board ("nothing was written") is one; no board is written past its rows.
SkippedUntouched ==
    \A b \in Board :
        /\ process[b] = "undo" \/ result[b] = "Skipped" => ~started[b] /\ written[b] = {}
        /\ written[b] \subseteq Row

\* What the closing picture tells of device d: its board is marked leftInLoader, or its
\* LocationID is named as nobody's.
ToldOf(d) == (d \in Board /\ leftInLoader'[d]) \/ DeviceId(d) \in unattributed'

\* Boards reset unwritten that are back in Loader mode, two or more under new LocationIDs: no
\* id can be given to a board, and no id is nobody's, as there are no more of them than of
\* such boards.
TakenForReset(d) == d \in Board /\ resetOk[d] /\ d \in Renumbered /\ Cardinality(Renumbered) > 1

\* "The owner is never told "clean" while a device he was not told about sits in Loader mode"
\* (FleetFlasher.h:212), as far as the code keeps it: each device in Loader mode is told of,
\* whatever came back under which id and whoever arrived.  Two exceptions are the code's: a
\* board that is Done is not looked at again (correctEndedBoards()), and the boards that
\* TakenForReset describes are told to nobody (closeRun(), FleetFlasher.cpp:2840).
ClosingTells ==
    [][snapshotRunning /\ ~snapshotRunning' /\ faults' = faults =>
         \A d \in DOMAIN dev :
             ShowsLoader(d) /\ (d \in Board => result[d] # "Done") /\ ~TakenForReset(d) => ToldOf(d)]_vars

\* The same sentence without the exceptions, which the code does not keep.
ClosingTellsAll ==
    [][snapshotRunning /\ ~snapshotRunning' /\ faults' = faults =>
         \A d \in DOMAIN dev : ShowsLoader(d) => ToldOf(d)]_vars

\* A board's addressed lines never name another device.
LinesNameTheBoard == \A b \in Board : locationId[b][1] = b

\* Every board marked in Loader mode whose id LD lists gets the lines that
\* finish it, no more and no less: a WL per row still missing and the RD, or the
\* RD alone when nothing was to be written to it.
LinesFinishTheBoard ==
    [][snapshotRunning /\ ~snapshotRunning' /\ faults' = faults =>
         \A b \in Board : leftInLoader'[b] /\ locationId'[b] \in LoaderIds =>
             retry'[b] \ {RDLine} = (IF result[b] = "Skipped" THEN {} ELSE Row \ written[b])
             /\ RDLine \in retry'[b]]_vars

\* BeforeEveryWrite: every check is answered by an LD that started after it was
\* asked, so no check joins an LD that runs.
ChecksGetFreshLd == [][EveryWrite /\ gateLdBusy /\ gateLdBusy' => gateWaiting' \subseteq gateWaiting]_vars

\* The run ends: no check, launch or wait is forgotten, cancelled or not.
RunEnds == <>(phase \in {"Done", "Failed", "Cancelled"})

\* Nothing is written to a board that is reported skipped: what a cancel or a stop takes
\* back has not started (FleetFlasher, fill(), startWrite(), resetUnwritten()).
WritesAreMeant == TypeOK /\ SkippedUntouched

\* A check is answered by a listing that began after it was asked, and a cancel starts no
\* board any more (requestCheck(), evaluateCheck(), drain()).
ChecksHold == ChecksGetFreshLd /\ DrainStartsNothing

\* The closing picture is taken next to no writer, and every line it leaves names its own
\* board (closeRun()).
ClosingIsTrue == LinesNameTheBoard /\ ClosingLdApart

=============================================================================
