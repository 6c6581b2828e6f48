-------------------------------- MODULE McuUpdate --------------------------------
(***************************************************************************)
(* The update of the CC1310 over a serial line (firmware/McuUpdater with   *)
(* CcProtocol): framed requests with a sequence number, a deadline and     *)
(* retries; the probe of bootloader and application; the reboot into the   *)
(* bootloader; BEGIN, the blocks with their ACK and NACK, END; the banner  *)
(* of the restarted application.  The device is external: what the         *)
(* bootloader and the application answer.  A block is its operation and    *)
(* its place in the image; an operation's role is its number.              *)
(***************************************************************************)
EXTENDS Naturals, Sequences, SequencesExt, FiniteSets

CONSTANTS Blocks,      \* blocks of the image
          Retries,     \* frameRetries, probeRetries, rebootRetries
          Numbers,      \* values of the 16-bit sequence number
          MaxFaults,   \* bound: bytes lost, answers late, NACKs, closed links
          MaxRuns      \* bound: operations

VARIABLES
    link,       \* the device of setDevice(), open or not
    faults,     \* spent so far
    op,         \* the running or last operation: its number, kind, result
    step, sequence, attempts, offset,
    request,    \* the frame in flight: its type and the answers it expects
    rx,         \* "clean", or "junk": text before a frame, or a frame before text
    said,       \* lines of the CLI window, fields of the banner
    setup,      \* throughSoc, autoBootloader, and what the application prints
    toMcu, toHost,  \* the line
    mcu         \* mode, line editor, image, role

wire == <<toMcu, toHost, mcu>>
framed == <<sequence, attempts, request>>
updating == <<link, faults, op, step, framed, offset, rx, said, setup, wire>>

FrameSteps == {"HelloProbe", "HelloReboot", "Begin", "Transfer", "End", "SetRoleRequest"}
TextSteps == {"AppClear", "AppVersion", "AppHelp", "Power", "BootloaderCmd", "Banner"}
Timed == FrameSteps \cup TextSteps \cup {"Settle"}
Running == step \in Timed
Image(n) == [i \in 1..Blocks |-> <<n, i - 1>>]

McuInit ==
    /\ link = "open" /\ faults = 0
    /\ op = [n |-> 0, kind |-> "none", result |-> "none"]
    /\ step = "Idle" /\ sequence = 0 /\ attempts = 0 /\ offset = 0
    /\ request = [type |-> "none", off |-> 0, accepts |-> {}]
    /\ rx = "clean" /\ said = {}
    /\ setup \in [soc : BOOLEAN, auto : BOOLEAN, role : BOOLEAN]
    /\ toMcu = <<>> /\ toHost = <<>>
    /\ mcu \in [mode : {"app", "boot"}, editor : {"clean"}, image : {<<>>}, role : {0}]

\* finish().
Finish(result) ==
    /\ step' = "Done" /\ op' = [op EXCEPT !.result = result]
    /\ rx' = "clean" /\ said' = {}
    /\ UNCHANGED <<framed, offset, toMcu>>

Frame(type, off) == [kind |-> "frame", type |-> type, seq |-> sequence', off |-> off, n |-> op'.n]

\* startRequest(): the next number, the first attempt.
StartRequest(next, type, off, accepts) ==
    /\ step' = next
    /\ sequence' = (sequence + 1) % Numbers
    /\ request' = [type |-> type, off |-> off, accepts |-> accepts]
    /\ attempts' = 1
    /\ toMcu' = Append(toMcu, Frame(type, off))

\* startWindow(): a command line, and its whole window to listen.
StartWindow(next, command) ==
    /\ step' = next
    /\ said' = {}
    /\ toMcu' = Append(toMcu, [kind |-> "line", text |-> command])
    /\ UNCHANGED <<op, framed, offset>>

\* Mutant: every operation numbers its requests from the beginning.
StartNumbersAfresh(kind) ==
    /\ ~Running /\ link = "open" /\ op.n < MaxRuns
    /\ op' = [n |-> op.n + 1, kind |-> kind, result |-> "none"]
    /\ rx' = "clean" /\ said' = {} /\ offset' = 0
    /\ toHost' = <<>>
    /\ step' = "HelloProbe" /\ sequence' = 1 /\ attempts' = 1
    /\ request' = [type |-> "Hello", off |-> 0, accepts |-> {"Info"}]
    /\ toMcu' = Append(toMcu, Frame("Hello", 0))
    /\ UNCHANGED <<link, faults, setup, mcu>>

\* startOperation() and begin(): what arrived before is discarded, the sequence
\* number goes on.
Start(kind) ==
    /\ ~Running /\ link = "open" /\ op.n < MaxRuns
    /\ op' = [n |-> op.n + 1, kind |-> kind, result |-> "none"]
    /\ rx' = "clean" /\ said' = {} /\ offset' = 0
    /\ toHost' = <<>>
    /\ StartRequest("HelloProbe", "Hello", 0, {"Info"})
    /\ UNCHANGED <<link, faults, setup, mcu>>

\* connected(): the operation proper.
Connected ==
    /\ UNCHANGED <<op, offset, rx, said>>
    /\ IF op.kind = "flash"
          THEN StartRequest("Begin", "Begin", 0, {"Ready"})
          ELSE StartRequest("SetRoleRequest", "SetRole", 0, {"Complete"})

\* onInfo().
OnInfo == IF op.kind = "info" THEN Finish("ok") ELSE Connected

\* onReady(), onDataAnswer(): the block at the offset the device expects, or END.
SendFrom(off) ==
    /\ offset' = off
    /\ UNCHANGED <<op, rx, said>>
    /\ IF off < Blocks
          THEN StartRequest("Transfer", "Data", off, {"Ack", "Nack"})
          ELSE StartRequest("End", "End", 0, {"Complete"})

\* startBanner().
StartBanner ==
    /\ step' = "Banner" /\ said' = {}
    /\ UNCHANGED <<op, framed, offset, rx, toMcu>>

\* onFrame() of an awaited answer.
OnFrame(f) ==
    CASE step \in {"HelloProbe", "HelloReboot"} -> OnInfo
      [] step = "Begin" -> IF f.off = 0 THEN SendFrom(0) ELSE Finish("failed")
      [] step = "Transfer" -> IF f.type = "Nack" /\ f.off > offset THEN Finish("failed") ELSE SendFrom(f.off)
      [] OTHER -> StartBanner

\* Mutant: any answer of an expected type will do.
AwaitedByType(f) == f.type \in request.accepts
Awaited(f) == f.seq = sequence /\ f.type \in request.accepts

\* The restart banner ends the wait once its version was seen (bannerLine()).
OnLine(text) ==
    IF step = "Banner" /\ text = "ready" /\ "version" \in said
    THEN Finish("ok")
    ELSE said' = said \cup {text} /\ UNCHANGED <<op, step, framed, offset, rx, toMcu>>

Ignore == UNCHANGED <<op, step, framed, offset, said, toMcu>>

\* readyRead() and pump(): one frame or one line, as the current step reads it.
\* Text before a frame spoils the frame, a frame before text spoils the line
\* (but not one in which the banner's marks are looked for).
Receive ==
    /\ toHost # <<>> /\ link = "open"
    /\ toHost' = Tail(toHost)
    /\ LET it == Head(toHost) IN
       IF step \notin FrameSteps \cup TextSteps THEN Ignore /\ rx' = "clean"
       ELSE IF step \in FrameSteps
       THEN IF it.kind = "line" THEN Ignore /\ rx' = "junk"
            ELSE IF rx = "junk" \/ ~Awaited(it) THEN Ignore /\ rx' = "clean"
            ELSE OnFrame(it)
       ELSE IF it.kind = "frame" THEN Ignore /\ rx' = "junk"
            ELSE IF rx = "junk" /\ step # "Banner" THEN Ignore /\ rx' = "clean"
            ELSE IF rx = "junk" THEN said' = said \cup {it.text} /\ rx' = "clean" /\ UNCHANGED <<op, step, framed, offset, toMcu>>
            ELSE OnLine(it.text)
    /\ UNCHANGED <<link, faults, setup, mcu>>

\* A deadline passes when nothing more is under way, or, as a fault, before a
\* late answer.
Quiet == toMcu = <<>> /\ toHost = <<>>
Deadline ==
    /\ Running
    /\ IF Quiet THEN UNCHANGED faults ELSE faults < MaxFaults /\ faults' = faults + 1
    /\ UNCHANGED <<link, setup, toHost, mcu>>

\* Mutant: a repeated request begins its attempts again.
ResendForEver ==
    /\ step \in FrameSteps /\ Deadline
    /\ rx' = "clean"
    /\ attempts' = 1
    /\ toMcu' = Append(toMcu, [kind |-> "frame", type |-> request.type, seq |-> sequence, off |-> request.off, n |-> op.n])
    /\ UNCHANGED <<op, step, sequence, request, offset, said>>

\* requestTimedOut(): the same frame again.
Resend ==
    /\ step \in FrameSteps /\ attempts < Retries /\ Deadline
    /\ rx' = "clean"
    /\ attempts' = attempts + 1
    /\ toMcu' = Append(toMcu, [kind |-> "frame", type |-> request.type, seq |-> sequence, off |-> request.off, n |-> op.n])
    /\ UNCHANGED <<op, step, sequence, request, offset, said>>

\* Mutant: the application is asked at once, with the HELLO bytes still in its
\* line editor.
RequestFailsAsksAtOnce ==
    /\ step \in FrameSteps /\ attempts = Retries /\ Deadline
    /\ IF step = "HelloProbe" /\ (op.kind = "info" \/ setup.auto)
          THEN StartWindow("AppVersion", "version") /\ rx' = "clean"
          ELSE Finish("failed")

\* requestFailed(): only a silent probe goes on, with the application's CLI.  The
\* empty line ends what the HELLO bytes left in its line editor.
RequestFails ==
    /\ step \in FrameSteps /\ attempts = Retries /\ Deadline
    /\ IF step = "HelloProbe" /\ (op.kind = "info" \/ setup.auto)
          THEN StartWindow("AppClear", "") /\ rx' = "clean"
          ELSE Finish("failed")

\* applicationFound(): `info` ends here, the others reboot it.
ApplicationFound ==
    IF op.kind = "info" THEN Finish("ok")
    ELSE IF setup.soc THEN StartWindow("Power", "power") /\ rx' = "clean"
    ELSE StartWindow("BootloaderCmd", "bootloader") /\ rx' = "clean"

\* The windows of the CLI end (onTimeout()).
WindowEnds ==
    /\ step \in TextSteps /\ Deadline
    /\ CASE step = "AppClear" -> StartWindow("AppVersion", "version") /\ rx' = "clean"
         [] step = "AppVersion" ->
                IF "version" \notin said THEN Finish("failed")
                ELSE IF setup.role THEN ApplicationFound
                ELSE StartWindow("AppHelp", "help") /\ rx' = "clean"
         [] step = "AppHelp" -> ApplicationFound
         [] step = "Power" -> StartWindow("BootloaderCmd", "bootloader") /\ rx' = "clean"
         [] step = "BootloaderCmd" ->
                IF "rebooting" \notin said THEN Finish("failed")
                ELSE step' = "Settle" /\ rx' = "clean" /\ UNCHANGED <<op, framed, offset, said, toMcu>>
         [] OTHER -> Finish("ok")

\* The device has settled: what the reset printed is discarded.
Settled ==
    /\ step = "Settle"
    /\ toHost' = <<>> /\ rx' = "clean"
    /\ UNCHANGED <<link, faults, op, offset, said, setup, mcu>>
    /\ StartRequest("HelloReboot", "Hello", 0, {"Info"})

\* cancel(), and the device closing under an operation.
Cancel ==
    /\ Running
    /\ Finish("cancelled")
    /\ UNCHANGED <<link, faults, setup, toHost, mcu>>
LinkCloses ==
    /\ Running /\ link = "open" /\ faults < MaxFaults
    /\ link' = "closed" /\ faults' = faults + 1
    /\ Finish("failed")
    /\ UNCHANGED <<setup, toHost, mcu>>

-----------------------------------------------------------------------------
(* The device and the line. *)

Answer(f, type, off) == [kind |-> "frame", type |-> type, seq |-> f.seq, off |-> off, n |-> f.n]
Lines(texts) == [i \in DOMAIN texts |-> [kind |-> "line", text |-> texts[i]]]

\* The application: HELLO bytes stay in its line editor until a line ends them.
Application(it) ==
    IF it.kind = "frame" THEN mcu' = [mcu EXCEPT !.editor = "junk"] /\ UNCHANGED toHost
    ELSE /\ mcu' = [mcu EXCEPT !.editor = "clean",
                               !.mode = IF it.text = "bootloader" /\ mcu.editor = "clean" THEN "boot" ELSE @]
         /\ toHost' = toHost \o
                (IF mcu.editor = "junk" \/ it.text = "" THEN <<>>
                 ELSE IF it.text = "bootloader" THEN Lines(<<"rebooting">>) ELSE Lines(<<it.text>>))

\* The bootloader takes a block where it expects one and answers with the next
\* place; END and SET_ROLE restart the application, which prints its banner.
Bootloader(it) ==
    IF it.kind = "line" \/ mcu.editor = "junk"
    THEN mcu' = [mcu EXCEPT !.editor = IF it.kind = "line" THEN "junk" ELSE "clean"] /\ UNCHANGED toHost
    ELSE CASE it.type = "Hello" -> UNCHANGED mcu /\ toHost' = Append(toHost, Answer(it, "Info", 0))
           [] it.type = "Begin" -> /\ mcu' = [mcu EXCEPT !.image = <<>>, !.role = it.n]
                                   /\ toHost' = Append(toHost, Answer(it, "Ready", 0))
           [] it.type = "Data" ->
                 /\ mcu' = [mcu EXCEPT !.image = IF Len(@) = it.off THEN Append(@, <<it.n, it.off>>) ELSE @]
                 /\ toHost' = Append(toHost, Answer(it, "Ack", Len(mcu'.image)))
           [] OTHER ->
                 /\ mcu' = [mcu EXCEPT !.mode = "app", !.role = IF it.type = "SetRole" THEN it.n ELSE @]
                 /\ toHost' = Append(toHost, Answer(it, "Complete", 0)) \o Lines(<<"version", "ready">>)

Mcu ==
    /\ toMcu # <<>> /\ toMcu' = Tail(toMcu)
    /\ IF mcu.mode = "app" THEN Application(Head(toMcu)) ELSE Bootloader(Head(toMcu))
    /\ UNCHANGED <<link, faults, op, step, framed, offset, rx, said, setup>>

\* A block the flash refused: the device goes back by one.
Nacks ==
    /\ toMcu # <<>> /\ toMcu' = Tail(toMcu) /\ faults < MaxFaults /\ faults' = faults + 1
    /\ mcu.mode = "boot" /\ Head(toMcu).kind = "frame" /\ Head(toMcu).type = "Data" /\ Head(toMcu).off = Len(mcu.image)
    /\ mcu' = [mcu EXCEPT !.image = IF @ = <<>> THEN @ ELSE Front(@)]
    /\ toHost' = Append(toHost, Answer(Head(toMcu), "Nack", Len(mcu'.image)))
    /\ UNCHANGED <<link, op, step, framed, offset, rx, said, setup>>

Lose ==
    /\ faults < MaxFaults /\ faults' = faults + 1
    /\ \/ toMcu # <<>> /\ toMcu' = Tail(toMcu) /\ UNCHANGED toHost
       \/ toHost # <<>> /\ toHost' = Tail(toHost) /\ UNCHANGED toMcu
    /\ UNCHANGED <<link, op, step, framed, offset, rx, said, setup, mcu>>

McuNext ==
    \/ \E kind \in {"flash", "setrole", "info"} : Start(kind)
    \/ Receive \/ Resend \/ RequestFails \/ WindowEnds \/ Settled
    \/ Cancel \/ LinkCloses \/ Mcu \/ Nacks \/ Lose

\* Bytes arrive, the timer fires, and the device answers what it gets.
McuFairness ==
    /\ WF_updating(Receive) /\ WF_updating(Mcu)
    /\ WF_updating(Resend) /\ WF_updating(RequestFails) /\ WF_updating(WindowEnds) /\ WF_updating(Settled)

McuSpec == McuInit /\ [][McuNext]_updating /\ McuFairness

-----------------------------------------------------------------------------
\* A flash that is told as complete has put every block of its package, in
\* order and of no other operation, and its role, on the device, whatever was
\* lost, repeated or late; a block of another operation never gets between them
\* (onFrame(), onDataAnswer()).
FlashedIsThePackage ==
    /\ op.kind = "flash" /\ op.result = "ok" => mcu.image = Image(op.n) /\ mcu.role = op.n
    /\ op.kind = "setrole" /\ op.result = "ok" => mcu.role = op.n
    /\ step \in {"Transfer", "End"} => IsPrefix(mcu.image, Image(op.n))

\* On a line that loses nothing a flash begun on the bootloader or on the
\* application gets through, unless somebody cancels it.
HealthyFlash ==
    [](op.kind = "flash" /\ Running /\ setup.auto =>
        <>(op.result = "ok" \/ op.result = "cancelled" \/ faults > 0))

\* Every operation ends.
UpdateEnds == Running ~> ~Running
=============================================================================
