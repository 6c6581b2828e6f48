--------------------------------- MODULE CliRun ---------------------------------
(***************************************************************************)
(* One run of su-fw (firmware/FirmwareCli, cli/main.cpp): the command line *)
(* it accepts, the waits and the one operation of its command on a local   *)
(* event loop, its questions, Ctrl+C and --timeout, and the exit code with *)
(* which it ends.  The job is what su-fw sees of it: when it may be        *)
(* cancelled and how it ends (FirmwareJob, SocFlash).                      *)
(***************************************************************************)
EXTENDS Naturals, Sequences, FiniteSets, SequencesExt

CONSTANTS MaxOptions,  \* bound: options on a command line
          MaxEntries,  \* bound: entries of --serials
          MaxSignals,  \* bound: times Ctrl+C is pressed
          MaxQuestions \* bound: questions of the build machine

VARIABLES
    line,     \* the command line: command, options, the entries of --serials, interactive
    todo,     \* the stages left, the current one first
    signals,  \* counted by the handler and not delivered
    stop,     \* interrupted, timedOut, cancelPending
    queued,   \* posted to the event loop: deferred interrupts, the cancel sent again
    timer,    \* --timeout: "off", "on" or "fired"
    job,      \* at: where the operation is; what it asked, the flash method chosen, ...
    exit      \* the exit code and what the result line says; "none" while it runs

cli == <<line, todo, signals, stop, queued, timer, job, exit>>

Commands == {"status", "partitions", "pull", "flash-soc", "mcu-info", "mcu-update",
             "mcu-set-role", "pull-flash", "inventory"}

\* The options of a command that change how it runs ("bad": a value that is refused).
OptionsOf(command) ==
    {"bad", "timeout"} \cup
    CASE command = "status" -> {"mcu"}
      [] command = "flash-soc" -> {"all", "partitions", "serial", "serials", "all-boards", "max-parallel",
                                   "dry-run", "force-layout", "expect-image", "force", "no-wait"}
      [] command \in {"mcu-update", "mcu-set-role"} -> {"role"}
      [] command \in {"pull", "pull-flash"} -> {"password-env", "password-stdin", "partitions"}
      [] OTHER -> {}

\* An entry of --serials: an explicit tag (its letter's number; 0 for none) and a serial.
Entries == [tag : 0..2, serial : 1..2]

LinesOf(command) ==
    {l \in [command : {command}, options : {o \in SUBSET OptionsOf(command) : Cardinality(o) <= MaxOptions},
            entries : BoundedSeq(Entries, MaxEntries), interactive : BOOLEAN] :
        /\ (l.entries # <<>>) => "serials" \in l.options
        /\ l.interactive => command \in {"pull", "pull-flash", "flash-soc"}}

Lines == UNION {LinesOf(c) : c \in Commands}

-----------------------------------------------------------------------------
(* The command line. *)

Explicit(entries) == {entries[i].tag : i \in DOMAIN entries} \ {0}

\* Mutant: the default letters do not skip the explicit tags.
DefaultTagsInOrder(entries) ==
    [i \in DOMAIN entries |->
        IF entries[i].tag # 0 THEN entries[i].tag
        ELSE Cardinality({j \in 1..i : entries[j].tag = 0})]

\* The letters nobody gave, and the k-th of some.
FreeTags(entries) == {n \in 1..(2 * MaxEntries + 2) : n \notin Explicit(entries)}
Nth(k, free) == CHOOSE n \in free : Cardinality({m \in free : m <= n}) = k

\* The untagged entries get the letters in order, every explicit tag skipped.
Tags(entries) ==
    [i \in DOMAIN entries |->
        IF entries[i].tag # 0 THEN entries[i].tag
        ELSE Nth(Cardinality({j \in 1..i : entries[j].tag = 0}), FreeTags(entries))]

Repeats(f) == \E i, j \in DOMAIN f : i # j /\ f[i] = f[j]

SerialsProblem(entries) ==
    \/ entries = <<>>
    \/ Repeats([i \in DOMAIN entries |-> entries[i].serial])
    \/ Repeats(Tags(entries))

IsFleet(l) == l.options \cap {"serials", "all-boards"} # {}

FleetProblem(l) ==
    IF IsFleet(l)
    THEN \/ {"serials", "all-boards"} \subseteq l.options
         \/ l.options \cap {"force-layout", "serial", "all"} # {}
         \/ "partitions" \notin l.options
         \/ "serials" \in l.options /\ SerialsProblem(l.entries)
    ELSE l.options \cap {"dry-run", "max-parallel"} # {}

\* Mutant: --expect-image with --all-boards is found out only when adb lists them.
ExpectsWithoutNames(l) ==
    /\ "expect-image" \in l.options
    /\ l.options \cap {"serial", "serials", "all-boards"} = {}

ExpectProblem(l) ==
    \/ /\ "expect-image" \in l.options
       /\ \/ "all-boards" \in l.options
          \/ "serial" \notin l.options /\ l.entries = <<>>
    \/ "force" \in l.options /\ "expect-image" \notin l.options

\* parseCommon() and parseInputs(), password-stdin aside.
Problem(l) ==
    \/ "bad" \in l.options
    \/ l.command = "flash-soc" /\ (FleetProblem(l) \/ ExpectProblem(l))
    \/ l.command = "flash-soc" /\ ~IsFleet(l) /\ (("all" \in l.options) = ("partitions" \in l.options))
    \/ l.command = "pull-flash" /\ "partitions" \in l.options
    \/ l.command \in {"mcu-update", "mcu-set-role"} /\ "role" \notin l.options
    \/ {"password-env", "password-stdin"} \subseteq l.options

CanAsk == line.interactive

StagesOf(l) ==
    CASE l.command = "status" -> IF "mcu" \in l.options THEN <<"board", "op">> ELSE <<"board">>
      [] l.command \in {"mcu-info", "mcu-update", "mcu-set-role"} -> <<"board", "op">>
      [] l.command = "partitions" -> <<"plan">>
      [] l.command \in {"pull", "pull-flash"} -> <<"op">>
      [] l.command = "inventory" -> <<>>
      [] l.command = "flash-soc" ->
            IF IsFleet(l)
            THEN <<"expect", "plan">> \o (IF l.interactive /\ "dry-run" \notin l.options THEN <<"confirm">> ELSE <<>>)
                 \o <<"op">>
            ELSE IF "all" \in l.options THEN <<"plan", "expect", "op">> ELSE <<"expect", "plan", "op">>

-----------------------------------------------------------------------------
NoJob == [at |-> "none", asked |-> 0, method |-> FALSE, written |-> FALSE, drains |-> FALSE, strays |-> FALSE]
Nothing == [code |-> "none", says |-> "none"]

CliInit ==
    /\ line \in Lines
    /\ todo = <<"parse">>
    /\ signals = 0 /\ queued = [interrupts |-> 0, cancel |-> FALSE]
    /\ stop = [interrupted |-> FALSE, timedOut |-> FALSE, cancelPending |-> FALSE]
    /\ timer = "off"
    /\ job = NoJob /\ exit = Nothing

Aborted == stop.interrupted \/ stop.timedOut
Stage == IF todo = <<>> THEN "none" ELSE todo[1]
Running == exit.code = "none"
Busy == job.at \in {"waits", "asks", "writes", "returns", "mcu"}
IsWrite == line.command \in {"flash-soc", "pull-flash"} /\ "dry-run" \notin line.options

\* A fleet can be cancelled at any moment: the drain.
Cancellable == Busy /\ (job.at # "writes" \/ IsFleet(line))

\* No event loop runs while the command line is parsed or stdin is read.
LoopRuns == Running /\ Stage \in {"board", "layout", "plan", "op"} /\ job.at # "asks"

\* finish(): the command ends with this code and this result line.
Leave(code, says) ==
    /\ exit' = [code |-> code, says |-> says]
    /\ todo' = <<>> /\ timer' = "off"

\* The local wait is over.
GoOn ==
    IF Len(todo) > 1 THEN todo' = Tail(todo) /\ UNCHANGED <<timer, exit>> ELSE Leave("ok", "done")

\* main(): the handler counts.
Press ==
    /\ Running /\ signals < MaxSignals
    /\ signals' = signals + 1
    /\ UNCHANGED <<line, todo, stop, queued, timer, job, exit>>

-----------------------------------------------------------------------------
(* Stopping. *)

\* FirmwareJob::cancel(): refused during a write; a fleet drains.
Cancelled(j) ==
    IF IsFleet(line) THEN [j EXCEPT !.drains = TRUE]
    ELSE IF j.at \in {"waits", "returns"} THEN [j EXCEPT !.at = "cancelled"]
    ELSE IF j.at = "mcu" THEN [j EXCEPT !.at = "cancelled later"] ELSE j

\* Mutant: a refused cancel is forgotten.
RequestCancelOnce(flag) ==
    /\ stop' = [stop EXCEPT ![flag] = TRUE]
    /\ job' = IF Busy THEN Cancelled(job) ELSE job

\* stopRun() and requestCancel().
StopRun(flag) ==
    LET again == stop[flag] IN
    IF ~Busy \/ (again /\ stop.cancelPending)
    THEN stop' = [stop EXCEPT ![flag] = TRUE] /\ UNCHANGED job
    ELSE /\ job' = Cancelled(job)
         /\ stop' = [stop EXCEPT ![flag] = TRUE, !.cancelPending = @ \/ ~Cancellable]

\* The 100 ms timer of main() passes the count on.
Deliver ==
    /\ LoopRuns /\ signals > 0 /\ signals' = signals - 1
    /\ StopRun("interrupted")
    /\ UNCHANGED <<line, todo, queued, timer, exit>>

\* An interrupt deferred by a question, from the event loop.
Deferred ==
    /\ LoopRuns /\ queued.interrupts > 0
    /\ queued' = [queued EXCEPT !.interrupts = @ - 1]
    /\ StopRun("interrupted")
    /\ UNCHANGED <<line, todo, signals, timer, exit>>

TimerFires ==
    /\ LoopRuns /\ timer = "on" /\ timer' = "fired"
    /\ StopRun("timedOut")
    /\ UNCHANGED <<line, todo, signals, queued, exit>>

\* The cancel that was refused, sent again from the event loop.
CancelAgain ==
    /\ LoopRuns /\ queued.cancel
    /\ queued' = [queued EXCEPT !.cancel = FALSE]
    /\ IF stop.cancelPending /\ Cancellable
          THEN stop' = [stop EXCEPT !.cancelPending = FALSE] /\ job' = Cancelled(job)
          ELSE UNCHANGED <<stop, job>>
    /\ UNCHANGED <<line, todo, signals, timer, exit>>

-----------------------------------------------------------------------------
(* Reading the command line. *)

\* execute() up to runCommand(): --password-stdin reads a line, after which main()
\* delivers what was counted; with no job yet an interrupt is only remembered.
Parse ==
    /\ Stage = "parse"
    /\ \E read \in BOOLEAN :
          LET reads == "password-stdin" \in line.options /\ ~("password-env" \in line.options)
              heard == reads /\ signals > 0
              problem == Problem(line) \/ (reads /\ ~read)
          IN  /\ read \/ reads
              /\ signals' = IF heard THEN 0 ELSE signals
              /\ stop' = [stop EXCEPT !.interrupted = heard]
              /\ IF heard THEN Leave("cancelled", "interrupted")
                 ELSE IF problem THEN Leave("usage", "usage")
                 ELSE IF StagesOf(line) = <<>>
                 THEN \E code \in {"ok", "failed", "no board"} : Leave(code, code)
                 ELSE /\ todo' = StagesOf(line) /\ UNCHANGED exit
                      /\ timer' = IF "timeout" \in line.options THEN "on" ELSE "off"
    /\ line' = [line EXCEPT !.entries = <<>>]   \* the boards are the job's from here on
    /\ UNCHANGED <<queued, job>>

\* checkExpectedImage(): the inventory says the board runs this image already.
Expect ==
    /\ Stage = "expect"
    /\ \/ GoOn
       \/ /\ "expect-image" \in line.options /\ "force" \notin line.options
          /\ Leave("failed", "already runs it")
    /\ UNCHANGED <<line, signals, stop, queued, job>>

\* queryBoard(): paused by another operation, no answer in time, or an answer; an
\* abort is noticed at the next poll.
Board ==
    /\ Stage = "board"
    /\ \/ ~Aborted /\ \E why \in {"paused", "no answer"} : Leave("failed", why)
       \/ Aborted /\ Leave("cancelled", "interrupted")
       \/ todo' = <<"layout">> \o Tail(todo) /\ UNCHANGED <<timer, exit>>
       \/ /\ ~Aborted
          /\ \E mode \in {"adb", "loader", "none"} :
                IF mode = "none" \/ (mode = "loader" /\ Len(todo) > 1) THEN Leave("no board", mode) ELSE GoOn
    /\ UNCHANGED <<line, signals, stop, queued, job>>

\* The layout the status reads over ADB: waited for, its end never decides.
Layout ==
    /\ Stage = "layout"
    /\ IF Aborted THEN Leave("cancelled", "interrupted") ELSE GoOn
    /\ UNCHANGED <<line, signals, stop, queued, job>>

\* waitForPlan() and what the command makes of the image's partitions.
Plan ==
    /\ Stage = "plan"
    /\ \/ Aborted /\ Leave("cancelled", "interrupted")
       \/ GoOn
       \/ Leave("failed", "partitions")
       \/ line.command = "flash-soc" /\ "all" \notin line.options /\ Leave("usage", "partition name")
    /\ UNCHANGED <<line, signals, stop, queued, job>>

\* The fleet's question: stdin is read, then what was counted is delivered - deferred.
Confirm ==
    /\ Stage = "confirm"
    /\ queued' = [queued EXCEPT !.interrupts = @ + signals] /\ signals' = 0
    /\ GoOn \/ Leave("cancelled", "answered no")
    /\ UNCHANGED <<line, stop, job>>

-----------------------------------------------------------------------------
(* The operation. *)

\* runOperation().
Start ==
    /\ Stage = "op" /\ job.at = "none"
    /\ job' = [job EXCEPT !.at = IF Aborted THEN "not started" ELSE "waits"]
    /\ UNCHANGED <<line, todo, signals, stop, queued, timer, exit>>

\* The build machine asks (host key, password): a terminal is read, else su-fw answers.
Ask ==
    /\ job.at = "waits" /\ line.command \in {"pull", "pull-flash"} /\ CanAsk
    /\ ~job.written /\ job.asked < MaxQuestions
    /\ job' = [job EXCEPT !.at = "asks", !.asked = @ + 1]
    /\ UNCHANGED <<line, todo, signals, stop, queued, timer, exit>>

\* Mutant: the cancel runs inside the job's callback.
AnswerStops ==
    /\ job.at = "asks" /\ signals' = 0
    /\ stop' = [stop EXCEPT !.interrupted = @ \/ signals > 0]
    /\ job' = IF signals > 0 THEN [job EXCEPT !.at = "cancelled", !.strays = TRUE] ELSE [job EXCEPT !.at = "waits"]
    /\ UNCHANGED <<line, todo, queued, timer, exit>>

\* The answer goes back into the job's callback, the interrupts after it.
Answer ==
    /\ job.at = "asks"
    /\ queued' = [queued EXCEPT !.interrupts = @ + signals] /\ signals' = 0
    /\ \/ job' = [job EXCEPT !.at = "waits"]
       \/ job' = [job EXCEPT !.at = "no ssh"]
    /\ UNCHANGED <<line, todo, stop, timer, exit>>

\* The write begins: the method is chosen, nothing can be cancelled.
Write ==
    /\ job.at = "waits" /\ IsWrite /\ ~job.drains
    /\ job' = [job EXCEPT !.at = "writes", !.method = TRUE]
    /\ UNCHANGED <<line, todo, signals, stop, queued, timer, exit>>

\* Mutant: the pending cancel runs inside cancellableChanged(): the flasher goes on
\* with its first poll for an operation that has ended.
WrittenCancelsAtOnce ==
    /\ job.at = "writes"
    /\ LET after == [job EXCEPT !.at = "returns", !.written = TRUE] IN
       job' = IF stop.cancelPending THEN [after EXCEPT !.at = "cancelled", !.strays = TRUE] ELSE after
    /\ stop' = [stop EXCEPT !.cancelPending = FALSE]
    /\ UNCHANGED <<line, todo, signals, queued, timer, exit>>

\* The write is over and the wait for ADB begins: cancellableChanged(true) posts the
\* cancel that was refused.
Written ==
    /\ job.at = "writes"
    /\ job' = [job EXCEPT !.at = IF "no-wait" \in line.options THEN "done" ELSE "returns", !.written = TRUE]
    /\ queued' = [queued EXCEPT !.cancel = @ \/ (stop.cancelPending /\ job'.at = "returns")]
    /\ UNCHANGED <<line, todo, signals, stop, timer, exit>>

WriteFails ==
    /\ job.at = "writes" /\ job' = [job EXCEPT !.at = "failed"]
    /\ UNCHANGED <<line, todo, signals, stop, queued, timer, exit>>

\* A drained fleet ends with its boards skipped or finished.
Drains ==
    /\ job.drains /\ job.at \in {"waits", "returns"}
    /\ job' = [job EXCEPT !.at = "cancelled"]
    /\ UNCHANGED <<line, todo, signals, stop, queued, timer, exit>>

\* Pull & flash goes on with the MCU.
McuStep ==
    /\ job.at = "returns" /\ line.command = "pull-flash"
    /\ job' = [job EXCEPT !.at = "mcu"]
    /\ UNCHANGED <<line, todo, signals, stop, queued, timer, exit>>

\* The waiting phases may end by themselves, well or not - or never.
Ends ==
    /\ job.at \in {"waits", "returns", "mcu"} /\ ~job.drains
    /\ \E end \in {"done", "failed", "no loader"} :
          /\ end = "done" => (IsWrite => job.written)
          /\ end = "no loader" => (IsWrite /\ ~job.method)
          /\ job.at = "returns" => end = "done"
          /\ job' = [job EXCEPT !.at = end]
    /\ UNCHANGED <<line, todo, signals, stop, queued, timer, exit>>

\* Mutant: whatever was cancelled is called interrupted.
OutcomeBare ==
    [code |-> IF job.at = "done" THEN "ok" ELSE IF Aborted THEN "cancelled" ELSE "failed",
     says |-> IF job.at = "done" THEN "done" ELSE IF Aborted THEN "interrupted" ELSE job.at]

\* imageWrittenThenCancelled(), operationExitCode() and operationResultMessage().
Outcome ==
    LET writtenFirst == job.at = "cancelled" /\ job.method /\ ~IsFleet(line) IN
    [code |-> IF job.at = "done" THEN "ok"
              ELSE IF Aborted THEN "cancelled"
              ELSE IF job.at = "no ssh" THEN "ssh"
              ELSE IF job.at = "no loader" THEN "no board" ELSE "failed",
     says |-> IF job.at = "done" THEN "done"
              ELSE IF ~Aborted THEN job.at
              ELSE IF writtenFirst THEN "interrupted after the image was written"
              ELSE "interrupted"]

\* The poll of runOperation() finds the operation finished.
OperationEnded ==
    /\ Stage = "op"
    /\ job.at \in {"not started", "done", "failed", "no loader", "no ssh", "cancelled", "cancelled later"}
    /\ Leave(Outcome.code, Outcome.says)
    /\ UNCHANGED <<line, signals, stop, queued, job>>

-----------------------------------------------------------------------------
Loop == Parse \/ Expect \/ Board \/ Layout \/ Plan \/ Confirm \/ Start \/ OperationEnded
Stops == Deliver \/ Deferred \/ TimerFires \/ CancelAgain
Human == Press \/ Ask \/ Answer
Job == Write \/ Written \/ WriteFails \/ Drains \/ McuStep \/ Ends

CliNext == Running /\ (Loop \/ Stops \/ Human \/ Job)

\* The event loop turns, a question is answered, a write comes to its end and a fleet
\* drains; nothing says that a waiting phase ends by itself.
CliFairness ==
    /\ WF_cli(Running /\ Loop) /\ WF_cli(Deliver) /\ WF_cli(Deferred) /\ WF_cli(CancelAgain)
    /\ WF_cli(Running /\ Answer) /\ WF_cli(Running /\ (Written \/ WriteFails)) /\ WF_cli(Running /\ Drains)

CliSpec == CliInit /\ [][CliNext]_cli /\ CliFairness

-----------------------------------------------------------------------------
\* An accepted command line says in exactly one way what is written on which boards,
\* and a tag is refused as used twice only when it was given twice (parseInputs,
\* parseFleet, parseSerials).
ChoiceIsOne ==
    /\ (line.command = "flash-soc" /\ ~Problem(line)) =>
          /\ Cardinality(line.options \cap {"all", "partitions"}) = 1
          /\ Cardinality(line.options \cap {"serial", "serials", "all-boards"}) <= 1
          /\ "expect-image" \in line.options => line.options \cap {"serial", "serials"} # {}
    /\ Repeats(Tags(line.entries)) => \E i, j \in DOMAIN line.entries :
          i # j /\ line.entries[i].tag = line.entries[j].tag /\ line.entries[i].tag # 0

\* The exit code is what happened: 0 only for an operation that ended well, 5 only for
\* a run that was stopped, and a stop after the write says that the image is on the
\* board, so that nobody flashes it again (operationResultMessage).
ExitIsTrue ==
    /\ (exit.code = "ok" /\ job.at # "none") => job.at = "done"
    /\ exit.code = "cancelled" => (Aborted \/ exit.says = "answered no")
    /\ (exit.says = "interrupted after the image was written") =>  job.written
    /\ (exit.says = "interrupted" /\ job.at = "cancelled" /\ ~IsFleet(line)) => ~job.written

\* Nothing of the job goes on for an operation that a cancel has ended: a cancel never
\* runs inside the job's own callback or signal (createJob, interrupt).
NothingAfterTheEnd == ~job.strays

\* Ctrl+C ends the run, also when the job refused the cancel (stopRun, cancellableChanged).
InterruptEndsTheRun == (Running /\ signals > 0) ~> ~Running
===============================================================================
