-------------------------------- MODULE ToolRun --------------------------------
(***************************************************************************)
(* One external command (firmware/ToolRunner: ToolInvocation and           *)
(* ProcessInvocation): the process it starts, the callbacks the event loop *)
(* still has to deliver, its input, its output, its timeout, its           *)
(* cancellation, and the one result its owner is told.                     *)
(***************************************************************************)
EXTENDS Naturals, Sequences, SequencesExt

CONSTANTS MaxInput,   \* bound: pieces of input the owner hands over
          MaxOutput   \* bound: chunks the command prints

VARIABLES
    process,   \* QProcess::state(): "starting", "running" or "none"
    child,     \* the command itself: "alive", "killed", "exited" or "crashed"
    posted,    \* queued single shots: "announce", "failed", "detached"
    flags,     \* m_cancelRequested, m_timedOut, m_finished, the timers
    given,     \* what the owner did: pieces of input by their number, then EndOfInput
    pendingInput, closeAfterStart,
    stdin,     \* what the command was given, EndOfInput when its input ended
    printed,   \* chunks the command has printed
    unread,    \* of them, in the pipe
    heard,     \* the signals of the invocation, in their order
    result     \* of finished(): started, cancelled, timedOut, ok

streams == <<given, pendingInput, closeAfterStart, stdin>>
told == <<heard, result>>
running == <<process, child, posted, flags, streams, printed, unread, told>>

EndOfInput == 0

\* A signal of the invocation; output says up to which chunk it reaches.
Signal(name, chunk) == [signal |-> name, upTo |-> chunk]

NoResult == [started |-> FALSE, cancelled |-> FALSE, timedOut |-> FALSE, ok |-> FALSE]

\* run(): on Windows the process runs when start() returns; a start that fails is
\* queued; a detached command has its result queued.
ToolInit ==
    /\ process \in {"starting", "running", "none"}
    /\ posted \in IF process = "none" THEN {{"failed"}, {"detached"}}
                  ELSE IF process = "running" THEN {{"announce"}} ELSE {{}}
    /\ child = IF process = "none" THEN "exited" ELSE "alive"
    /\ \E timed \in BOOLEAN :
          flags = [cancel |-> FALSE, timedOut |-> FALSE, finished |-> FALSE,
                   timer |-> timed /\ "detached" \notin posted, grace |-> FALSE]
    /\ given = <<>> /\ pendingInput = <<>> /\ closeAfterStart = FALSE /\ stdin = <<>>
    /\ printed = 0 /\ unread = 0
    /\ heard = <<>> /\ result = NoResult

Alive == process # "none" /\ child = "alive"

\* markStarted().
Announced(signals) ==
    IF Signal("started", 0) \in ToSet(signals) THEN signals ELSE Append(signals, Signal("started", 0))

\* Mutant: the queued announcement forgets that the command may have ended.
AnnounceAnyhow ==
    /\ "announce" \in posted /\ posted' = posted \ {"announce"}
    /\ heard' = Append(heard, Signal("started", 0))
    /\ UNCHANGED <<process, child, flags, streams, printed, unread, result>>

\* announceStarted() from the event loop.
Announce ==
    /\ "announce" \in posted /\ posted' = posted \ {"announce"}
    /\ heard' = IF flags.finished THEN heard ELSE Announced(heard)
    /\ UNCHANGED <<process, child, flags, streams, printed, unread, result>>

\* The command reads what it is given, unless it is dead.
Given(what) == IF child = "alive" THEN stdin' = stdin \o what ELSE UNCHANGED stdin
Close(want) == IF want THEN <<EndOfInput>> ELSE <<>>

\* Mutant: the input is closed before what was handed over is delivered.
StartedClosesFirst ==
    /\ process = "starting" /\ process' = "running"
    /\ posted' = posted \cup {"announce"}
    /\ IF flags.cancel
          THEN child' = "killed" /\ UNCHANGED <<stdin, pendingInput>>
          ELSE Given(Close(closeAfterStart) \o pendingInput) /\ pendingInput' = <<>> /\ UNCHANGED child
    /\ UNCHANGED <<flags, given, closeAfterStart, printed, unread, told>>

\* QProcess::started of a process that was starting.
Started ==
    /\ process = "starting" /\ process' = "running"
    /\ posted' = posted \cup {"announce"}
    /\ IF flags.cancel
          THEN child' = "killed" /\ UNCHANGED <<stdin, pendingInput>>
          ELSE Given(pendingInput \o Close(closeAfterStart)) /\ pendingInput' = <<>> /\ UNCHANGED child
    /\ UNCHANGED <<flags, given, closeAfterStart, printed, unread, told>>

\* onProcessError(FailedToStart).
FailedToStart ==
    /\ process = "starting" /\ process' = "none"
    /\ child' = "exited" /\ posted' = posted \cup {"failed"}
    /\ UNCHANGED <<flags, streams, printed, unread, told>>

\* finish(): once, whoever tries to end the command.
Finish(r, signals) ==
    IF flags.finished THEN UNCHANGED <<flags, told>>
    ELSE /\ flags' = [flags EXCEPT !.finished = TRUE]
         /\ result' = r
         /\ heard' = Append(signals, Signal("finished", 0))

\* The queued end of a command that could not be started.
Failed ==
    /\ "failed" \in posted /\ posted' = posted \ {"failed"}
    /\ Finish([NoResult EXCEPT !.cancelled = flags.cancel], heard)
    /\ UNCHANGED <<process, child, streams, printed, unread>>

\* The queued end of beginDetached(): a detached command counts as ended at once.
Detached(started) ==
    /\ "detached" \in posted /\ posted' = posted \ {"detached"}
    /\ Finish([NoResult EXCEPT !.started = started, !.ok = started], IF started THEN Announced(heard) ELSE heard)
    /\ UNCHANGED <<process, child, streams, printed, unread>>

\* writeInput(), of an owner that has not closed the input.
WriteInput ==
    /\ Len(given) < MaxInput /\ EndOfInput \notin ToSet(given)
    /\ given' = Append(given, Len(given) + 1)
    /\ IF flags.finished \/ process = "none" THEN UNCHANGED <<pendingInput, stdin>>
       ELSE IF process = "starting" THEN pendingInput' = Append(pendingInput, Last(given')) /\ UNCHANGED stdin
       ELSE Given(<<Last(given')>>) /\ UNCHANGED pendingInput
    /\ UNCHANGED <<process, child, posted, flags, closeAfterStart, printed, unread, told>>

\* closeInput().
CloseInput ==
    /\ EndOfInput \notin ToSet(given)
    /\ given' = Append(given, EndOfInput)
    /\ IF flags.finished \/ process = "none" THEN UNCHANGED <<closeAfterStart, stdin>>
       ELSE IF process = "starting" THEN closeAfterStart' = TRUE /\ UNCHANGED stdin
       ELSE Given(<<EndOfInput>>) /\ UNCHANGED closeAfterStart
    /\ UNCHANGED <<process, child, posted, flags, pendingInput, printed, unread, told>>

\* Mutant: a cancelled command that ignores the polite request is left alone.
CancelPolitely ==
    /\ ~flags.finished /\ ~flags.cancel
    /\ \E stubborn \in BOOLEAN :
          /\ flags' = [flags EXCEPT !.cancel = TRUE]
          /\ child' = IF process = "running" /\ child = "alive" /\ ~stubborn THEN "killed" ELSE child
    /\ UNCHANGED <<process, posted, streams, printed, unread, told>>

\* cancel(): asked politely (a command may ignore it) with a grace period on
\* POSIX, killed at once on Windows; one that is starting is killed when it has.
Cancel ==
    /\ ~flags.finished /\ ~flags.cancel
    /\ \E stubborn \in BOOLEAN :
          /\ flags' = [flags EXCEPT !.cancel = TRUE, !.grace = process = "running" /\ stubborn]
          /\ child' = IF process = "running" /\ child = "alive" /\ ~stubborn THEN "killed" ELSE child
    /\ UNCHANGED <<process, posted, streams, printed, unread, told>>

\* The grace period of cancel() ends.
Grace ==
    /\ flags.grace
    /\ flags' = [flags EXCEPT !.grace = FALSE]
    /\ child' = IF ~flags.finished /\ Alive THEN "killed" ELSE child
    /\ UNCHANGED <<process, posted, streams, printed, unread, told>>

\* onTimeout().
Timeout ==
    /\ flags.timer
    /\ IF flags.finished \/ process = "none"
          THEN flags' = [flags EXCEPT !.timer = FALSE] /\ UNCHANGED child
          ELSE /\ flags' = [flags EXCEPT !.timer = FALSE, !.timedOut = TRUE]
               /\ child' = IF child = "alive" THEN "killed" ELSE child
    /\ UNCHANGED <<process, posted, streams, printed, unread, told>>

\* The command prints, or ends by itself.
Prints ==
    /\ Alive /\ process = "running" /\ printed < MaxOutput
    /\ printed' = printed + 1 /\ unread' = unread + 1
    /\ UNCHANGED <<process, child, posted, flags, streams, told>>
Ends ==
    /\ Alive /\ process = "running"
    /\ child' \in {"exited", "crashed"}
    /\ UNCHANGED <<process, posted, flags, streams, printed, unread, told>>

\* drain(): readAll() of whatever is in the pipe, as one chunk.
Drained(signals) ==
    IF unread = 0 \/ flags.finished THEN signals ELSE Append(Announced(signals), Signal("output", printed))

ReadyRead ==
    /\ process = "running" /\ unread > 0
    /\ heard' = Drained(heard) /\ unread' = 0
    /\ UNCHANGED <<process, child, posted, flags, streams, printed, result>>

\* Mutant: the end of the process does not look into the pipe again.
ProcessFinishedUndrained ==
    /\ process = "running" /\ child # "alive" /\ process' = "none"
    /\ Finish([started |-> TRUE, cancelled |-> flags.cancel, timedOut |-> flags.timedOut /\ ~flags.cancel,
               ok |-> child = "exited" /\ ~flags.cancel /\ ~flags.timedOut],
              Announced(heard))
    /\ UNCHANGED <<child, posted, streams, printed, unread>>

\* onProcessFinished(): what is left in the pipe comes first; a cancel beats a
\* timeout, and both beat the exit code.
ProcessFinished ==
    /\ process = "running" /\ child # "alive" /\ process' = "none"
    /\ Finish([started |-> TRUE, cancelled |-> flags.cancel, timedOut |-> flags.timedOut /\ ~flags.cancel,
               ok |-> child = "exited" /\ ~flags.cancel /\ ~flags.timedOut],
              Announced(Drained(heard)))
    /\ unread' = 0
    /\ UNCHANGED <<child, posted, streams, printed>>

ToolNext ==
    \/ Announce \/ Started \/ FailedToStart \/ Failed \/ \E s \in BOOLEAN : Detached(s)
    \/ WriteInput \/ CloseInput \/ Cancel \/ Grace \/ Timeout
    \/ Prints \/ Ends \/ ReadyRead \/ ProcessFinished

\* The event loop delivers; the system starts a process or says it cannot, and
\* reports the end of one; timers fire.  Nothing makes a command end by itself.
ToolFairness ==
    /\ WF_running(Announce) /\ WF_running(Failed) /\ WF_running(\E s \in BOOLEAN : Detached(s))
    /\ WF_running(Started \/ FailedToStart) /\ WF_running(ProcessFinished)
    /\ WF_running(Grace) /\ WF_running(Timeout)

ToolSpec == ToolInit /\ [][ToolNext]_running /\ ToolFairness

-----------------------------------------------------------------------------
\* The owner hears started() at most once and before any output, all the output
\* before finished(), finished() once and nothing after it (ToolInvocation).
SignalsInOrder ==
    \A i \in 1..Len(heard) :
        /\ heard[i].signal = "started" => i = 1
        /\ heard[i].signal = "finished" => i = Len(heard)
        /\ heard[i].signal = "output" => heard[1].signal = "started"

\* A result speaks of the command: a success is one that ended by itself, that
\* nobody cancelled or timed out and whose output the owner has all been given.
ResultIsTrue ==
    flags.finished =>
        /\ result.ok => ~flags.timedOut /\ (process = "none" /\ child = "exited")
                        /\ (printed > 0 => Signal("output", printed) \in ToSet(heard))
        /\ result.started => heard[1] = Signal("started", 0)
        /\ ~(result.cancelled /\ result.timedOut)

\* The command gets its input in the order the owner gave it, and its end of
\* input never before the input, wherever the start falls (m_pendingInput).
InputInOrder ==
    /\ IsPrefix(stdin, given)
    /\ process = "running" /\ child = "alive" => stdin = given

\* A cancelled command ends, even one that ignores the request, and so does one
\* whose time is up.
CommandEnds == (flags.cancel \/ flags.timer) ~> flags.finished
=============================================================================
