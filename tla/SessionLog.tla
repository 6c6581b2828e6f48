------------------------------- MODULE SessionLog -------------------------------
(***************************************************************************)
(* A session is captured (core/SessionLogger) and replayed (LogReplayer,   *)
(* SessionWidget::replayLogFile).  A text capture puts a time stamp before *)
(* each line and the user's input on lines of its own; the replay takes    *)
(* both out again.  The board ends its lines with CR LF and may write a CR *)
(* alone.  Stamps and headers are one token each, as is any character that *)
(* ends no line.                                                           *)
(***************************************************************************)
EXTENDS Naturals, Sequences, SequencesExt

CONSTANTS MaxOutput,    \* bound: characters the board writes
          MaxExtras     \* bound: commands sent, and times the log is started

VARIABLES
    format,     \* "text" or "raw"
    active,     \* the log is open
    atStart,    \* m_atLineStart
    file,       \* the capture
    logged,     \* what the board wrote while the log was open
    broken,     \* a command or the log's end separated a CR from what follows,
                \* or a restart broke a line
    extras,
    replay,     \* "none", "running", "paused" or "done"
    data,       \* m_data, the rest of it
    fed         \* what the terminal got back

capture == <<format, active, atStart, file, logged, broken, extras>>
replaying == <<replay, data, fed>>
logging == <<capture, replaying>>

Header == <<"header", "lf">>
TxLine == <<"stamp", "tx", "lf">>
IsBreak(c) == c \in {"cr", "lf"}
AfterCr == logged # <<>> /\ Last(logged) = "cr"

LogInit ==
    /\ format \in {"text", "raw"} /\ active = FALSE /\ atStart = TRUE
    /\ file = <<>> /\ logged = <<>> /\ broken = FALSE /\ extras = 0
    /\ replay = "none" /\ data = <<>> /\ fed = <<>>

\* start(): appended to what is there, the header on a line of its own.
StartLog ==
    /\ ~active /\ replay = "none" /\ extras < MaxExtras
    /\ active' = TRUE /\ atStart' = TRUE /\ extras' = extras + 1
    /\ LET midLine == file # <<>> /\ Last(file) # "lf"
       IN  IF format = "raw" THEN UNCHANGED <<file, broken>>
           ELSE /\ file' = file \o (IF midLine THEN <<"lf">> ELSE <<>>) \o Header
                /\ broken' = (broken \/ midLine)
    /\ UNCHANGED <<format, logged, replaying>>

\* stop(), or a write that fails: the log ends.
StopLog ==
    /\ active /\ active' = FALSE
    /\ broken' = (broken \/ AfterCr)
    /\ UNCHANGED <<format, atStart, file, logged, extras, replaying>>

\* Mutant: every chunk gets its stamp.
StampedPerChunk(chunk, start) == <<"stamp">> \o chunk

\* logReceived(): a stamp before the first character of each line.
Stamped(chunk, start) ==
    LET at[i \in 0..Len(chunk)] ==
            IF i = 0 THEN <<>>
            ELSE at[i - 1] \o (IF (IF i = 1 THEN start ELSE chunk[i - 1] = "lf")
                                  THEN <<"stamp", chunk[i]>> ELSE <<chunk[i]>>)
    IN  at[Len(chunk)]

Receive(chunk) ==
    /\ active /\ Len(logged) + Len(chunk) <= MaxOutput
    /\ (AfterCr \/ chunk[1] # "lf") /\ \A i \in 2..Len(chunk) : chunk[i] = "lf" => chunk[i - 1] = "cr"
    /\ logged' = logged \o chunk
    /\ IF format = "raw" THEN file' = file \o chunk /\ UNCHANGED atStart
       ELSE /\ file' = file \o Stamped(chunk, atStart)
            /\ atStart' = (Last(chunk) = "lf")
    /\ UNCHANGED <<format, active, broken, extras, replaying>>

\* logSent(): the user's input, on a line of its own; a raw capture has none.
Sent ==
    /\ active /\ extras < MaxExtras /\ extras' = extras + 1
    /\ IF format = "raw" THEN UNCHANGED <<file, atStart, broken>>
       ELSE /\ file' = file \o (IF atStart THEN <<>> ELSE <<"lf">>) \o TxLine
            /\ atStart' = TRUE
            /\ broken' = (broken \/ AfterCr)
    /\ UNCHANGED <<format, active, logged, replaying>>

-----------------------------------------------------------------------------
\* The lines of a text, each without its "lf"; the last is what follows the last.
Lines(s) ==
    LET at[i \in 0..Len(s)] ==
            IF i = 0 THEN <<<<>>>>
            ELSE IF s[i] = "lf" THEN Append(at[i - 1], <<>>)
            ELSE [at[i - 1] EXCEPT ![Len(at[i - 1])] = Append(@, s[i])]
    IN  at[Len(s)]

\* stripTimestamps(): commands and headers go, a command with the break the
\* logger put before it; a line that ends in LF alone gets its CR.
Strip(s) ==
    LET lines == Lines(s)
        Ended(o) == IF o.pending THEN o.text \o <<"cr", "lf">> ELSE o.text
        Taken(o, n) ==
            LET l == lines[n]
                stamped == l # <<>> /\ l[1] = "stamp"
                rest == IF stamped THEN Tail(l) ELSE l
                cr == rest # <<>> /\ Last(rest) = "cr"
                body == IF cr THEN Front(rest) ELSE rest
                broke == n < Len(lines)
            IN  IF rest # <<>> /\ rest[1] = "tx" THEN [o EXCEPT !.pending = FALSE]
                ELSE IF rest # <<>> /\ rest[1] = "header" THEN [text |-> Ended(o), pending |-> FALSE]
                ELSE [text |-> Ended(o) \o body \o (IF broke /\ cr THEN <<"cr", "lf">> ELSE <<>>),
                      pending |-> broke /\ ~cr]
        at[n \in 0..Len(lines)] ==
            IF n = 0 THEN [text |-> <<>>, pending |-> FALSE]
            ELSE IF n = Len(lines) /\ lines[n] = <<>> THEN at[n - 1] ELSE Taken(at[n - 1], n)
    IN  Ended(at[Len(lines)])

\* detectFormat(): the first line that is not blank tells.
Detected(s) ==
    LET said == {i \in 1..Len(s) : ~IsBreak(s[i])}
    IN  IF said # {} /\ s[CHOOSE i \in said : \A j \in said : i <= j] \in {"stamp", "header"}
           THEN "text" ELSE "raw"

\* replayLogFile() and start(), of a capture that is complete.
StartReplay ==
    /\ ~active /\ file # <<>> /\ replay \in {"none", "done"}
    /\ replay' = "running"
    /\ data' = IF Detected(file) = "text" THEN Strip(file) ELSE file
    /\ fed' = <<>>
    /\ UNCHANGED capture

\* onTimer(): the next chunk, of the size the pace asks for.
Tick ==
    /\ replay = "running"
    /\ IF data = <<>> THEN replay' = "done" /\ UNCHANGED <<data, fed>>
       ELSE \E n \in 1..Len(data) :
               /\ fed' = fed \o SubSeq(data, 1, n)
               /\ data' = SubSeq(data, n + 1, Len(data))
               /\ replay' = IF n = Len(data) THEN "done" ELSE replay
    /\ UNCHANGED capture

PauseReplay ==
    /\ replay \in {"running", "paused"}
    /\ replay' = IF replay = "running" THEN "paused" ELSE "running"
    /\ UNCHANGED <<data, fed, capture>>

StopReplay ==
    /\ replay \in {"running", "paused"}
    /\ replay' = "none" /\ data' = <<>> /\ fed' = <<>>
    /\ UNCHANGED capture

LogNext ==
    \/ StartLog \/ StopLog \/ Sent
    \/ \E n \in 1..3 : \E chunk \in [1..n -> {"char", "cr", "lf"}] : Receive(chunk)
    \/ StartReplay \/ Tick \/ PauseReplay \/ StopReplay

LogSpec == LogInit /\ [][LogNext]_logging

-----------------------------------------------------------------------------
Text(s) == SelectSeq(s, LAMBDA c : ~IsBreak(c))

\* A replay that ran to its end has shown every character of the board, in
\* order, and the line breaks too unless a command, a restart or the end of the
\* log fell between a CR and its LF or into an unfinished line: however the
\* link cut the output and whatever was sent meanwhile.
ReplayIsTheOutput ==
    replay = "done" => /\ Text(fed) = Text(logged)
                       /\ ~broken => fed = logged
=============================================================================
