-------------------------------- MODULE FileSend --------------------------------
(***************************************************************************)
(* A file that is sent to the board: core/FileSender hands its chunks (or  *)
(* lines) to the port at its own pace, dialogs/SendFileDialog holds it     *)
(* back while the port's write buffer is full, lets the user pause it, and *)
(* pauses it when the session disconnects.  A chunk is its place in the    *)
(* file; a chunk is one unit of the buffer.                                *)
(***************************************************************************)
EXTENDS Naturals, Sequences, SequencesExt

CONSTANTS Chunks,         \* chunks (lines) of the file
          MaxDisconnects  \* bound: times the session disconnects

VARIABLES
    connected,     \* m_connected
    cuts,          \* disconnects so far
    sender,        \* m_running, m_paused, the timer is armed, m_lineIndex/m_sent
    userPaused,    \* m_userPaused
    drainHold,     \* m_drainHold
    awaitingDrain, \* m_awaitingDrain
    lastPending,   \* m_lastPending
    bar,           \* the progress bar: "part", "99" or "100"
    queue,         \* the port's write buffer
    wire,          \* what has left the port
    lost,          \* what a closing port discarded (and the session told of)
    outcome        \* sendingFinished(): "none", "completed" or "aborted"

dialog == <<userPaused, drainHold, awaitingDrain, lastPending>>
line == <<queue, wire, lost>>
sending == <<connected, cuts, sender, dialog, bar, line, outcome>>

Idle == [run |-> FALSE, paused |-> FALSE, armed |-> FALSE, pos |-> 0]
Paused(s) == IF s.run /\ ~s.paused THEN [s EXCEPT !.paused = TRUE, !.armed = FALSE] ELSE s
Running(s) == IF s.run /\ s.paused THEN [s EXCEPT !.paused = FALSE, !.armed = TRUE] ELSE s

SendInit ==
    /\ connected = TRUE /\ cuts = 0 /\ sender = Idle
    /\ userPaused = FALSE /\ drainHold = FALSE /\ awaitingDrain = FALSE /\ lastPending = 0
    /\ bar = "part" /\ queue = <<>> /\ wire = <<>> /\ lost = {} /\ outcome = "none"

\* onStart() and FileSender::start(), of a readable file.
Start ==
    /\ connected /\ ~sender.run /\ outcome = "none"
    /\ sender' = [Idle EXCEPT !.run = TRUE, !.armed = TRUE]
    /\ userPaused' = FALSE /\ drainHold' = FALSE /\ awaitingDrain' = FALSE /\ lastPending' = 0
    /\ bar' = "part"
    /\ UNCHANGED <<connected, cuts, line, outcome>>

\* updatePendingTx() of a running send: with more than two units in the buffer
\* the sender is held, with at most one it goes on; not while the user paused.
Held(s, pending) ==
    IF userPaused THEN s
    ELSE IF ~drainHold /\ pending > 2 THEN Paused(s)
    ELSE IF drainHold /\ pending <= 1 THEN Running(s)
    ELSE s
\* Mutant: one threshold for the flag, two for the sender.
HoldAfterOne(pending) == IF userPaused THEN drainHold ELSE pending > 2

HoldAfter(pending) ==
    IF userPaused THEN drainHold
    ELSE IF drainHold THEN pending > 1 ELSE pending > 2

\* Mutant: a completed send shows 100% whatever the port still has to send.
FinishedAtOnce(completed) ==
    /\ sender' = Idle
    /\ userPaused' = FALSE /\ drainHold' = FALSE
    /\ awaitingDrain' = FALSE
    /\ bar' = IF completed THEN "100" ELSE bar
    /\ outcome' = IF completed THEN "completed" ELSE "aborted"

\* finish() and onFinished(): the bar waits for what is still in the buffer.
Finished(completed) ==
    /\ sender' = Idle
    /\ userPaused' = FALSE /\ drainHold' = FALSE
    /\ awaitingDrain' = (completed /\ lastPending' > 0)
    /\ bar' = IF completed THEN (IF lastPending' > 0 THEN "99" ELSE "100") ELSE bar
    /\ outcome' = IF completed THEN "completed" ELSE "aborted"

\* sendNext(): the chunk goes to the port, the dialog learns what is queued and
\* may hold the sender inside the call; the last chunk ends the send.
SendNext ==
    /\ sender.run /\ sender.armed
    /\ IF sender.paused
          THEN sender' = [sender EXCEPT !.armed = FALSE] /\ UNCHANGED <<dialog, bar, line, outcome>>
          ELSE /\ queue' = Append(queue, sender.pos + 1)
               /\ lastPending' = Len(queue')
               /\ UNCHANGED <<wire, lost>>
               /\ IF sender.pos + 1 = Chunks
                     THEN Finished(TRUE)
                     ELSE /\ sender' = [Held(sender, lastPending') EXCEPT !.pos = @ + 1, !.armed = TRUE]
                          /\ drainHold' = HoldAfter(lastPending')
                          /\ UNCHANGED <<userPaused, awaitingDrain, bar, outcome>>
    /\ UNCHANGED <<connected, cuts>>

\* The file cannot be read any further.
ReadFails ==
    /\ sender.run /\ sender.armed /\ ~sender.paused
    /\ UNCHANGED lastPending
    /\ Finished(FALSE)
    /\ UNCHANGED <<connected, cuts, line>>

\* The driver sends from its buffer: txBytesWritten -> updatePendingTx().
Drain ==
    /\ connected /\ queue # <<>>
    /\ wire' = Append(wire, Head(queue))
    /\ queue' = Tail(queue)
    /\ lastPending' = Len(queue')
    /\ IF sender.run
          THEN /\ sender' = Held(sender, lastPending')
               /\ drainHold' = HoldAfter(lastPending')
               /\ UNCHANGED <<awaitingDrain, bar>>
          ELSE /\ awaitingDrain' = (awaitingDrain /\ lastPending' > 0)
               /\ bar' = IF awaitingDrain /\ lastPending' = 0 THEN "100" ELSE bar
               /\ UNCHANGED <<sender, drainHold>>
    /\ UNCHANGED <<connected, cuts, userPaused, lost, outcome>>

\* onPauseResume(): resumed only while connected.
PauseResume ==
    /\ sender.run
    /\ userPaused => connected
    /\ userPaused' = ~userPaused
    /\ drainHold' = IF userPaused THEN drainHold ELSE FALSE
    /\ sender' = IF userPaused THEN Running(sender) ELSE Paused(sender)
    /\ UNCHANGED <<connected, cuts, awaitingDrain, lastPending, bar, line, outcome>>

\* onCancel().
Cancel ==
    /\ sender.run
    /\ UNCHANGED lastPending
    /\ Finished(FALSE)
    /\ UNCHANGED <<connected, cuts, line>>

\* Mutant: a held sender is left to its hold when the session disconnects.
DisconnectTrustsHold ==
    /\ connected /\ cuts < MaxDisconnects
    /\ connected' = FALSE /\ cuts' = cuts + 1
    /\ lost' = lost \cup ToSet(queue) /\ queue' = <<>>
    /\ IF sender.run /\ ~userPaused /\ ~drainHold
          THEN userPaused' = TRUE /\ drainHold' = FALSE /\ sender' = Paused(sender)
          ELSE UNCHANGED <<userPaused, drainHold, sender>>
    /\ awaitingDrain' = (awaitingDrain /\ sender.run)
    /\ UNCHANGED <<lastPending, bar, wire, outcome>>

\* setConnected(FALSE): a running send is paused as by the user.
Disconnect ==
    /\ connected /\ cuts < MaxDisconnects
    /\ connected' = FALSE /\ cuts' = cuts + 1
    /\ lost' = lost \cup ToSet(queue) /\ queue' = <<>>
    /\ IF sender.run /\ ~userPaused
          THEN userPaused' = TRUE /\ drainHold' = FALSE /\ sender' = Paused(sender)
          ELSE UNCHANGED <<userPaused, drainHold, sender>>
    /\ awaitingDrain' = (awaitingDrain /\ sender.run)
    /\ UNCHANGED <<lastPending, bar, wire, outcome>>

Reconnect ==
    /\ ~connected /\ connected' = TRUE
    /\ UNCHANGED <<cuts, sender, dialog, bar, line, outcome>>

SendNextStep ==
    \/ Start \/ SendNext \/ ReadFails \/ Drain
    \/ PauseResume \/ Cancel \/ Disconnect \/ Reconnect

\* The event loop runs the timer, and an open port sends what it was given.
SendFairness == WF_sending(SendNext) /\ WF_sending(Drain)

SendSpec == SendInit /\ [][SendNextStep]_sending /\ SendFairness

-----------------------------------------------------------------------------
\* No chunk goes into a closed port, whichever of user, buffer and session
\* paused the send last, and whichever lifts its pause first.
NothingIntoClosedPort == sender.run /\ ~connected => sender.paused /\ userPaused

\* The board gets the chunks in the order of the file, none twice, and the bar
\* says 100% only when the last of them has left the port or was told lost.
FileLeavesInOrder ==
    /\ \A i \in 1..Len(wire) - 1 : wire[i] < wire[i + 1]
    /\ bar = "100" => queue = <<>> /\ ToSet(wire) \cup lost = 1..Chunks

\* A send nobody pauses comes to its end: a hold of the full buffer is always
\* lifted again.
SendEnds == sender.run ~> (~sender.run \/ userPaused)
=============================================================================
