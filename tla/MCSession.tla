----------------------------- MODULE MCSession -----------------------------
(***************************************************************************)
(* What happens around the session tabs: the two threads of an SSH session *)
(* (SshSession, which this module extends), a file transfer over it, its   *)
(* dialog, the file sent over a serial port, and the window the tabs are   *)
(* in.  The parts share no state: a behaviour is one of a single part,     *)
(* `which', and the other parts rest in an initial state.                  *)
(***************************************************************************)
EXTENDS SshSession, RemoteFileDialog, MainWindow

CONSTANTS Blocks, Asked, InFlight, MaxStarts,   \* SshTransfer
          Chunks, MaxDisconnects                \* FileSend

VARIABLES which,
          session, wire, active, started, told, orders, ends, live, copy, board, final, part,
          connected, cuts, sender, userPaused, drainHold, awaitingDrain, lastPending, bar, queue, out, lost, outcome

Transfer == INSTANCE SshTransfer
Send == INSTANCE FileSend WITH wire <- out

ofTransfer == <<session, wire, active, started, told, orders, ends, live, copy, board, final, part>>
ofSend == <<connected, cuts, sender, userPaused, drainHold, awaitingDrain, lastPending, bar, queue, out, lost, outcome>>

\* A host key to ask about; a locked key before a password.
Profile(how, offered, identity, trusted) ==
    [auth |-> how, offers |-> offered, agent |-> FALSE, key |-> identity, trust |-> trusted, hasId |-> FALSE]
SomeWorlds == {Profile("PublicKey", {"publickey"}, "plain", FALSE),
               Profile("Auto", {"publickey", "password"}, "locked", TRUE)}

SessionInit ==
    /\ which \in {"ssh", "transfer", "dialog", "send", "window"}
    /\ Init
    /\ which # "ssh" => /\ world = (CHOOSE x \in Worlds : TRUE)
                        /\ store = [kind \in Kinds |-> [k \in Keys |-> NoSecret]]
    /\ Transfer!TransferInit
    /\ which # "transfer" => board = Transfer!Nothing
    /\ DialogInit
    /\ which # "dialog" => /\ form.local = (CHOOSE x \in LocalPaths : TRUE)
                           /\ form.remote = (CHOOSE x \in RemotePaths : TRUE)
    /\ Send!SendInit
    /\ WindowInit
    /\ which # "window" => asks /\ (CHOOSE s \in Sessions : TRUE) \in open

SessionNext ==
    \/ which = "ssh" /\ Next /\ UNCHANGED <<which, ofTransfer, dialogVars, ofSend, mainWindow>>
    \/ which = "transfer" /\ Transfer!TransferNext /\ UNCHANGED <<which, vars, dialogVars, ofSend, mainWindow>>
    \/ which = "dialog" /\ DialogNext /\ UNCHANGED <<which, vars, ofTransfer, ofSend, mainWindow>>
    \/ which = "send" /\ Send!SendNextStep /\ UNCHANGED <<which, vars, ofTransfer, dialogVars, mainWindow>>
    \/ which = "window" /\ WindowNext /\ UNCHANGED <<which, vars, ofTransfer, dialogVars, ofSend>>

SessionSpec ==
    /\ SessionInit /\ [][SessionNext]_<<which, vars, ofTransfer, dialogVars, ofSend, mainWindow>>
    /\ Fairness /\ Transfer!TransferFairness /\ Send!SendFairness

-----------------------------------------------------------------------------
\* A transfer that is told to have worked has copied every byte, each accepted transfer is
\* told once, and a cancelled one leaves no file that looks complete (SshWorker::copyTick).
CopyIsExact == Transfer!CopyIsExact /\ []Transfer!ToldOnce /\ Transfer!CancelLeavesNothing

\* A file is sent into no closed port, its chunks leave in their order and none twice, and the
\* bar says 100 % only when the last one has left (SendFileDialog).
FileLeavesInOrder == Send!NothingIntoClosedPort /\ Send!FileLeavesInOrder

\* To the tab an SSH session is a Transport; a connect, a transfer and a send nobody pauses
\* come to their ends, and a tab that closes is not held up.
SessionsEnd == IsTransport /\ ConnectEnds /\ TabCloses /\ Transfer!TransferTold /\ Send!SendEnds
=============================================================================
