------------------------------ MODULE SshTransfer ------------------------------
(* One file transfer of an SSH session: ssh/SshConnection promises an end to    *)
(* whoever started it, ssh/SshWorker moves the file in slices of its tick, over *)
(* SFTP with requests in flight, or over exec channels ("cat") where the board  *)
(* has no SFTP.  A file is a number of blocks; a block is told by its place.    *)
(* Progress, permissions and the wording of the ends are left out.              *)
EXTENDS Naturals, Sequences, SequencesExt

CONSTANTS
    Blocks,        \* blocks of the file
    Asked,         \* blocks one SFTP read asks for
    InFlight,      \* kSftpRequestsInFlight
    MaxStarts      \* bound: transfers started

Whole == [i \in 1..Blocks |-> i]

VARIABLES
    session,    \* the facade: "open", "lost" once linkDropped() was relayed, "closed"
    wire,       \* the TCP connection stands
    active,     \* m_shared->transfer.active
    started,    \* transfers startTransfer() accepted
    told,       \* transferFinished() the listeners have received
    orders,     \* queued for the worker
    ends,       \* queued for the facade: "ok", "failed", or "linkDropped"
    live,       \* the worker's m_live
    copy,       \* *m_live->transfer
    board,      \* the file on the board: its blocks, or Nothing
    final,      \* the local file a download is to become: likewise
    part        \* its ".part"

facade == <<session, active, started, told, ends>>
files == <<board, final, part>>
vars == <<facade, wire, orders, live, copy, files>>

Nothing == <<0>>
NoCopy == [at |-> "none", up |-> FALSE, sftp |-> FALSE, pos |-> 0, done |-> 0,
           flying |-> <<>>, total |-> 0]
Running == copy.at # "none"

TransferInit ==
    /\ session = "open" /\ wire = TRUE /\ active = FALSE /\ started = 0 /\ told = 0
    /\ orders = <<>> /\ ends = <<>> /\ live = TRUE /\ copy = NoCopy
    /\ board \in {Nothing, Whole} /\ final = Nothing /\ part = Nothing

-----------------------------------------------------------------------------
(* The facade.                                                             *)

\* startTransfer(): one at a time, on a connected session.
StartTransfer(up) ==
    /\ session = "open" /\ ~active /\ started < MaxStarts
    /\ active' = TRUE
    /\ started' = started + 1
    /\ orders' = Append(orders, IF up THEN "upload" ELSE "download")
    /\ UNCHANGED <<session, told, ends, wire, live, copy, files>>

CancelTransfer ==
    /\ session = "open" /\ active
    /\ "cancel" \notin ToSet(orders)
    /\ orders' = Append(orders, "cancel")
    /\ UNCHANGED <<facade, wire, live, copy, files>>

CloseSilently ==
    /\ session # "closed"
    /\ session' = "closed"
    /\ active' = FALSE
    /\ UNCHANGED told
    /\ orders' = Append(orders, "close")
    /\ UNCHANGED <<started, ends, wire, live, copy, files>>

\* close(): the report of the worker will be dropped, so the end of a running
\* transfer is told here.
CloseSession ==
    /\ session # "closed"
    /\ session' = "closed"
    /\ active' = FALSE
    /\ told' = IF active THEN told + 1 ELSE told
    /\ orders' = Append(orders, "close")
    /\ UNCHANGED <<started, ends, wire, live, copy, files>>

RelayAnyEnd ==
    /\ ends # <<>>
    /\ ends' = Tail(ends)
    /\ IF Head(ends) = "linkDropped"
          THEN session' = "lost" /\ UNCHANGED told
          ELSE told' = told + 1 /\ UNCHANGED session
    /\ UNCHANGED <<active, started, wire, orders, live, copy, files>>

\* The relays: nothing of a closed generation passes.
RelayEnd ==
    /\ ends # <<>>
    /\ ends' = Tail(ends)
    /\ IF session = "closed" THEN UNCHANGED <<session, told>>
       ELSE IF Head(ends) = "linkDropped"
          THEN session' = "lost" /\ UNCHANGED told
          ELSE told' = told + 1 /\ UNCHANGED session
    /\ UNCHANGED <<active, started, wire, orders, live, copy, files>>

-----------------------------------------------------------------------------
(* The end of a transfer.                                                  *)

NotStartedQuietly == ends' = Append(ends, "failed") /\ UNCHANGED <<active, copy>>

\* fail() of a transfer that has not started.
NotStarted == active' = FALSE /\ ends' = Append(ends, "failed") /\ UNCHANGED copy

FinishKeepsUpload(ok, stays, more) ==
    /\ copy' = NoCopy
    /\ active' = FALSE
    /\ ends' = Append(ends, IF ok THEN "ok" ELSE "failed") \o more
    /\ board' = board
    /\ part' = IF ok \/ copy.up THEN part ELSE Nothing

\* finishTransfer(): an upload that did not end well is removed while its handle
\* is there and the link is alive, a download's ".part" always.
Finish(ok, handle, more) ==
    /\ copy' = NoCopy
    /\ active' = FALSE
    /\ ends' = Append(ends, IF ok THEN "ok" ELSE "failed") \o more
    /\ board' = IF ~ok /\ copy.up /\ handle /\ wire THEN Nothing ELSE board
    /\ part' = IF ok \/ copy.up THEN part ELSE Nothing

\* handleConnectionLost() and teardownLive(): the transfer first.
LoseLink ==
    /\ live' = FALSE
    /\ IF Running THEN Finish(FALSE, TRUE, <<"linkDropped">>)
       ELSE ends' = Append(ends, "linkDropped") /\ UNCHANGED <<copy, active, board, part>>

\* The download takes the place of the local file: the old one is removed first,
\* and a rename that fails ends like any failure.
Replace ==
    \/ /\ final' = part /\ part' = Nothing
       /\ copy' = NoCopy /\ active' = FALSE
       /\ ends' = Append(ends, "ok")
       /\ UNCHANGED board
    \/ /\ final' = Nothing
       /\ Finish(FALSE, TRUE, <<>>)

-----------------------------------------------------------------------------
(* The worker's slots.                                                     *)

Order(o) == orders # <<>> /\ Head(orders) = o /\ orders' = Tail(orders)

Begin(up, sftp) == copy' = [NoCopy EXCEPT !.at = "data", !.up = up, !.sftp = sftp,
                                          !.total = IF up \/ board = Nothing THEN Blocks ELSE Len(board)]

\* startTransfer(), startShellTransfer(): what cannot be read or written is
\* refused; the shell makes an upload's file before the data command starts.
RunStart ==
    /\ \E up \in BOOLEAN :
          /\ Order(IF up THEN "upload" ELSE "download")
          /\ \/ /\ NotStarted /\ UNCHANGED <<board, part>>
             \/ /\ live /\ wire /\ ~Running
                /\ up \/ board # Nothing
                /\ \E sftp \in BOOLEAN : Begin(up, sftp)
                /\ board' = IF up THEN <<>> ELSE board
                /\ part' = IF up THEN part ELSE <<>>
                /\ UNCHANGED <<active, ends>>
             \/ /\ live /\ wire /\ ~Running /\ up
                /\ NotStarted
                /\ board' = <<>>
                /\ UNCHANGED part
    /\ UNCHANGED <<session, started, told, wire, live, final>>

\* cancelTransfer(), between two ticks.
RunCancel ==
    /\ Order("cancel")
    /\ IF live /\ Running THEN Finish(FALSE, TRUE, <<>>) ELSE UNCHANGED <<copy, active, ends, board, part>>
    /\ UNCHANGED <<session, started, told, wire, live, final>>

RunClose ==
    /\ Order("close")
    /\ live' = FALSE
    /\ IF Running THEN Finish(FALSE, TRUE, <<>>) ELSE UNCHANGED <<copy, active, ends, board, part>>
    /\ UNCHANGED <<session, started, told, wire, final>>

-----------------------------------------------------------------------------
(* The slices of serviceTransfer() and serviceShellTransfer().             *)

Slice(up, sftp) == live /\ copy.at = "data" /\ copy.up = up /\ copy.sftp = sftp
Keeps == UNCHANGED <<session, started, told, wire, orders, live>>
Goes == UNCHANGED <<active, ends, final>>

\* An upload sends its next chunk; the board writes it in that order.
SendBlock ==
    /\ live /\ copy.at = "data" /\ copy.up /\ copy.pos < Blocks /\ wire
    /\ copy.sftp => Len(copy.flying) < InFlight
    /\ copy' = [copy EXCEPT !.pos = @ + 1, !.flying = Append(@, copy.pos + 1)]
    /\ UNCHANGED <<files, active, ends>> /\ Keeps

\* The board's side of an upload: the oldest chunk is in the file.
BoardWrites ==
    /\ copy.up /\ copy.at \in {"data", "exit"} /\ copy.flying # <<>>
    /\ Len(board) < Head(copy.flying)
    /\ board' = Append(board, Head(copy.flying))
    /\ copy' = IF copy.sftp THEN copy ELSE [copy EXCEPT !.flying = Tail(@)]
    /\ UNCHANGED <<final, part, active, ends>> /\ Keeps

\* awaitSftpWrite().
AwaitWrite ==
    /\ Slice(TRUE, TRUE) /\ copy.flying # <<>> /\ Len(board) >= Head(copy.flying)
    /\ copy' = [copy EXCEPT !.done = @ + 1, !.flying = Tail(@)]
    /\ UNCHANGED files /\ Goes /\ Keeps

\* completeTransfer() of an upload: a close that fails has given its handle up.
CompleteUpload ==
    /\ Slice(TRUE, TRUE) /\ copy.pos = Blocks /\ copy.flying = <<>>
    /\ \/ Finish(TRUE, TRUE, <<>>)
       \/ Finish(FALSE, FALSE, <<>>)
    /\ UNCHANGED final /\ Keeps

\* The end of the data is sent; the command's end is waited for.
SendEof ==
    /\ Slice(TRUE, FALSE) /\ copy.pos = Blocks
    /\ copy' = [copy EXCEPT !.at = "exit"]
    /\ UNCHANGED files /\ Goes /\ Keeps

EndShellUploadAnyhow ==
    /\ live /\ copy.at = "exit" /\ copy.up
    /\ \E ok \in BOOLEAN : Finish(ok, TRUE, <<>>)
    /\ UNCHANGED final /\ Keeps

\* completeShellTransfer() of an upload: with the exit status of a cat that has
\* written everything, or without one, and then the size decides.
EndShellUpload ==
    /\ live /\ copy.at = "exit" /\ copy.up
    /\ \/ copy.flying = <<>> /\ Finish(TRUE, TRUE, <<>>)
       \/ Finish(Len(board) = copy.total, TRUE, <<>>)
       \/ Finish(FALSE, TRUE, <<>>)
    /\ UNCHANGED final /\ Keeps

\* A download keeps its requests in flight, each behind the last.
AskBlocks ==
    /\ Slice(FALSE, TRUE) /\ Len(copy.flying) < InFlight
    /\ copy' = [copy EXCEPT !.flying = Append(@, copy.pos), !.pos = @ + Asked]
    /\ UNCHANGED files /\ Goes /\ Keeps

TakeReplyOnly ==
    /\ Slice(FALSE, TRUE) /\ Len(copy.flying) = InFlight /\ wire
    /\ LET from == Head(copy.flying)
           there == IF Len(board) > from THEN Len(board) - from ELSE 0
           most == IF there < Asked THEN there ELSE Asked
       IN IF most = 0
             THEN Replace
             ELSE \E n \in 1..most :
                     /\ part' = part \o SubSeq(board, from + 1, from + n)
                     /\ copy' = [copy EXCEPT !.done = @ + n, !.flying = Tail(@)]
                     /\ UNCHANGED <<active, ends, board, final>>
    /\ Keeps

\* awaitSftpRead(): a short reply drops the requests behind it and seeks to the
\* byte after it; the end of the file drops them too.
TakeReply ==
    /\ Slice(FALSE, TRUE) /\ Len(copy.flying) = InFlight /\ wire
    /\ LET from == Head(copy.flying)
           there == IF Len(board) > from THEN Len(board) - from ELSE 0
           most == IF there < Asked THEN there ELSE Asked
       IN IF most = 0
             THEN Replace
             ELSE \E n \in 1..most :
                     /\ part' = part \o SubSeq(board, from + 1, from + n)
                     /\ copy' = IF n < Asked
                                   THEN [copy EXCEPT !.done = @ + n, !.flying = <<>>, !.pos = copy.done + n]
                                   ELSE [copy EXCEPT !.done = @ + n, !.flying = Tail(@)]
                     /\ UNCHANGED <<active, ends, board, final>>
    /\ Keeps

\* A shell download reads what cat has written.
ReadBlock ==
    /\ Slice(FALSE, FALSE) /\ wire /\ copy.done < Len(board)
    /\ part' = Append(part, board[copy.done + 1])
    /\ copy' = [copy EXCEPT !.done = @ + 1]
    /\ UNCHANGED <<board, final, active, ends>> /\ Keeps

\* Its end: a success needs every byte that wc counted.
EndShellDownload ==
    /\ Slice(FALSE, FALSE) /\ wire
    /\ \/ copy.done = copy.total /\ Replace
       \/ Finish(FALSE, TRUE, <<>>) /\ UNCHANGED final
    /\ Keeps

\* A call of libssh or of the disk fails.
SliceFails ==
    /\ live /\ Running
    /\ \/ Finish(FALSE, TRUE, <<>>) /\ UNCHANGED live
       \/ ~wire /\ LoseLink
    /\ UNCHANGED <<session, started, told, wire, orders, final>>

\* The tick of a session without a transfer finds the link gone.
TickFindsLoss ==
    /\ live /\ ~wire /\ ~Running
    /\ LoseLink
    /\ UNCHANGED <<session, started, told, wire, orders, final>>

WireBreaks ==
    /\ wire /\ wire' = FALSE
    /\ UNCHANGED <<facade, orders, live, copy, files>>

-----------------------------------------------------------------------------
Slices ==
    \/ SendBlock \/ AwaitWrite \/ CompleteUpload \/ SendEof \/ EndShellUpload
    \/ AskBlocks \/ TakeReply \/ ReadBlock \/ EndShellDownload
WorkerStep == RunStart \/ RunCancel \/ RunClose \/ Slices \/ TickFindsLoss

TransferNext ==
    \/ \E up \in BOOLEAN : StartTransfer(up)
    \/ CancelTransfer \/ CloseSession \/ RelayEnd
    \/ WorkerStep \/ BoardWrites \/ SliceFails \/ WireBreaks

\* The two threads run, the board does its part, and a broken link is noticed.
TransferFairness ==
    /\ WF_vars(RelayEnd) /\ WF_vars(WorkerStep) /\ WF_vars(BoardWrites)
    /\ WF_vars(~wire /\ SliceFails)

TransferSpec == TransferInit /\ [][TransferNext]_vars /\ TransferFairness

-----------------------------------------------------------------------------
(* Properties.                                                             *)

TransferTypeOK ==
    /\ session \in {"open", "lost", "closed"} /\ wire \in BOOLEAN /\ active \in BOOLEAN /\ live \in BOOLEAN
    /\ started \in 0..MaxStarts /\ told \in Nat
    /\ ToSet(orders) \subseteq {"upload", "download", "cancel", "close"}
    /\ ToSet(ends) \subseteq {"ok", "failed", "linkDropped"}
    /\ copy.at \in {"none", "data", "exit"}

\* A transfer that is reported to have worked has made an exact copy, whatever
\* the server answers to the requests in flight and however a shell ends.
CopyIsExact ==
    [][(ends' # ends /\ Len(ends') > Len(ends) /\ ends'[Len(ends) + 1] = "ok")
          => IF copy.up THEN board' = Whole ELSE final' = board]_vars

\* A transfer that ended, and one that a close() interrupted, is told once.
ToldOnce == told + (IF active THEN 1 ELSE 0) <= started

\* A transfer that was accepted comes to its end for those who started it: they
\* are told of it, or that the session is closed.
TransferTold == active ~> (~active /\ (told = started \/ session = "closed"))

\* "a cancelled upload never leaves a file that looks complete", nor does a
\* cancelled download its ".part".
CancelLeavesNothing ==
    [][(RunCancel /\ Running /\ wire) => IF copy.up THEN board' = Nothing ELSE part' = Nothing]_vars

=============================================================================
