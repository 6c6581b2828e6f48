------------------------------ MODULE InventoryFile ------------------------------
(***************************************************************************)
(* The inventory of boards (firmware/Inventory, InventoryRecorder): one    *)
(* file, written by the recorders of the Firmware tab and of every su-fw,  *)
(* and read by `su-fw --expect-image', which skips a board the file says   *)
(* runs the image already.                                                 *)
(*                                                                         *)
(* A process is blocked while it updates; the other one is not.  A record  *)
(* is the number of the update that wrote it last and the image; names,    *)
(* times and versions are left out.  The bench is the board a query shows  *)
(* (none, too, when there are several); the rows of a board's flash hold   *)
(* builds, 0 one that is cut or unknown.                                   *)
(***************************************************************************)
EXTENDS Naturals, FiniteSets

CONSTANTS Modes,       \* how board Y may be attached: of "adb", "loader" (X is always on ADB)
          MaxUpdates,  \* bound: updates of the file
          MaxWrites,   \* bound: boards written
          MaxFaults    \* bound: writes cut, file operations that fail, processes that die, files that are damaged

Processes == {"tab", "su-fw"}
Owned == {"X", "Y"}
Builds == 1..2   \* numbered in the order they are first written
Rows == 1..2
Nobody == "nobody"
NoRecord == [n |-> 0, md5 |-> 0, rows |-> {}]

VARIABLES
    file,        \* [state, records]; state "ok" (or missing: no records) or "corrupt"
    asides,      \* corrupt files kept under another name
    lock,        \* inventory.json.lock: its process, "dead" or Nobody
    work,        \* what each process does: "idle", or an update at "lock", "read", "write"
    lastSerial,  \* InventoryRecorder::lastSerial() of each process
    writing,     \* the one operation that writes a board (firmware.lock)
    bench, flash,
    updates,     \* updates begun
    counts,      \* [writes, faults] so far, [damaged] files
    landed,      \* per board, the last update that was reported as written
    unrecorded   \* per board, rows changed by what the inventory was not told

inventory == <<file, asides, lock, work, lastSerial, writing, bench, flash, updates, counts, landed, unrecorded>>

Empty == [board |-> Nobody, mode |-> "none"]
Idle == [at |-> "idle", op |-> FALSE]
NotWriting == [by |-> Nobody, board |-> Nobody, md5 |-> 0, rows |-> {}, done |-> {}]

InventoryInit ==
    /\ file = [state |-> "ok", records |-> [b \in Owned |-> NoRecord]]
    /\ asides = 0 /\ lock = Nobody
    /\ work = [p \in Processes |-> Idle]
    /\ lastSerial = [p \in Processes |-> Nobody]
    /\ writing = NotWriting
    /\ bench = Empty
    /\ flash = [b \in Owned |-> [r \in Rows |-> 0]]
    /\ updates = 0
    /\ counts = [writes |-> 0, faults |-> 0, damaged |-> 0]
    /\ landed = [b \in Owned |-> 0]
    /\ unrecorded = [b \in Owned |-> {}]

Fault == counts.faults < MaxFaults /\ counts' = [counts EXCEPT !.faults = @ + 1]

-----------------------------------------------------------------------------
(* Inventory::update(), of one process. *)

\* A change handed to update(): of the image, or of anything else, by an operation
\* (which ends, and unlocks the board, after it) or beside one.
Update(p, board, md5, rows, op) ==
    /\ updates < MaxUpdates /\ updates' = updates + 1
    /\ work' = [work EXCEPT ![p] = [at |-> "lock", op |-> op, board |-> board, md5 |-> md5, rows |-> rows, seen |-> [b \in Owned |-> NoRecord], n |-> updates']]

\* The change is not in the file: the rows it would have told are not recorded.
Failed(p) ==
    /\ work' = [work EXCEPT ![p] = Idle]
    /\ unrecorded' = [unrecorded EXCEPT ![work[p].board] = @ \cup work[p].rows]

\* The lock of a dead process is stale.
TakeLock(p) ==
    /\ work[p].at = "lock" /\ lock \in {Nobody, "dead"}
    /\ lock' = p
    /\ work' = [work EXCEPT ![p].at = "read"]
    /\ UNCHANGED <<file, asides, lastSerial, writing, bench, flash, updates, counts, landed, unrecorded>>

\* kLockWaitMs have passed.
LockTimesOut(p) ==
    /\ work[p].at = "lock" /\ lock \in Processes
    /\ Failed(p)
    /\ UNCHANGED <<file, asides, lock, lastSerial, writing, bench, flash, updates, counts, landed>>

\* Mutant: an unreadable file is an empty one.
ReadsOver(p) ==
    /\ work[p].at = "read"
    /\ work' = [work EXCEPT ![p].at = "write", ![p].seen = file.records]
    /\ UNCHANGED <<file, asides, lock, lastSerial, writing, bench, flash, updates, counts, landed, unrecorded>>

\* Read again under the lock; a corrupt file is moved aside.
Read(p) ==
    /\ work[p].at = "read"
    /\ work' = [work EXCEPT ![p].at = "write", ![p].seen = file.records]
    /\ file' = [file EXCEPT !.state = "ok"]
    /\ asides' = IF file.state = "corrupt" THEN asides + 1 ELSE asides
    /\ UNCHANGED <<lock, lastSerial, writing, bench, flash, updates, counts, landed, unrecorded>>

\* Mutant: the rows of every image are added up.
MergedAlways(record, change) == [n |-> change.n, md5 |-> change.md5, rows |-> record.rows \cup change.rows]

\* mergeImage(): the rows of one build add up, another build replaces the image.
Merged(record, change) ==
    [n |-> change.n, md5 |-> change.md5, rows |-> IF record.md5 = change.md5 THEN record.rows \cup change.rows ELSE change.rows]
Applied(record, change) == IF change.md5 = 0 THEN [record EXCEPT !.n = change.n] ELSE Merged(record, change)

\* The whole file is replaced; every reader sees the old one or the new one.
Write(p) ==
    LET c == work[p] IN
    /\ c.at = "write"
    /\ file' = [state |-> "ok", records |-> [c.seen EXCEPT ![c.board] = Applied(@, c)]]
    /\ asides' = asides
    /\ lock' = Nobody
    /\ work' = [work EXCEPT ![p] = Idle]
    /\ landed' = [landed EXCEPT ![c.board] = c.n]
    /\ unrecorded' = [unrecorded EXCEPT ![c.board] =
                        IF c.md5 # 0 /\ c.seen[c.board].md5 # c.md5 THEN {} ELSE @ \ c.rows]
    /\ UNCHANGED <<lastSerial, writing, bench, flash, updates, counts>>

\* The file cannot be read, moved aside or written: nothing is.
FileRefuses(p) ==
    /\ work[p].at \in {"read", "write"} /\ Fault
    /\ lock' = Nobody
    /\ Failed(p)
    /\ UNCHANGED <<file, asides, lastSerial, writing, bench, flash, updates, landed>>

\* A process is killed and started again.
Dies(p) ==
    /\ work[p].at # "idle" /\ Fault
    /\ lock' = IF lock = p THEN "dead" ELSE lock
    /\ Failed(p)
    /\ lastSerial' = [lastSerial EXCEPT ![p] = Nobody]
    /\ UNCHANGED <<file, asides, writing, bench, flash, updates, landed>>

\* The file is damaged, by hand or by the disk; its records are gone.
Damage ==
    /\ file.state = "ok" /\ lock = Nobody
    /\ counts.faults < MaxFaults /\ counts' = [counts EXCEPT !.faults = @ + 1, !.damaged = @ + 1]
    /\ file' = [state |-> "corrupt", records |-> [b \in Owned |-> NoRecord]]
    /\ landed' = [b \in Owned |-> 0]
    /\ UNCHANGED <<asides, lock, work, lastSerial, writing, bench, flash, updates, unrecorded>>

-----------------------------------------------------------------------------
(* InventoryRecorder, on the signals of the job. *)

Replug ==
    /\ writing = NotWriting /\ \A p \in Processes : work[p] = Idle
    /\ bench' \in {Empty} \cup [board : {"X"}, mode : {"adb"}] \cup [board : {"Y"}, mode : Modes]
    /\ UNCHANGED <<file, asides, lock, work, lastSerial, writing, flash, updates, counts, landed, unrecorded>>

\* The board a query reports by its serial: the only one, on ADB.
Named == IF bench.mode = "adb" THEN bench.board ELSE Nobody

\* Mutant: a status without a board on ADB leaves the board of an earlier one.
SeenKept(p) == IF Named = Nobody THEN UNCHANGED lastSerial ELSE lastSerial' = [lastSerial EXCEPT ![p] = Named]
Seen(p) == lastSerial' = [lastSerial EXCEPT ![p] = Named]

\* onStatus(): its write comes at most once a minute, and not soon after one that failed.
Status(p) ==
    /\ work[p].at = "idle" /\ writing.by # p
    /\ Seen(p)
    /\ \/ UNCHANGED <<work, updates>>
       \/ Named # Nobody /\ Update(p, Named, 0, {}, FALSE)
    /\ UNCHANGED <<file, asides, lock, writing, bench, flash, counts, landed, unrecorded>>

\* onProfile(), onLayout(), onPort(), onMcuInfo(), onOperation(): a fact of the board.
Learnt(p) ==
    /\ work[p].at = "idle" /\ lastSerial[p] # Nobody
    /\ Update(p, lastSerial[p], 0, {}, FALSE)
    /\ UNCHANGED <<file, asides, lock, lastSerial, writing, bench, flash, counts, landed, unrecorded>>

NewOrKnown == {m \in Builds : m <= counts.writes + 1}

\* One operation at a time on this computer.
Operating == writing # NotWriting \/ \E q \in Processes : work[q].op

\* flashSoc(): its own query comes first; the rows it can write follow.
FlashBegins(p) ==
    /\ work[p].at = "idle" /\ ~Operating /\ counts.writes < MaxWrites
    /\ bench # Empty
    /\ Seen(p)
    /\ \E md5 \in NewOrKnown, rows \in SUBSET Rows \ {{}} :
          writing' = [by |-> p, board |-> bench.board, md5 |-> md5, rows |-> rows, done |-> {}]
    /\ counts' = [counts EXCEPT !.writes = @ + 1]
    /\ UNCHANGED <<file, asides, lock, work, bench, flash, updates, landed, unrecorded>>

NextRow == CHOOSE r \in writing.rows : \A s \in writing.rows : r <= s

\* A row is written completely (or skipped: the image has no file for it).
RowWritten ==
    /\ writing.rows # {}
    /\ LET r == NextRow IN
       \E skipped \in BOOLEAN :
          /\ skipped => writing.done # {} \/ writing.rows # {r}
          /\ writing' = [writing EXCEPT !.rows = @ \ {r}, !.done = IF skipped THEN @ ELSE @ \cup {r}]
          /\ flash' = IF skipped THEN flash ELSE [flash EXCEPT ![writing.board][r] = writing.md5]
    /\ UNCHANGED <<file, asides, lock, work, lastSerial, bench, updates, counts, landed, unrecorded>>

\* onStep(), of a process that no update blocks: a step ends.  Its image is recorded
\* when it ended ok, on the board the last status named; rows nobody is told of are
\* unrecorded.
Report(p, board, md5, rows) ==
    IF board = Nobody
    THEN UNCHANGED <<work, updates>> /\ unrecorded' = [unrecorded EXCEPT ![writing.board] = @ \cup writing.done]
    ELSE Update(p, board, md5, rows, TRUE) /\ UNCHANGED unrecorded

FlashEnds ==
    /\ writing.by \in Processes /\ writing.rows = {} /\ work[writing.by].at = "idle"
    /\ Report(writing.by, lastSerial[writing.by], writing.md5, writing.done)
    /\ writing' = NotWriting
    /\ UNCHANGED <<file, asides, lock, lastSerial, bench, flash, counts, landed>>

\* Mutant: a write that failed counts as well.
FlashFailsRecorded ==
    /\ writing.by \in Processes /\ writing.rows # {} /\ work[writing.by].at = "idle" /\ Fault
    /\ lastSerial[writing.by] # Nobody /\ Update(writing.by, lastSerial[writing.by], writing.md5, writing.rows, TRUE)
    /\ flash' = [flash EXCEPT ![writing.board][NextRow] = 0]
    /\ writing' = NotWriting
    /\ UNCHANGED <<file, asides, lock, lastSerial, bench, landed, unrecorded>>

\* A write is cut in one of its rows: only the operation is recorded.
FlashFails ==
    /\ writing.by \in Processes /\ writing.rows # {} /\ work[writing.by].at = "idle" /\ Fault
    /\ flash' = [flash EXCEPT ![writing.board][NextRow] = 0]
    /\ unrecorded' = [unrecorded EXCEPT ![writing.board] = @ \cup writing.done \cup {NextRow}]
    /\ \/ lastSerial[writing.by] # Nobody /\ Update(writing.by, lastSerial[writing.by], 0, {}, TRUE)
       \/ lastSerial[writing.by] = Nobody /\ UNCHANGED <<work, updates>>
    /\ writing' = NotWriting
    /\ UNCHANGED <<file, asides, lock, lastSerial, bench, landed>>

\* onBoard(): a board of a fleet run, named by its serial, is Done or NotBack, or
\* has failed in one of its rows, which tells nothing of the image.
FleetBoard(p) ==
    /\ work[p].at = "idle" /\ ~Operating /\ counts.writes < MaxWrites
    /\ bench.mode = "adb"
    /\ \E md5 \in NewOrKnown, rows \in SUBSET Rows \ {{}}, failed \in BOOLEAN :
          /\ failed => counts.faults < MaxFaults
          /\ counts' = [counts EXCEPT !.writes = @ + 1, !.faults = IF failed THEN @ + 1 ELSE @]
          /\ flash' = [flash EXCEPT ![bench.board] = [r \in Rows |-> IF r \notin rows THEN @[r] ELSE IF failed THEN 0 ELSE md5]]
          /\ IF failed
                THEN Update(p, bench.board, 0, {}, TRUE) /\ unrecorded' = [unrecorded EXCEPT ![bench.board] = @ \cup rows]
                ELSE Update(p, bench.board, md5, rows, TRUE) /\ UNCHANGED unrecorded
    /\ UNCHANGED <<file, asides, lock, lastSerial, writing, bench, landed>>

\* Bound: the tab queries and writes single boards and su-fw writes fleets, where
\* each could do both.
InventoryNext ==
    \/ \E p \in Processes :
          \/ TakeLock(p) \/ LockTimesOut(p) \/ Read(p) \/ Write(p) \/ FileRefuses(p) \/ Dies(p)
    \/ Status("tab") \/ Learnt("tab") \/ FlashBegins("tab") \/ FleetBoard("su-fw")
    \/ Damage \/ Replug \/ RowWritten \/ FlashEnds \/ FlashFails

InventorySpec == InventoryInit /\ [][InventoryNext]_inventory

-----------------------------------------------------------------------------
\* Writers never clobber each other, and the bytes of a corrupt file are kept:
\* the file holds the last update of every board that was reported as written.
NothingIsLost ==
    /\ file.state = "ok" => \A b \in Owned : file.records[b].n = landed[b]
    /\ asides + (IF file.state = "corrupt" THEN 1 ELSE 0) = counts.damaged

\* checkExpectedImage() of `su-fw --expect-image'.
AlreadyRuns(b, md5, names) == file.state = "ok" /\ file.records[b].md5 = md5 /\ names \subseteq file.records[b].rows

AtRest == writing = NotWriting /\ \A p \in Processes : work[p] = Idle

\* A board runs the rows its record names: whatever was merged, replaced, written to
\* another board or by another process in between.  Only for rows every change of which
\* the inventory was told: of a write that is cut, and of one to a board whose serial
\* the port did not give, it is told nothing, and such a board is skipped wrongly
\* (NeverSkipsACut).
RecordedRowsRun ==
    AtRest => \A b \in Owned, md5 \in Builds, r \in Rows :
        AlreadyRuns(b, md5, {r}) /\ r \notin unrecorded[b] => flash[b][r] = md5

\* "an agent's --expect-image must never skip a board whose write was cut".
NeverSkipsACut ==
    AtRest => \A b \in Owned, md5 \in Builds, r \in Rows : AlreadyRuns(b, md5, {r}) => flash[b][r] # 0
=============================================================================
