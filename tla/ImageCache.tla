-------------------------------- MODULE ImageCache --------------------------------
(***************************************************************************)
(* The cache of pulled images (firmware/ImagePuller): update.img and the   *)
(* previous one, each with the note of what it is, and the pull and the    *)
(* roll back that move them.  The file operations of a step are run one by *)
(* one: each can fail, and the program can die between two of them.  A     *)
(* build is its place in time; its content, its time and its note are the  *)
(* number, and neighbouring builds can have the same size.                 *)
(***************************************************************************)
EXTENDS Naturals, Sequences, SequencesExt, FiniteSets

CONSTANTS MaxBuilds,   \* bound: builds of the build machine
          MaxRuns,     \* bound: pulls and roll backs
          MaxFaults    \* bound: file operations that fail, deaths of the program

None == 0
Files == {"image", "prev", "new", "aside", "noteImage", "notePrev", "noteAside"}
Note == [image |-> "noteImage", prev |-> "notePrev"]

\* Two builds in a row can have the same size.  A file of two builds, rebuilt while
\* it was read, is Torn(b), of the size of the build b that was announced.
Torn(b) == MaxBuilds + b
Size(c) == ((IF c > MaxBuilds THEN c - MaxBuilds ELSE c) + 1) \div 2

VARIABLES
    disk,      \* the cache folder: a build or None for each of the files
    remote,    \* the build on the build machine
    runs, faults,
    step,      \* Step, and the file operations: "Idle", "Stat", "Git", "Download", "Place", "Note", "ExtraStat", "ExtraDownload", "RollImages", "RollNotes"
    pendingId, answers,  \* statRemote(): the id waited for, the answers under way
    cancelRequested, forced,
    seen,      \* what stat said of the remote image
    todo, done,  \* file operations to do, and the renames done
    undoing,   \* a failed step is being put back
    result,    \* of the last pull or roll back: "none", "pulled", "unchanged", "failed", "rolledBack"
    before,    \* the folder and the remote build when it began
    crossed    \* builds that a roll back has left beside the other one's note

run == <<step, pendingId, cancelRequested, forced, seen, todo, done, undoing>>
caching == <<disk, remote, runs, faults, run, answers, result, before, crossed>>

CacheInit ==
    /\ disk = [f \in Files |-> None] /\ remote = 1 /\ runs = 0 /\ faults = 0
    /\ step = "Idle" /\ pendingId = 0 /\ answers = {} /\ cancelRequested = FALSE /\ forced = FALSE
    /\ seen = None /\ todo = <<>> /\ done = <<>> /\ undoing = FALSE
    /\ result = "none" /\ before = [disk |-> disk, remote |-> 1] /\ crossed = {}

\* readNote(): the note of an image of another size is not its note.
ReadNote(f) ==
    LET note == disk[Note[f]] IN IF disk[f] # None /\ note # None /\ Size(note) = Size(disk[f]) THEN note ELSE None

\* finish(): a pull that did not end in a validated image leaves none behind.
Finish(how, d) ==
    /\ step' = "Idle" /\ pendingId' = 0 /\ cancelRequested' = FALSE
    /\ todo' = <<>> /\ done' = <<>> /\ undoing' = FALSE
    /\ result' = how
    /\ disk' = IF how = "failed" THEN [d EXCEPT !["new"] = None] ELSE d
    /\ UNCHANGED <<forced, seen>>

\* begin().
Start(force) ==
    /\ step = "Idle" /\ runs < MaxRuns /\ runs' = runs + 1
    /\ step' = "Stat" /\ pendingId' = runs' /\ forced' = force
    /\ answers' = answers \cup {[id |-> runs', build |-> remote]}
    /\ disk' = [disk EXCEPT !["new"] = None]
    /\ result' = "none" /\ before' = [disk |-> disk, remote |-> remote]
    /\ UNCHANGED <<remote, faults, cancelRequested, seen, todo, done, undoing, crossed>>

\* Mutant: the answer to a stat is taken whichever run asked.
IsPendingAny(a) == step = "Stat"
IsPending(a) == step = "Stat" /\ a.id = pendingId

\* onStat() of the image, and git describe.
Stat(a) ==
    /\ a \in answers /\ answers' = answers \ {a}
    /\ IF IsPending(a)
          THEN step' = "Git" /\ seen' = a.build
          ELSE UNCHANGED <<step, seen>>
    /\ UNCHANGED <<disk, remote, runs, faults, pendingId, cancelRequested, forced, todo, done, undoing, result, before, crossed>>

\* remoteFactsComplete(): the same build is not pulled again.
SameBuild == ReadNote("image") = seen

FactsComplete ==
    /\ step = "Git"
    /\ IF SameBuild /\ ~forced
          THEN Finish("unchanged", disk)
          ELSE step' = "Download" /\ UNCHANGED <<disk, pendingId, cancelRequested, forced, seen, todo, done, undoing, result>>
    /\ UNCHANGED <<remote, runs, faults, answers, before, crossed>>

Mv(a, b) == [do |-> "mv", from |-> a, to |-> b]
MvNote(a, b) == [do |-> "mvnote", from |-> a, to |-> b]
Rm(a) == [do |-> "rm", from |-> a, to |-> a]

\* replaceFile().
Replace == IF disk["image"] = None THEN <<Mv("new", "image")>>
           ELSE <<Rm("aside"), Mv("image", "aside"), Mv("new", "image"), Rm("aside")>>
\* putIntoPlace(): the note follows its image into the history.
Rotate == <<Rm("prev"), Rm("notePrev"), Mv("image", "prev"), MvNote("noteImage", "notePrev"), Mv("new", "image")>>

\* onTransferFinished() and completeImage(): what arrived is an image of the size
\* that was announced, of one build or, rebuilt meanwhile, of two.
Downloaded ==
    /\ step = "Download" /\ ~cancelRequested
    /\ \E got \in {seen, remote} \cup (IF remote # seen THEN {Torn(seen)} ELSE {}) :
          IF Size(got) # Size(seen)
             THEN Finish("failed", disk)
             ELSE /\ disk' = [disk EXCEPT !["new"] = got]
                  /\ step' = "Place"
                  /\ todo' = IF SameBuild \/ disk["image"] = None THEN Replace ELSE Rotate
                  /\ UNCHANGED <<pendingId, cancelRequested, forced, seen, done, undoing, result>>
    /\ UNCHANGED <<remote, runs, faults, answers, before, crossed>>

\* Mutant: a cancelled transfer is not listened to any more.
TransferFailsUnheard ==
    /\ step = "Download" /\ ~cancelRequested
    /\ Finish("failed", disk)
    /\ UNCHANGED <<remote, runs, faults, answers, before, crossed>>

\* The transfer ends without a file, or after a cancel; the connection is lost.
TransferFails ==
    /\ step = "Download"
    /\ Finish("failed", disk)
    /\ UNCHANGED <<remote, runs, faults, answers, before, crossed>>
Lost ==
    /\ step \in {"Stat", "Git", "ExtraStat", "ExtraDownload"}
    /\ Finish("failed", disk)
    /\ UNCHANGED <<remote, runs, faults, answers, before, crossed>>

\* cancel(): a transfer ends by itself, anything else at once.
Cancel ==
    /\ step \in {"Stat", "Git", "Download", "ExtraStat", "ExtraDownload"} /\ ~cancelRequested
    /\ IF step \in {"Download", "ExtraDownload"}
          THEN cancelRequested' = TRUE /\ UNCHANGED <<disk, step, pendingId, forced, seen, todo, done, undoing, result>>
          ELSE Finish("failed", disk)
    /\ UNCHANGED <<remote, runs, faults, answers, before, crossed>>

\* One file operation.  A rename replaces nothing: what it would overwrite was
\* removed or moved before.
Apply(d, op) ==
    CASE op.do = "rm" -> [d EXCEPT ![op.from] = None]
      [] d[op.from] = None -> d
      [] OTHER -> [d EXCEPT ![op.to] = d[op.from], ![op.from] = None]

FileOperation ==
    /\ todo # <<>>
    /\ disk' = Apply(disk, Head(todo))
    /\ todo' = Tail(todo)
    /\ done' = IF Head(todo).do = "rm" \/ undoing THEN done ELSE <<Mv(Head(todo).to, Head(todo).from)>> \o done
    /\ UNCHANGED <<remote, runs, faults, step, pendingId, cancelRequested, forced, seen, undoing, answers, result, before, crossed>>

\* Builds that stand where the other one did, whose notes may not follow any more.
Moved == {disk[f] : f \in {g \in {"image", "prev"} : disk[g] # before.disk[g]}} \ {None}
NotesLost == crossed' = IF step \in {"RollImages", "RollNotes"} THEN crossed \cup Moved ELSE crossed

\* Mutant: a step that fails stops where it is.
FileOperationStops ==
    /\ todo # <<>> /\ ~undoing /\ faults < MaxFaults /\ faults' = faults + 1
    /\ todo' = <<>> /\ undoing' = TRUE /\ done' = <<>>
    /\ IF step = "RollNotes" THEN NotesLost ELSE UNCHANGED crossed
    /\ UNCHANGED <<disk, remote, runs, step, pendingId, cancelRequested, forced, seen, answers, result, before>>

\* One that fails: the renames before it are put back; a note that cannot follow its
\* image is removed, and what replaceFile() moved aside may stay there.
FileOperationFails ==
    /\ todo # <<>> /\ ~undoing /\ faults < MaxFaults /\ faults' = faults + 1
    /\ IF Head(todo).do = "mvnote"
          THEN /\ disk' = [disk EXCEPT ![Head(todo).from] = None]
               /\ todo' = Tail(todo) /\ UNCHANGED <<undoing, done>>
       ELSE IF todo = <<Rm("aside")>>
          THEN todo' = <<>> /\ UNCHANGED <<disk, undoing, done>>
       ELSE todo' = done /\ undoing' = TRUE /\ done' = <<>> /\ UNCHANGED disk
    /\ IF step = "RollNotes" THEN NotesLost ELSE UNCHANGED crossed
    /\ UNCHANGED <<remote, runs, step, pendingId, cancelRequested, forced, seen, answers, result, before>>

\* The image is in place: its note, then the extra files; only the note's loss
\* is survived.
Placed ==
    /\ step = "Place" /\ todo = <<>>
    /\ IF undoing THEN Finish("failed", disk)
       ELSE step' = "Note" /\ done' = <<>> /\ UNCHANGED <<disk, pendingId, cancelRequested, forced, seen, todo, undoing, result>>
    /\ UNCHANGED <<remote, runs, faults, answers, before, crossed>>

WriteNote(ok) ==
    /\ step = "Note"
    /\ IF ok THEN UNCHANGED faults ELSE faults < MaxFaults /\ faults' = faults + 1
    /\ disk' = IF ok THEN [disk EXCEPT !["noteImage"] = seen] ELSE disk
    /\ step' = "ExtraStat"
    /\ UNCHANGED <<remote, runs, pendingId, cancelRequested, forced, seen, todo, done, undoing, answers, result, before, crossed>>

\* An extra file, which can fail without failing the pull.
ExtraFile ==
    /\ \/ step = "ExtraStat" /\ step' = "ExtraDownload" /\ UNCHANGED <<disk, pendingId, cancelRequested, forced, seen, todo, done, undoing, result>>
       \/ step \in {"ExtraStat", "ExtraDownload"} /\ ~cancelRequested /\ Finish("pulled", disk)
       \/ step = "ExtraDownload" /\ cancelRequested /\ Finish("failed", disk)
    /\ UNCHANGED <<remote, runs, faults, answers, before, crossed>>

\* swapFiles() of two files and the name one of them is kept under meanwhile.
Swap(a, b, aside) ==
    IF disk[a] = None /\ disk[b] = None THEN <<>>
    ELSE IF disk[a] = None THEN <<Mv(b, a)>>
    ELSE IF disk[b] = None THEN <<Mv(a, b)>>
    ELSE <<Rm(aside), Mv(a, aside), Mv(b, a), Mv(aside, b)>>

\* rollBack(): the images, then their notes.
RollBack ==
    /\ step = "Idle" /\ disk["prev"] # None /\ runs < MaxRuns /\ runs' = runs + 1
    /\ step' = "RollImages" /\ todo' = Swap("image", "prev", "aside") /\ result' = "none"
    /\ before' = [disk |-> disk, remote |-> remote]
    /\ UNCHANGED <<disk, remote, faults, pendingId, cancelRequested, forced, seen, done, undoing, answers, crossed>>

RolledBack ==
    /\ step \in {"RollImages", "RollNotes"} /\ todo = <<>>
    /\ IF step = "RollImages" /\ undoing THEN Finish("failed", disk)
       ELSE IF step = "RollImages"
       THEN /\ step' = "RollNotes" /\ todo' = Swap("noteImage", "notePrev", "noteAside") /\ done' = <<>>
            /\ UNCHANGED <<disk, pendingId, cancelRequested, forced, seen, undoing, result>>
       ELSE Finish("rolledBack", disk)
    /\ UNCHANGED <<remote, runs, faults, answers, before, crossed>>

\* The program dies, and is started again.
Dies ==
    /\ step # "Idle" /\ faults < MaxFaults /\ faults' = faults + 1
    /\ NotesLost
    /\ step' = "Idle" /\ pendingId' = 0 /\ cancelRequested' = FALSE
    /\ todo' = <<>> /\ done' = <<>> /\ undoing' = FALSE
    /\ answers' = {} /\ result' = "none"
    /\ UNCHANGED <<disk, remote, runs, forced, seen, before>>

Build ==
    /\ remote < MaxBuilds /\ remote' = remote + 1
    /\ UNCHANGED <<disk, runs, faults, run, answers, result, before, crossed>>

CacheNext ==
    \/ \E force \in BOOLEAN : Start(force)
    \/ \E a \in answers : Stat(a)
    \/ FactsComplete \/ Downloaded \/ TransferFails \/ Lost \/ Cancel
    \/ FileOperation \/ FileOperationFails \/ Placed \/ \E ok \in BOOLEAN : WriteNote(ok)
    \/ ExtraFile \/ RollBack \/ RolledBack \/ Dies \/ Build

CacheFairness ==
    /\ WF_caching(\E a \in answers : Stat(a)) /\ WF_caching(FactsComplete)
    /\ WF_caching(Downloaded \/ TransferFails) /\ WF_caching(FileOperation)
    /\ WF_caching(Placed) /\ WF_caching(\E ok \in BOOLEAN : WriteNote(ok)) /\ WF_caching(RolledBack)
    /\ WF_caching(ExtraFile)

CacheSpec == CacheInit /\ [][CacheNext]_caching /\ CacheFairness

-----------------------------------------------------------------------------
\* "unchanged" is true: the image in the cache is the build the build machine has
\* had since this pull began, so the newest build is what will be flashed,
\* whatever was rotated, rolled back, cut short or answered late before; unless it
\* is an image that a roll back has left beside the other one's note, because the
\* notes could not be swapped or the program died before (rollBack()).
SkipIsRight == result = "unchanged" /\ disk["image"] \notin crossed => disk["image"] \in before.remote..MaxBuilds

\* "A stale note is ignored by readNote() (its size no longer matches unless both
\* builds have the same size, which the next pull's mtime check still catches)"
\* (ImagePuller.cpp:943): a pull is only skipped for the newest build, without the
\* exception.
StaleNoteIsCaught == result = "unchanged" => disk["image"] \in before.remote..MaxBuilds

\* A pull or a roll back that fails leaves the image the user had: in its place, or
\* behind the one that took it, unless that is the same build or passes for it, by
\* the other one's note; and nothing half downloaded beside it.
FailureKeepsTheImage ==
    result = "failed" => /\ disk["new"] = None
                         /\ before.disk["image"] \in {None, disk["image"], disk["prev"], seen} \cup crossed

\* Every pull and roll back ends.
PullEnds == step # "Idle" ~> step = "Idle"
=============================================================================
