------------------------------ MODULE FleetMapping ------------------------------
(***************************************************************************)
(* The mapping half of FleetFlasher: which LocationID and which USB port   *)
(* belong to which ADB serial.  The boards are told `reboot loader' one    *)
(* after the other, and each is recognised by the difference it makes on   *)
(* the bus.  A stop or a cancel resets every mapped board and closes the   *)
(* run; a mapping that gets through hands over to FleetWriting.            *)
(*                                                                         *)
(* Device d sits on port d and answers, in a download mode, to LocationID  *)
(* d; what the run believes of a board is in port[b] and locationId[b].    *)
(* Three views of the devices exist, and any of them may be late: the ADB  *)
(* gadgets and the download-mode devices of the USB enumeration, and the   *)
(* listing of upgrade_tool LD.  `step' is the one command of the run that  *)
(* is in flight; "mapNext" is the call that follows in the same handler.   *)
(***************************************************************************)
EXTENDS Naturals, FiniteSets

CONSTANTS
    NBoards,      \* boards selected, in selection order
    NStrangers,   \* devices on the bench nobody selected
    StrangersAt,  \* where these may be when the run starts
    Layouts,      \* what step b finds on a board: see LayoutEnds
    Modes,        \* where a board told `reboot loader' may arrive
    Lag,          \* views that may be late: "adb", "dl", "ld"
    Late,         \* a board may still move once its wait is over
    DryRuns,      \* values of setDryRun()
    MaxFaults     \* bound: failures and foreign moves in one behaviour

ASSUME MappingAssumption ==
    /\ NBoards \in Nat \ {0}
    /\ NStrangers \in Nat
    /\ StrangersAt \subseteq {"adb", "loader"}
    /\ Layouts \subseteq {"ok", "unreadable", "unusable", "mixed", "mixedPid"} /\ Layouts # {}
    /\ Modes \subseteq {"loader", "maskrom"} /\ Modes # {}
    /\ Lag \subseteq {"adb", "dl", "ld"}
    /\ Late \in BOOLEAN /\ DryRuns \subseteq BOOLEAN
    /\ MaxFaults \in Nat

Board == 1..NBoards
Device == 1..(NBoards + NStrangers)
Nothing == 0   \* no port, no LocationID, no board

INSTANCE FleetCompare WITH Port <- Device, Id <- Device

Stages == {"Selected", "Mapping", "Loader", "Resetting", "Finished"}
Results == {"Pending", "Ready", "Failed", "Skipped"}
Snapshots == {"baseline", "before", "poll", "reconcile", "closing"}
Commands == {"devices", "kernel", "layout", "reboot", "pollWait", "confirm", "resets"}
Steps == Snapshots \cup Commands \cup {"mapNext", "writing", "done"}

VARIABLES
    at,            \* where each device is
    shown,         \* which views show it
    told,          \* it was told to reboot into Loader mode and has yet to get there
    faults,
    step, cur,     \* the command in flight, the board being mapped
    listed, listing,  \* LD has read the devices; what it read
    before, baseline, \* pictures
    found,         \* the device a poll recognised: its port and its LocationID
    waitOver,      \* the Loader wait of the board being mapped has run out
    draining, stopped,
    stage, result, candidate, rebooted,
    dry,           \* this is a dry run
    layout,        \* what step b read
    port, locationId, maskrom,
    resetOnly, resetOk, leftInLoader,
    unattributed

bench == <<at, shown, told, faults>>
pictures == <<before, baseline, listed, listing, found>>
identity == <<port, locationId, maskrom>>
endings == <<stage, result>>
selection == <<candidate, dry>>
resets == <<resetOnly, resetOk, leftInLoader>>
vars == <<bench, step, cur, pictures, waitOver, draining, stopped, endings, selection, rebooted,
          layout, identity, resets, unattributed>>

Ended(b) == stage[b] = "Finished"
Fault == faults < MaxFaults /\ faults' = faults + 1

\* A handler runs to its end before the next event.
Idle == step \notin {"mapNext", "writing", "done"}

-----------------------------------------------------------------------------
(* The bench.                                                              *)

Truth(where) ==
    CASE where = "adb" -> {"adb"}
      [] where \in {"loader", "maskrom"} -> {"dl", "ld"}
      [] OTHER -> {}

\* The views follow the device, those of Lag perhaps later.
Moves(d, where) ==
    /\ at' = [at EXCEPT ![d] = where]
    /\ \E late \in SUBSET Lag :
          shown' = [shown EXCEPT ![d] = (Truth(where) \ late) \cup (@ \cap late)]

RestOfRun == <<step, cur, pictures, waitOver, draining, stopped, endings, selection, rebooted,
               layout, identity, resets, unattributed>>

LeavesAdb(d) ==
    /\ Idle
    /\ told[d] /\ at[d] = "adb"
    /\ Moves(d, "away")
    /\ UNCHANGED <<told, faults, RestOfRun>>

EntersDownload(d) ==
    /\ Idle
    /\ told[d] /\ at[d] = "away"
    /\ \E mode \in Modes : Moves(d, mode)
    /\ told' = [told EXCEPT ![d] = FALSE]
    /\ UNCHANGED <<faults, RestOfRun>>

\* A device that was reset, or that a fault threw out of Loader mode, boots.
Boots(d) ==
    /\ Idle
    /\ at[d] = "booting"
    /\ Moves(d, "adb")
    /\ UNCHANGED <<told, faults, RestOfRun>>

CatchesUp(d) ==
    /\ Idle
    /\ \E view \in {"adb", "dl", "ld"} :
          /\ (view \in shown[d]) # (view \in Truth(at[d]))
          /\ shown' = [shown EXCEPT ![d] = IF view \in @ THEN @ \ {view} ELSE @ \cup {view}]
    /\ UNCHANGED <<at, told, faults, RestOfRun>>

\* Somebody reboots a device of his own into Loader mode.
StrangerTold(d) ==
    /\ Idle
    /\ d \notin Board
    /\ at[d] = "adb" /\ ~told[d]
    /\ Fault
    /\ told' = [told EXCEPT ![d] = TRUE]
    /\ UNCHANGED <<at, shown, RestOfRun>>

BrownOut(d) ==
    /\ Idle
    /\ at[d] = "loader"
    /\ Fault
    /\ Moves(d, "booting")
    /\ UNCHANGED <<told, RestOfRun>>

-----------------------------------------------------------------------------
(* Pictures: LD first, the enumeration when its result arrives.            *)

LdReads ==
    /\ step \in Snapshots
    /\ ~listed
    /\ listed' = TRUE
    /\ listing' = {d \in Device : "ld" \in shown[d]}
    /\ UNCHANGED <<bench, step, cur, before, baseline, found, waitOver, draining, stopped, endings, selection,
                   rebooted, layout, identity, resets, unattributed>>

Picture ==
    [adb |-> {d \in Device : "adb" \in shown[d]},
     download |-> {d \in Device : "dl" \in shown[d]},
     loader |-> {d \in listing : at[d] # "maskrom"},
     maskrom |-> {d \in listing : at[d] = "maskrom"}]

NoPicture == [adb |-> {}, download |-> {}, loader |-> {}, maskrom |-> {}]

\* The result of the LD arrives, `ok' or with an error.
Pictured(which) ==
    /\ step = which
    /\ listed
    /\ listed' = FALSE
    /\ listing' = {}

-----------------------------------------------------------------------------
(* How boards and the run end.                                             *)

Alive == {b \in Board : ~Ended(b)}
InLoader == {b \in Board : stage[b] = "Loader"}

EndBoard(b, res) ==
    /\ stage' = [stage EXCEPT ![b] = "Finished"]
    /\ result' = [result EXCEPT ![b] = res]

EndAll(res) ==
    /\ stage' = [b \in Board |-> "Finished"]
    /\ result' = [b \in Board |-> IF Ended(b) THEN result[b] ELSE res]

\* closeRun(): a run that rebooted nobody takes no closing picture.
Closing == IF rebooted = {} THEN "done" ELSE "closing"

\* refuse(): nothing was touched.
Refuse == EndAll("Skipped") /\ step' = "done"

\* The mapping is over: the boards of M are reset with their own address, `failing'
\* (when it is not one of them) fails, every other board is skipped.
ResetMapped(M, failing) ==
    /\ stage' = [b \in Board |-> IF b \in M THEN "Resetting" ELSE "Finished"]
    /\ result' = [b \in Board |-> IF Ended(b) \/ b \in M THEN result[b]
                                  ELSE IF b = failing THEN "Failed" ELSE "Skipped"]
    /\ step' = IF M = {} THEN Closing ELSE "resets"

\* stopMapping(); `loose' are LocationIDs nobody owns: reported, never reset.
StopMapping(failing, loose) ==
    /\ stopped' = TRUE
    /\ unattributed' = unattributed \cup loose
    /\ ResetMapped(InLoader, failing)

\* endMappingByCancel()
EndMappingByCancel == ResetMapped(InLoader, Nothing) /\ UNCHANGED <<stopped, unattributed>>

\* skipIfDraining()
SkipCur == EndBoard(cur, "Skipped") /\ step' = "mapNext" /\ UNCHANGED <<stopped, unattributed>>

-----------------------------------------------------------------------------
(* Selection and baseline.                                                 *)

\* onAdbDevices(): the boards in state "device" are candidates.
DevicesEnds ==
    /\ step = "devices"
    /\ \/ /\ Fault
          /\ Refuse
          /\ UNCHANGED <<candidate, at, shown, told>>
       \/ \E C \in SUBSET {b \in Board : at[b] = "adb"} :
             /\ candidate' = C
             /\ IF draining \/ C = {}
                   THEN Refuse
                   ELSE step' = "baseline" /\ UNCHANGED endings
             /\ UNCHANGED bench
    /\ UNCHANGED <<cur, pictures, waitOver, draining, stopped, dry, rebooted, layout, identity, resets,
                   unattributed>>

RefusesBenchUnlessUnlisted ==
    \/ draining
    \/ Picture.adb = {}
    \/ Cardinality(Picture.download) # Cardinality(Ids(Picture))

\* Every download-mode device found at the baseline is foreign, and a real run
\* refuses to start next to one; so it does when the bus and the listing
\* disagree and when no ADB gadget is on the bus.
RefusesBench ==
    \/ draining
    \/ Picture.adb = {}
    \/ Cardinality(Picture.download) # Cardinality(Ids(Picture))
    \/ ~dry /\ Ids(Picture) # {}

\* onBaseline(); the fault is an LD that could not run or a row that cannot be
\* written (checkRows()).
BaselineEnds ==
    /\ Pictured("baseline")
    /\ baseline' = Picture
    /\ \/ RefusesBench /\ Refuse /\ UNCHANGED faults
       \/ Fault /\ Refuse
       \/ /\ ~RefusesBench
          /\ stage' = [b \in Board |-> IF dry \/ b \notin candidate THEN "Finished" ELSE stage[b]]
          /\ result' = [b \in Board |-> IF b \notin candidate THEN "Skipped"
                                        ELSE IF dry THEN "Ready" ELSE result[b]]
          /\ step' = IF dry THEN "done" ELSE "mapNext"
          /\ UNCHANGED faults
    /\ UNCHANGED <<at, shown, told, cur, before, found, waitOver, draining, stopped, selection, rebooted,
                   layout, identity, resets, unattributed>>

-----------------------------------------------------------------------------
(* One board at a time.                                                    *)

Later == {b \in candidate : b > cur /\ ~Ended(b)}

MapNextPastTheEnd ==
    /\ step = "mapNext"
    /\ cur' = cur + 1 /\ step' = "kernel"
    /\ UNCHANGED <<bench, pictures, waitOver, draining, stopped, endings, selection, rebooted, layout,
                   identity, resets, unattributed>>

\* mapNext()
MapNext ==
    /\ step = "mapNext"
    /\ IF draining
          THEN EndMappingByCancel /\ UNCHANGED cur
          ELSE /\ IF Later = {}
                     THEN step' = (IF rebooted = {} THEN "done" ELSE "reconcile") /\ UNCHANGED cur
                     ELSE step' = "kernel" /\ cur' = CHOOSE b \in Later : \A x \in Later : b <= x
               /\ UNCHANGED <<endings, stopped, unattributed>>
    /\ UNCHANGED <<bench, pictures, waitOver, draining, selection, rebooted, layout, identity, resets>>

\* readKernel(): its answer is only reported.
KernelEnds ==
    /\ step = "kernel"
    /\ IF draining THEN SkipCur ELSE step' = "layout" /\ UNCHANGED <<endings, stopped, unattributed>>
    /\ UNCHANGED <<bench, cur, pictures, waitOver, draining, selection, rebooted, layout, identity, resets>>

\* onLayout(): "unreadable" and "unusable" layouts skip the board, "mixed" is a
\* profile other than the plan's and stops the run, "mixedPid" one that only
\* its Loader PID will tell.
LayoutEnds ==
    /\ step = "layout"
    /\ \E read \in Layouts :
          /\ layout' = [layout EXCEPT ![cur] = read]
          /\ IF read = "mixed" THEN StopMapping(cur, {})
             ELSE IF read \in {"unreadable", "unusable"} \/ draining THEN SkipCur
             ELSE step' = "before" /\ UNCHANGED <<endings, stopped, unattributed>>
    /\ UNCHANGED <<bench, cur, pictures, waitOver, draining, selection, rebooted, identity, resets>>

BeforeEndsStale ==
    /\ Pictured("before")
    /\ before' = IF rebooted = {} THEN Picture ELSE before
    /\ step' = "reboot"
    /\ rebooted' = rebooted \cup {cur}
    /\ stage' = [stage EXCEPT ![cur] = "Mapping"]
    /\ waitOver' = FALSE
    /\ told' = [told EXCEPT ![cur] = TRUE]
    /\ UNCHANGED <<at, shown, faults, result, stopped, unattributed, cur, baseline, found, draining,
                   selection, layout, identity, resets>>

\* The picture before, then rebootIntoLoader(): the command reaches the board,
\* or a fault keeps it from acting on it.
BeforeEnds ==
    /\ Pictured("before")
    /\ \/ /\ Fault   \* the LD could not run
          /\ stopped' = TRUE
          /\ ResetMapped(InLoader, Nothing)
          /\ UNCHANGED <<told, before, rebooted, waitOver, unattributed>>
       \/ /\ draining
          /\ SkipCur
          /\ UNCHANGED <<told, faults, before, rebooted, waitOver>>
       \/ /\ ~draining
          /\ before' = Picture
          /\ step' = "reboot"
          /\ rebooted' = rebooted \cup {cur}
          /\ stage' = [stage EXCEPT ![cur] = "Mapping"]
          /\ waitOver' = FALSE
          /\ \/ told' = [told EXCEPT ![cur] = at[cur] = "adb"] /\ UNCHANGED faults
             \/ Fault /\ UNCHANGED told
          /\ UNCHANGED <<result, stopped, unattributed>>
    /\ UNCHANGED <<at, shown, cur, baseline, found, draining, selection, layout, identity, resets>>

RebootEnds ==
    /\ step = "reboot"
    /\ step' = "poll"
    /\ UNCHANGED <<bench, cur, pictures, waitOver, draining, stopped, endings, selection, rebooted,
                   layout, identity, resets, unattributed>>

PollTimerLost == step = "pollWait" /\ UNCHANGED vars

PollTimer ==
    /\ step = "pollWait"
    /\ step' = "poll"
    /\ UNCHANGED <<bench, cur, pictures, waitOver, draining, stopped, endings, selection, rebooted,
                   layout, identity, resets, unattributed>>

\* The Loader wait runs out: by a fault, unless the board stays where it is.
WaitElapses ==
    /\ step \in {"reboot", "poll", "pollWait"}
    /\ ~waitOver
    /\ waitOver' = TRUE
    /\ IF told[cur] \/ at[cur] \notin {"adb", "away"} THEN Fault ELSE UNCHANGED faults
    /\ told' = [told EXCEPT ![cur] = Late /\ @]
    /\ UNCHANGED <<at, shown, step, cur, pictures, draining, stopped, endings, selection, rebooted,
                   layout, identity, resets, unattributed>>

Only(S) == CHOOSE d \in S : TRUE

RecognisedFirstListed(picture) ==
    [port |-> Only(Appeared(before, picture)), id |-> Only(Ids(picture))]

\* The one port that appeared and the one id that is new.
Recognised(picture) ==
    [port |-> Only(Appeared(before, picture)), id |-> Only(NewIds(before, picture))]

\* poll() and onVerdict(); at the timeout onLoaderTimeout() decides by what the
\* last picture was waiting for.
PollEnds ==
    /\ Pictured("poll")
    /\ LET verdict == Compare(before, Picture)
           newIds == NewIds(before, Picture)
           moveOn == step' = "mapNext" /\ UNCHANGED <<stopped, unattributed>>
       IN \/ /\ verdict = "Mapped"
             /\ found' = Recognised(Picture)
             /\ step' = "confirm"
             /\ UNCHANGED <<endings, identity, stopped, unattributed>>
          \/ /\ verdict = "Maskrom"
             /\ maskrom' = maskrom \cup {cur}
             /\ port' = [port EXCEPT ![cur] = Recognised(Picture).port]
             /\ locationId' = [locationId EXCEPT ![cur] = Recognised(Picture).id]
             /\ EndBoard(cur, "Failed") /\ moveOn /\ UNCHANGED found
          \/ verdict \in Stops /\ StopMapping(cur, newIds) /\ UNCHANGED <<identity, found>>
          \/ verdict \in Pending /\ ~waitOver /\ step' = "pollWait"
             /\ UNCHANGED <<endings, identity, found, stopped, unattributed>>
          \/ verdict \in {"StillOnAdb", "LoaderNotEnumerated"} /\ waitOver
             /\ EndBoard(cur, "Skipped") /\ moveOn /\ UNCHANGED <<identity, found>>
          \/ verdict \in {"LdNotListing", "GhostOnPort", "LdOnly"} /\ waitOver
             /\ StopMapping(cur, IF verdict = "LdOnly" THEN newIds ELSE {})
             /\ UNCHANGED <<identity, found>>
    /\ UNCHANGED <<bench, cur, before, baseline, waitOver, draining, selection, rebooted, layout, resets>>

PollFails ==
    /\ Pictured("poll")
    /\ Fault
    /\ StopMapping(cur, {})
    /\ UNCHANGED <<at, shown, told, cur, before, baseline, found, waitOver, draining, selection, rebooted,
                   layout, identity, resets>>

ConfirmEndsBindsFirst ==
    /\ step = "confirm"
    /\ port' = [port EXCEPT ![cur] = found.port]
    /\ locationId' = [locationId EXCEPT ![cur] = found.id]
    /\ IF at[cur] = "adb"
          THEN ResetMapped(InLoader \cup {cur}, Nothing) /\ stopped' = TRUE
               /\ unattributed' = unattributed \cup {found.id}
          ELSE stage' = [stage EXCEPT ![cur] = "Loader"] /\ step' = "mapNext"
               /\ UNCHANGED <<result, stopped, unattributed>>
    /\ UNCHANGED <<bench, cur, pictures, waitOver, draining, selection, rebooted, layout, maskrom, resets>>

\* confirmMapped(): the board must be gone from `adb devices'; then it is bound
\* to what the poll recognised, unless its Loader PID tells another profile.
ConfirmEnds ==
    /\ step = "confirm"
    /\ \/ /\ IF at[cur] = "adb" THEN UNCHANGED faults ELSE Fault
          /\ StopMapping(cur, {found.id})
          /\ UNCHANGED <<port, locationId, resetOnly>>
       \/ /\ at[cur] # "adb"
          /\ port' = [port EXCEPT ![cur] = found.port]
          /\ locationId' = [locationId EXCEPT ![cur] = found.id]
          /\ IF layout[cur] = "mixedPid"
                THEN /\ resetOnly' = resetOnly \cup {cur}
                     /\ stopped' = TRUE
                     /\ ResetMapped(InLoader \cup {cur}, Nothing)
                ELSE /\ stage' = [stage EXCEPT ![cur] = "Loader"]
                     /\ step' = "mapNext"
                     /\ UNCHANGED <<result, stopped, resetOnly>>
          /\ UNCHANGED <<faults, unattributed>>
    /\ UNCHANGED <<at, shown, told, cur, pictures, waitOver, draining, selection, rebooted, layout,
                   maskrom, resetOk, leftInLoader>>

-----------------------------------------------------------------------------
(* The end of the mapping.                                                 *)

Known == InLoader \cup maskrom
LatePorts == (Picture.download \ baseline.download) \ {port[b] : b \in Known}
LateIds == (Ids(Picture) \ Ids(baseline)) \ {locationId[b] : b \in Known}

\* reconcile(): every download-mode device belongs to a mapped board, to one in
\* MASKROM mode or to the baseline; then the writing starts.
ReconcileEnds ==
    /\ Pictured("reconcile")
    /\ IF draining THEN EndMappingByCancel /\ UNCHANGED faults
       ELSE \/ Fault /\ StopMapping(Nothing, {})
            \/ /\ LatePorts # {} \/ LateIds # {}
               /\ StopMapping(Nothing, LateIds)
               /\ UNCHANGED faults
            \/ /\ LatePorts = {} /\ LateIds = {}
               /\ step' = IF InLoader = {} THEN "done" ELSE "writing"
               /\ UNCHANGED <<faults, endings, stopped, unattributed>>
    /\ UNCHANGED <<at, shown, told, cur, before, baseline, found, waitOver, draining, selection,
                   rebooted, layout, identity, resets>>

\* The RD of a mapped board, addressed to the LocationID it was bound to.
RdEnds(b) ==
    /\ step = "resets"
    /\ stage[b] = "Resetting"
    /\ \/ /\ at[locationId[b]] = "loader"
          /\ \/ Moves(locationId[b], "booting") /\ UNCHANGED faults
             \/ Fault /\ UNCHANGED <<at, shown>>   \* it answered OK and did not take
          /\ resetOk' = resetOk \cup {b}
          /\ UNCHANGED leftInLoader
       \/ /\ at[locationId[b]] # "loader"
          /\ leftInLoader' = IF at[port[b]] = "loader" /\ "dl" \in shown[port[b]]
                             THEN leftInLoader \cup {b} ELSE leftInLoader
          /\ UNCHANGED <<at, shown, faults, resetOk>>
       \/ /\ Fault
          /\ leftInLoader' = leftInLoader \cup {b}
          /\ UNCHANGED <<at, shown, resetOk>>
    /\ EndBoard(b, IF b \in resetOnly THEN "Failed" ELSE "Skipped")
    /\ step' = IF Alive = {b} THEN "closing" ELSE "resets"
    /\ UNCHANGED <<told, cur, pictures, waitOver, draining, stopped, selection, rebooted, layout,
                   identity, resetOnly, unattributed>>

Bound == {b \in Board : locationId[b] # Nothing}
StrayIdsOfNoSelected == (Ids(Picture) \ Ids(baseline)) \ rebooted
StrayIds == (Ids(Picture) \ Ids(baseline)) \ {locationId[b] : b \in Bound}
StrayPorts == (Picture.download \ baseline.download) \ {port[b] : b \in Bound}
Renumbered == {b \in Bound : port[b] \in Picture.download /\ locationId[b] \notin Ids(Picture)}
Paired ==
    /\ StrayPorts = {}
    /\ Cardinality(Renumbered) = 1 /\ Cardinality(StrayIds) = 1
    /\ StrayIds \subseteq Picture.loader

NewId(b) == IF Paired /\ b \in Renumbered \ maskrom THEN Only(StrayIds) ELSE locationId[b]

Corrected(b) ==
    LET onPort == port[b] \in Picture.download
        inListing == NewId(b) \in Picture.loader
    IN /\ b \in Bound \ maskrom
       /\ b \notin leftInLoader \/ NewId(b) # locationId[b]
       /\ IF b \in resetOk THEN onPort /\ inListing ELSE onPort \/ inListing

\* closeRun() and correctEndedBoards(), as in FleetWriting.
ClosingEnds ==
    /\ Pictured("closing")
    /\ step' = "done"
    /\ \/ Fault /\ UNCHANGED <<locationId, resetOk, leftInLoader, unattributed>>
       \/ /\ locationId' = [b \in Board |-> NewId(b)]
          /\ leftInLoader' = leftInLoader \cup {b \in Board : Corrected(b)}
          /\ resetOk' = {b \in resetOk : ~Corrected(b)}
          /\ unattributed' = IF StrayPorts = {} /\ Cardinality(StrayIds) <= Cardinality(Renumbered)
                             THEN unattributed ELSE unattributed \cup StrayIds
          /\ UNCHANGED faults
    /\ UNCHANGED <<at, shown, told, cur, before, baseline, found, waitOver, draining, stopped, endings,
                   selection, rebooted, layout, port, maskrom, resetOnly>>

\* cancel(): in these phases the step in flight ends first.
Cancel ==
    /\ Idle
    /\ ~draining
    /\ draining' = TRUE
    /\ UNCHANGED <<bench, step, cur, pictures, waitOver, stopped, endings, selection, rebooted, layout,
                   identity, resets, unattributed>>

Finished == step \in {"writing", "done"} /\ UNCHANGED vars

-----------------------------------------------------------------------------
(* The specification.                                                      *)

Init ==
    /\ at \in {a \in [Device -> {"adb", "loader"}] :
                 \A d \in Device : IF d \in Board THEN a[d] = "adb" ELSE a[d] \in StrangersAt}
    /\ shown = [d \in Device |-> Truth(at[d])]
    /\ told = [d \in Device |-> FALSE]
    /\ faults = 0
    /\ step = "devices"
    /\ cur = Nothing
    /\ listed = FALSE /\ listing = {}
    /\ before = NoPicture /\ baseline = NoPicture
    /\ found = [port |-> Nothing, id |-> Nothing]
    /\ waitOver = FALSE
    /\ draining = FALSE /\ stopped = FALSE
    /\ stage = [b \in Board |-> "Selected"]
    /\ result = [b \in Board |-> "Pending"]
    /\ candidate = {} /\ rebooted = {}
    /\ dry \in DryRuns
    /\ layout = [b \in Board |-> "unread"]
    /\ port = [b \in Board |-> Nothing]
    /\ locationId = [b \in Board |-> Nothing]
    /\ maskrom = {}
    /\ resetOnly = {} /\ resetOk = {} /\ leftInLoader = {}
    /\ unattributed = {}

BenchStep(d) == LeavesAdb(d) \/ EntersDownload(d) \/ Boots(d) \/ CatchesUp(d)

RunStep ==
    \/ DevicesEnds \/ BaselineEnds
    \/ MapNext \/ KernelEnds \/ LayoutEnds \/ BeforeEnds \/ RebootEnds
    \/ LdReads \/ PollTimer \/ PollEnds \/ PollFails \/ ConfirmEnds
    \/ ReconcileEnds \/ ClosingEnds
    \/ \E b \in Board : RdEnds(b)

Next ==
    \/ RunStep \/ WaitElapses \/ Cancel
    \/ \E d \in Device : BenchStep(d) \/ StrangerTold(d) \/ BrownOut(d)
    \/ Finished

\* Every command ends (adb and LD carry timeouts), timers fire, and a device
\* that is on its way arrives and is shown at last.
Fairness ==
    /\ WF_vars(RunStep)
    /\ WF_vars(WaitElapses)
    /\ \A d \in Device : WF_vars(BenchStep(d))

Spec == Init /\ [][Next]_vars /\ Fairness

-----------------------------------------------------------------------------
(* Properties.                                                             *)

TypeOK ==
    /\ at \in [Device -> {"adb", "away", "booting", "loader", "maskrom"}]
    /\ shown \in [Device -> SUBSET {"adb", "dl", "ld"}]
    /\ told \in [Device -> BOOLEAN]
    /\ faults \in 0..MaxFaults
    /\ step \in Steps
    /\ cur \in Board \cup {Nothing}
    /\ listed \in BOOLEAN /\ listing \subseteq Device
    /\ {before, baseline} \subseteq Snapshot
    /\ found \in [port : Device \cup {Nothing}, id : Device \cup {Nothing}]
    /\ {waitOver, draining, stopped, dry} \subseteq BOOLEAN
    /\ stage \in [Board -> Stages]
    /\ result \in [Board -> Results]
    /\ layout \in [Board -> Layouts \cup {"unread"}]
    /\ port \in [Board -> Device \cup {Nothing}]
    /\ locationId \in [Board -> Device \cup {Nothing}]
    /\ {candidate, rebooted, maskrom, resetOnly, resetOk, leftInLoader} \subseteq SUBSET Board
    /\ unattributed \subseteq Device

\* A healthy bench - nothing fails, nobody else moves a device, every board gets
\* there in time - is never stopped, however late the views are and whenever the
\* owner cancels, and every board is bound to the port and the id that are its
\* own.
HealthyBenchMaps ==
    (/\ faults = 0 /\ maskrom = {}
     /\ \A b \in Board : layout[b] \in {"unread", "ok"}
     /\ \A d \in Device : at[d] # "maskrom") =>
        /\ ~stopped
        /\ \A b \in Board : locationId[b] \in {Nothing, b} /\ port[b] = locationId[b]
        /\ step = "writing" => InLoader = candidate

\* No two boards are bound to one device: neither their commands nor the port
\* their re-checks look at are ever shared.
NoSharedDevice ==
    \A a, b \in Bound : a # b => locationId[a] # locationId[b] /\ port[a] # port[b]

\* "A LocationID that appeared but belongs to nobody the fleet can name is NEVER
\* reset (an identity it did not learn)", nor is a device that was in a
\* download mode before the run.
OnlyLearnedIdsReset ==
    \A b \in Board : stage[b] = "Resetting" =>
        locationId[b] \notin unattributed \cup Ids(baseline) \cup {Nothing}

\* "An LD that missed the flip gives LoaderNotEnumerated / LdNotListing and polls
\* on": the LocationID a board is bound to is the one of the device on its port.
PortAndIdAreOne == \A b \in Bound : port[b] = locationId[b]

\* Every run that rebooted a board and got its last picture ends with each
\* device LD lists in Loader mode accounted for: a board's own that is reported
\* left there, or nobody's.  (A board whose port and id are two devices can
\* hide one of them: PortAndIdAreOne.)
EndTellsAll ==
    [][step # "done" /\ step' = "done" /\ rebooted # {} /\ faults' = faults /\ PortAndIdAreOne =>
         \A d \in listing : at[d] = "loader" /\ "dl" \in shown[d] =>
             \/ d \in unattributed' \cup Ids(baseline)
             \/ \E b \in Board : locationId'[b] = d /\ b \in leftInLoader']_vars

\* A real run reboots no board next to a device that was in a download mode
\* before it, and a dry run reboots none at all.
RebootsOnCleanBench == rebooted # {} => ~dry /\ baseline.download = {} /\ Ids(baseline) = {}

\* "A board that does not show up in Loader mode on its port in time is skipped
\* and reported, never guessed"; the next board's difference or the
\* reconciliation catches it when it arrives late: no writing starts with a
\* board bound to the device of another.
NeverGuessed == step = "writing" => \A b \in InLoader : locationId[b] = b

\* compare() decides whatever two pictures the mapping holds as the table of the
\* header does.
TableDecides == TableAgrees(before, Picture)

\* What a command is addressed by was learned for that board: the table decides every pair of
\* pictures, no two boards share a device, only a learned id is reset, and no board is
\* rebooted next to a device that was in a download mode before (FleetFlasher, the mapping).
IdentityIsLearned == TableDecides /\ NoSharedDevice /\ OnlyLearnedIdsReset /\ RebootsOnCleanBench

\* The mapping comes to an end, cancelled, stopped or not.
MappingEnds == <>(step \in {"writing", "done"})

=============================================================================
