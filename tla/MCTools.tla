------------------------------ MODULE MCTools ------------------------------
(***************************************************************************)
(* What the firmware tab and su-fw run: the flash of one board (SocFlash,  *)
(* which this module extends), an external command, the bridge to the MCU, *)
(* the image cache, the inventory, and a run of su-fw itself.  The parts   *)
(* share no state: a behaviour is one of a single part, `which', and the   *)
(* other parts rest.                                                       *)
(***************************************************************************)
EXTENDS SocFlash

CONSTANTS MaxInput, MaxOutput,                            \* ToolRun
          MaxLinks,                                       \* McuBridge
          MaxBuilds, MaxPulls,                            \* ImageCache
          Modes, MaxUpdates, MaxWrites,                   \* InventoryFile
          MaxOptions, MaxEntries, MaxSignals, MaxQuestions, \* CliRun
          MaxFaults

VARIABLES which,
          process, child, posted, flags, given, pendingInput, closeAfterStart, stdin, printed, unread, heard, result,
          state, generation, selected, touchedBoard, localPort, openAfterClose, cleanupStarted, commands, bridges,
          closingBridge, socket, timers, forwards, rfmcu, untold, refused, told,
          disk, remote, runs, failures, pulling, pendingId, answers, cancelRequested, forced, seen, files, done,
          undoing, ended, before, crossed,
          file, asides, lock, work, lastSerial, writes, attached, held, updates, counts, landed, unrecorded,
          line, todo, signals, stop, queued, timer, job, exit

Tool == INSTANCE ToolRun
Bridge == INSTANCE McuBridge
Cache == INSTANCE ImageCache WITH MaxRuns <- MaxPulls, step <- pulling, result <- ended, faults <- failures, todo <- files
Inventory == INSTANCE InventoryFile WITH bench <- attached, flash <- held, writing <- writes
Cli == INSTANCE CliRun

ofTool == <<process, child, posted, flags, given, pendingInput, closeAfterStart, stdin, printed, unread, heard, result>>
ofBridge == <<state, generation, selected, touchedBoard, localPort, openAfterClose, cleanupStarted, commands, bridges,
              closingBridge, socket, timers, forwards, rfmcu, untold, refused, told>>
ofCache == <<disk, remote, runs, failures, pulling, pendingId, answers, cancelRequested, forced, seen, files, done,
             undoing, ended, before, crossed>>
ofInventory == <<file, asides, lock, work, lastSerial, writes, attached, held, updates, counts, landed, unrecorded>>
ofCli == <<line, todo, signals, stop, queued, timer, job, exit>>

\* A mixed bench: a Node board, and a stacked board whose cmdline carries no mtdparts.
TwoBoards == [N |-> [pid |-> Node, layout |-> Node, cmdline |-> Node, product |-> Node],
              G |-> [pid |-> Stacked, layout |-> Stacked, cmdline |-> "none", product |-> Stacked]]
BothBoards == DOMAIN TwoBoards
TwoImages == {[tag |-> Node, env |-> Node], [tag |-> Unknown, env |-> "none"]}
Choice(override, handler, verify, memory, rows) ==
    [override |-> override, force |-> FALSE, handler |-> handler, verify |-> verify, wait |-> verify,
     memory |-> memory, rows |-> rows]
SomeChoices == {Choice(Unknown, TRUE, TRUE, Node, <<"env", "boot">>),
                Choice(Node, FALSE, FALSE, Stacked, <<"env", "boot">>)}

\* A command that could not be started, and a command line that was refused.
ToolRests ==
    /\ process = "none" /\ child = "exited" /\ posted = {}
    /\ flags = [cancel |-> FALSE, timedOut |-> FALSE, finished |-> TRUE, timer |-> FALSE, grace |-> FALSE]
    /\ given = <<>> /\ pendingInput = <<>> /\ closeAfterStart = FALSE /\ stdin = <<>>
    /\ printed = 0 /\ unread = 0 /\ heard = <<Tool!Signal("finished", 0)>> /\ result = Tool!NoResult
CliRests ==
    /\ line = [command |-> "status", options |-> {"bad"}, entries |-> <<>>, interactive |-> FALSE]
    /\ todo = <<>> /\ signals = 0 /\ queued = [interrupts |-> 0, cancel |-> FALSE]
    /\ stop = [interrupted |-> FALSE, timedOut |-> FALSE, cancelPending |-> FALSE]
    /\ timer = "off" /\ job = Cli!NoJob /\ exit = [code |-> "usage", says |-> "none"]

ToolsInit ==
    /\ which \in {"soc", "tool", "bridge", "cache", "inventory", "cli"}
    /\ Init
    /\ which # "soc" => /\ bench = [b \in Boards |-> "away"]
                        /\ built = <<CHOOSE k \in ImageKinds : TRUE>> /\ set = (CHOOSE s \in Settings : TRUE)
    /\ IF which = "tool" THEN Tool!ToolInit ELSE ToolRests
    /\ Bridge!BridgeInit
    /\ which # "bridge" => rfmcu = {}
    /\ Cache!CacheInit
    /\ Inventory!InventoryInit
    /\ IF which = "cli" THEN Cli!CliInit ELSE CliRests

ToolsNext ==
    \/ which = "soc" /\ Next
       /\ UNCHANGED <<which, ofTool, ofBridge, ofCache, ofInventory, ofCli>>
    \/ which = "tool" /\ Tool!ToolNext
       /\ UNCHANGED <<which, vars, ofBridge, ofCache, ofInventory, ofCli>>
    \/ which = "bridge" /\ Bridge!BridgeNext
       /\ UNCHANGED <<which, vars, ofTool, ofCache, ofInventory, ofCli>>
    \/ which = "cache" /\ Cache!CacheNext
       /\ UNCHANGED <<which, vars, ofTool, ofBridge, ofInventory, ofCli>>
    \/ which = "inventory" /\ Inventory!InventoryNext
       /\ UNCHANGED <<which, vars, ofTool, ofBridge, ofCache, ofCli>>
    \/ which = "cli" /\ Cli!CliNext
       /\ UNCHANGED <<which, vars, ofTool, ofBridge, ofCache, ofInventory>>

ToolsSpec ==
    /\ ToolsInit
    /\ [][ToolsNext]_<<which, vars, ofTool, ofBridge, ofCache, ofInventory, ofCli>>
    /\ Fairness /\ Tool!ToolFairness /\ Bridge!BridgeFairness
    /\ Cache!CacheFairness /\ Cli!CliFairness

-----------------------------------------------------------------------------
\* The owner of a command hears its signals in their order, what it printed before its
\* end, and an end that is true; its input arrives in order (ProcessInvocation).
ProcessIsTold == Tool!SignalsInOrder /\ Tool!InputInOrder /\ Tool!ResultIsTrue

\* A flash reports its one end, shares the USB device with no query of the owner's, writes
\* the build whose header was judged, by the layout of its own board, and resets what was
\* read back (SocFlasher).
FlashIsJudged == FinishedOnce /\ ToolsAreFree /\ WritesTheJudgedBuild /\ JudgedByItsOwnLayout /\ VerifiedBeforeReset

\* No partition of a board gets an image of another profile, whatever the owner overrides,
\* and no cancel cuts a write (SocFlasher rules 1 and 3, cancel()).
WritesAreSafe == ForeignImageStaysOff /\ CancelNeverCutsAWrite

\* The bridge to the MCU is one link at a time, and a closed one has undone on the board and
\* at the adb server what it knew of (McuLink): of a forward whose command was cancelled or
\* failed it does not.
BridgeHolds == Bridge!OneLinkAtATime /\ Bridge!ClosedIsClean

\* What is kept on disk can be believed: a pull that is skipped is of the build at hand, a
\* failed one leaves the last image, both but for an image that a roll back left beside the
\* other one's note; no record is lost, and a board runs the rows its record names, but for
\* writes the inventory was not told of (ImagePuller, Inventory).
FilesAreTrue ==
    /\ Cache!SkipIsRight /\ Cache!FailureKeepsTheImage
    /\ Inventory!NothingIsLost /\ Inventory!RecordedRowsRun

\* A run of su-fw acts on the boards its line names, tells in its exit code what became of
\* it, and does nothing after its result line (FirmwareCli).
CliHolds == Cli!ChoiceIsOne /\ Cli!ExitIsTrue /\ Cli!NothingAfterTheEnd

\* What was begun comes to an end: a flash, a command that was cancelled or timed out, an
\* open of the link, a pull, and a run that was interrupted.
ToolsEnd ==
    /\ FlowEnds /\ Tool!CommandEnds /\ Bridge!OpenIsAnswered
    /\ Cache!PullEnds /\ Cli!InterruptEndsTheRun
=============================================================================
