-------------------------------- MODULE McuBridge --------------------------------
(***************************************************************************)
(* The road to the CC1310 through a board (firmware/McuLink): the steps of *)
(* open(), the bridge process and the socket, the cleanup on the board     *)
(* that every failure, loss and close() runs, and an open() that waits     *)
(* for it.  The adb server keeps the forwards and the board its rfmcu.     *)
(***************************************************************************)
EXTENDS Naturals, FiniteSets

CONSTANTS MaxLinks   \* bound: generations, two to a link

VARIABLES
    state,          \* McuLink::Private::State
    generation,
    selected, touchedBoard, localPort, openAfterClose, cleanupStarted,
    commands,       \* adb commands that have not ended; a cancelled one is given a while to
    bridges,        \* bridge processes that have not ended, each with its generation
    closingBridge,  \* the generation of the one close() waits for; 0 = none
    socket,         \* "none", "connecting", "connected", "stale"
    timers,         \* of "bridge", "connect", "grace", "later"
    forwards,       \* forwards at the adb server: the generations that made them
    rfmcu,          \* generations whose rfmcu runs on the board (0: of an earlier session)
    untold,         \* generations whose forward was made by a command the link did not hear
    refused,        \* generations that adb refused to clean up
    told            \* what became of the last open(): "waiting", "opened", "failed", "lost", "withdrawn"

private == <<generation, selected, touchedBoard, localPort, openAfterClose, cleanupStarted>>
world == <<commands, bridges, forwards, rfmcu, untold, refused>>
bridging == <<state, private, closingBridge, socket, timers, world, told>>

Opening == {"Selecting", "CheckingRfmcu", "StoppingStale", "Forwarding", "StartingBridge", "Connecting"}

BridgeInit ==
    /\ state = "Closed" /\ generation = 0
    /\ selected = FALSE /\ touchedBoard = FALSE /\ localPort = 0 /\ openAfterClose = FALSE /\ cleanupStarted = FALSE
    /\ commands = {} /\ bridges = {} /\ closingBridge = 0 /\ socket = "none" /\ timers = {}
    /\ forwards = {} /\ rfmcu \in SUBSET {0} /\ untold = {} /\ refused = {} /\ told = "none"

Run(what, gen) == [what |-> what, gen |-> gen, cancelled |-> FALSE]
Cancelled == {c \in commands : c.cancelled}

\* beginOpen().
BeginOpen(others) ==
    /\ state' = "Selecting" /\ generation' = generation + 1
    /\ selected' = FALSE /\ localPort' = 0 /\ touchedBoard' = FALSE /\ cleanupStarted' = FALSE
    /\ commands' = others \cup {Run("devices", generation')}
    /\ told' = "waiting"

\* Mutant: an open() during the cleanup does not wait for it.
OpenAtOnce ==
    /\ generation < MaxLinks /\ state \in {"Closed", "Closing"}
    /\ BeginOpen(commands)
    /\ UNCHANGED <<openAfterClose, closingBridge, timers, socket, bridges, forwards, rfmcu, untold, refused>>

\* open(): queued behind the cleanup of the last link.
Open ==
    /\ generation < MaxLinks
    /\ \/ /\ state = "Closing" /\ ~openAfterClose
          /\ openAfterClose' = TRUE /\ told' = "waiting"
          /\ UNCHANGED <<state, generation, selected, touchedBoard, localPort, cleanupStarted, closingBridge, socket, timers, world>>
       \/ /\ state = "Closed"
          /\ BeginOpen(commands)
          /\ UNCHANGED <<openAfterClose, closingBridge, timers, socket, bridges, forwards, rfmcu, untold, refused>>

\* beginClose(): the bridge of this generation is cancelled.
BeginClose(reason) ==
    /\ state' = "Closing" /\ generation' = generation + 1 /\ cleanupStarted' = FALSE
    /\ socket' = IF socket = "none" THEN "none" ELSE "stale"
    /\ closingBridge' = IF \E b \in bridges : b = generation THEN generation ELSE 0
    /\ timers' = IF closingBridge' # 0 THEN {"grace"} ELSE {"later"}
    /\ told' = reason
    /\ UNCHANGED <<selected, touchedBoard, localPort>>

\* close(): the command under way is asked to end, and nobody listens to it any more.
Close ==
    /\ IF state \in {"Closed", "Closing"}
          THEN /\ openAfterClose /\ openAfterClose' = FALSE /\ told' = "withdrawn"
               /\ UNCHANGED <<state, generation, selected, touchedBoard, localPort, cleanupStarted, closingBridge, socket, timers, world>>
          ELSE /\ BeginClose("withdrawn")
               /\ openAfterClose' = FALSE
               /\ commands' = {[c EXCEPT !.cancelled = TRUE] : c \in commands}
               /\ UNCHANGED <<bridges, forwards, rfmcu, untold, refused>>

Fail ==
    /\ BeginClose(IF state = "Open" THEN "lost" ELSE "failed")
    /\ UNCHANGED <<openAfterClose, bridges, forwards, rfmcu, untold, refused>>

\* What the end of a command leaves on the board and at the adb server.  A kill may
\* reach nothing; a forward that the link did not hear of (cancelled, timed out, or
\* without a port in its answer) may have been made.
Effect(c, heard) ==
    /\ rfmcu' \in IF c.what = "killStale" THEN {rfmcu, {}} ELSE {rfmcu}
    /\ \E made \in IF c.what # "forward" THEN {FALSE} ELSE IF heard THEN {TRUE} ELSE BOOLEAN :
          /\ forwards' = IF made THEN forwards \cup {c.gen} ELSE forwards
          /\ untold' = IF made /\ ~heard THEN untold \cup {c.gen} ELSE untold
    /\ UNCHANGED refused

\* Mutant: what a cancelled command reports is taken for the step under way.
ListenedAlways(c) == TRUE
\* watch(): close() moved on from a command it cancelled.
Listened(c) == ~c.cancelled /\ c.gen = generation

\* The command of a step ends; its error closes the link.
Ends(c, ok) ==
    /\ c \in commands /\ Listened(c)
    /\ c.what \in {"devices", "probe", "killStale", "forward"}
    /\ Effect(c, ok)
    /\ IF ~ok
          THEN commands' = commands \ {c} /\ BeginClose("failed") /\ UNCHANGED <<openAfterClose, bridges>>
          ELSE /\ UNCHANGED <<generation, openAfterClose, cleanupStarted, closingBridge, socket, told>>
               /\ commands' = (commands \ {c}) \cup
                     (IF c.what = "forward" THEN {}
                      ELSE {Run(CASE c.what = "devices" -> "probe" [] c.what = "probe" -> "killStale" [] OTHER -> "forward", generation)})
               /\ state' = CASE c.what = "devices" -> "CheckingRfmcu" [] c.what = "probe" -> "StoppingStale"
                             [] c.what = "killStale" -> "Forwarding" [] OTHER -> "StartingBridge"
               /\ selected' = TRUE
               /\ touchedBoard' = (touchedBoard \/ c.what = "probe")
               /\ localPort' = IF c.what = "forward" THEN generation ELSE localPort
               /\ bridges' = IF c.what = "forward" THEN bridges \cup {generation} ELSE bridges
               /\ timers' = IF c.what = "forward" THEN {"bridge"} ELSE timers

\* ProcessInvocation: one that was cancelled ends, by itself or killed after its grace,
\* beside those of the cleanup and of the next open(); watch() drops its end.
CancelledEnds(c) ==
    /\ c \in commands /\ c.cancelled /\ commands' = commands \ {c}
    /\ Effect(c, FALSE)
    /\ UNCHANGED <<state, private, closingBridge, socket, timers, bridges, told>>

\* The bridge starts rfmcu on the board, which holds the UART's lock alone, and
\* says so; startConnecting().
Bridging ==
    /\ state = "StartingBridge" /\ generation \in bridges /\ rfmcu = {}
    /\ rfmcu' = {generation}
    /\ state' = "Connecting" /\ socket' = "connecting" /\ timers' = {"connect"}
    /\ UNCHANGED <<private, closingBridge, commands, bridges, forwards, untold, refused, told>>

\* onConnected().
Connected ==
    /\ state = "Connecting" /\ socket = "connecting"
    /\ state' = "Open" /\ socket' = "connected" /\ timers' = {} /\ told' = "opened"
    /\ UNCHANGED <<private, closingBridge, world>>

\* The socket fails or is closed; a timer of the opening fires.
SocketEnds ==
    /\ state \in {"Connecting", "Open"}
    /\ Fail /\ UNCHANGED commands
TimesOut ==
    /\ \/ "bridge" \in timers /\ state = "StartingBridge"
       \/ "connect" \in timers /\ state = "Connecting"
    /\ Fail /\ UNCHANGED commands

\* finishClose(), and the open() that waited.
FinishClose(others) ==
    /\ socket' = "none"
    /\ IF openAfterClose
          THEN openAfterClose' = FALSE /\ BeginOpen(others)
          ELSE /\ state' = "Closed" /\ localPort' = 0 /\ touchedBoard' = FALSE
               /\ cleanupStarted' = TRUE /\ commands' = others
               /\ UNCHANGED <<generation, selected, openAfterClose, told>>

\* continueClose(): what was done on the board is undone, in order.
ContinueClose ==
    IF cleanupStarted THEN UNCHANGED <<state, private, commands, socket, told>>
    ELSE IF ~selected \/ (~touchedBoard /\ localPort = 0) THEN FinishClose(commands)
    ELSE /\ cleanupStarted' = TRUE
         /\ commands' = commands \cup {Run(IF touchedBoard THEN "kill" ELSE "remove", generation)}
         /\ UNCHANGED <<state, generation, selected, touchedBoard, localPort, openAfterClose, socket, told>>

\* onBridgeFinished().
BridgeEnds(b) ==
    /\ b \in bridges /\ bridges' = bridges \ {b}
    /\ rfmcu' \in {rfmcu, rfmcu \ {b}}
    /\ UNCHANGED <<forwards, untold, refused>>
    /\ IF b = generation
          THEN /\ state \in Opening \cup {"Open"}
               /\ BeginClose(IF state = "Open" THEN "lost" ELSE "failed")
               /\ UNCHANGED <<openAfterClose, commands>>
          ELSE IF state = "Closing" /\ b = closingBridge
          THEN ContinueClose /\ closingBridge' = 0 /\ timers' = timers \ {"grace"}
          ELSE UNCHANGED <<state, private, commands, closingBridge, socket, timers, told>>

\* Mutant: the cleanup waits for the bridge however long it takes.
CloseWaits ==
    /\ "later" \in timers /\ state = "Closing"
    /\ ContinueClose
    /\ timers' = {} /\ closingBridge' = 0
    /\ UNCHANGED <<bridges, forwards, rfmcu, untold, refused>>

\* graceTimer, and the single shot of a link without a bridge.
CloseGoesOn ==
    /\ timers \cap {"grace", "later"} # {} /\ state = "Closing"
    /\ ContinueClose
    /\ timers' = {} /\ closingBridge' = 0
    /\ UNCHANGED <<bridges, forwards, rfmcu, untold, refused>>

\* Mutant: the cleanup ends with the kill.
AfterKillAlways(c) == FALSE
AfterKill(c) == c.what = "kill" /\ localPort # 0

\* The cleanup's commands end, their errors ignored: kill, then removeForward().
CleanupEnds(c, ok) ==
    /\ c \in commands /\ c.gen = generation /\ c.what \in {"kill", "remove"} /\ state = "Closing"
    /\ rfmcu' = IF c.what = "kill" /\ ok THEN {} ELSE rfmcu
    /\ forwards' = IF c.what = "remove" /\ ok THEN forwards \ {localPort} ELSE forwards
    /\ refused' = IF ok THEN refused ELSE refused \cup {localPort}
    /\ IF AfterKill(c)
          THEN /\ commands' = (commands \ {c}) \cup {Run("remove", generation)}
               /\ UNCHANGED <<state, private, socket, told>>
          ELSE FinishClose(commands \ {c})
    /\ UNCHANGED <<bridges, closingBridge, timers, untold>>

BridgeNext ==
    \/ Open \/ Close
    \/ \E c \in commands, ok \in BOOLEAN : Ends(c, ok) \/ CleanupEnds(c, ok)
    \/ \E c \in commands : CancelledEnds(c)
    \/ Bridging \/ Connected \/ SocketEnds \/ TimesOut
    \/ \E b \in bridges : BridgeEnds(b)
    \/ CloseGoesOn

\* Commands end (AdbTool gives each a timeout), cancelled bridges end or their
\* grace does, timers fire.
BridgeFairness ==
    /\ WF_bridging(\E c \in commands, ok \in BOOLEAN : Ends(c, ok) \/ CleanupEnds(c, ok))
    /\ WF_bridging(CloseGoesOn) /\ WF_bridging(TimesOut)

BridgeSpec == BridgeInit /\ [][BridgeNext]_bridging /\ BridgeFairness

-----------------------------------------------------------------------------
\* A link that is down has undone what it knew of: its rfmcu, which would hold the
\* board's UART, and its forward, unless adb refused to.  What stays behind is the
\* forward of a command it did not hear: one that close() cancelled, that timed out
\* or that named no port, which no cleanup removes (close() of McuLink.h has no such
\* exception).  A link that is up has the only bridge and no rfmcu but its own, which
\* a cancelled kill of an earlier open() may still have ended under it.
ClosedIsClean ==
    /\ state = "Closed" => forwards \subseteq untold \cup refused /\ rfmcu \subseteq refused \cup {0}
    /\ state = "Open" => socket = "connected" /\ localPort \in forwards \ untold /\ rfmcu \subseteq {localPort}

\* Commands of two links never run at once, but for those that close() has cancelled: an
\* open() waits for the cleanup.
OneLinkAtATime == \A c, d \in commands : c = d \/ c.cancelled \/ d.cancelled

\* Every open() is answered.
OpenIsAnswered == told = "waiting" ~> told # "waiting"
=============================================================================
