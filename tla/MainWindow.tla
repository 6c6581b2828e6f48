------------------------------- MODULE MainWindow -------------------------------
(***************************************************************************)
(* The main window (ui/MainWindow): its session tabs and its one Firmware  *)
(* tab, opening and closing them, and quitting - with the questions that   *)
(* are asked first, during which the event loop goes on: links come and    *)
(* go and a firmware operation moves from one phase to the next.           *)
(***************************************************************************)
EXTENDS Naturals, FiniteSets

CONSTANTS Sessions,   \* session tabs that can be open
          MaxMoves    \* bound: sessions opened, links changed, operations begun

VARIABLES
    open,       \* session tabs in the window
    up,         \* sessions whose link is up
    logging,    \* sessions that log
    firmware,   \* the Firmware tab: "none", "idle", "waiting" or "writing" (its operation)
    question,   \* what is asked: "none", a session to close, "quit" or "quit firmware"
    profiles,   \* SSH profiles: changed and not saved; the save timer runs
    window,     \* "open" or "closed"
    asks,       \* AppSettings::confirmCloseWhenConnected()
    killed,     \* upgrade_tool was killed while it wrote
    moves

mainWindow == <<open, up, logging, firmware, question, profiles, window, asks, killed, moves>>

Busy == firmware \in {"waiting", "writing"}
UserActs == window = "open" /\ question = "none"

WindowInit ==
    /\ \E s \in Sessions : open = {s}
    /\ up = {} /\ logging = {}
    /\ firmware = "none" /\ question = "none"
    /\ profiles = [dirty |-> FALSE, timer |-> FALSE]
    /\ window = "open" /\ asks \in BOOLEAN
    /\ killed = FALSE /\ moves = 0

Move == moves < MaxMoves /\ moves' = moves + 1

-----------------------------------------------------------------------------
(* What goes on by itself, also behind a question. *)

\* A link comes up (a reconnect, too) or is lost.
Link ==
    /\ window = "open" /\ Move
    /\ \E s \in open : up' = IF s \in up THEN up \ {s} ELSE up \cup {s}
    /\ UNCHANGED <<open, logging, firmware, question, profiles, window, asks, killed>>

\* A firmware operation waits, then writes the flash, then waits for ADB, or ends.
Operation ==
    /\ window = "open"
    /\ \/ firmware = "waiting" /\ firmware' \in {"writing", "idle"}
       \/ firmware = "writing" /\ firmware' \in {"waiting", "idle"}
    /\ Move
    /\ UNCHANGED <<open, up, logging, question, profiles, window, asks, killed>>

\* The store's changed(): the debounce starts; the timer saves.
ProfileChanges ==
    /\ window = "open" /\ ~profiles.dirty /\ Move
    /\ profiles' = [dirty |-> TRUE, timer |-> TRUE]
    /\ UNCHANGED <<open, up, logging, firmware, question, window, asks, killed>>

ProfilesSaved ==
    /\ profiles.timer /\ profiles' = [dirty |-> FALSE, timer |-> FALSE]
    /\ UNCHANGED <<open, up, logging, firmware, question, window, asks, killed, moves>>

-----------------------------------------------------------------------------
(* Tabs. *)

\* newSession(), addSessionTab().
NewSession ==
    /\ UserActs /\ Move
    /\ \E s \in Sessions \ open : open' = open \cup {s}
    /\ UNCHANGED <<up, logging, firmware, question, profiles, window, asks, killed>>

ToggleLog ==
    /\ UserActs /\ Move
    /\ \E s \in open : logging' = IF s \in logging THEN logging \ {s} ELSE logging \cup {s}
    /\ UNCHANGED <<open, up, firmware, question, profiles, window, asks, killed>>

\* A window without a tab gets a new session.
NeverEmpty(tabs, tab) ==
    IF tabs = {} /\ tab = "none" THEN {CHOOSE s \in Sessions : TRUE} ELSE tabs

\* The rest of closeSession(): logging stopped, disconnected, removed.
RemoveSession(s) ==
    /\ open' = NeverEmpty(open \ {s}, firmware)
    /\ up' = up \ {s} /\ logging' = logging \ {s}
    \* A disconnect may touch the store (recent targets).
    /\ profiles' \in {profiles} \cup {[dirty |-> TRUE, timer |-> TRUE] : x \in {s} \cap up}

\* closeSession(): a connected session is asked about.
CloseSession ==
    /\ UserActs
    /\ \E s \in open :
          IF s \in up /\ asks
          THEN question' = s /\ UNCHANGED <<open, up, logging, profiles>>
          ELSE RemoveSession(s) /\ UNCHANGED question
    /\ UNCHANGED <<firmware, window, asks, killed, moves>>

CloseAnswered ==
    /\ question \in Sessions /\ question' = "none"
    /\ \/ RemoveSession(question)
       \/ UNCHANGED <<open, up, logging, profiles>>
    /\ UNCHANGED <<firmware, window, asks, killed, moves>>

\* showFirmwareTab() and a slot of the tab that begins an operation.
ShowFirmware ==
    /\ UserActs /\ firmware = "none" /\ firmware' = "idle"
    /\ UNCHANGED <<open, up, logging, question, profiles, window, asks, killed, moves>>

BeginOperation ==
    /\ UserActs /\ firmware = "idle" /\ Move /\ firmware' = "waiting"
    /\ UNCHANGED <<open, up, logging, question, profiles, window, asks, killed>>

\* Mutant: a waiting operation does not hold its tab.
CloseFirmwareWaiting ==
    /\ UserActs /\ firmware \in {"idle", "waiting"} /\ firmware' = "none"
    /\ open' = NeverEmpty(open, "none")
    /\ UNCHANGED <<up, logging, question, profiles, window, asks, killed, moves>>

\* closeSession() of the Firmware tab: refused while an operation runs.
CloseFirmware ==
    /\ UserActs /\ firmware = "idle" /\ firmware' = "none"
    /\ open' = NeverEmpty(open, "none")
    /\ UNCHANGED <<up, logging, question, profiles, window, asks, killed, moves>>

-----------------------------------------------------------------------------
(* Quitting. *)

\* Mutant: saved before the sessions are disconnected.
AcceptsSavedFirst ==
    /\ window' = "closed" /\ question' = "none"
    /\ profiles' \in {[dirty |-> FALSE, timer |-> FALSE]} \cup {[dirty |-> TRUE, timer |-> TRUE] : s \in up}
    /\ up' = {} /\ logging' = {}
    /\ killed' = (firmware = "writing")
    /\ firmware' = IF firmware = "waiting" THEN "idle" ELSE firmware

\* The end of closeEvent(): logs stopped, sessions disconnected, what can be cancelled
\* cancelled, the profiles saved last; the window that goes away takes the tool runner
\* with it, which kills its process (~ProcessInvocation).
Accepts ==
    /\ window' = "closed" /\ question' = "none"
    /\ up' = {} /\ logging' = {}
    /\ profiles' = [dirty |-> FALSE, timer |-> FALSE]
    /\ killed' = (firmware = "writing")
    /\ firmware' = IF firmware = "waiting" THEN "idle" ELSE firmware

\* closeEvent(): refused while the flash is written; one question for a busy Firmware
\* tab, else one for the connected sessions.
Quit ==
    /\ UserActs /\ firmware # "writing"
    /\ IF Busy THEN question' = "quit firmware"
       ELSE IF up # {} /\ asks THEN question' = "quit"
       ELSE UNCHANGED question
    /\ IF question' = "none" THEN Accepts
       ELSE UNCHANGED <<up, logging, firmware, profiles, window, killed>>
    /\ UNCHANGED <<open, asks, moves>>

QuitAnswered ==
    /\ question \in {"quit", "quit firmware"}
    /\ \/ Accepts
       \/ question' = "none" /\ UNCHANGED <<up, logging, firmware, profiles, window, killed>>
    /\ UNCHANGED <<open, asks, moves>>

Behind == Link \/ Operation \/ ProfileChanges \/ ProfilesSaved
Tabs == NewSession \/ ToggleLog \/ CloseSession \/ CloseAnswered \/ ShowFirmware \/ BeginOperation \/ CloseFirmware

WindowNext == Behind \/ Tabs \/ Quit \/ QuitAnswered

WindowSpec == WindowInit /\ [][WindowNext]_mainWindow

-----------------------------------------------------------------------------
\* The window has a tab as long as it is open, and it takes everything with it when it
\* closes: links, logs, an operation that waits, and the SSH profiles that its own
\* disconnects changed (closeSession, closeEvent).
QuitLeavesNothing ==
    /\ window = "open" => (open # {} \/ firmware # "none")
    /\ up \cup logging \subseteq open
    /\ window = "closed" => up = {} /\ logging = {} /\ ~profiles.dirty /\ firmware # "waiting"

\* An operation never loses its tab (closeSession).
BusyTabStays == [][Busy => firmware' # "none"]_mainWindow

\* "Never while upgrade_tool writes the flash, whatever the user answers".
WriteOutlivesTheQuestion == ~killed
===============================================================================
