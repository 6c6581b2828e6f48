----------------------------- MODULE SerialSession -----------------------------
(* A serial tab (ui/SessionWidget) on its port: the connection bar, the baud    *)
(* rate search of core/BaudRateDetector that tries candidates on the live port  *)
(* while the terminal is muted, and the watchdog that starts one when the       *)
(* output turns unreadable.  The log and the wording of the lines are left out. *)
EXTENDS SerialConnection

CONSTANTS
    Candidates,   \* AppSettings::autoBaudCandidates()
    Talks,        \* what the board may speak: a rate, or one of
    Binary,       \* bytes that are readable at no rate
    Silent        \* no bytes at all

ASSUME SessionAssumption ==
    /\ Candidates \subseteq Rates
    /\ Talks \subseteq Rates \cup {Binary, Silent}

VARIABLES
    talks,      \* what the board speaks now
    autoBaud,   \* "Auto" in the bar and in m_settings, which the bar's signals keep equal
    barRate,    \* the rate the bar stands for: the fixed one, or Auto's effective one
    unrestored, \* the last search ended on a handle without its device, and its driver
                \* did not take the original rate back
    reason,     \* "none", or what the running search was started for (m_detectReason)
    left,       \* candidates the search has not begun
    original,   \* d->originalBaud
    cand,       \* d->current; the port refused it where it is not the port's rate
    heard,      \* d->anyEnough
    held,       \* d->watchdogHeld
    muted,      \* m_terminalMuted
    sampled,    \* the rates at which the bytes in m_detectSample were received
    shown,      \* those of the bytes the last search gave the terminal
    fruitless   \* searches of the watchdog in a row that found nothing readable

search == <<reason, left, original, cand, heard, held, muted, sampled, shown, fruitless>>
bar == <<autoBaud, barRate, unrestored>>
sessionVars == <<vars, talks, bar, search>>

Searching == reason # "none"
Reasons == {"Connect", "Manual", "Watchdog"}

SessionInit ==
    /\ Init
    /\ talks \in Talks
    /\ autoBaud \in BOOLEAN /\ barRate = rate /\ unrestored = FALSE
    /\ reason = "none" /\ left = {} /\ original = rate /\ cand = rate
    /\ heard = FALSE /\ held = FALSE /\ muted = FALSE
    /\ sampled = {} /\ shown = {} /\ fruitless = 0

-----------------------------------------------------------------------------
(* The search.                                                             *)

BeginSearchAtNone(why) ==
    /\ reason' = why
    /\ original' = rate' /\ cand' = 0
    /\ left' = Candidates \ {rate'}
    /\ heard' = FALSE /\ held' = FALSE
    /\ muted' = TRUE /\ sampled' = {}
    /\ shown' = {}
    /\ fruitless' = IF why = "Watchdog" THEN fruitless ELSE 0

\* startBaudDetection() and start(): the rate in use is tried first.  A file
\* that is being sent refuses it, and so do preferences without candidates.
BeginSearch(why) ==
    /\ reason' = why
    /\ original' = rate' /\ cand' = rate'
    /\ left' = Candidates \ {rate'}
    /\ heard' = FALSE /\ held' = FALSE
    /\ muted' = TRUE /\ sampled' = {}
    /\ shown' = {}
    /\ fruitless' = IF why = "Watchdog" THEN fruitless ELSE 0

MayBeginSearch(why) == BeginSearch(why) \/ UNCHANGED search

SearchOverMutedEarly ==
    /\ reason' = "none" /\ left' = {} /\ heard' = FALSE
    /\ muted' = (muted /\ left # {}) /\ sampled' = {}
    /\ UNCHANGED <<original, cand>>

\* What the terminal is given at the end of a search, and the state of the
\* watchdog.  finishSearch(), onBaudDetectionFinished().
SearchOver ==
    /\ reason' = "none" /\ left' = {} /\ heard' = FALSE
    /\ muted' = FALSE /\ sampled' = {}
    /\ UNCHANGED <<original, cand>>

\* A readable candidate: the rate stays, the bar learns it, the muted bytes are
\* shown.
Found(bytes) ==
    /\ SearchOver
    /\ barRate' = rate /\ unrestored' = FALSE
    /\ shown' = bytes
    /\ fruitless' = 0
    /\ UNCHANGED <<rate, held, autoBaud>>

\* finishSearch() applies the original rate; the bar is told of the end only.
Restores ==
    /\ SetSettings(original)
    /\ unrestored' = (rate' # barRate /\ (unrestored \/ handle # "reading"))
    /\ UNCHANGED <<autoBaud, barRate>>

NothingFoundUnheld(anyHeard) ==
    /\ SearchOver
    /\ Restores
    /\ held' = FALSE
    /\ fruitless' = IF anyHeard /\ reason = "Watchdog" /\ fruitless < 2 THEN fruitless + 1 ELSE fruitless
    /\ shown' = {}

\* Bytes at no candidate, or nothing readable at any: the original rate is put
\* back, and in the second case the watchdog is held.
NothingFound(anyHeard) ==
    /\ SearchOver
    /\ Restores
    /\ held' = anyHeard
    /\ fruitless' = IF anyHeard /\ reason = "Watchdog" /\ fruitless < 2 THEN fruitless + 1 ELSE fruitless
    /\ shown' = {}

CancelledByLeavesCandidate(close) ==
    /\ close
    /\ UNCHANGED <<rate, bar>>
    /\ IF Searching
          THEN SearchOver /\ shown' = {} /\ UNCHANGED <<held, fruitless>>
          ELSE UNCHANGED search

\* cancel() of a search whose connection is no longer open: the rate is stored
\* for the next open.
CancelledBy(close) ==
    /\ close
    /\ IF Searching
          THEN SearchOver /\ rate' = original /\ shown' = {} /\ UNCHANGED <<held, fruitless>>
          ELSE UNCHANGED <<rate, search>>
    /\ UNCHANGED bar

\* onSampleData() and the muted terminal: bytes below the minimum.
Muted ==
    /\ Searching /\ handle = "reading" /\ device = "in" /\ talks # Silent
    /\ sampled' = sampled \cup {rate}
    /\ UNCHANGED <<vars, talks, bar, reason, left, original, cand, heard, held, muted, shown, fruitless>>

\* beginCandidate(), then candidateTried(): a refused rate is skipped.
NextCandidateKeepsBytes(anyHeard) ==
    \E c \in left :
        /\ cand' = c
        /\ left' = left \ {c}
        /\ SetSettings(c)
        /\ heard' = anyHeard
        /\ UNCHANGED <<bar, reason, original, held, muted, sampled, shown, fruitless>>

NextCandidate(anyHeard) ==
    \E c \in left :
        /\ cand' = c
        /\ left' = left \ {c}
        /\ SetSettings(c)
        /\ heard' = anyHeard
        /\ sampled' = {}
        /\ UNCHANGED <<bar, reason, original, held, muted, shown, fruitless>>

\* The sample timer fires, or the last of enough bytes arrives.
Enough == {FALSE} \cup (IF handle = "reading" /\ cand = rate /\ talks # Silent THEN {TRUE} ELSE {})

EvaluateCandidateTaken ==
    /\ Searching /\ cand = rate
    /\ \E enough \in Enough :
          IF enough /\ talks = cand
             THEN Found(sampled \cup {rate})
             ELSE IF left # {} THEN NextCandidate(heard \/ enough) ELSE NothingFound(heard \/ enough)
    /\ UNCHANGED <<bus, conn, talks>>

EvaluateCandidate ==
    /\ Searching
    /\ \E enough \in Enough :
          IF enough /\ talks = cand
             THEN Found(sampled \cup {rate})
             ELSE IF left # {} THEN NextCandidate(heard \/ enough) ELSE NothingFound(heard \/ enough)
    /\ UNCHANGED <<bus, conn, talks>>

-----------------------------------------------------------------------------
(* The tab.                                                                *)

\* connectSerial(): "Auto" looks for the rate first.
Connect ==
    /\ OpenWith(barRate)
    /\ IF autoBaud /\ IsOpen' THEN MayBeginSearch("Connect") ELSE UNCHANGED search
    /\ unrestored' = FALSE
    /\ UNCHANGED <<talks, autoBaud, barRate>>

\* A tick of the reconnect timer: the rate stays, no search is started.
Reconnect == TryReconnect /\ UNCHANGED <<talks, bar, search>>

\* Disconnect, or the device leaves; a running search is cancelled by
\* stateChanged().
Disconnect == CancelledBy(Close) /\ UNCHANGED talks
DeviceLeaves == CancelledBy(DeviceError \/ IoErrorOfAbsent \/ PollVanish \/ SimulatorVanishes) /\ UNCHANGED talks

\* onBarSettingsChanged() with "Auto" or a rate, and perhaps another line
\* parameter.  The bar repeats itself on focus changes: the settings the search
\* started from do not disturb it.
Repeats(nowAuto, r, other) == ~other /\ nowAuto = autoBaud /\ (nowAuto \/ r = original)

BarChangesUnchecked(nowAuto, r, other) ==
    LET turnsAuto == nowAuto /\ ~autoBaud /\ IsOpen
    IN /\ \E restored \in IF Searching THEN Accepted(original, rate) ELSE {rate} :
             rate' = IF turnsAuto THEN restored ELSE r
       /\ barRate' = rate' /\ unrestored' = FALSE
       /\ autoBaud' = nowAuto
       /\ \/ turnsAuto /\ BeginSearch("Manual")
          \/ Searching /\ SearchOver /\ shown' = {} /\ UNCHANGED <<held, fruitless>>
          \/ ~Searching /\ UNCHANGED search
       /\ UNCHANGED <<bus, conn, talks>>

\* The search is cancelled (the original rate is put back) before the new
\* settings are applied; a fixed rate that turns "Auto" keeps the rate in use.
BarChanges(nowAuto, r, other) ==
    LET turnsAuto == nowAuto /\ ~autoBaud /\ IsOpen
    IN /\ \E restored \in IF Searching THEN Accepted(original, rate) ELSE {rate} :
             rate' \in Accepted(IF turnsAuto THEN restored ELSE r, restored)
       /\ barRate' = rate' /\ unrestored' = FALSE
       /\ autoBaud' = nowAuto
       /\ \/ turnsAuto /\ BeginSearch("Manual")
          \/ Searching /\ SearchOver /\ shown' = {} /\ UNCHANGED <<held, fruitless>>
          \/ ~Searching /\ UNCHANGED search
       /\ UNCHANGED <<bus, conn, talks>>

\* Auto's effective rate is the one of the last time it was chosen.
BarRates(nowAuto) == IF nowAuto /\ autoBaud THEN {barRate} ELSE Rates

OnBarSettingsChanged ==
    \E nowAuto, other \in BOOLEAN : \E r \in BarRates(nowAuto) :
        /\ ~(Searching /\ Repeats(nowAuto, r, other))
        /\ BarChanges(nowAuto, r, other)

DetectBaudRate ==
    /\ IsOpen /\ ~Searching
    /\ UNCHANGED <<vars, talks, bar>>
    /\ BeginSearch("Manual")

\* feed() and onGarbageDetected() of a window of output the terminal shows: the
\* quiet times of both are over, or the report is swallowed.
Output ==
    /\ handle = "reading" /\ device = "in" /\ talks # Silent
    /\ ~muted /\ autoBaud
    /\ UNCHANGED <<vars, talks, bar>>
    /\ IF talks = rate
          THEN held' = FALSE /\ fruitless' = 0 /\ UNCHANGED <<reason, left, original, cand, heard, muted, sampled, shown>>
          ELSE ~held /\ BeginSearch("Watchdog")

\* The board reboots into something that speaks at another rate.
Comes ==
    /\ ComesBack
    /\ talks' \in Talks
    /\ UNCHANGED <<bar, search>>

Elsewhere ==
    /\ \/ \E on \in BOOLEAN : SetAutoReconnect(on)
       \/ SendBreak \/ BreakElapses
       \/ Unplug \/ IoErrorOfListed \/ Poll
    /\ UNCHANGED <<talks, bar, search>>

SessionNext ==
    \/ EvaluateCandidate \/ Muted \/ Output
    \/ Connect \/ Reconnect \/ Disconnect \/ DeviceLeaves
    \/ OnBarSettingsChanged \/ DetectBaudRate
    \/ Comes \/ Elsewhere

\* Timers fire: the reconnect tick, the poll of the ports, the sample timer.
\* A driver need not report anything, and nobody needs to click.
SessionSpec ==
    /\ SessionInit /\ [][SessionNext]_sessionVars
    /\ WF_sessionVars(Reconnect)
    /\ WF_sessionVars((Poll /\ UNCHANGED <<talks, bar, search>>) \/ (CancelledBy(PollVanish) /\ UNCHANGED talks))
    /\ WF_sessionVars(EvaluateCandidate)

-----------------------------------------------------------------------------
(* Properties.                                                             *)

TypeOK ==
    /\ PortTypeOK
    /\ talks \in Talks /\ autoBaud \in BOOLEAN /\ barRate \in Rates /\ unrestored \in BOOLEAN
    /\ reason \in Reasons \cup {"none"}
    /\ left \subseteq Candidates /\ original \in Rates /\ cand \in Rates
    /\ heard \in BOOLEAN /\ held \in BOOLEAN /\ muted \in BOOLEAN
    /\ sampled \subseteq Rates /\ shown \subseteq Rates
    /\ fruitless \in 0..2

\* m_terminalMuted and isRunning(): the terminal is mute while a search runs on
\* an open port and at no other time, however the search came to its end.
MutedWhileSearching == (muted <=> Searching) /\ (Searching => IsOpen)

\* The rate the port stands at, or the one a running search goes back to, is the rate the
\* bar stands for: what a search tried and gave up is put back.  BaudRateDetector.h says
\* so of every search ("the original rate is restored"); the code keeps it but for one
\* that ends while the port's device is gone and its loss not yet reported, where the
\* driver may refuse the original rate: the candidate stays the port's rate, also after
\* the device has come back, until the bar's rate is applied or a search finds one.
BarTellsTheRate == unrestored \/ barRate = IF Searching THEN original ELSE rate

\* The terminal is given, of the bytes it was not shown during the search, only
\* those received at the rate that was found.
ReplayIsOfTheWinner == [][shown' # shown => shown' \subseteq {rate'}]_sessionVars

\* "no storm": the watchdog does not mute the session again for output its last
\* search has found unreadable at every rate.
NoStorm == fruitless <= 1

\* A search mutes the terminal while it runs and at no other time, does not come again for
\* output it found unreadable, and a line held in BREAK is released (BaudRateDetector,
\* SessionWidget, SerialConnection::sendBreak).
SearchIsQuiet == MutedWhileSearching /\ NoStorm /\ BreakIsTimed

\* A search comes to its end by itself.
SearchEnds == Searching ~> ~Searching

\* A session that waits for its device has it back, or has been told to stop,
\* once the device stays and takes the stored rate.
ComesBackByItself ==
    (state = "Reconnecting" /\ device = "in" /\ rate \in Supported)
        ~> (state # "Reconnecting" \/ device # "in" \/ rate \notin Supported)

\* However late or silent the driver: a session whose device stays away does
\* not stay Connected, once a poll had seen it there.
AbsenceNoticed == (IsOpen /\ listed /\ device = "out") ~> (~IsOpen \/ device # "out")

\* The session drives its port as SerialConnection says.
IsPort == PortSpec

=============================================================================
