------------------------------ MODULE SerialProofs ------------------------------
(***************************************************************************)
(* What TLAPS proves about a serial port and the tab on it, for any rates,  *)
(* any candidates, any number of departures and failures: the state tells   *)
(* the truth of the port, the port is a Transport, the tab drives it as     *)
(* SerialConnection says, and a search gives back the rate it took.         *)
(***************************************************************************)
EXTENDS SerialSession, TLAPS

-----------------------------------------------------------------------------
(* The port.                                                               *)

\* One message per outage: an outage that has not been told of has none, and a
\* port that is open was told of or is in no outage.
SaidInv == messages \in {0, 1} /\ (~Open /\ ~told => messages = 0)

PortInv == PortTypeOK /\ StateIsTrue /\ BreakIsTimed /\ SaidInv

\* The port starts closed.
LEMMA InitPortInv ==
    ASSUME Init
    PROVE  PortInv
<1>1. listed \in BOOLEAN
  BY Zenon DEF Init
<1>2. flaps \in 0..MaxFlaps /\ faults \in 0..MaxFaults
  BY PortAssumption DEF Init, PortAssumption
<1> QED
  BY <1>1, <1>2 DEF Init, PortInv, PortTypeOK, StateIsTrue, BreakIsTimed, SaidInv, IsOpen, Open

\* A port that opens, by the user or by a tick.
LEMMA OpensPortInv ==
    ASSUME PortInv, rate' \in Rates, ~Open, NEW quiet \in BOOLEAN,
           quiet => state = "Reconnecting",
           OpensPort \/ OpensSimulator(quiet) \/ OpenRefused \/ OpenRejected(quiet)
    PROVE  PortInv'
<1> USE PortAssumption DEF PortAssumption, PortInv, PortTypeOK, StateIsTrue, BreakIsTimed, SaidInv, IsOpen, Open, bus, conn, break
<1>1. CASE OpensPort
  BY <1>1 DEF OpensPort, Opened
<1>2. CASE OpensSimulator(quiet)
  BY <1>2 DEF OpensSimulator, Opened
<1>3. CASE OpenRefused
  BY <1>3 DEF OpenRefused, Fault
<1>4. CASE OpenRejected(quiet)
  BY <1>4 DEF OpenRejected, Fault
<1> QED
  BY <1>1, <1>2, <1>3, <1>4

\* A device that is found gone: the handle is closed and the timer runs where
\* auto-reconnect is on.
LEMMA VanishPortInv ==
    ASSUME PortInv, rate' \in Rates, IsOpen, Vanish,
           port' = port, device' \in {"in", "out", "off"}, listed' \in BOOLEAN,
           flaps' \in 0..MaxFlaps, faults' \in 0..MaxFaults
    PROVE  PortInv'
  BY DEF PortInv, PortTypeOK, StateIsTrue, BreakIsTimed, SaidInv, IsOpen, Open, Vanish, break

\* A handle that fails changes at most the count of the faults.
LEMMA HandleFailsTyped ==
    ASSUME PortInv, HandleFails
    PROVE  /\ IsOpen /\ port' = port /\ device' = device /\ device \in {"in", "out", "off"}
           /\ listed' = listed /\ listed \in BOOLEAN
           /\ flaps' \in 0..MaxFlaps /\ faults' \in 0..MaxFaults
  BY PortAssumption DEF HandleFails, Fault, PortInv, PortTypeOK, PortAssumption

\* Whatever closes the port leaves a state that tells so.
LEMMA ClosesPortInv ==
    ASSUME PortInv, Closes
    PROVE  PortInv'
<1>1. rate' \in Rates
  BY DEF Closes
<1>2. CASE Close
  BY <1>1, <1>2 DEF Close, PortInv, PortTypeOK, StateIsTrue, BreakIsTimed, SaidInv, IsOpen, Open, bus
<1>3. CASE SimulatorVanishes
  <2>1. IsOpen
    BY <1>3 DEF SimulatorVanishes, PortInv, StateIsTrue
  <2>2. flaps' \in 0..MaxFlaps /\ faults' \in 0..MaxFaults
    BY <1>3, PortAssumption DEF SimulatorVanishes, PortInv, PortTypeOK, PortAssumption
  <2>3. port' = port /\ device' \in {"in", "out", "off"} /\ listed' \in BOOLEAN /\ Vanish
    BY <1>3 DEF SimulatorVanishes, PortInv, PortTypeOK
  <2> QED
    BY <1>1, <2>1, <2>2, <2>3, VanishPortInv
<1>4. CASE DeviceError \/ IoErrorOfAbsent
  <2>1. HandleFails /\ Vanish
    BY <1>4 DEF DeviceError, IoErrorOfAbsent
  <2> QED
    BY <1>1, <2>1, HandleFailsTyped, VanishPortInv
<1>5. CASE PollVanish
  <2>1. IsOpen /\ Vanish
    BY <1>5 DEF PollVanish, HearsRemoval
  <2>2. port' = port /\ device' \in {"in", "out", "off"} /\ listed' \in BOOLEAN
        /\ flaps' \in 0..MaxFlaps /\ faults' \in 0..MaxFaults
    BY <1>5 DEF PollVanish, Refresh, PortInv, PortTypeOK
  <2> QED
    BY <1>1, <2>1, <2>2, VanishPortInv
<1> QED
  BY <1>2, <1>3, <1>4, <1>5 DEF Closes

\* A setting is one of the rates asked for.
LEMMA AcceptedTyped ==
    ASSUME NEW wanted \in Rates, NEW old \in Rates
    PROVE  Accepted(wanted, old) \subseteq Rates
  BY DEF Accepted

\* Every step of the port preserves its invariant.
LEMMA NextPortInv ==
    ASSUME PortInv, [Next]_vars
    PROVE  PortInv'
<1>0. rate \in Rates /\ (UNCHANGED rate => rate' \in Rates)
  BY DEF PortInv, PortTypeOK
<1>1. ASSUME NEW wanted \in Rates, OpenWith(wanted) PROVE PortInv'
  <2>1. rate' \in Rates /\ ~Open
    BY <1>0, <1>1, AcceptedTyped DEF OpenWith, SetSettings
  <2>2. OpensPort \/ OpensSimulator(FALSE) \/ OpenRefused \/ OpenRejected(FALSE)
    BY <1>1 DEF OpenWith
  <2> QED
    BY <2>1, <2>2, OpensPortInv
<1>2. ASSUME NEW wanted \in Rates, SetSettings(wanted), UNCHANGED <<bus, conn>> PROVE PortInv'
  <2>1. rate' \in Rates
    BY <1>0, <1>2, AcceptedTyped DEF SetSettings
  <2> QED
    BY <1>2, <2>1 DEF PortInv, PortTypeOK, StateIsTrue, BreakIsTimed, SaidInv, IsOpen, Open, bus, conn, break
<1>3. CASE TryReconnect
  <2>1. OpensPort \/ OpensSimulator(TRUE) \/ OpenRefused \/ OpenRejected(TRUE)
    BY <1>3 DEF TryReconnect
  <2>2. state = "Reconnecting" /\ ~Open /\ rate' \in Rates
    BY <1>0, <1>3 DEF TryReconnect
  <2> QED
    BY <2>1, <2>2, OpensPortInv
<1>4. CASE Closes
  BY <1>4, ClosesPortInv
<1> USE DEF PortInv, PortTypeOK, StateIsTrue, BreakIsTimed, SaidInv, IsOpen, Open, bus, conn, break
<1>5. ASSUME NEW on \in BOOLEAN, SetAutoReconnect(on) PROVE PortInv'
  BY <1>5 DEF SetAutoReconnect, StopReconnecting
<1>6. CASE SendBreak \/ BreakElapses
  <2>1. CASE SendBreak
    BY <2>1 DEF SendBreak
  <2>2. ASSUME BreakElapses, Open PROVE PortInv'
    BY <2>2 DEF BreakElapses
  <2>3. ASSUME BreakElapses, ~Open PROVE PortInv'
    BY <2>3 DEF BreakElapses
  <2> QED
    BY <1>6, <2>1, <2>2, <2>3
<1>7. CASE Unplug
  BY <1>7, PortAssumption DEF Unplug, PortAssumption
<1>8. CASE ComesBack
  BY <1>8 DEF ComesBack
<1>9. CASE IoErrorOfListed
  BY <1>9, PortAssumption DEF IoErrorOfListed, HandleFails, Fault, PortAssumption
<1>10. CASE Poll
  BY <1>10 DEF Poll, Refresh
<1>11. CASE UNCHANGED vars
  BY <1>11 DEF vars
<1> QED
  BY <1>1, <1>2, <1>3, <1>4, <1>5, <1>6, <1>7, <1>8, <1>9, <1>10, <1>11 DEF Next

\* The invariant of a port, whoever drives it.
THEOREM PortInvariance == PortSpec => []PortInv
<1>1. Init => PortInv
  BY InitPortInv
<1>2. PortInv /\ [Next]_vars => PortInv'
  BY NextPortInv
<1> QED
  BY <1>1, <1>2, PTL DEF PortSpec

-----------------------------------------------------------------------------
(* The port is a Transport.                                                *)

\* Every step of the port is a step of a Transport, or none.
LEMMA StepOfTransport ==
    ASSUME PortInv, [Next]_vars
    PROVE  [T!Next]_T!vars
<1> USE DEF T!Next, T!vars, T!Open, T!Drop, T!Restore, T!Close, T!SetAutoReconnect
<1> DEFINE Held == UNCHANGED <<state, auto, link>>
<1>0. state \in {"Disconnected", "Connected", "Reconnecting"} /\ (Open => IsOpen)
  BY DEF PortInv, PortTypeOK, StateIsTrue
<1>1. ASSUME NEW quiet \in BOOLEAN, ~IsOpen,
             OpensPort \/ OpensSimulator(quiet) \/ OpenRefused \/ OpenRejected(quiet)
      PROVE  [T!Next]_T!vars
  <2>1. CASE Opened
    BY <1>0, <1>1, <2>1 DEF Opened, IsOpen
  <2>2. CASE Held
    BY <2>2
  <2> QED
    BY <1>1, <2>1, <2>2 DEF OpensPort, OpensSimulator, OpenRefused, OpenRejected, conn
<1>2. ASSUME IsOpen, Vanish PROVE [T!Next]_T!vars
  BY <1>2 DEF Vanish, IsOpen
<1>3. ASSUME NEW wanted \in Rates, OpenWith(wanted) PROVE [T!Next]_T!vars
  BY <1>1, <1>3 DEF OpenWith
<1>4. CASE TryReconnect
  BY <1>1, <1>4 DEF TryReconnect, IsOpen
<1>5. CASE Closes
  <2>1. CASE Close
    BY <2>1 DEF Close
  <2>2. CASE ~Close
    BY <1>0, <1>2, <1>5, <2>2
    DEF Closes, SimulatorVanishes, DeviceError, IoErrorOfAbsent, PollVanish, HandleFails, HearsRemoval
  <2> QED
    BY <2>1, <2>2
<1>6. ASSUME NEW on \in BOOLEAN, SetAutoReconnect(on) PROVE [T!Next]_T!vars
  BY <1>6 DEF SetAutoReconnect, StopReconnecting
<1>7. ASSUME NEW wanted \in Rates, SetSettings(wanted), UNCHANGED <<bus, conn>> PROVE [T!Next]_T!vars
  BY <1>7 DEF conn
<1>8. CASE SendBreak \/ BreakElapses \/ Unplug \/ ComesBack \/ IoErrorOfListed \/ Poll \/ UNCHANGED vars
  BY <1>8 DEF SendBreak, BreakElapses, Unplug, ComesBack, IoErrorOfListed, Poll, vars, conn
<1> QED
  BY <1>3, <1>4, <1>5, <1>6, <1>7, <1>8 DEF Next

\* Transport.h's contract, kept by every serial port.
THEOREM PortIsTransport == PortSpec => IsTransport
<1>1. Init => T!Init
  BY DEF Init, T!Init
<1>2. PortInv /\ [Next]_vars => [T!Next]_T!vars
  BY StepOfTransport
<1> QED
  BY <1>1, <1>2, PortInvariance, PTL DEF PortSpec, IsTransport, T!Spec

\* What the port promises, conjunct by conjunct: the shown state is the port's,
\* a BREAK is released, an outage is reported once.
THEOREM PortIsTrue == PortSpec => [](StateIsTrue /\ BreakIsTimed /\ SaidOnce)
<1>1. PortInv => StateIsTrue /\ BreakIsTimed /\ SaidOnce
  BY DEF PortInv, SaidInv, SaidOnce
<1> QED
  BY <1>1, PortInvariance, PTL

-----------------------------------------------------------------------------
(* The tab.                                                                *)

SearchTyped ==
    /\ talks \in Talks /\ autoBaud \in BOOLEAN /\ barRate \in Rates /\ unrestored \in BOOLEAN
    /\ reason \in Reasons \cup {"none"}
    /\ left \subseteq Candidates /\ original \in Rates /\ cand \in Rates
    /\ heard \in BOOLEAN /\ held \in BOOLEAN /\ muted \in BOOLEAN
    /\ sampled \subseteq Rates /\ shown \subseteq Rates

\* The bytes that were muted were received at the rate the port runs at.
SampleInv == sampled \subseteq {rate} /\ (~Searching => sampled = {})

\* Output no rate made readable holds the watchdog until something readable
\* comes, or somebody asks for a search.
HeldInv == fruitless = 0 \/ (fruitless = 1 /\ held /\ ~Searching)

SessionInv == PortInv /\ SearchTyped /\ MutedWhileSearching /\ SampleInv /\ HeldInv

\* What a search puts back is a rate the driver has taken.
Runs(r) == Simulated \/ r \in Supported
RateInv ==
    /\ IsOpen => Runs(rate)
    /\ Searching => Runs(original)
    /\ BarTellsTheRate

\* The session's steps are the port's.
LEMMA SessionStepOfPort ==
    ASSUME SessionInv, [SessionNext]_sessionVars
    PROVE  [Next]_vars
<1> USE DEF vars
<1>0. Candidates \subseteq Rates /\ rate \in Rates /\ original \in Rates /\ barRate \in Rates /\ left \subseteq Rates
  BY SessionAssumption DEF SessionInv, PortInv, PortTypeOK, SearchTyped, SessionAssumption
<1>1. ASSUME NEW w \in Rates, SetSettings(w), UNCHANGED <<bus, conn>> PROVE Next
  BY <1>1 DEF Next
<1>2. CASE EvaluateCandidate
  <2>1. (\E w \in Rates : SetSettings(w)) \/ UNCHANGED rate
    BY <1>0, <1>2 DEF EvaluateCandidate, Found, NextCandidate, NothingFound, Restores
  <2> QED
    BY <1>1, <1>2, <2>1 DEF EvaluateCandidate
<1>3. CASE Muted \/ Output \/ DetectBaudRate \/ UNCHANGED sessionVars
  BY <1>3 DEF Muted, Output, DetectBaudRate, sessionVars
<1>4. CASE Connect
  BY <1>0, <1>4 DEF Connect, Next
<1>5. CASE Reconnect
  BY <1>5 DEF Reconnect, Next
<1>6. CASE Disconnect \/ DeviceLeaves
  BY <1>0, <1>6 DEF Disconnect, DeviceLeaves, CancelledBy, Closes, Next
<1>7. CASE OnBarSettingsChanged
  <2>1. PICK nowAuto \in BOOLEAN, other \in BOOLEAN, r \in Rates : BarChanges(nowAuto, r, other)
    BY <1>0, <1>7 DEF OnBarSettingsChanged, BarRates
  <2>2. \E w \in Rates : SetSettings(w)
    BY <1>0, <2>1 DEF BarChanges, SetSettings, Accepted
  <2> QED
    BY <1>1, <2>1, <2>2 DEF BarChanges
<1>8. CASE Comes \/ Elsewhere
  BY <1>8 DEF Comes, Elsewhere, Next
<1> QED
  BY <1>2, <1>3, <1>4, <1>5, <1>6, <1>7, <1>8 DEF SessionNext

\* A search that begins on an open port mutes the terminal and takes the rate.
LEMMA BeginSearchInv ==
    ASSUME SessionInv, NEW why \in Reasons, BeginSearch(why), rate' \in Rates, IsOpen',
           why = "Watchdog" => ~held, talks' = talks, autoBaud' \in BOOLEAN, barRate' \in Rates,
           unrestored' \in BOOLEAN
    PROVE  (SearchTyped /\ MutedWhileSearching /\ SampleInv /\ HeldInv)' /\ Searching' /\ original' = rate'
  BY SessionAssumption
  DEF SessionInv, SearchTyped, MutedWhileSearching, SampleInv, HeldInv, BeginSearch, Searching, Reasons, SessionAssumption

\* A search that is over, with what is left of it.
LEMMA SearchOverInv ==
    ASSUME SessionInv, SearchOver, rate' \in Rates, talks' = talks, autoBaud' \in BOOLEAN, barRate' \in Rates,
           unrestored' \in BOOLEAN, shown' \subseteq Rates, held' \in BOOLEAN,
           fruitless' = 0 \/ (fruitless' = 1 /\ held')
    PROVE  (SearchTyped /\ MutedWhileSearching /\ SampleInv /\ HeldInv)' /\ ~Searching'
  BY SessionAssumption
  DEF SessionInv, SearchTyped, MutedWhileSearching, SampleInv, HeldInv, SearchOver, Searching, Reasons, SessionAssumption

\* A candidate evaluated: found, the next one, or none left.
LEMMA EvaluateInv ==
    ASSUME SessionInv, EvaluateCandidate
    PROVE  (SearchTyped /\ MutedWhileSearching /\ SampleInv /\ HeldInv)'
<1>0. /\ Candidates \subseteq Rates /\ rate \in Rates /\ original \in Rates /\ barRate \in Rates
      /\ left \subseteq Candidates /\ sampled \subseteq {rate} /\ autoBaud \in BOOLEAN /\ unrestored \in BOOLEAN /\ talks' = talks
      /\ Searching /\ fruitless = 0 /\ IsOpen' = IsOpen
  BY SessionAssumption
  DEF SessionInv, PortInv, PortTypeOK, SearchTyped, SampleInv, HeldInv, EvaluateCandidate, SessionAssumption, conn, IsOpen
<1>1. CASE Found(sampled \cup {rate})
  BY <1>0, <1>1, SearchOverInv DEF Found, SessionInv, SearchTyped
<1>2. ASSUME NEW anyHeard \in BOOLEAN, NextCandidate(anyHeard)
      PROVE  (SearchTyped /\ MutedWhileSearching /\ SampleInv /\ HeldInv)'
  <2>1. PICK c \in left : cand' = c /\ left' = left \ {c} /\ SetSettings(c) /\ heard' = anyHeard /\ sampled' = {}
                          /\ UNCHANGED <<bar, reason, original, held, muted, shown, fruitless>>
    BY <1>2 DEF NextCandidate
  <2> QED
    BY <1>0, <2>1 DEF SessionInv, SearchTyped, MutedWhileSearching, SampleInv, HeldInv, Searching, bar
<1>3. ASSUME NEW anyHeard \in BOOLEAN, NothingFound(anyHeard)
      PROVE  (SearchTyped /\ MutedWhileSearching /\ SampleInv /\ HeldInv)'
  <2>1. rate' \in Rates
    BY <1>0, <1>3, AcceptedTyped DEF NothingFound, Restores, SetSettings
  <2>2. fruitless' = 0 \/ (fruitless' = 1 /\ held')
    BY <1>0, <1>3 DEF NothingFound
  <2> QED
    BY <1>0, <1>3, <2>1, <2>2, SearchOverInv DEF NothingFound, Restores
<1>4. PICK enough \in Enough :
        IF enough /\ talks = cand
           THEN Found(sampled \cup {rate})
           ELSE IF left # {} THEN NextCandidate(heard \/ enough) ELSE NothingFound(heard \/ enough)
  BY DEF EvaluateCandidate
<1>5. (heard \/ enough) \in BOOLEAN
  OBVIOUS
<1> QED
  BY <1>1, <1>2, <1>3, <1>4, <1>5

\* A step that leaves the search alone.
LEMMA SearchKept ==
    ASSUME SessionInv, UNCHANGED <<autoBaud, barRate, search>>, unrestored' \in BOOLEAN, talks' \in Talks,
           Searching => IsOpen' /\ rate' = rate,
           rate' \in Rates
    PROVE  (SearchTyped /\ MutedWhileSearching /\ SampleInv /\ HeldInv)'
  BY DEF SessionInv, SearchTyped, MutedWhileSearching, SampleInv, HeldInv, Searching, search

\* A search that is cancelled by its connection's end.
LEMMA CancelledByInv ==
    ASSUME SessionInv, NEW ACTION close, CancelledBy(close), ~IsOpen', rate' \in Rates, talks' = talks
    PROVE  (SearchTyped /\ MutedWhileSearching /\ SampleInv /\ HeldInv)'
<1>0. autoBaud' \in BOOLEAN /\ barRate' \in Rates /\ unrestored' \in BOOLEAN /\ talks' \in Talks
  BY DEF CancelledBy, SessionInv, SearchTyped, bar
<1>1. CASE Searching
  <2>1. SearchOver /\ shown' = {} /\ held' \in BOOLEAN /\ fruitless' = 0
    BY <1>1 DEF CancelledBy, SessionInv, SearchTyped, HeldInv
  <2> QED
    BY <1>0, <2>1, SearchOverInv
<1>2. CASE ~Searching
  BY <1>0, <1>2, SearchKept DEF CancelledBy, bar
<1> QED
  BY <1>1, <1>2

\* The bar changes: the search ends, begins, or neither is concerned.
LEMMA BarChangesInv ==
    ASSUME SessionInv, rate' \in Rates,
           NEW nowAuto \in BOOLEAN, NEW r \in Rates, NEW other \in BOOLEAN, BarChanges(nowAuto, r, other)
    PROVE  (SearchTyped /\ MutedWhileSearching /\ SampleInv /\ HeldInv)'
<1>0. /\ autoBaud' \in BOOLEAN /\ barRate' \in Rates /\ unrestored' \in BOOLEAN
      /\ talks' = talks /\ talks \in Talks /\ IsOpen' = IsOpen
  BY DEF BarChanges, SessionInv, SearchTyped, conn, IsOpen
<1>1. CASE IsOpen /\ BeginSearch("Manual")
  BY <1>0, <1>1, BeginSearchInv DEF Reasons
<1>2. CASE Searching /\ SearchOver /\ shown' = {} /\ UNCHANGED <<held, fruitless>>
  <2>1. held' \in BOOLEAN /\ fruitless' = 0
    BY <1>2 DEF SessionInv, SearchTyped, HeldInv
  <2> QED
    BY <1>0, <1>2, <2>1, SearchOverInv
<1>3. CASE ~Searching /\ UNCHANGED search
  BY <1>0, <1>3 DEF SessionInv, SearchTyped, MutedWhileSearching, SampleInv, HeldInv, Searching, search
<1> QED
  BY <1>1, <1>2, <1>3 DEF BarChanges

\* Every step of the tab preserves its invariant.
LEMMA SessionNextInv ==
    ASSUME SessionInv, [SessionNext]_sessionVars
    PROVE  SessionInv'
<1> DEFINE Kept == (SearchTyped /\ MutedWhileSearching /\ SampleInv /\ HeldInv)'
<1>0. PortInv' /\ rate' \in Rates /\ rate \in Rates /\ (Searching => IsOpen) /\ (IsOpen <=> Open)
  <2>1. PortInv'
    BY SessionStepOfPort, NextPortInv DEF SessionInv
  <2> QED
    BY <2>1 DEF SessionInv, MutedWhileSearching, PortInv, PortTypeOK, StateIsTrue
<1> SUFFICES Kept
  BY <1>0 DEF SessionInv
<1>1. talks \in Talks /\ autoBaud \in BOOLEAN /\ barRate \in Rates /\ unrestored \in BOOLEAN
  BY DEF SessionInv, SearchTyped
<1>2. CASE EvaluateCandidate
  BY <1>2, EvaluateInv
<1>3. CASE Muted
  BY <1>0, <1>3
  DEF Muted, vars, SessionInv, SearchTyped, MutedWhileSearching, SampleInv, HeldInv, Searching, bar, IsOpen, conn
<1>4. CASE Output
  <2>1. CASE talks = rate
    BY <1>4, <2>1
    DEF Output, vars, SessionInv, SearchTyped, MutedWhileSearching, SampleInv, HeldInv, Searching, bar, IsOpen, conn
  <2>2. CASE talks # rate
    <3>1. ~held /\ BeginSearch("Watchdog") /\ "Watchdog" \in Reasons /\ talks' = talks /\ IsOpen'
          /\ autoBaud' \in BOOLEAN /\ barRate' \in Rates /\ unrestored' \in BOOLEAN
      BY <1>0, <1>1, <1>4, <2>2 DEF Output, Reasons, vars, bar, conn, IsOpen, Open
    <3> QED
      BY <1>0, <3>1, BeginSearchInv
  <2> QED
    BY <2>1, <2>2
<1>5. CASE Connect
  <2>0. ~Searching /\ talks' = talks /\ autoBaud' = autoBaud /\ barRate' = barRate /\ unrestored' \in BOOLEAN
    BY <1>0, <1>5 DEF Connect, OpenWith
  <2>1. CASE UNCHANGED search
    BY <1>0, <1>1, <2>0, <2>1, SearchKept
  <2>2. CASE IsOpen' /\ BeginSearch("Connect")
    BY <1>0, <1>1, <2>0, <2>2, BeginSearchInv DEF Reasons
  <2> QED
    BY <1>5, <2>1, <2>2 DEF Connect, MayBeginSearch
<1>6. CASE Reconnect
  <2>1. ~Searching /\ talks' = talks /\ UNCHANGED <<autoBaud, barRate, unrestored, search>>
    BY <1>0, <1>6 DEF Reconnect, TryReconnect, bar
  <2> QED
    BY <1>0, <1>1, <2>1, SearchKept
<1>7. CASE Disconnect
  <2>1. talks' = talks /\ Close /\ ~IsOpen'
    BY <1>7 DEF Disconnect, CancelledBy, Close, IsOpen
  <2> QED
    BY <1>0, <1>7, <2>1, CancelledByInv DEF Disconnect
<1>8. CASE DeviceLeaves
  <2>1. talks' = talks /\ CancelledBy(DeviceError \/ IoErrorOfAbsent \/ PollVanish \/ SimulatorVanishes)
    BY <1>8 DEF DeviceLeaves
  <2>2. ~IsOpen'
    BY <2>1 DEF CancelledBy, DeviceError, IoErrorOfAbsent, PollVanish, SimulatorVanishes, Vanish, IsOpen
  <2> QED
    BY <1>0, <2>1, <2>2, CancelledByInv
<1>9. CASE OnBarSettingsChanged
  BY <1>0, <1>1, <1>9, BarChangesInv DEF OnBarSettingsChanged, BarRates
<1>10. CASE DetectBaudRate
  <2>1. BeginSearch("Manual") /\ IsOpen' /\ talks' = talks /\ UNCHANGED bar
    BY <1>10 DEF DetectBaudRate, vars, conn, bar, IsOpen
  <2> QED
    BY <1>0, <1>1, <2>1, BeginSearchInv DEF Reasons, bar
<1>11. CASE Comes
  <2>1. IsOpen' = IsOpen /\ rate' = rate /\ talks' \in Talks /\ UNCHANGED <<autoBaud, barRate, unrestored, search>>
    BY <1>11 DEF Comes, ComesBack, conn, bar, IsOpen
  <2> QED
    BY <1>0, <1>1, <2>1, SearchKept
<1>12. CASE Elsewhere
  <2>1. talks' = talks /\ rate' = rate /\ UNCHANGED <<autoBaud, barRate, unrestored, search>>
    BY <1>12 DEF Elsewhere, SetAutoReconnect, SendBreak, BreakElapses, Unplug, IoErrorOfListed, Poll, bar
  <2>2. IsOpen => IsOpen'
    BY <1>12
    DEF Elsewhere, SetAutoReconnect, StopReconnecting, SendBreak, BreakElapses, Unplug, IoErrorOfListed, Poll, IsOpen, conn
  <2> QED
    BY <1>0, <1>1, <2>1, <2>2, SearchKept
<1>13. CASE UNCHANGED sessionVars
  BY <1>0, <1>1, <1>13, SearchKept DEF sessionVars, vars, conn, bar, IsOpen
<1> QED
  BY <1>2, <1>3, <1>4, <1>5, <1>6, <1>7, <1>8, <1>9, <1>10, <1>11, <1>12, <1>13 DEF SessionNext

\* The invariant of a tab.
THEOREM SessionInvariance == SessionSpec => []SessionInv
<1>1. SessionInit => SessionInv
  <2> SUFFICES ASSUME SessionInit PROVE SessionInv
    OBVIOUS
  <2>1. PortInv /\ rate \in Rates
    BY InitPortInv DEF SessionInit, Init
  <2> QED
    BY <2>1 DEF SessionInit, SessionInv, SearchTyped, MutedWhileSearching, SampleInv, HeldInv, Searching
<1>2. SessionInv /\ [SessionNext]_sessionVars => SessionInv'
  BY SessionNextInv
<1> QED
  BY <1>1, <1>2, PTL DEF SessionSpec

\* The tab drives its port as SerialConnection says, so it is carried by a
\* Transport.
THEOREM SessionDrivesPort == SessionSpec => IsPort /\ IsTransport
<1>1. SessionInit => Init
  BY DEF SessionInit
<1>2. SessionInv /\ [SessionNext]_sessionVars => [Next]_vars
  BY SessionStepOfPort
<1>3. SessionSpec => IsPort
  BY <1>1, <1>2, SessionInvariance, PTL DEF SessionSpec, IsPort, PortSpec
<1>4. IsPort => IsTransport
  BY PortIsTransport DEF IsPort
<1> QED
  BY <1>3, <1>4

\* The types, the mute and the watchdog's hold, for any candidates.
THEOREM SessionSafety ==
    SessionSpec => [](TypeOK /\ StateIsTrue /\ SearchIsQuiet /\ SaidOnce)
<1>1. SessionInv => TypeOK /\ StateIsTrue /\ SearchIsQuiet /\ SaidOnce
  BY DEF SessionInv, PortInv, SaidInv, SaidOnce, SearchTyped, TypeOK, HeldInv, NoStorm, SearchIsQuiet
<1> QED
  BY <1>1, SessionInvariance, PTL

\* A step gives the terminal bytes of the rate it ends at, if any.
LEMMA ReplayStep ==
    ASSUME SessionInv, [SessionNext]_sessionVars
    PROVE  shown' # shown => shown' \subseteq {rate'}
<1> SUFFICES ASSUME shown' # shown, shown' # {} PROVE shown' \subseteq {rate'}
  OBVIOUS
<1>1. EvaluateCandidate
  <2>1. CASE Connect \/ DetectBaudRate \/ Output \/ OnBarSettingsChanged
    BY <2>1 DEF Connect, MayBeginSearch, DetectBaudRate, Output, OnBarSettingsChanged, BarChanges, BeginSearch, search
  <2>2. CASE Disconnect \/ DeviceLeaves
    BY <2>2 DEF Disconnect, DeviceLeaves, CancelledBy, search
  <2>3. CASE Muted \/ Reconnect \/ Comes \/ Elsewhere \/ UNCHANGED sessionVars
    BY <2>3 DEF Muted, Reconnect, Comes, Elsewhere, sessionVars, search
  <2> QED
    BY <2>1, <2>2, <2>3 DEF SessionNext
<1>2. PICK enough \in Enough :
        \/ Found(sampled \cup {rate})
        \/ NextCandidate(heard \/ enough)
        \/ NothingFound(heard \/ enough)
  BY <1>1 DEF EvaluateCandidate
<1>3. Found(sampled \cup {rate})
  BY <1>2 DEF NextCandidate, NothingFound
<1> QED
  BY <1>3 DEF Found, SessionInv, SampleInv

\* The terminal is only ever given bytes of the rate that was found.
THEOREM ReplayOfTheWinner == SessionSpec => ReplayIsOfTheWinner
<1>1. SessionInv /\ [SessionNext]_sessionVars => [shown' # shown => shown' \subseteq {rate'}]_sessionVars
  BY ReplayStep
<1> QED
  BY <1>1, SessionInvariance, PTL DEF SessionSpec, ReplayIsOfTheWinner

\* An open port runs at a rate its driver took: the wanted one, where it still reads.
LEMMA RunsAccepted ==
    ASSUME NEW wanted, NEW old, NEW new \in Accepted(wanted, old)
    PROVE  /\ Runs(wanted) /\ (handle = "reading" \/ Simulated \/ ~Open) => new = wanted
           /\ Open /\ Runs(old) => Runs(new)
  BY DEF Accepted, Runs

\* A port that opens runs at its rate.
LEMMA OpensRunning ==
    ASSUME NEW quiet \in BOOLEAN, ~IsOpen, IsOpen',
           OpensPort \/ OpensSimulator(quiet) \/ OpenRefused \/ OpenRejected(quiet)
    PROVE  Runs(rate)'
  BY DEF OpensPort, OpensSimulator, OpenRefused, OpenRejected, Runs, Simulated, IsOpen, conn

\* Every step keeps the bar's rate the one to go back to, or has seen a driver refuse it.
LEMMA RateStep ==
    ASSUME SessionInv, SessionInv', RateInv, [SessionNext]_sessionVars
    PROVE  RateInv'
<1> USE DEF RateInv, BarTellsTheRate
<1>0. /\ Runs(rate)' <=> port' = "sim" \/ rate' \in Supported
      /\ Searching => IsOpen /\ reason \in Reasons
      /\ Searching' => IsOpen'
      /\ IsOpen <=> Open
  BY DEF Runs, Simulated, SessionInv, MutedWhileSearching, PortInv, StateIsTrue, SearchTyped, Searching
<1> DEFINE Same == port' = port /\ IsOpen' = IsOpen
<1>1. CASE EvaluateCandidate
  <2>1. Same /\ Searching
    BY <1>1 DEF EvaluateCandidate, bus, conn, IsOpen
  <2>2. PICK enough \in Enough :
          \/ Found(sampled \cup {rate})
          \/ NextCandidate(heard \/ enough)
          \/ NothingFound(heard \/ enough)
    BY <1>1 DEF EvaluateCandidate
  <2>3. CASE Found(sampled \cup {rate})
    BY <1>0, <2>1, <2>3 DEF Found, SearchOver, Runs, Simulated, Searching
  <2>4. CASE NextCandidate(heard \/ enough)
    <3>1. Runs(rate)'
      BY <1>0, <2>1, <2>4, RunsAccepted DEF NextCandidate, SetSettings, Runs, Simulated
    <3>2. original' = original /\ UNCHANGED <<barRate, unrestored>> /\ Searching'
      BY <2>1, <2>4 DEF NextCandidate, Searching, bar
    <3> QED
      BY <2>1, <3>1, <3>2 DEF Runs, Simulated
  <2>5. CASE NothingFound(heard \/ enough)
    <3>1. /\ rate' \in Accepted(original, rate) /\ barRate' = barRate /\ ~Searching'
          /\ unrestored' = (rate' # barRate /\ (unrestored \/ handle # "reading"))
      BY <2>5 DEF NothingFound, Restores, SetSettings, SearchOver, Searching
    <3>2. Runs(original) /\ Runs(rate) /\ Open
      BY <1>0, <2>1
    <3>3. Runs(rate') /\ (handle = "reading" => rate' = original)
      BY <3>1, <3>2, RunsAccepted
    <3> QED
      BY <2>1, <3>1, <3>3 DEF Runs, Simulated
  <2> QED
    BY <2>2, <2>3, <2>4, <2>5
<1>2. CASE Muted \/ UNCHANGED sessionVars
  <2>1. Same /\ rate' = rate /\ UNCHANGED <<barRate, unrestored>> /\ original' = original /\ reason' = reason
    BY <1>2 DEF Muted, sessionVars, vars, bus, conn, bar, search, IsOpen
  <2> QED
    BY <2>1 DEF Runs, Simulated, Searching
<1>3. CASE Output \/ DetectBaudRate
  <2>1. Same /\ rate' = rate /\ UNCHANGED <<barRate, unrestored>> /\ IsOpen
    BY <1>0, <1>3 DEF Output, DetectBaudRate, vars, bus, conn, bar, IsOpen, Open
  <2>2. UNCHANGED <<reason, original>> \/ (original' = rate /\ ~Searching)
    BY <1>0, <1>3, <2>1 DEF Output, DetectBaudRate, BeginSearch, SessionInv, MutedWhileSearching
  <2> QED
    BY <2>1, <2>2 DEF Runs, Simulated, Searching
<1>4. CASE Connect
  <2>1. ~IsOpen /\ ~Open /\ ~Searching /\ rate' = barRate /\ barRate' = barRate
    BY <1>0, <1>4 DEF Connect, OpenWith, SetSettings, Accepted
  <2>2. IsOpen' => Runs(rate)'
    BY <1>4, <2>1, OpensRunning DEF Connect, OpenWith
  <2>3. reason' = reason \/ original' = rate'
    BY <1>4 DEF Connect, MayBeginSearch, BeginSearch, search
  <2>4. CASE reason' = reason
    BY <2>1, <2>2, <2>4 DEF Searching
  <2>5. CASE original' = rate'
    BY <1>0, <2>1, <2>2, <2>5 DEF Runs, Simulated
  <2> QED
    BY <2>3, <2>4, <2>5
<1>5. CASE Reconnect
  <2>1. ~IsOpen /\ ~Searching /\ rate' = rate /\ UNCHANGED <<barRate, unrestored>> /\ reason' = reason
    BY <1>0, <1>5 DEF Reconnect, TryReconnect, bar, search
  <2>2. IsOpen' => Runs(rate)'
    BY <1>5, <2>1, OpensRunning DEF Reconnect, TryReconnect
  <2> QED
    BY <2>1, <2>2 DEF Searching
<1>6. CASE Disconnect \/ DeviceLeaves
  <2>1. ~IsOpen'
    BY <1>6 DEF Disconnect, DeviceLeaves, CancelledBy, Close, DeviceError, IoErrorOfAbsent, PollVanish,
                SimulatorVanishes, Vanish, IsOpen
  <2>2. UNCHANGED <<barRate, unrestored>> /\ ~Searching' /\ rate' = IF Searching THEN original ELSE rate
    BY <1>6 DEF Disconnect, DeviceLeaves, CancelledBy, SearchOver, Searching, bar, search
  <2> QED
    BY <2>1, <2>2
<1>7. CASE OnBarSettingsChanged
  <2>1. PICK nowAuto \in BOOLEAN, other \in BOOLEAN, r \in Rates : BarChanges(nowAuto, r, other)
    BY <1>7 DEF OnBarSettingsChanged, BarRates, SessionInv, SearchTyped
  <2>2. Same /\ barRate' = rate' /\ (Searching' => original' = rate')
    BY <2>1 DEF BarChanges, BeginSearch, SearchOver, Searching, bus, conn, IsOpen, search
  <2>3. IsOpen => Runs(rate)'
    <3>1. PICK restored \in IF Searching THEN Accepted(original, rate) ELSE {rate} :
              \E wanted : rate' \in Accepted(wanted, restored)
      BY <2>1 DEF BarChanges
    <3> SUFFICES ASSUME IsOpen PROVE Runs(rate')
      BY <2>2 DEF Runs, Simulated
    <3>2. Open /\ Runs(rate) /\ Runs(restored)
      BY <1>0, <3>1, RunsAccepted
    <3> QED
      BY <3>1, <3>2, RunsAccepted
  <2> QED
    BY <1>0, <2>2, <2>3 DEF Runs, Simulated
<1>8. CASE Comes \/ Elsewhere
  <2>1. rate' = rate /\ UNCHANGED <<barRate, unrestored>> /\ port' = port /\ UNCHANGED search
    BY <1>8
    DEF Comes, ComesBack, Elsewhere, SetAutoReconnect, SendBreak, BreakElapses, Unplug, IoErrorOfListed, HandleFails,
        Poll, Refresh, bar, bus
  <2>2. IsOpen' => IsOpen
    BY <1>8
    DEF Comes, ComesBack, Elsewhere, SetAutoReconnect, StopReconnecting, SendBreak, BreakElapses, Unplug, IoErrorOfListed,
        Poll, IsOpen, conn
  <2> QED
    BY <2>1, <2>2 DEF Runs, Simulated, Searching, search
<1> QED
  BY <1>1, <1>2, <1>3, <1>4, <1>5, <1>6, <1>7, <1>8 DEF SessionNext

\* For any rates, candidates and drivers, whenever the device leaves: what a search gives
\* up is put back and the bar tells the rate, unless a driver without its device refused
\* the original rate at the end of the last search (BaudRateDetector::finishSearch).
THEOREM BarTells == SessionSpec => []BarTellsTheRate
<1>1. SessionInit => RateInv
  BY DEF SessionInit, Init, RateInv, BarTellsTheRate, Searching, IsOpen
<1>2. SessionInv /\ SessionInv' /\ RateInv /\ [SessionNext]_sessionVars => RateInv'
  BY RateStep
<1>3. RateInv => BarTellsTheRate
  BY DEF RateInv
<1> QED
  BY <1>1, <1>2, <1>3, SessionInvariance, PTL DEF SessionSpec

=============================================================================
