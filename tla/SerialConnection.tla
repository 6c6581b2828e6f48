--------------------------- MODULE SerialConnection ---------------------------
(* One session's serial port (core/SerialConnection): opening, losing and      *)
(* reopening a device that may be unplugged, reboot or be powered off at any   *)
(* moment, what its driver says of that and what the polls of                  *)
(* SerialPortEnumerator see of it.  Of the line parameters only the baud rate  *)
(* is kept; who asks for one is the session's business (SerialSession).        *)
EXTENDS Naturals

CONSTANTS
    Rates,           \* the baud rates somebody may ask for
    Supported,       \* those the driver accepts
    Ports,           \* kinds of port: "serial", "sim" (a SIM: pseudo-port)
    MaxFlaps,        \* bound: departures of the device in one behaviour
    MaxFaults        \* bound: failures that are not the device's departure

ASSUME PortAssumption ==
    /\ Supported \subseteq Rates
    /\ Ports \subseteq {"serial", "sim"}
    /\ MaxFlaps \in Nat /\ MaxFaults \in Nat

VARIABLES
    port,        \* which kind of port the session is on
    device,      \* "in"; "out" (unplugged, rebooting); "off" (simulated, powered off)
    listed,      \* the enumerator's snapshot names the port
    flaps, faults,
    state,       \* Transport::m_state
    auto,        \* Transport::m_autoReconnect
    handle,      \* m_port or m_simulator: "closed", "reading"; "cut" once its device has
                 \* left; "deaf" once an I/O error has ended QSerialPort's read loop
    timer,       \* m_reconnectTimer is active
    told,        \* m_reconnectParamErrorReported
    breaking,    \* the line is held in BREAK
    breakTimer,  \* m_breakTimer is active
    link,        \* "lost" from connectionLost() to connectionRestored() or an open()
    messages,    \* "port is back but ..." messages of this outage
    rate         \* m_settings.baudRate

bus == <<port, device, listed, flaps, faults>>
break == <<breaking, breakTimer>>
conn == <<state, auto, handle, timer, told, break, link, messages>>
vars == <<bus, conn, rate>>

Simulated == port = "sim"
Open == handle # "closed"
IsOpen == state = "Connected"

Init ==
    /\ port \in Ports
    /\ device \in {"in", "out"}
    /\ listed = (device = "in")
    /\ flaps = 0 /\ faults = 0
    /\ state = "Disconnected" /\ auto \in BOOLEAN
    /\ handle = "closed" /\ timer = FALSE /\ told = FALSE
    /\ breaking = FALSE /\ breakTimer = FALSE
    /\ link = "up" /\ messages = 0
    /\ rate \in Rates

Fault == faults < MaxFaults /\ faults' = faults + 1

-----------------------------------------------------------------------------
(* setSettings()                                                           *)

\* What a port may make of a new rate: a closed one stores it, an open one keeps the
\* last rate its driver accepted.  The driver of a handle that has lost its device
\* (or its read loop) takes a rate or refuses it.
Accepted(wanted, old) ==
    IF ~Open \/ Simulated THEN {wanted}
    ELSE IF wanted \notin Supported THEN {old}
    ELSE IF handle = "reading" THEN {wanted}
    ELSE {wanted, old}

SetSettings(wanted) == rate' \in Accepted(wanted, rate)

-----------------------------------------------------------------------------
(* openPort(), with the rate in m_settings.  `quiet' is a reconnect attempt. *)

OpenedUnannounced ==
    /\ handle' = "reading"
    /\ state' = "Connected"
    /\ timer' = FALSE
    /\ told' = FALSE
    /\ link' = IF state = "Reconnecting" THEN link ELSE "up"
    /\ UNCHANGED <<auto, break, messages>>

Opened ==
    /\ handle' = "reading"
    /\ state' = "Connected"
    /\ timer' = FALSE
    /\ told' = FALSE
    /\ link' = "up"
    /\ UNCHANGED <<auto, break, messages>>

OpensPort ==
    /\ ~Simulated /\ device = "in" /\ rate' \in Supported
    /\ Opened
    /\ UNCHANGED bus

\* An explicit open() powers a simulated device on; a reconnect attempt needs
\* it present.
OpensSimulator(quiet) ==
    /\ Simulated
    /\ quiet => device = "in"
    /\ device' = "in"
    /\ Opened
    /\ UNCHANGED <<port, listed, flaps, faults>>

\* Not there, or busy: nothing changes but the error text.
OpenRefused ==
    /\ ~Simulated
    /\ IF device = "in" THEN Fault ELSE UNCHANGED faults
    /\ UNCHANGED <<port, device, listed, flaps, conn>>

\* applyParameters() failed and the port is closed again.  A reconnect attempt
\* says so once per outage, and the timer keeps polling.
OpenRejected(quiet) ==
    /\ ~Simulated /\ device = "in"
    /\ IF rate' \in Supported THEN Fault ELSE UNCHANGED faults
    /\ told' = (told \/ quiet)
    /\ messages' = IF quiet /\ ~told THEN messages + 1 ELSE messages
    /\ UNCHANGED <<port, device, listed, flaps, state, auto, handle, timer, break, link>>

\* connectSerial(): the bar's settings are stored, then open(); also while
\* Reconnecting.
OpenWith(wanted) ==
    /\ ~IsOpen /\ ~Open
    /\ SetSettings(wanted)
    /\ OpensPort \/ OpensSimulator(FALSE) \/ OpenRefused \/ OpenRejected(FALSE)

\* isPortListed() of a timer tick: the enumerator's snapshot, or the presence
\* table of the simulator.
PortListed == IF Simulated THEN device = "in" ELSE listed

TryReconnectUntilTold ==
    /\ timer /\ state = "Reconnecting" /\ ~told
    /\ PortListed /\ ~Open
    /\ UNCHANGED rate
    /\ OpensPort \/ OpensSimulator(TRUE) \/ OpenRefused \/ OpenRejected(TRUE)

\* tryReconnect(), on a tick that finds the port listed.
TryReconnect ==
    /\ timer /\ state = "Reconnecting"
    /\ PortListed /\ ~Open
    /\ UNCHANGED rate
    /\ OpensPort \/ OpensSimulator(TRUE) \/ OpenRefused \/ OpenRejected(TRUE)

-----------------------------------------------------------------------------
(* close(), setAutoReconnect(), sendBreak()                                *)

Close ==
    /\ timer' = FALSE /\ breakTimer' = FALSE /\ told' = FALSE
    /\ handle' = "closed" /\ breaking' = FALSE
    /\ state' = "Disconnected"
    /\ messages' = 0
    /\ UNCHANGED <<bus, auto, link>>

StopReconnectingTimerOn == state' = (IF state = "Reconnecting" THEN "Disconnected" ELSE state) /\ UNCHANGED timer

\* setAutoReconnect(false) while the port is waited for.
StopReconnecting == timer' = FALSE /\ state' = IF state = "Reconnecting" THEN "Disconnected" ELSE state

SetAutoReconnect(on) ==
    /\ auto' = on
    /\ IF on THEN UNCHANGED <<timer, state>> ELSE StopReconnecting
    /\ UNCHANGED <<bus, rate, handle, told, break, link, messages>>

SendBreak ==
    /\ Open /\ ~Simulated
    /\ breaking' = TRUE /\ breakTimer' = TRUE
    /\ UNCHANGED <<bus, rate, state, auto, handle, timer, told, link, messages>>

\* m_breakTimer fires; a closed port needs no release.
BreakElapses ==
    /\ breakTimer
    /\ breakTimer' = FALSE
    /\ breaking' = IF Open THEN FALSE ELSE breaking
    /\ UNCHANGED <<bus, rate, state, auto, handle, timer, told, link, messages>>

-----------------------------------------------------------------------------
(* The device leaves: what the driver and the enumerator make of it.       *)

Unplug ==
    /\ ~Simulated
    /\ device = "in"
    /\ flaps < MaxFlaps /\ flaps' = flaps + 1
    /\ device' = "out"
    /\ handle' = IF handle = "reading" THEN "cut" ELSE handle
    /\ UNCHANGED <<port, listed, faults, rate, state, auto, timer, told, break, link, messages>>

ComesBack ==
    /\ device = "out"
    /\ device' = "in"
    /\ UNCHANGED <<port, listed, flaps, faults, conn, rate>>

VanishKeepsBreakTimer ==
    /\ breaking' = FALSE /\ UNCHANGED breakTimer
    /\ handle' = "closed"
    /\ link' = "lost"
    /\ messages' = 0
    /\ IF auto
          THEN told' = FALSE /\ state' = "Reconnecting" /\ timer' = TRUE
          ELSE state' = "Disconnected" /\ UNCHANGED <<told, timer>>
    /\ UNCHANGED auto

\* handleDeviceVanished(): the handle is closed, connectionLost() announced,
\* then the timer started or the session left Disconnected.
Vanish ==
    /\ breakTimer' = FALSE /\ breaking' = FALSE
    /\ handle' = "closed"
    /\ link' = "lost"
    /\ messages' = 0
    /\ IF auto
          THEN told' = FALSE /\ state' = "Reconnecting" /\ timer' = TRUE
          ELSE state' = "Disconnected" /\ UNCHANGED <<told, timer>>
    /\ UNCHANGED auto

\* The simulated device reboots, or is powered off, and says so at once.
SimulatorVanishes ==
    /\ Simulated /\ Open
    /\ flaps < MaxFlaps /\ flaps' = flaps + 1
    /\ device' \in {"out", "off"}
    /\ Vanish
    /\ UNCHANGED <<port, listed, faults>>

\* A handle whose device has left fails, and a healthy one may.
HandleFails ==
    /\ IsOpen /\ ~Simulated
    /\ \/ handle = "cut" /\ UNCHANGED faults
       \/ handle = "reading" /\ Fault
    /\ UNCHANGED <<port, device, listed, flaps>>

\* onPortError(): ResourceError, PermissionError, DeviceNotFoundError.
DeviceError == HandleFails /\ Vanish

\* onPortError(): ReadError, WriteError, UnknownError.  A fresh scan of the ports
\* decides: where it lists the port the error is only shown, and nothing reads
\* any more.
IoErrorOfAbsent == HandleFails /\ device # "in" /\ Vanish

IoErrorOfListed ==
    /\ HandleFails /\ device = "in"
    /\ handle' = "deaf"
    /\ UNCHANGED <<state, auto, timer, told, break, link, messages, rate>>

\* SerialPortEnumerator::refresh().
Refresh ==
    /\ listed' = (device # "out")
    /\ UNCHANGED <<port, device, flaps, faults>>

HearsRemovalNever == FALSE

\* portRemoved() is heard by the open port it names; a simulated session hears
\* of its device from the simulator.
HearsRemoval == listed /\ device = "out" /\ IsOpen /\ ~Simulated /\ Open

PollVanish == Refresh /\ HearsRemoval /\ Vanish
Poll == Refresh /\ ~HearsRemoval /\ UNCHANGED <<conn, rate>>

-----------------------------------------------------------------------------
(* The specification of the port.  A listener of stateChanged() may store a   *)
(* rate in the port that was just closed (a search that is cancelled does).   *)

Closes == (Close \/ SimulatorVanishes \/ DeviceError \/ IoErrorOfAbsent \/ PollVanish) /\ rate' \in Rates

Next ==
    \/ \E wanted \in Rates : OpenWith(wanted) \/ (SetSettings(wanted) /\ UNCHANGED <<bus, conn>>)
    \/ TryReconnect
    \/ Closes
    \/ \E on \in BOOLEAN : SetAutoReconnect(on)
    \/ SendBreak \/ BreakElapses
    \/ Unplug \/ ComesBack \/ IoErrorOfListed \/ Poll

PortSpec == Init /\ [][Next]_vars

-----------------------------------------------------------------------------
(* Properties.                                                             *)

PortTypeOK ==
    /\ port \in Ports
    /\ device \in {"in", "out", "off"} /\ listed \in BOOLEAN
    /\ flaps \in 0..MaxFlaps /\ faults \in 0..MaxFaults
    /\ state \in {"Disconnected", "Connected", "Reconnecting"} /\ auto \in BOOLEAN
    /\ handle \in {"closed", "reading", "cut", "deaf"}
    /\ timer \in BOOLEAN /\ told \in BOOLEAN
    /\ breaking \in BOOLEAN /\ breakTimer \in BOOLEAN
    /\ link \in {"up", "lost"}
    /\ messages \in Nat
    /\ rate \in Rates

\* The state the session shows is the state of the port (changeState() next to
\* m_port and m_reconnectTimer): Connected is an open handle and nothing else,
\* Reconnecting is a running timer, with auto-reconnect on.
StateIsTrue ==
    /\ IsOpen <=> Open
    /\ state = "Reconnecting" <=> timer
    /\ state = "Reconnecting" => auto

\* sendBreak(): a line held in BREAK has a timer that will release it, and a
\* timer only runs on the handle it was started for.
BreakIsTimed == (breaking => breakTimer) /\ (breakTimer => Open)

\* openPort(quiet): a port that is back and takes no parameters is reported
\* once per outage however often it is retried.
SaidOnce == messages <= 1

\* What a tab may rely on whatever carries its bytes (Transport.h).
T == INSTANCE Transport
IsTransport == T!Spec

=============================================================================
