------------------------------ MODULE Transport ------------------------------
(* What a session tab may rely on whatever carries its bytes (core/Transport): *)
(* the connection state, the auto-reconnect flag and the two announcements     *)
(* connectionLost() and connectionRestored().  SerialConnection implements it. *)

VARIABLES
    state,   \* Transport::m_state
    auto,    \* Transport::m_autoReconnect
    link     \* "lost" from connectionLost() to connectionRestored() or an open()

vars == <<state, auto, link>>

Init ==
    /\ state = "Disconnected"
    /\ auto \in BOOLEAN
    /\ link = "up"

\* open(): a transport connects at once, or says that it is connecting.
Open ==
    /\ state \in {"Disconnected", "Connecting"}
    /\ \/ state' = "Connected" /\ link' = "up"
       \/ state' = "Connecting" /\ link' = link
    /\ UNCHANGED auto

\* connectionLost(), before any automatic reconnect starts.
Drop ==
    /\ state = "Connected"
    /\ link' = "lost"
    /\ state' = IF auto THEN "Reconnecting" ELSE "Disconnected"
    /\ UNCHANGED auto

\* connectionRestored(), after stateChanged(Connected).
Restore ==
    /\ state = "Reconnecting"
    /\ state' = "Connected"
    /\ link' = "up"
    /\ UNCHANGED auto

\* close(), or an attempt to connect that failed.
Close ==
    /\ state # "Disconnected"
    /\ state' = "Disconnected"
    /\ UNCHANGED <<auto, link>>

\* setAutoReconnect(): turning it off gives up a reconnect.
SetAutoReconnect(on) ==
    /\ auto' = on
    /\ state' = IF ~on /\ state = "Reconnecting" THEN "Disconnected" ELSE state
    /\ UNCHANGED link

Next ==
    \/ Open \/ Drop \/ Restore \/ Close
    \/ \E on \in BOOLEAN : SetAutoReconnect(on)

Spec == Init /\ [][Next]_vars

=============================================================================
