------------------------------ MODULE ToolsProofs ------------------------------
(***************************************************************************)
(* What TLAPS proves about the things MCTools puts side by side, each for  *)
(* any number of its operations: the bridge to the MCU, the inventory, the *)
(* image cache and a run of su-fw.  SocProofs has the flash of one board   *)
(* and the external commands it runs.                                      *)
(***************************************************************************)
EXTENDS MCTools, SequenceTheorems, FiniteSetTheorems, TLAPS

-----------------------------------------------------------------------------
(* The bridge to the MCU (McuLink).                                        *)

\* The link before it has a forward, and the link that has one.
Unforwarded == {"Selecting", "CheckingRfmcu", "StoppingStale", "Forwarding"}
Forwarded == {"StartingBridge", "Connecting", "Open"}

\* The command a state waits for.
StageOf(what) == CASE what = "devices" -> "Selecting" [] what = "probe" -> "CheckingRfmcu"
                   [] what = "killStale" -> "StoppingStale" [] what = "forward" -> "Forwarding"
                   [] OTHER -> "Closing"

Steps == [what : {"devices", "probe", "killStale", "forward", "kill", "remove"}, gen : Nat \ {0}, cancelled : BOOLEAN]

\* A command that was not cancelled is the one its state waits for; the bridge of this
\* generation is there once the forward is.
CommandsFit ==
    /\ commands \subseteq Steps
    /\ \A c \in commands : IF c.cancelled THEN c.gen < generation ELSE c.gen = generation /\ state = StageOf(c.what)
    /\ generation \in bridges => state \in Forwarded

\* What the link knows of what it did to the board and to the adb server.
LinkKnows ==
    /\ touchedBoard => selected
    /\ localPort # 0 => touchedBoard
    /\ state \in {"StoppingStale", "Forwarding"} => touchedBoard
    /\ state \in {"Closed"} \cup Unforwarded => localPort = 0
    /\ state \in Forwarded => localPort = generation /\ localPort \in forwards

\* What is left behind the link was not told of, was refused, or is its own, and its
\* cleanup goes in order.
LeftBehind ==
    /\ 0 \notin forwards
    /\ forwards \subseteq untold \cup refused \cup {localPort}
    /\ \A g \in untold : g \in Nat /\ g < generation
    /\ rfmcu \subseteq refused \cup {0, localPort}
    /\ state \in {"Connecting", "Open"} => rfmcu \subseteq {localPort}
    /\ \A c \in commands : ~c.cancelled /\ c.what = "remove" => rfmcu \subseteq refused \cup {0}

BridgeInv ==
    /\ generation \in Nat /\ localPort \in Nat /\ bridges \subseteq 1..generation
    /\ state \in {"Closed", "Closing"} \cup Unforwarded \cup Forwarded
    /\ state = "Open" => socket = "connected"
    /\ state # "Closed" => generation # 0
    /\ Bridge!OneLinkAtATime
    /\ CommandsFit /\ LinkKnows /\ LeftBehind

\* No command of the cleanup runs before it has started.
CleanupWaits == state = "Closing" /\ ~cleanupStarted => \A c \in commands : c.cancelled

LEMMA BridgeInvHolds == BridgeInv => BridgeHolds
  BY DEF BridgeInv, BridgeHolds, Bridge!ClosedIsClean, LinkKnows, LeftBehind, Forwarded

LEMMA BridgeInitInv == Bridge!BridgeInit => BridgeInv /\ CleanupWaits
  BY DEF Bridge!BridgeInit, BridgeInv, CleanupWaits, Bridge!OneLinkAtATime, CommandsFit, LinkKnows, LeftBehind, Unforwarded,
         Forwarded

\* What neither the link nor the board and the adb server notice.
LEMMA BridgeRests ==
    ASSUME BridgeInv, UNCHANGED <<state, generation, localPort, selected, touchedBoard, commands, bridges, socket,
                                  forwards, rfmcu, untold, refused>>
    PROVE  BridgeInv'
  BY DEF BridgeInv, Bridge!OneLinkAtATime, CommandsFit, LinkKnows, LeftBehind

LEMMA RunIs ==
    ASSUME NEW what, NEW gen
    PROVE  /\ Bridge!Run(what, gen).what = what /\ Bridge!Run(what, gen).gen = gen
           /\ Bridge!Run(what, gen).cancelled = FALSE
           /\ ~Bridge!Run(what, gen).cancelled
           /\ what \in {"devices", "probe", "killStale", "forward", "kill", "remove"} /\ gen \in Nat \ {0} =>
                 Bridge!Run(what, gen) \in Steps
  BY DEF Bridge!Run, Steps

\* beginOpen(), of a link that left nothing behind it knew of.
LEMMA BeginOpenInv ==
    ASSUME BridgeInv, NEW others, Bridge!BeginOpen(others), others \subseteq Bridge!Cancelled, bridges' \subseteq bridges,
           forwards' \subseteq untold' \cup refused', 0 \notin forwards', untold' = untold, rfmcu' \subseteq refused' \cup {0}
    PROVE  BridgeInv'
<1>1. /\ generation' = generation + 1 /\ generation' \in Nat \ {0} /\ localPort' = 0 /\ state' = "Selecting"
      /\ touchedBoard' = FALSE /\ commands' = others \cup {Bridge!Run("devices", generation')}
      /\ bridges' \subseteq 1..generation' /\ generation \in Nat /\ generation' \notin bridges'
  BY DEF Bridge!BeginOpen, BridgeInv
<1>2. Bridge!Run("devices", generation') \in Steps
  BY <1>1, RunIs
<1>3. \A c \in others : c \in Steps /\ c.cancelled /\ c.gen < generation'
  BY <1>1 DEF BridgeInv, CommandsFit, Bridge!Cancelled, Steps
<1>4. /\ Bridge!Run("devices", generation').gen = generation' /\ Bridge!Run("devices", generation').what = "devices"
      /\ ~Bridge!Run("devices", generation').cancelled
  BY RunIs
<1>5. \A c \in commands' : c \in others \/ c = Bridge!Run("devices", generation')
  BY <1>1
<1>6. StageOf("devices") = "Selecting"
  BY DEF StageOf
<1>7. \A c \in commands' : c.cancelled \/ c.what # "remove"
  BY <1>3, <1>4, <1>5
<1>8. CommandsFit'
  BY <1>1, <1>2, <1>3, <1>4, <1>5, <1>6 DEF CommandsFit
<1>9. Bridge!OneLinkAtATime'
  BY <1>3, <1>5 DEF Bridge!OneLinkAtATime
<1>10. LinkKnows'
  BY <1>1 DEF LinkKnows, Unforwarded, Forwarded
<1>11. LeftBehind'
  BY <1>1, <1>7 DEF BridgeInv, LeftBehind
<1> QED
  BY <1>1, <1>8, <1>9, <1>10, <1>11 DEF BridgeInv, Unforwarded

\* beginClose(): no command that is listened to is left.
LEMMA BeginCloseInv ==
    ASSUME BridgeInv, NEW reason, Bridge!BeginClose(reason), state \in Unforwarded \cup Forwarded,
           \A c \in commands' : c \in Steps /\ c.cancelled /\ c.gen <= generation,
           bridges' \subseteq bridges, rfmcu' \subseteq rfmcu, refused' = refused,
           \/ forwards' = forwards /\ untold' = untold
           \/ state = "Forwarding" /\ forwards' = forwards \cup {generation} /\ untold' = untold \cup {generation}
    PROVE  BridgeInv'
<1>1. /\ generation' = generation + 1 /\ generation' \in Nat /\ localPort' = localPort /\ state' = "Closing"
      /\ touchedBoard' = touchedBoard /\ selected' = selected /\ generation \in Nat
      /\ bridges' \subseteq 1..generation' /\ generation' \notin bridges'
  BY DEF Bridge!BeginClose, BridgeInv
<1>2. \A c \in commands' : c \in Steps /\ c.cancelled /\ c.gen < generation'
  BY <1>1 DEF Steps
<1>3. (CommandsFit /\ Bridge!OneLinkAtATime)'
  BY <1>1, <1>2 DEF CommandsFit, Bridge!OneLinkAtATime
<1>4. generation # 0 \/ state # "Forwarding"
  BY DEF BridgeInv, Unforwarded
<1>5. LinkKnows'
  BY <1>1 DEF BridgeInv, LinkKnows, Unforwarded, Forwarded
<1>6. LeftBehind'
  BY <1>1, <1>2, <1>4 DEF BridgeInv, LeftBehind
<1> QED
  BY <1>1, <1>3, <1>5, <1>6 DEF BridgeInv, Bridge!BeginClose, Forwarded, Unforwarded

\* The steps of the opening: each command of them succeeds or fails.
LEMMA EndsInv ==
    ASSUME BridgeInv, NEW c, NEW ok, Bridge!Ends(c, ok)
    PROVE  BridgeInv'
<1>1. /\ c \in commands /\ ~c.cancelled /\ c.gen = generation /\ c.what \in {"devices", "probe", "killStale", "forward"}
      /\ state = StageOf(c.what) /\ (\A d \in commands \ {c} : d \in Steps /\ d.cancelled /\ d.gen < generation)
  BY DEF Bridge!Ends, Bridge!Listened, BridgeInv, CommandsFit, Bridge!OneLinkAtATime
<1>2. state \in Unforwarded /\ generation \in Nat /\ generation # 0 /\ generation \notin bridges
  BY <1>1 DEF StageOf, Unforwarded, Forwarded, BridgeInv, CommandsFit
<1>3. Bridge!Effect(c, ok)
  BY DEF Bridge!Ends
<1>4. CASE ~ok
  <2>1. /\ commands' = commands \ {c} /\ Bridge!BeginClose("failed") /\ bridges' = bridges
    BY <1>4 DEF Bridge!Ends
  <2>2. /\ rfmcu' \subseteq rfmcu /\ refused' = refused
        /\ \/ forwards' = forwards /\ untold' = untold
           \/ state = "Forwarding" /\ forwards' = forwards \cup {generation} /\ untold' = untold \cup {generation}
    BY <1>1, <1>3, <1>4 DEF Bridge!Effect, StageOf
  <2>3. \A d \in commands' : d \in Steps /\ d.cancelled /\ d.gen <= generation
    BY <1>1, <1>2, <2>1 DEF Steps
  <2> QED
    BY <1>2, <2>1, <2>2, <2>3, BeginCloseInv
<1>5. CASE ok
  <2>1. /\ generation' = generation /\ refused' = refused /\ untold' = untold /\ socket' = socket
        /\ selected' = TRUE /\ touchedBoard' = (touchedBoard \/ c.what = "probe")
        /\ rfmcu' \subseteq rfmcu
        /\ forwards' = IF c.what = "forward" THEN forwards \cup {generation} ELSE forwards
    BY <1>1, <1>3, <1>5 DEF Bridge!Ends, Bridge!Effect
  <2>2. CASE c.what = "forward"
    <3>1. /\ commands' = commands \ {c} /\ state' = "StartingBridge" /\ localPort' = generation
          /\ forwards' = forwards \cup {generation} /\ bridges' = bridges \cup {generation}
          /\ state = "Forwarding"
      BY <1>1, <1>5, <2>1, <2>2 DEF Bridge!Ends, StageOf
    <3>2. (CommandsFit /\ Bridge!OneLinkAtATime)'
      BY <1>1, <1>2, <2>1, <3>1 DEF BridgeInv, CommandsFit, Bridge!OneLinkAtATime, Forwarded
    <3>3. localPort = 0 /\ touchedBoard
      BY <3>1 DEF BridgeInv, LinkKnows, Unforwarded
    <3>4. LinkKnows'
      BY <1>2, <2>1, <3>1, <3>3 DEF LinkKnows, Unforwarded, Forwarded
    <3>5. \A d \in commands' : d.cancelled
      BY <1>1, <3>1
    <3>6. LeftBehind'
      BY <1>2, <2>1, <3>1, <3>3, <3>5 DEF BridgeInv, LeftBehind
    <3> QED
      BY <1>2, <2>1, <3>1, <3>2, <3>4, <3>6 DEF BridgeInv, Forwarded, Unforwarded
  <2>3. CASE c.what # "forward"
    <3>1. PICK what \in {"probe", "killStale", "forward"} :
              commands' = (commands \ {c}) \cup {Bridge!Run(what, generation)} /\ state' = StageOf(what)
              /\ (what # "probe" => touchedBoard')
      <4>1. CASE c.what = "devices"
        BY <1>1, <1>5, <4>1 DEF Bridge!Ends, StageOf
      <4>2. CASE c.what = "probe"
        BY <1>1, <1>5, <2>1, <4>2 DEF Bridge!Ends, StageOf
      <4>3. CASE c.what = "killStale"
        BY <1>1, <1>5, <2>1, <4>3 DEF Bridge!Ends, StageOf, BridgeInv, LinkKnows
      <4> QED
        BY <1>1, <2>3, <4>1, <4>2, <4>3
    <3>2. localPort' = localPort /\ localPort = 0 /\ forwards' = forwards /\ bridges' = bridges
      BY <1>1, <1>2, <1>5, <2>1, <2>3 DEF Bridge!Ends, BridgeInv, LinkKnows
    <3>3. state' \in Unforwarded
      BY <3>1 DEF StageOf, Unforwarded
    <3>4. /\ Bridge!Run(what, generation) \in Steps /\ Bridge!Run(what, generation).gen = generation
          /\ Bridge!Run(what, generation).what = what /\ ~Bridge!Run(what, generation).cancelled
      BY <1>2, RunIs
    <3>5. (CommandsFit /\ Bridge!OneLinkAtATime)'
      BY <1>1, <1>2, <2>1, <3>1, <3>2, <3>4 DEF CommandsFit, Bridge!OneLinkAtATime
    <3>6. LinkKnows'
      BY <2>1, <3>1, <3>2, <3>3 DEF BridgeInv, LinkKnows, StageOf, Unforwarded, Forwarded
    <3>7. \A d \in commands' : d.cancelled \/ d.what # "remove"
      BY <1>1, <3>1, <3>4
    <3>8. LeftBehind'
      BY <2>1, <3>2, <3>3, <3>7 DEF BridgeInv, LeftBehind, Unforwarded
    <3> QED
      BY <1>2, <2>1, <3>2, <3>3, <3>5, <3>6, <3>8 DEF BridgeInv, Unforwarded
  <2> QED
    BY <2>2, <2>3
<1> QED
  BY <1>4, <1>5

\* A command that was cancelled ends unheard, whatever it has still done.
LEMMA CancelledEndsInv ==
    ASSUME BridgeInv, NEW c, Bridge!CancelledEnds(c)
    PROVE  BridgeInv'
<1>1. /\ c \in commands /\ c.cancelled /\ c.gen \in Nat /\ c.gen # 0 /\ c.gen < generation
      /\ commands' = commands \ {c}
      /\ UNCHANGED <<state, generation, localPort, selected, touchedBoard, bridges, socket>>
  BY DEF Bridge!CancelledEnds, Bridge!private, BridgeInv, CommandsFit, Steps
<1>2. /\ rfmcu' \subseteq rfmcu /\ refused' = refused
      /\ \/ forwards' = forwards /\ untold' = untold
         \/ forwards' = forwards \cup {c.gen} /\ untold' = untold \cup {c.gen}
  BY DEF Bridge!CancelledEnds, Bridge!Effect
<1>3. (CommandsFit /\ Bridge!OneLinkAtATime)'
  BY <1>1 DEF BridgeInv, CommandsFit, Bridge!OneLinkAtATime
<1>4. LinkKnows'
  BY <1>1, <1>2 DEF BridgeInv, LinkKnows
<1>5. LeftBehind'
  BY <1>1, <1>2 DEF BridgeInv, LeftBehind
<1> QED
  BY <1>1, <1>3, <1>4, <1>5 DEF BridgeInv

\* finishClose(): what is left behind the link was not told of, or refused.
LEMMA FinishCloseInv ==
    ASSUME BridgeInv, NEW others, Bridge!FinishClose(others), others \subseteq Bridge!Cancelled, bridges' \subseteq bridges,
           state = "Closing",
           forwards' \subseteq untold' \cup refused', 0 \notin forwards', untold' = untold, rfmcu' \subseteq refused' \cup {0}
    PROVE  BridgeInv'
<1>1. CASE openAfterClose
  BY <1>1, BeginOpenInv DEF Bridge!FinishClose
<1>2. CASE ~openAfterClose
  <2>1. /\ state' = "Closed" /\ localPort' = 0 /\ touchedBoard' = FALSE /\ commands' = others
        /\ generation' = generation /\ selected' = selected
    BY <1>2 DEF Bridge!FinishClose
  <2>2. \A c \in commands' : c \in Steps /\ c.cancelled /\ c.gen < generation
    BY <2>1 DEF BridgeInv, CommandsFit, Bridge!Cancelled
  <2>3. generation \notin bridges
    BY DEF BridgeInv, CommandsFit, Forwarded
  <2>4. (CommandsFit /\ Bridge!OneLinkAtATime /\ LinkKnows /\ LeftBehind)'
    BY <2>1, <2>2, <2>3 DEF BridgeInv, CommandsFit, Bridge!OneLinkAtATime, LinkKnows, LeftBehind, Unforwarded, Forwarded
  <2> QED
    BY <2>1, <2>4 DEF BridgeInv, Unforwarded
<1> QED
  BY <1>1, <1>2

\* continueClose(), of a cleanup whose bridge may have ended.
LEMMA ContinueCloseInv ==
    ASSUME BridgeInv, state = "Closing", Bridge!ContinueClose, bridges' \subseteq bridges,
           forwards' = forwards, untold' = untold, refused' = refused, rfmcu' \subseteq rfmcu,
           cleanupStarted \/ \A c \in commands : c.cancelled
    PROVE  BridgeInv'
<1>0. BridgeInv /\ bridges' \subseteq 1..generation /\ generation \notin bridges
  BY DEF BridgeInv, CommandsFit, Forwarded
<1>1. CASE cleanupStarted
  <2>1. /\ state' = state /\ commands' = commands /\ generation' = generation /\ localPort' = localPort
        /\ selected' = selected /\ touchedBoard' = touchedBoard /\ socket' = socket
    BY <1>1 DEF Bridge!ContinueClose, Bridge!private
  <2>2. (CommandsFit /\ Bridge!OneLinkAtATime /\ LinkKnows /\ LeftBehind)'
    BY <1>0, <2>1 DEF BridgeInv, CommandsFit, Bridge!OneLinkAtATime, LinkKnows, LeftBehind, Unforwarded, Forwarded
  <2> QED
    BY <1>0, <2>1, <2>2 DEF BridgeInv
<1>2. CASE ~cleanupStarted /\ (~selected \/ (~touchedBoard /\ localPort = 0))
  <2>1. Bridge!FinishClose(commands) /\ localPort = 0 /\ commands \subseteq Bridge!Cancelled
    BY <1>2 DEF Bridge!ContinueClose, BridgeInv, LinkKnows, Bridge!Cancelled
  <2>2. forwards' \subseteq untold' \cup refused' /\ 0 \notin forwards' /\ rfmcu' \subseteq refused' \cup {0}
    BY <2>1 DEF BridgeInv, LeftBehind
  <2> QED
    BY <2>1, <2>2, FinishCloseInv
<1>3. CASE ~cleanupStarted /\ ~(~selected \/ (~touchedBoard /\ localPort = 0))
  <2>1. /\ state' = state /\ generation' = generation /\ localPort' = localPort
        /\ selected' = selected /\ touchedBoard' = touchedBoard /\ socket' = socket
        /\ touchedBoard /\ commands' = commands \cup {Bridge!Run("kill", generation)}
    BY <1>3 DEF Bridge!ContinueClose, BridgeInv, LinkKnows
  <2>2. generation \in Nat \ {0} /\ \A c \in commands : c \in Steps /\ c.cancelled /\ c.gen < generation
    BY <1>3 DEF BridgeInv, CommandsFit, Steps
  <2>3. /\ Bridge!Run("kill", generation) \in Steps /\ Bridge!Run("kill", generation).gen = generation
        /\ Bridge!Run("kill", generation).what = "kill" /\ ~Bridge!Run("kill", generation).cancelled
    <3>1. generation \in Nat \ {0}
      BY <2>2
    <3> QED
      BY ONLY <3>1, RunIs
  <2>4. (CommandsFit /\ Bridge!OneLinkAtATime)'
    BY <1>0, <2>1, <2>2, <2>3 DEF CommandsFit, Bridge!OneLinkAtATime, StageOf
  <2>5. (LinkKnows /\ LeftBehind)'
    BY <2>1, <2>2, <2>3 DEF BridgeInv, LinkKnows, LeftBehind, Unforwarded, Forwarded
  <2> QED
    BY <1>0, <2>1, <2>4, <2>5 DEF BridgeInv
<1> QED
  BY <1>1, <1>2, <1>3

\* The commands of the cleanup: what they could not undo was refused.
LEMMA CleanupEndsInv ==
    ASSUME BridgeInv, NEW c, NEW ok, Bridge!CleanupEnds(c, ok)
    PROVE  BridgeInv'
<1>1. /\ c \in commands /\ c.gen = generation /\ c.what \in {"kill", "remove"} /\ state = "Closing"
      /\ ~c.cancelled /\ bridges' = bridges /\ untold' = untold /\ generation \in Nat \ {0}
      /\ (\A d \in commands \ {c} : d \in Steps /\ d.cancelled /\ d.gen < generation)
      /\ generation \notin bridges
  BY DEF Bridge!CleanupEnds, BridgeInv, CommandsFit, Bridge!OneLinkAtATime, Steps, Forwarded
<1>2. /\ rfmcu' \subseteq refused' \cup {0}
      /\ 0 \notin forwards' /\ forwards' \subseteq untold' \cup refused' \cup {localPort}
      /\ refused \subseteq refused' /\ rfmcu' \subseteq rfmcu
  BY <1>1 DEF Bridge!CleanupEnds, BridgeInv, LeftBehind
<1>3. CASE Bridge!AfterKill(c)
  <2>1. /\ commands' = (commands \ {c}) \cup {Bridge!Run("remove", generation)}
        /\ state' = state /\ generation' = generation /\ localPort' = localPort
        /\ selected' = selected /\ touchedBoard' = touchedBoard /\ socket' = socket
    BY <1>3 DEF Bridge!CleanupEnds, Bridge!private
  <2>2. /\ Bridge!Run("remove", generation) \in Steps /\ Bridge!Run("remove", generation).gen = generation
        /\ Bridge!Run("remove", generation).what = "remove" /\ ~Bridge!Run("remove", generation).cancelled
    <3>1. generation \in Nat \ {0}
      BY <1>1
    <3> QED
      BY ONLY <3>1, RunIs
  <2>3. (CommandsFit /\ Bridge!OneLinkAtATime)'
    BY <1>1, <2>1, <2>2 DEF CommandsFit, Bridge!OneLinkAtATime, StageOf
  <2>4. (LinkKnows /\ LeftBehind)'
    BY <1>1, <1>2, <2>1 DEF BridgeInv, LinkKnows, LeftBehind, Unforwarded, Forwarded
  <2> QED
    BY <1>1, <2>1, <2>3, <2>4 DEF BridgeInv
<1>4. CASE ~Bridge!AfterKill(c)
  <2>1. Bridge!FinishClose(commands \ {c}) /\ commands \ {c} \subseteq Bridge!Cancelled
    BY <1>1, <1>4 DEF Bridge!CleanupEnds, Bridge!Cancelled
  <2>2. c.what = "kill" => localPort = 0
    BY <1>4 DEF Bridge!AfterKill
  <2>3. forwards' \subseteq untold' \cup refused'
    BY <1>1, <1>2, <2>2 DEF Bridge!CleanupEnds
  <2> QED
    BY <1>1, <1>2, <2>1, <2>3, FinishCloseInv
<1> QED
  BY <1>3, <1>4

\* Every step of the bridge.
LEMMA BridgeNextInv ==
    ASSUME BridgeInv, CleanupWaits, Bridge!BridgeNext
    PROVE  BridgeInv'
<1> USE DEF Bridge!private, Bridge!world
<1>1. CASE Bridge!Open
  <2>1. CASE state = "Closing"
    <3>1. UNCHANGED <<state, generation, localPort, selected, touchedBoard, commands, bridges, socket, forwards, rfmcu,
                      untold, refused>>
      BY <1>1, <2>1 DEF Bridge!Open
    <3> QED
      BY <3>1, BridgeRests
  <2>2. CASE state = "Closed"
    <3>1. /\ Bridge!BeginOpen(commands) /\ bridges' = bridges /\ forwards' = forwards /\ rfmcu' = rfmcu
          /\ untold' = untold /\ refused' = refused
      BY <1>1, <2>2 DEF Bridge!Open
    <3>2. forwards \subseteq untold \cup refused /\ 0 \notin forwards /\ rfmcu \subseteq refused \cup {0}
      BY <2>2 DEF BridgeInv, LinkKnows, LeftBehind
    <3>3. commands \subseteq Bridge!Cancelled
      BY <2>2 DEF BridgeInv, CommandsFit, StageOf, Steps, Bridge!Cancelled
    <3> QED
      BY <3>1, <3>2, <3>3, BeginOpenInv
  <2> QED
    BY <1>1, <2>1, <2>2 DEF Bridge!Open
<1>2. CASE Bridge!Close
  <2>1. CASE state \in {"Closed", "Closing"}
    <3>1. UNCHANGED <<state, generation, localPort, selected, touchedBoard, commands, bridges, socket, forwards, rfmcu,
                      untold, refused>>
      BY <1>2, <2>1 DEF Bridge!Close
    <3> QED
      BY <3>1, BridgeRests
  <2>2. CASE state \notin {"Closed", "Closing"}
    <3>1. /\ Bridge!BeginClose("withdrawn") /\ commands' = {[c EXCEPT !.cancelled = TRUE] : c \in commands}
          /\ bridges' = bridges /\ rfmcu' = rfmcu /\ forwards' = forwards /\ untold' = untold /\ refused' = refused
      BY <1>2, <2>2 DEF Bridge!Close
    <3>2. ASSUME NEW c \in commands
          PROVE  /\ [c EXCEPT !.cancelled = TRUE] \in Steps /\ [c EXCEPT !.cancelled = TRUE].cancelled
                 /\ [c EXCEPT !.cancelled = TRUE].gen <= generation
      <4>1. c \in Steps /\ generation \in Nat /\ c.gen <= generation
        BY DEF BridgeInv, CommandsFit, Steps
      <4>2. [c EXCEPT !.cancelled = TRUE].gen = c.gen /\ [c EXCEPT !.cancelled = TRUE].cancelled
            /\ [c EXCEPT !.cancelled = TRUE] \in Steps
        BY <4>1 DEF Steps
      <4> QED
        BY <4>1, <4>2
    <3>3. \A c \in commands' : c \in Steps /\ c.cancelled /\ c.gen <= generation
      BY <3>1, <3>2
    <3> QED
      BY <2>2, <3>1, <3>3, BeginCloseInv DEF BridgeInv
  <2> QED
    BY <2>1, <2>2
<1>3. CASE \E c \in commands, ok \in BOOLEAN : Bridge!Ends(c, ok) \/ Bridge!CleanupEnds(c, ok)
  BY <1>3, EndsInv, CleanupEndsInv
<1>4. CASE Bridge!Bridging
  <2>1. /\ state = "StartingBridge" /\ state' = "Connecting" /\ rfmcu' = {generation}
        /\ UNCHANGED <<generation, localPort, selected, touchedBoard, commands, bridges, forwards, untold, refused>>
    BY <1>4 DEF Bridge!Bridging
  <2>2. \A c \in commands : c.cancelled
    BY <2>1 DEF BridgeInv, CommandsFit, StageOf, Steps
  <2>3. (CommandsFit /\ Bridge!OneLinkAtATime)'
    BY <2>1, <2>2 DEF BridgeInv, CommandsFit, Bridge!OneLinkAtATime, Forwarded
  <2>4. localPort = generation
    BY <2>1 DEF BridgeInv, LinkKnows, Forwarded
  <2>5. (LinkKnows /\ LeftBehind)'
    BY <2>1, <2>2, <2>4 DEF BridgeInv, LinkKnows, LeftBehind, Unforwarded, Forwarded
  <2> QED
    BY <2>1, <2>3, <2>5 DEF BridgeInv, Unforwarded, Forwarded
<1>5. CASE Bridge!Connected
  <2>1. /\ state = "Connecting" /\ state' = "Open" /\ socket' = "connected"
        /\ UNCHANGED <<generation, localPort, selected, touchedBoard, commands, bridges, forwards, rfmcu, untold, refused>>
    BY <1>5 DEF Bridge!Connected
  <2>2. \A c \in commands : c.cancelled
    BY <2>1 DEF BridgeInv, CommandsFit, StageOf, Steps
  <2>3. (CommandsFit /\ Bridge!OneLinkAtATime)'
    BY <2>1, <2>2 DEF BridgeInv, CommandsFit, Bridge!OneLinkAtATime, Forwarded
  <2>4. (LinkKnows /\ LeftBehind)'
    BY <2>1, <2>2 DEF BridgeInv, LinkKnows, LeftBehind, Unforwarded, Forwarded
  <2> QED
    BY <2>1, <2>3, <2>4 DEF BridgeInv, Unforwarded, Forwarded
<1>6. CASE Bridge!SocketEnds \/ Bridge!TimesOut
  <2>1. Bridge!Fail /\ commands' = commands /\ state \in Forwarded
    BY <1>6 DEF Bridge!SocketEnds, Bridge!TimesOut, Forwarded
  <2>2. PICK reason : Bridge!BeginClose(reason)
    BY <2>1 DEF Bridge!Fail
  <2>3. \A c \in commands' : c \in Steps /\ c.cancelled /\ c.gen <= generation
    BY <2>1 DEF BridgeInv, CommandsFit, StageOf, Steps, Forwarded
  <2> QED
    BY <2>1, <2>2, <2>3, BeginCloseInv DEF Bridge!Fail
<1>7. ASSUME NEW b \in bridges, Bridge!BridgeEnds(b)
      PROVE  BridgeInv'
  <2>1. bridges' \subseteq bridges /\ rfmcu' \subseteq rfmcu /\ forwards' = forwards /\ untold' = untold /\ refused' = refused
    BY <1>7 DEF Bridge!BridgeEnds
  <2>2. CASE b = generation
    <3>1. state \in Forwarded /\ commands' = commands
      BY <1>7, <2>2 DEF Bridge!BridgeEnds, BridgeInv, CommandsFit
    <3>2. PICK reason : Bridge!BeginClose(reason)
      BY <1>7, <2>2 DEF Bridge!BridgeEnds
    <3>3. \A c \in commands' : c \in Steps /\ c.cancelled /\ c.gen <= generation
      BY <3>1 DEF BridgeInv, CommandsFit, StageOf, Steps, Forwarded
    <3> QED
      BY <2>1, <3>1, <3>2, <3>3, BeginCloseInv
  <2>3. CASE b # generation /\ state = "Closing" /\ b = closingBridge
    <3>1. Bridge!ContinueClose /\ (cleanupStarted \/ \A c \in commands : c.cancelled)
      BY <1>7, <2>3 DEF Bridge!BridgeEnds, CleanupWaits
    <3> QED
      BY <2>1, <2>3, <3>1, ContinueCloseInv
  <2>4. CASE b # generation /\ ~(state = "Closing" /\ b = closingBridge)
    <3>1. UNCHANGED <<state, generation, localPort, selected, touchedBoard, commands, socket, forwards, untold, refused>>
      BY <1>7, <2>1, <2>4 DEF Bridge!BridgeEnds
    <3>2. (CommandsFit /\ Bridge!OneLinkAtATime /\ LinkKnows)'
      BY <2>1, <3>1 DEF BridgeInv, CommandsFit, Bridge!OneLinkAtATime, LinkKnows
    <3>3. LeftBehind'
      BY <2>1, <3>1 DEF BridgeInv, LeftBehind
    <3> QED
      BY <2>1, <3>1, <3>2, <3>3 DEF BridgeInv
  <2> QED
    BY <2>2, <2>3, <2>4
<1>8. CASE Bridge!CloseGoesOn
  <2>1. Bridge!ContinueClose /\ state = "Closing" /\ (cleanupStarted \/ \A c \in commands : c.cancelled)
    BY <1>8 DEF Bridge!CloseGoesOn, CleanupWaits
  <2> QED
    BY <1>8, <2>1, ContinueCloseInv DEF Bridge!CloseGoesOn
<1>9. CASE \E c \in commands : Bridge!CancelledEnds(c)
  BY <1>9, CancelledEndsInv
<1> QED
  BY <1>1, <1>2, <1>3, <1>4, <1>5, <1>6, <1>7, <1>8, <1>9 DEF Bridge!BridgeNext

\* The cleanup's commands start with it: none is listened to before.
LEMMA CleanupWaitsKept ==
    ASSUME BridgeInv, CleanupWaits, Bridge!BridgeNext
    PROVE  CleanupWaits'
<1> USE DEF Bridge!private
<1>1. ASSUME Bridge!BeginClose("failed") \/ Bridge!BeginClose("lost") \/ Bridge!BeginClose("withdrawn"),
             \A c \in commands' : c.cancelled
      PROVE  CleanupWaits'
  BY <1>1 DEF CleanupWaits
<1>2. ASSUME NEW others, Bridge!FinishClose(others)
      PROVE  CleanupWaits'
  BY <1>2 DEF Bridge!FinishClose, Bridge!BeginOpen, CleanupWaits
<1>3. ASSUME state = "Closing", Bridge!ContinueClose
      PROVE  CleanupWaits'
  <2>1. CASE cleanupStarted
    BY <1>3, <2>1 DEF Bridge!ContinueClose, CleanupWaits
  <2>2. CASE ~cleanupStarted /\ (~selected \/ (~touchedBoard /\ localPort = 0))
    BY <1>2, <1>3, <2>2 DEF Bridge!ContinueClose
  <2>3. CASE ~cleanupStarted /\ ~(~selected \/ (~touchedBoard /\ localPort = 0))
    BY <1>3, <2>3 DEF Bridge!ContinueClose, CleanupWaits
  <2> QED
    BY <2>1, <2>2, <2>3
<1>4. state \in Forwarded => \A c \in commands : c.cancelled
  BY DEF BridgeInv, CommandsFit, StageOf, Steps, Forwarded
<1>5. CASE Bridge!Open
  BY <1>5 DEF Bridge!Open, Bridge!BeginOpen, CleanupWaits, Bridge!world
<1>6. CASE Bridge!Close
  <2>1. CASE state \in {"Closed", "Closing"}
    BY <1>6, <2>1 DEF Bridge!Close, Bridge!world, CleanupWaits
  <2>2. CASE state \notin {"Closed", "Closing"}
    <3>1. Bridge!BeginClose("withdrawn") /\ commands' = {[c EXCEPT !.cancelled = TRUE] : c \in commands}
      BY <1>6, <2>2 DEF Bridge!Close
    <3>2. \A c \in commands : [c EXCEPT !.cancelled = TRUE].cancelled
      BY DEF BridgeInv, CommandsFit, Steps
    <3> QED
      BY <1>1, <3>1, <3>2
  <2> QED
    BY <2>1, <2>2
<1>7. ASSUME NEW c \in commands, NEW ok \in BOOLEAN, Bridge!Ends(c, ok)
      PROVE  CleanupWaits'
  <2>1. CASE ok
    BY <1>7, <2>1 DEF Bridge!Ends, CleanupWaits
  <2>2. CASE ~ok
    BY <1>1, <1>7, <2>2 DEF Bridge!Ends, Bridge!Listened, BridgeInv, Bridge!OneLinkAtATime
  <2> QED
    BY <2>1, <2>2
<1>8. ASSUME NEW c \in commands, NEW ok \in BOOLEAN, Bridge!CleanupEnds(c, ok)
      PROVE  CleanupWaits'
  <2>1. state = "Closing" /\ c.gen = generation
    BY <1>8 DEF Bridge!CleanupEnds
  <2>2. cleanupStarted
    BY <2>1 DEF CleanupWaits, BridgeInv, CommandsFit, Steps
  <2>3. CASE Bridge!AfterKill(c)
    BY <1>8, <2>2, <2>3 DEF Bridge!CleanupEnds, CleanupWaits
  <2>4. CASE ~Bridge!AfterKill(c)
    BY <1>2, <1>8, <2>4 DEF Bridge!CleanupEnds
  <2> QED
    BY <2>3, <2>4
<1>9. ASSUME NEW c \in commands, Bridge!CancelledEnds(c)
      PROVE  CleanupWaits'
  BY <1>9 DEF Bridge!CancelledEnds, CleanupWaits
<1>10. CASE Bridge!Bridging \/ Bridge!Connected
  BY <1>10 DEF Bridge!Bridging, Bridge!Connected, CleanupWaits
<1>11. CASE Bridge!SocketEnds \/ Bridge!TimesOut
  BY <1>1, <1>4, <1>11 DEF Bridge!SocketEnds, Bridge!TimesOut, Bridge!Fail, Forwarded
<1>12. ASSUME NEW b \in bridges, Bridge!BridgeEnds(b)
       PROVE  CleanupWaits'
  <2>1. CASE b = generation
    <3>1. state \in Forwarded
      BY <2>1 DEF BridgeInv, CommandsFit
    <3> QED
      BY <1>1, <1>4, <1>12, <2>1, <3>1 DEF Bridge!BridgeEnds
  <2>2. CASE b # generation /\ state = "Closing" /\ b = closingBridge
    BY <1>3, <1>12, <2>2 DEF Bridge!BridgeEnds
  <2>3. CASE b # generation /\ ~(state = "Closing" /\ b = closingBridge)
    BY <1>12, <2>3 DEF Bridge!BridgeEnds, CleanupWaits
  <2> QED
    BY <2>1, <2>2, <2>3
<1>13. CASE Bridge!CloseGoesOn
  BY <1>3, <1>13 DEF Bridge!CloseGoesOn
<1> QED
  BY <1>5, <1>6, <1>7, <1>8, <1>9, <1>10, <1>11, <1>12, <1>13 DEF Bridge!BridgeNext

\* For any number of links, whatever close() cancels and whatever a cancelled, failed or
\* timed out command has still done: the commands that are listened to are of one link, a
\* link that is down has undone on the board and at the adb server what it knew of, and one
\* that is up has the only bridge and no rfmcu of another link beside it.  The forward of a
\* command it did not hear may stay (McuLink).
THEOREM BridgeHoldsAlways == ToolsSpec => []BridgeHolds
<1>1. ToolsInit => BridgeInv /\ CleanupWaits
  BY BridgeInitInv DEF ToolsInit
<1>2. BridgeInv /\ CleanupWaits /\ [ToolsNext]_<<which, vars, ofTool, ofBridge, ofCache, ofInventory, ofCli>>
         => BridgeInv' /\ CleanupWaits'
  <2> SUFFICES ASSUME BridgeInv, CleanupWaits,
                      [ToolsNext]_<<which, vars, ofTool, ofBridge, ofCache, ofInventory, ofCli>>
               PROVE  BridgeInv' /\ CleanupWaits'
    OBVIOUS
  <2>1. Bridge!BridgeNext \/ UNCHANGED ofBridge
    BY DEF ToolsNext
  <2>2. ASSUME UNCHANGED ofBridge
        PROVE  BridgeInv' /\ CleanupWaits'
    BY <2>2, BridgeRests DEF ofBridge, CleanupWaits
  <2> QED
    BY <2>1, <2>2, BridgeNextInv, CleanupWaitsKept
<1> QED
  BY <1>1, <1>2, BridgeInvHolds, PTL DEF ToolsSpec

-----------------------------------------------------------------------------
(* The inventory (Inventory, InventoryRecorder).                           *)

OwnedBoards == Inventory!Owned
Records == [n : Nat, md5 : 0..2, rows : SUBSET Inventory!Rows]
Updates == [at : {"lock", "read", "write"}, op : BOOLEAN, board : OwnedBoards, md5 : 0..2, rows : SUBSET Inventory!Rows,
            seen : [OwnedBoards -> Records], n : Nat]
Writings == [by : Inventory!Processes, board : OwnedBoards, md5 : 0..2, rows : SUBSET Inventory!Rows,
             done : SUBSET Inventory!Rows]

InventoryTyped ==
    /\ file \in [state : {"ok", "corrupt"}, records : [OwnedBoards -> Records]]
    /\ asides \in Nat /\ updates \in Nat
    /\ DOMAIN work = Inventory!Processes
    /\ \A p \in Inventory!Processes : work[p] = Inventory!Idle \/ work[p] \in Updates
    /\ lastSerial \in [Inventory!Processes -> OwnedBoards \cup {Inventory!Nobody}]
    /\ writes = Inventory!NotWriting \/ writes \in Writings
    /\ attached = Inventory!Empty \/ attached.board \in OwnedBoards
    /\ held \in [OwnedBoards -> [Inventory!Rows -> 0..2]]
    /\ counts \in [writes : Nat, faults : Nat, damaged : Nat]
    /\ landed \in [OwnedBoards -> Nat]
    /\ unrecorded \in [OwnedBoards -> SUBSET Inventory!Rows]

\* Who reads or writes the file holds its lock, and nobody changes what he has read.
LockHeld ==
    \A p \in Inventory!Processes :
        /\ work[p].at \in {"read", "write"} => lock = p
        /\ work[p].at = "write" => work[p].seen = file.records /\ file.state = "ok"

\* One operation writes boards, or tells what it wrote, of the board it asked.
OneOperation ==
    /\ writes # Inventory!NotWriting => \A p \in Inventory!Processes : ~work[p].op
    /\ \A p, q \in Inventory!Processes : work[p].op /\ work[q].op => p = q
    /\ writes # Inventory!NotWriting => lastSerial[writes.by] \in {Inventory!Nobody, writes.board}

\* What is told of a board is what its flash holds.
ToldIsHeld ==
    /\ \A p \in Inventory!Processes :
          work[p].at # "idle" =>
             /\ ~work[p].op \/ work[p].md5 = 0 => work[p].rows = {} /\ work[p].md5 = 0
             /\ \A r \in work[p].rows : held[work[p].board][r] = work[p].md5
    /\ \A r \in writes.done : held[writes.board][r] = writes.md5
    /\ writes # Inventory!NotWriting => writes.md5 # 0

\* Rows that were written and not told of yet.
Untold(b) ==
    {r \in Inventory!Rows :
        \/ writes.board = b /\ r \in writes.done
        \/ \E p \in Inventory!Processes : work[p].at # "idle" /\ work[p].board = b /\ r \in work[p].rows}

\* What the file says of a row is so, or about to be told otherwise, or never will be.
FileIsTrue ==
    \A b \in OwnedBoards : \A r \in file.records[b].rows \ (unrecorded[b] \cup Untold(b)) :
        file.records[b].md5 # 0 => held[b][r] = file.records[b].md5

LEMMA CountsTyped ==
    ASSUME NEW c, c \in [writes : Nat, faults : Nat, damaged : Nat], NEW x \in Nat, NEW y \in Nat
    PROVE  /\ [c EXCEPT !.writes = x, !.faults = y] \in [writes : Nat, faults : Nat, damaged : Nat]
           /\ [c EXCEPT !.writes = x, !.faults = y].damaged = c.damaged
           /\ [c EXCEPT !.faults = x, !.damaged = y] \in [writes : Nat, faults : Nat, damaged : Nat]
           /\ [c EXCEPT !.faults = x, !.damaged = y].damaged = y
  OBVIOUS

InventoryInv ==
    /\ InventoryTyped /\ Inventory!NothingIsLost
    /\ \A b \in OwnedBoards : file.records[b].n = landed[b]
    /\ LockHeld /\ OneOperation /\ ToldIsHeld /\ FileIsTrue

LEMMA InventoryInvHolds == InventoryInv => Inventory!NothingIsLost /\ Inventory!RecordedRowsRun
<1> SUFFICES ASSUME InventoryInv, Inventory!AtRest, NEW b \in Inventory!Owned, NEW md5 \in Inventory!Builds,
                    NEW r \in Inventory!Rows, Inventory!AlreadyRuns(b, md5, {r}), r \notin unrecorded[b]
             PROVE  held[b][r] = md5
  BY DEF InventoryInv, Inventory!RecordedRowsRun
<1>1. /\ writes.done = {} /\ \A p \in Inventory!Processes : work[p].at = "idle"
  BY DEF Inventory!AtRest, Inventory!NotWriting, Inventory!Idle
<1>2. r \notin Untold(b)
  BY <1>1 DEF Untold
<1>3. r \in file.records[b].rows /\ file.records[b].md5 = md5 /\ md5 # 0
  BY DEF Inventory!AlreadyRuns, Inventory!Builds
<1> QED
  BY <1>2, <1>3 DEF InventoryInv, FileIsTrue, OwnedBoards

LEMMA InventoryInitInv == Inventory!InventoryInit => InventoryInv
<1> SUFFICES ASSUME Inventory!InventoryInit PROVE InventoryInv
  OBVIOUS
<1> USE DEF Inventory!InventoryInit, Inventory!Idle, Inventory!NotWriting, Inventory!NoRecord, OwnedBoards
<1>1. InventoryTyped
  BY DEF InventoryTyped, Records, Inventory!Empty
<1>2. Inventory!NothingIsLost
  BY DEF Inventory!NothingIsLost
<1>3. LockHeld /\ OneOperation /\ ToldIsHeld
  BY DEF LockHeld, OneOperation, ToldIsHeld
<1>4. FileIsTrue
  BY DEF FileIsTrue
<1> QED
  BY <1>1, <1>2, <1>3, <1>4 DEF InventoryInv

\* TakeLock: the lock is nobody's, so nobody is at the file.
LEMMA TakeLockInv ==
    ASSUME InventoryInv, NEW p \in Inventory!Processes, Inventory!TakeLock(p)
    PROVE  InventoryInv'
<1> USE DEF InventoryInv, InventoryTyped
<1>1. /\ work[p] \in Updates /\ work[p].at = "lock" /\ lock \notin Inventory!Processes /\ lock' = p
      /\ work' = [work EXCEPT ![p].at = "read"]
      /\ UNCHANGED <<file, asides, lastSerial, writes, attached, held, updates, counts, landed, unrecorded>>
  BY DEF Inventory!TakeLock, Inventory!Idle, Inventory!Processes, Inventory!Nobody
<1>2. /\ work'[p] = [work[p] EXCEPT !.at = "read"] /\ work'[p] \in Updates
      /\ \A q \in Inventory!Processes \ {p} : work'[q] = work[q]
      /\ DOMAIN work' = Inventory!Processes
  BY <1>1 DEF Updates
<1>3. /\ work'[p].at = "read" /\ work'[p].op = work[p].op /\ work'[p].board = work[p].board
      /\ work'[p].md5 = work[p].md5 /\ work'[p].rows = work[p].rows
  BY <1>1, <1>2 DEF Updates
<1>4. InventoryTyped'
  BY <1>1, <1>2
<1>5. LockHeld'
  BY <1>1, <1>2, <1>3 DEF LockHeld
<1>6. (OneOperation /\ ToldIsHeld)'
  BY <1>1, <1>2, <1>3 DEF OneOperation, ToldIsHeld
<1>7. \A b : Untold(b)' = Untold(b)
  BY <1>1, <1>2, <1>3 DEF Untold
<1> QED
  BY <1>1, <1>4, <1>5, <1>6, <1>7 DEF FileIsTrue, Inventory!NothingIsLost

\* Read: under the lock, of a file that is whole or is put aside.
LEMMA ReadInv ==
    ASSUME InventoryInv, NEW p \in Inventory!Processes, Inventory!Read(p)
    PROVE  InventoryInv'
<1> USE DEF InventoryInv, InventoryTyped
<1>1. /\ work[p] \in Updates /\ work[p].at = "read" /\ lock = p /\ lock' = p
      /\ work' = [work EXCEPT ![p].at = "write", ![p].seen = file.records]
      /\ file' = [file EXCEPT !.state = "ok"]
      /\ asides' = IF file.state = "corrupt" THEN asides + 1 ELSE asides
      /\ UNCHANGED <<lastSerial, writes, attached, held, updates, counts, landed, unrecorded>>
  BY DEF Inventory!Read, Inventory!Idle, LockHeld
<1>2. /\ work'[p] = [work[p] EXCEPT !.at = "write", !.seen = file.records] /\ work'[p] \in Updates
      /\ \A q \in Inventory!Processes \ {p} : work'[q] = work[q]
      /\ DOMAIN work' = Inventory!Processes
  BY <1>1 DEF Updates
<1>3. /\ work'[p].at = "write" /\ work'[p].op = work[p].op /\ work'[p].board = work[p].board
      /\ work'[p].md5 = work[p].md5 /\ work'[p].rows = work[p].rows /\ work'[p].seen = file.records
  BY <1>1, <1>2 DEF Updates
<1>4. /\ file'.records = file.records /\ file'.state = "ok"
      /\ file' \in [state : {"ok", "corrupt"}, records : [OwnedBoards -> Records]]
  BY <1>1
<1>5. InventoryTyped'
  BY <1>1, <1>2, <1>4
<1>6. LockHeld'
  BY <1>1, <1>2, <1>3, <1>4 DEF LockHeld
<1>7. (OneOperation /\ ToldIsHeld)'
  BY <1>1, <1>2, <1>3 DEF OneOperation, ToldIsHeld
<1>8. \A b : Untold(b)' = Untold(b)
  BY <1>1, <1>2, <1>3 DEF Untold
<1>9. Inventory!NothingIsLost'
  BY <1>1, <1>4 DEF Inventory!NothingIsLost, OwnedBoards
<1> QED
  BY <1>1, <1>4, <1>5, <1>6, <1>7, <1>8, <1>9 DEF FileIsTrue

\* An update that is given up: its rows are not recorded.
LEMMA FailedInv ==
    ASSUME InventoryInv, NEW p \in Inventory!Processes, work[p] \in Updates, Inventory!Failed(p),
           \A q \in Inventory!Processes \ {p} : work[q].at \in {"read", "write"} => lock' = lock,
           lastSerial' = lastSerial \/ lastSerial' = [lastSerial EXCEPT ![p] = Inventory!Nobody],
           counts' \in [writes : Nat, faults : Nat, damaged : Nat], counts'.damaged = counts.damaged,
           UNCHANGED <<file, asides, writes, attached, held, updates, landed>>
    PROVE  InventoryInv'
<1> USE DEF InventoryInv, InventoryTyped
<1>1. /\ work'[p] = Inventory!Idle
      /\ \A q \in Inventory!Processes \ {p} : work'[q] = work[q]
      /\ DOMAIN work' = Inventory!Processes
      /\ unrecorded' = [unrecorded EXCEPT ![work[p].board] = @ \cup work[p].rows]
  BY DEF Inventory!Failed
<1>2. work'[p].at = "idle" /\ work'[p].op = FALSE
  BY <1>1 DEF Inventory!Idle
<1>3. work[p].board \in OwnedBoards /\ work[p].rows \subseteq Inventory!Rows
  BY DEF Updates
<1>4. unrecorded' \in [OwnedBoards -> SUBSET Inventory!Rows]
  BY <1>1, <1>3
<1>5. lastSerial' \in [Inventory!Processes -> OwnedBoards \cup {Inventory!Nobody}]
  OBVIOUS
<1>6. InventoryTyped'
  BY <1>1, <1>4, <1>5
<1>7. LockHeld'
  BY <1>1, <1>2 DEF LockHeld
<1>8. OneOperation'
  <2>1. \A q \in Inventory!Processes : lastSerial'[q] \in {lastSerial[q], Inventory!Nobody}
    OBVIOUS
  <2>2. writes # Inventory!NotWriting => writes.by \in Inventory!Processes
    BY DEF Writings
  <2> QED
    BY <1>1, <1>2, <2>1, <2>2 DEF OneOperation
<1>9. ToldIsHeld'
  BY <1>1, <1>2 DEF ToldIsHeld
<1>10. \A b \in OwnedBoards : unrecorded[b] \cup Untold(b) \subseteq unrecorded'[b] \cup Untold(b)'
  BY <1>1, <1>3 DEF Untold
<1>11. FileIsTrue'
  BY <1>10 DEF FileIsTrue
<1>12. Inventory!NothingIsLost'
  BY DEF Inventory!NothingIsLost
<1> QED
  BY <1>6, <1>7, <1>8, <1>9, <1>11, <1>12

\* Write: the records that were read, which nobody changed, and the change.
LEMMA WriteInv ==
    ASSUME InventoryInv, NEW p \in Inventory!Processes, Inventory!Write(p)
    PROVE  InventoryInv'
<1> USE DEF InventoryInv, InventoryTyped
<1> DEFINE c == work[p]
           new == Inventory!Applied(file.records[c.board], c)
<1>1. /\ c \in Updates /\ c.at = "write" /\ lock = p /\ lock' = Inventory!Nobody
      /\ c.seen = file.records /\ file.state = "ok"
  BY DEF Inventory!Write, Inventory!Idle, LockHeld
<1>2. c.board \in OwnedBoards /\ c.rows \subseteq Inventory!Rows /\ c.md5 \in 0..2 /\ c.n \in Nat
  BY <1>1 DEF Updates
<1>3. /\ file' = [state |-> "ok", records |-> [file.records EXCEPT ![c.board] = new]]
      /\ asides' = asides
      /\ landed' = [landed EXCEPT ![c.board] = c.n]
      /\ unrecorded' = [unrecorded EXCEPT ![c.board] =
                           IF c.md5 # 0 /\ file.records[c.board].md5 # c.md5 THEN {} ELSE @ \ c.rows]
      /\ UNCHANGED <<lastSerial, writes, attached, held, updates, counts>>
  BY <1>1 DEF Inventory!Write
<1>4. /\ work'[p] = Inventory!Idle
      /\ \A q \in Inventory!Processes \ {p} : work'[q] = work[q] /\ work[q].at \notin {"read", "write"}
      /\ DOMAIN work' = Inventory!Processes
  BY <1>1 DEF Inventory!Write, LockHeld
<1>5. work'[p].at = "idle" /\ work'[p].op = FALSE
  BY <1>4 DEF Inventory!Idle
<1>6. file.records[c.board] \in Records
  BY <1>2
<1>7. new \in Records /\ new.n = c.n
  BY <1>2, <1>6 DEF Inventory!Applied, Inventory!Merged, Records
<1>8. /\ file'.state = "ok" /\ file'.records \in [OwnedBoards -> Records]
      /\ file'.records[c.board] = new
      /\ \A b \in OwnedBoards \ {c.board} : file'.records[b] = file.records[b] /\ unrecorded'[b] = unrecorded[b]
                                          /\ landed'[b] = landed[b]
      /\ landed'[c.board] = c.n
  BY <1>2, <1>3, <1>7
<1>9. unrecorded' \in [OwnedBoards -> SUBSET Inventory!Rows] /\ landed' \in [OwnedBoards -> Nat]
  BY <1>2, <1>3
<1>10. InventoryTyped'
  BY <1>3, <1>4, <1>8, <1>9
<1>11. LockHeld'
  BY <1>4, <1>5 DEF LockHeld
<1>12. OneOperation'
  BY <1>3, <1>4, <1>5 DEF OneOperation
<1>13. ToldIsHeld'
  BY <1>3, <1>4, <1>5 DEF ToldIsHeld
<1>14. Inventory!NothingIsLost' /\ \A b \in OwnedBoards : file'.records[b].n = landed'[b]
  BY <1>1, <1>3, <1>7, <1>8 DEF Inventory!NothingIsLost, OwnedBoards
<1>15. ASSUME NEW b \in OwnedBoards, NEW r \in file'.records[b].rows, r \notin unrecorded'[b], r \notin Untold(b)',
              file'.records[b].md5 # 0
       PROVE  held[b][r] = file'.records[b].md5
  <2>1. r \in Inventory!Rows
    BY <1>8, <1>15 DEF Records
  <2>2. r \in Untold(b) => b = c.board /\ r \in c.rows
    BY <1>3, <1>4, <1>15, <2>1 DEF Untold
  <2>3. CASE b # c.board
    BY <1>8, <1>15, <2>2, <2>3 DEF FileIsTrue
  <2>4. CASE b = c.board /\ r \in c.rows
    <3>1. c.md5 # 0 /\ held[b][r] = c.md5
      BY <1>1, <2>4 DEF ToldIsHeld
    <3>2. new.md5 = c.md5
      BY <1>2, <1>6, <3>1 DEF Inventory!Applied, Inventory!Merged, Records
    <3> QED
      BY <1>8, <2>4, <3>1, <3>2
  <2>5. CASE b = c.board /\ r \notin c.rows
    <3>1. /\ r \in file.records[b].rows /\ new.md5 = file.records[b].md5
          /\ ~(c.md5 # 0 /\ file.records[b].md5 # c.md5)
      <4>1. r \in new.rows
        BY <1>8, <1>15, <2>5
      <4>2. CASE c.md5 = 0
        BY <1>6, <2>5, <4>1, <4>2 DEF Inventory!Applied, Records
      <4>3. CASE c.md5 # 0
        BY <1>2, <1>6, <2>5, <4>1, <4>3 DEF Inventory!Applied, Inventory!Merged, Records
      <4> QED
        BY <4>2, <4>3
    <3>2. r \notin unrecorded[b]
      BY <1>2, <1>3, <1>15, <2>5, <3>1
    <3> QED
      BY <1>8, <1>15, <2>2, <2>5, <3>1, <3>2 DEF FileIsTrue
  <2> QED
    BY <2>3, <2>4, <2>5
<1>16. FileIsTrue'
  BY <1>3, <1>15 DEF FileIsTrue
<1> QED
  BY <1>10, <1>11, <1>12, <1>13, <1>14, <1>16

\* What an update begins with: of an operation, the only one, whose end it tells, or of
\* none; the rows it tells of are held, and rows that change and that it does not tell of
\* are unrecorded.
Fits(p, board, md5, rows, op) ==
    /\ IF op THEN (\A q \in Inventory!Processes : ~work[q].op) /\ writes' = Inventory!NotWriting
       ELSE rows = {} /\ md5 = 0 /\ held' = held /\ writes' = writes
    /\ md5 = 0 => rows = {}
    /\ \A r \in rows : held'[board][r] = md5
    /\ \A r \in writes.done : op => r \in unrecorded'[writes.board] \/ (writes.board = board /\ r \in rows)
    /\ \A b \in OwnedBoards : unrecorded[b] \subseteq unrecorded'[b]
    /\ \A b \in OwnedBoards, r \in Inventory!Rows :
          held'[b][r] = held[b][r] \/ r \in unrecorded'[b] \/ (b = board /\ r \in rows)

\* What it leaves alone.
Beside ==
    /\ held' \in [OwnedBoards -> [Inventory!Rows -> 0..2]]
    /\ lastSerial' \in [Inventory!Processes -> OwnedBoards \cup {Inventory!Nobody}]
    /\ counts' \in [writes : Nat, faults : Nat, damaged : Nat] /\ counts'.damaged = counts.damaged
    /\ unrecorded' \in [OwnedBoards -> SUBSET Inventory!Rows]
    /\ writes' # Inventory!NotWriting => lastSerial'[writes.by] = lastSerial[writes.by]
    /\ UNCHANGED <<file, asides, lock, attached, landed>>

LEMMA UpdateInv ==
    ASSUME InventoryInv, NEW p \in Inventory!Processes, work[p].at = "idle",
           NEW board \in OwnedBoards, NEW md5 \in 0..2, NEW rows \in SUBSET Inventory!Rows, NEW op \in BOOLEAN,
           Inventory!Update(p, board, md5, rows, op), Fits(p, board, md5, rows, op), Beside
    PROVE  InventoryInv'
<1> USE DEF InventoryInv, InventoryTyped, Fits, Beside
<1>1. /\ work'[p] = [at |-> "lock", op |-> op, board |-> board, md5 |-> md5, rows |-> rows,
                     seen |-> [b \in OwnedBoards |-> Inventory!NoRecord], n |-> updates']
      /\ \A q \in Inventory!Processes \ {p} : work'[q] = work[q]
      /\ DOMAIN work' = Inventory!Processes
      /\ updates' \in Nat
  BY DEF Inventory!Update, OwnedBoards
<1>2. work'[p] \in Updates
  BY <1>1 DEF Updates, Records, Inventory!NoRecord
<1>3. /\ work'[p].at = "lock" /\ work'[p].op = op /\ work'[p].board = board /\ work'[p].md5 = md5
      /\ work'[p].rows = rows
  BY <1>1
<1>4. writes' = Inventory!NotWriting \/ writes' \in Writings
  OBVIOUS
<1>5. InventoryTyped'
  BY <1>1, <1>2, <1>4
<1>6. LockHeld'
  <2>1. \A q \in Inventory!Processes : work'[q].at \in {"read", "write"} => work'[q] = work[q]
    BY <1>1, <1>3
  <2> QED
    BY <2>1 DEF LockHeld
<1>7. OneOperation'
  <2>1. CASE op
    <3>1. writes' = Inventory!NotWriting /\ \A q \in Inventory!Processes \ {p} : ~work'[q].op
      BY <1>1, <2>1
    <3> QED
      BY <3>1 DEF OneOperation
  <2>2. CASE ~op
    <3>1. writes' # Inventory!NotWriting => writes' = writes
      BY <2>2
    <3>2. \A q \in Inventory!Processes : work'[q].op => work[q].op
      BY <1>1, <1>3, <2>2
    <3> QED
      BY <3>1, <3>2 DEF OneOperation
  <2> QED
    BY <2>1, <2>2
<1>8. ToldIsHeld'
  <2>1. \A q \in Inventory!Processes : work[q].at # "idle" /\ op => work[q].rows = {}
    BY DEF ToldIsHeld
  <2>2. writes'.done # {} => writes' = writes /\ held' = held
    BY DEF Inventory!NotWriting
  <2>3. ASSUME NEW q \in Inventory!Processes, work'[q].at # "idle"
        PROVE  /\ ~work'[q].op \/ work'[q].md5 = 0 => work'[q].rows = {} /\ work'[q].md5 = 0
               /\ \A r \in work'[q].rows : held'[work'[q].board][r] = work'[q].md5
    <3>1. CASE q = p
      BY <1>3, <3>1
    <3>2. CASE q # p /\ op
      BY <1>1, <2>1, <2>3, <3>2 DEF ToldIsHeld
    <3>3. CASE q # p /\ ~op
      BY <1>1, <2>3, <3>3 DEF ToldIsHeld
    <3> QED
      BY <3>1, <3>2, <3>3
  <2>4. \A r \in writes'.done : held'[writes'.board][r] = writes'.md5
    BY <2>2 DEF ToldIsHeld
  <2> QED
    BY <2>3, <2>4 DEF ToldIsHeld
<1>9. \A b \in OwnedBoards : Untold(b) \subseteq unrecorded'[b] \cup Untold(b)'
  BY <1>1, <1>3 DEF Untold
<1>10. \A b \in OwnedBoards, r \in Inventory!Rows : b = board /\ r \in rows => r \in Untold(b)'
  BY <1>1, <1>3 DEF Untold
<1>11. FileIsTrue'
  BY <1>9, <1>10 DEF FileIsTrue, Records
<1>12. Inventory!NothingIsLost'
  BY DEF Inventory!NothingIsLost
<1> QED
  BY <1>5, <1>6, <1>7, <1>8, <1>11, <1>12

\* onStatus(), and a fact of the board: of no operation.
LEMMA StatusInv ==
    ASSUME InventoryInv, NEW p \in Inventory!Processes, Inventory!Status(p) \/ Inventory!Learnt(p)
    PROVE  InventoryInv'
<1>1. /\ work[p].at = "idle"
      /\ UNCHANGED <<file, asides, lock, writes, attached, held, counts, landed, unrecorded>>
  BY DEF Inventory!Status, Inventory!Learnt
<1>2. /\ lastSerial' \in [Inventory!Processes -> OwnedBoards \cup {Inventory!Nobody}]
      /\ writes # Inventory!NotWriting => lastSerial'[writes.by] = lastSerial[writes.by]
  <2>1. CASE Inventory!Learnt(p)
    BY <2>1 DEF Inventory!Learnt, InventoryInv, InventoryTyped
  <2>2. CASE Inventory!Status(p)
    <3>1. Inventory!Named \in OwnedBoards \cup {Inventory!Nobody}
      BY DEF Inventory!Named, Inventory!Empty, InventoryInv, InventoryTyped
    <3>2. lastSerial' = [lastSerial EXCEPT ![p] = Inventory!Named] /\ writes.by # p
      BY <2>2 DEF Inventory!Status, Inventory!Seen
    <3>3. writes # Inventory!NotWriting => writes.by \in Inventory!Processes
      BY DEF Writings, InventoryInv, InventoryTyped
    <3> QED
      BY <3>1, <3>2, <3>3 DEF InventoryInv, InventoryTyped
  <2> QED
    BY <2>1, <2>2
<1>3. CASE UNCHANGED <<work, updates>>
  <2>1. (LockHeld /\ ToldIsHeld)'
    BY <1>1, <1>3 DEF LockHeld, ToldIsHeld, InventoryInv
  <2>2. OneOperation'
    BY <1>1, <1>2, <1>3 DEF OneOperation, InventoryInv
  <2>3. \A b : Untold(b)' = Untold(b)
    BY <1>1, <1>3 DEF Untold
  <2> QED
    BY <1>1, <1>2, <1>3, <2>1, <2>2, <2>3 DEF FileIsTrue, Inventory!NothingIsLost, InventoryInv, InventoryTyped
<1>4. CASE \E board \in OwnedBoards : Inventory!Update(p, board, 0, {}, FALSE)
  <2>1. PICK board \in OwnedBoards : Inventory!Update(p, board, 0, {}, FALSE)
    BY <1>4
  <2>2. /\ held \in [OwnedBoards -> [Inventory!Rows -> 0..2]]
        /\ counts \in [writes : Nat, faults : Nat, damaged : Nat]
        /\ unrecorded \in [OwnedBoards -> SUBSET Inventory!Rows]
    BY DEF InventoryInv, InventoryTyped
  <2>3. Fits(p, board, 0, {}, FALSE)
    BY <1>1 DEF Fits
  <2>4. Beside
    BY <1>1, <1>2, <2>2 DEF Beside
  <2>5. {} \in SUBSET Inventory!Rows /\ 0 \in 0..2 /\ FALSE \in BOOLEAN
    OBVIOUS
  <2> QED
    BY <1>1, <2>1, <2>3, <2>4, <2>5, UpdateInv, Zenon
<1>5. UNCHANGED <<work, updates>> \/ \E board \in OwnedBoards : Inventory!Update(p, board, 0, {}, FALSE)
  <2>1. CASE Inventory!Learnt(p)
    BY <2>1 DEF Inventory!Learnt, InventoryInv, InventoryTyped
  <2>2. CASE Inventory!Status(p)
    <3>1. Inventory!Named # Inventory!Nobody => Inventory!Named \in OwnedBoards
      BY DEF Inventory!Named, Inventory!Empty, InventoryInv, InventoryTyped
    <3> QED
      BY <2>2, <3>1 DEF Inventory!Status
  <2> QED
    BY <2>1, <2>2
<1> QED
  BY <1>3, <1>4, <1>5

\* flashSoc() begins, where no operation is.
LEMMA FlashBeginsInv ==
    ASSUME InventoryInv, NEW p \in Inventory!Processes, Inventory!FlashBegins(p)
    PROVE  InventoryInv'
<1> USE DEF InventoryInv, InventoryTyped
<1>1. /\ writes = Inventory!NotWriting /\ \A q \in Inventory!Processes : ~work[q].op
      /\ attached.board \in OwnedBoards
      /\ lastSerial' = [lastSerial EXCEPT ![p] = Inventory!Named]
      /\ counts' = [counts EXCEPT !.writes = @ + 1]
      /\ UNCHANGED <<file, asides, lock, work, attached, held, updates, landed, unrecorded>>
  BY DEF Inventory!FlashBegins, Inventory!Operating, Inventory!Seen
<1>2. PICK md5 \in Inventory!NewOrKnown, rows \in SUBSET Inventory!Rows :
          writes' = [by |-> p, board |-> attached.board, md5 |-> md5, rows |-> rows, done |-> {}]
  BY DEF Inventory!FlashBegins
<1>3. /\ writes' \in Writings /\ writes'.done = {} /\ writes'.by = p /\ writes'.board = attached.board
      /\ writes'.md5 # 0
  BY <1>1, <1>2 DEF Writings, Inventory!NewOrKnown, Inventory!Builds
<1>4. Inventory!Named \in {attached.board, Inventory!Nobody}
  BY DEF Inventory!Named
<1>5. InventoryTyped'
  BY <1>1, <1>3, <1>4
<1>6. (LockHeld /\ ToldIsHeld)'
  BY <1>1, <1>3 DEF LockHeld, ToldIsHeld
<1>7. OneOperation'
  BY <1>1, <1>3, <1>4 DEF OneOperation
<1>8. writes.done = {}
  BY <1>1 DEF Inventory!NotWriting
<1>9. \A b : Untold(b)' = Untold(b)
  BY <1>1, <1>3, <1>8 DEF Untold
<1> QED
  BY <1>1, <1>5, <1>6, <1>7, <1>9 DEF FileIsTrue, Inventory!NothingIsLost

\* A row of the board being written.
LEMMA RowWrittenInv ==
    ASSUME InventoryInv, Inventory!RowWritten
    PROVE  InventoryInv'
<1> USE DEF InventoryInv, InventoryTyped
<1> DEFINE r == Inventory!NextRow
<1>1. writes \in Writings /\ writes # Inventory!NotWriting
  BY DEF Inventory!RowWritten, Inventory!NotWriting
<1>2. r \in writes.rows
  <2>1. \E x \in writes.rows : \A y \in writes.rows : x <= y
    BY <1>1 DEF Inventory!RowWritten, Writings, Inventory!Rows
  <2> QED
    BY <2>1 DEF Inventory!NextRow
<1>3. PICK skipped \in BOOLEAN :
          /\ writes' = [writes EXCEPT !.rows = @ \ {r}, !.done = IF skipped THEN @ ELSE @ \cup {r}]
          /\ held' = IF skipped THEN held ELSE [held EXCEPT ![writes.board][r] = writes.md5]
  BY DEF Inventory!RowWritten
<1>4. UNCHANGED <<file, asides, lock, work, lastSerial, attached, updates, counts, landed, unrecorded>>
  BY DEF Inventory!RowWritten
<1>5. /\ writes.board \in OwnedBoards /\ writes.md5 \in 0..2 /\ r \in Inventory!Rows
      /\ writes.rows \subseteq Inventory!Rows /\ writes.done \subseteq Inventory!Rows
  BY <1>1, <1>2 DEF Writings
<1>6. /\ writes' \in Writings /\ writes'.by = writes.by /\ writes'.board = writes.board /\ writes'.md5 = writes.md5
      /\ writes'.done = IF skipped THEN writes.done ELSE writes.done \cup {r}
  BY <1>1, <1>3, <1>5 DEF Writings
<1>7. /\ held' \in [OwnedBoards -> [Inventory!Rows -> 0..2]]
      /\ \A b \in OwnedBoards, s \in Inventory!Rows :
            held'[b][s] = IF ~skipped /\ b = writes.board /\ s = r THEN writes.md5 ELSE held[b][s]
  BY <1>3, <1>5
<1>8. InventoryTyped'
  BY <1>4, <1>6, <1>7
<1>9. LockHeld'
  BY <1>4 DEF LockHeld
<1>10. OneOperation'
  BY <1>1, <1>4, <1>6 DEF OneOperation
<1>11. ToldIsHeld'
  <2>1. \A q \in Inventory!Processes : work[q].at # "idle" => work[q].rows = {}
    BY <1>1 DEF ToldIsHeld, OneOperation
  <2> QED
    BY <1>1, <1>4, <1>5, <1>6, <1>7, <2>1 DEF ToldIsHeld
<1>12. \A b \in OwnedBoards : Untold(b) \subseteq Untold(b)' /\ (b = writes.board /\ ~skipped => r \in Untold(b)')
  BY <1>4, <1>5, <1>6 DEF Untold
<1>13. FileIsTrue'
  <2> SUFFICES ASSUME NEW b \in OwnedBoards, NEW s \in file.records[b].rows, s \notin unrecorded[b],
                      s \notin Untold(b)', file.records[b].md5 # 0
               PROVE  held'[b][s] = file.records[b].md5
    BY <1>4 DEF FileIsTrue
  <2>1. s \in Inventory!Rows
    BY DEF Records
  <2>2. s \notin Untold(b) /\ ~(~skipped /\ b = writes.board /\ s = r)
    BY <1>12
  <2> QED
    BY <1>7, <2>1, <2>2 DEF FileIsTrue
<1> QED
  BY <1>4, <1>8, <1>9, <1>10, <1>11, <1>13 DEF Inventory!NothingIsLost

\* A flash ends: its rows are told of the board it wrote, or of none.
LEMMA FlashEndsInv ==
    ASSUME InventoryInv, Inventory!FlashEnds
    PROVE  InventoryInv'
<1> DEFINE p == writes.by
<1>1. /\ p \in Inventory!Processes /\ work[p].at = "idle" /\ writes' = Inventory!NotWriting
      /\ Inventory!Report(p, lastSerial[p], writes.md5, writes.done)
      /\ UNCHANGED <<file, asides, lock, lastSerial, attached, held, counts, landed>>
  BY DEF Inventory!FlashEnds
<1>2. writes # Inventory!NotWriting /\ writes \in Writings
  BY <1>1 DEF Inventory!NotWriting, Inventory!Processes, Inventory!Nobody, InventoryInv, InventoryTyped
<1>3. /\ writes.board \in OwnedBoards /\ writes.md5 \in 0..2 /\ writes.done \in SUBSET Inventory!Rows
      /\ lastSerial[p] \in {Inventory!Nobody, writes.board}
      /\ \A q \in Inventory!Processes : ~work[q].op
      /\ \A r \in writes.done : held[writes.board][r] = writes.md5
  BY <1>2 DEF Writings, InventoryInv, OneOperation, ToldIsHeld
<1>4. CASE lastSerial[p] = Inventory!Nobody
  <2>1. /\ UNCHANGED <<work, updates>>
        /\ unrecorded' = [unrecorded EXCEPT ![writes.board] = @ \cup writes.done]
    BY <1>1, <1>4 DEF Inventory!Report
  <2>2. unrecorded' \in [OwnedBoards -> SUBSET Inventory!Rows]
    BY <1>3, <2>1 DEF InventoryInv, InventoryTyped
  <2>3. InventoryTyped'
    BY <1>1, <2>1, <2>2 DEF InventoryInv, InventoryTyped
  <2>4. (LockHeld /\ OneOperation)'
    BY <1>1, <2>1 DEF LockHeld, OneOperation, InventoryInv
  <2>5. ToldIsHeld'
    BY <1>1, <2>1 DEF ToldIsHeld, InventoryInv, Inventory!NotWriting
  <2>6. \A b \in OwnedBoards : unrecorded[b] \cup Untold(b) \subseteq unrecorded'[b] \cup Untold(b)'
    BY <1>1, <1>3, <2>1, <2>2 DEF Untold, InventoryInv, InventoryTyped
  <2> QED
    BY <1>1, <2>3, <2>4, <2>5, <2>6 DEF FileIsTrue, Inventory!NothingIsLost, InventoryInv, OwnedBoards
<1>5. CASE lastSerial[p] = writes.board
  <2>1. Inventory!Update(p, writes.board, writes.md5, writes.done, TRUE) /\ unrecorded' = unrecorded
    BY <1>1, <1>3, <1>5 DEF Inventory!Report, OwnedBoards, Inventory!Owned, Inventory!Nobody
  <2>2. writes.md5 # 0
    BY <1>2 DEF InventoryInv, ToldIsHeld
  <2>3. Fits(p, writes.board, writes.md5, writes.done, TRUE)
    BY <1>1, <1>3, <2>1, <2>2 DEF Fits
  <2>4. Beside
    BY <1>1, <2>1 DEF Beside, InventoryInv, InventoryTyped
  <2>5. TRUE \in BOOLEAN
    OBVIOUS
  <2> QED
    BY <1>1, <1>3, <2>1, <2>3, <2>4, <2>5, UpdateInv, Zenon
<1> QED
  BY <1>3, <1>4, <1>5

\* A write is cut: what it did is not recorded.
LEMMA FlashFailsInv ==
    ASSUME InventoryInv, Inventory!FlashFails
    PROVE  InventoryInv'
<1> DEFINE p == writes.by
           r == Inventory!NextRow
<1>1. /\ p \in Inventory!Processes /\ work[p].at = "idle" /\ writes' = Inventory!NotWriting /\ writes.rows # {}
      /\ held' = [held EXCEPT ![writes.board][r] = 0]
      /\ unrecorded' = [unrecorded EXCEPT ![writes.board] = @ \cup writes.done \cup {r}]
      /\ counts' = [counts EXCEPT !.faults = @ + 1]
      /\ UNCHANGED <<file, asides, lock, lastSerial, attached, landed>>
  BY DEF Inventory!FlashFails, Inventory!Fault
<1>2. writes # Inventory!NotWriting /\ writes \in Writings
  BY <1>1 DEF Inventory!NotWriting, Inventory!Processes, Inventory!Nobody, InventoryInv, InventoryTyped
<1>3. r \in Inventory!Rows
  <2>1. \E x \in writes.rows : \A y \in writes.rows : x <= y
    BY <1>1, <1>2 DEF Writings, Inventory!Rows
  <2> QED
    BY <1>2, <2>1 DEF Inventory!NextRow, Writings
<1>4. /\ writes.board \in OwnedBoards /\ writes.done \in SUBSET Inventory!Rows
      /\ lastSerial[p] \in {Inventory!Nobody, writes.board}
      /\ \A q \in Inventory!Processes : ~work[q].op
  BY <1>2 DEF Writings, InventoryInv, OneOperation
<1>5. /\ unrecorded' \in [OwnedBoards -> SUBSET Inventory!Rows]
      /\ \A b \in OwnedBoards : unrecorded[b] \subseteq unrecorded'[b]
      /\ writes.done \cup {r} \subseteq unrecorded'[writes.board]
      /\ held' \in [OwnedBoards -> [Inventory!Rows -> 0..2]]
      /\ \A b \in OwnedBoards, s \in Inventory!Rows : held'[b][s] = held[b][s] \/ (b = writes.board /\ s = r)
      /\ counts' \in [writes : Nat, faults : Nat, damaged : Nat] /\ counts'.damaged = counts.damaged
  BY <1>1, <1>3, <1>4 DEF InventoryInv, InventoryTyped
<1>6. CASE lastSerial[p] = Inventory!Nobody
  <2>1. UNCHANGED <<work, updates>>
    BY <1>6 DEF Inventory!FlashFails
  <2>2. InventoryTyped'
    BY <1>1, <1>5, <2>1 DEF InventoryInv, InventoryTyped
  <2>3. (LockHeld /\ OneOperation)'
    BY <1>1, <2>1 DEF LockHeld, OneOperation, InventoryInv
  <2>4. \A q \in Inventory!Processes : work[q].at # "idle" => work[q].rows = {}
    BY <1>4 DEF ToldIsHeld, InventoryInv
  <2>5. ToldIsHeld'
    BY <1>1, <2>1, <2>4 DEF ToldIsHeld, InventoryInv, Inventory!NotWriting
  <2>6. \A b \in OwnedBoards : unrecorded[b] \cup Untold(b) \subseteq unrecorded'[b] \cup Untold(b)'
    BY <1>1, <1>5, <2>1 DEF Untold
  <2>7. FileIsTrue'
    <3> SUFFICES ASSUME NEW b \in OwnedBoards, NEW s \in file.records[b].rows, s \notin unrecorded'[b],
                        s \notin Untold(b)', file.records[b].md5 # 0
                 PROVE  held'[b][s] = file.records[b].md5
      BY <1>1 DEF FileIsTrue
    <3>1. s \in Inventory!Rows /\ s \notin unrecorded[b] /\ s \notin Untold(b)
      BY <2>6 DEF Records, InventoryInv, InventoryTyped
    <3> QED
      BY <1>5, <3>1 DEF FileIsTrue, InventoryInv
  <2> QED
    BY <1>1, <1>5, <2>2, <2>3, <2>5, <2>7 DEF Inventory!NothingIsLost, InventoryInv
<1>7. CASE lastSerial[p] = writes.board
  <2>1. Inventory!Update(p, writes.board, 0, {}, TRUE)
    BY <1>4, <1>7 DEF Inventory!FlashFails, OwnedBoards, Inventory!Owned, Inventory!Nobody
  <2>2. Fits(p, writes.board, 0, {}, TRUE)
    BY <1>1, <1>4, <1>5 DEF Fits
  <2>3. Beside
    BY <1>1, <1>5 DEF Beside, InventoryInv, InventoryTyped
  <2>4. TRUE \in BOOLEAN /\ 0 \in 0..2 /\ {} \in SUBSET Inventory!Rows
    OBVIOUS
  <2> QED
    BY <1>1, <1>4, <2>1, <2>2, <2>3, <2>4, UpdateInv, Zenon
<1> QED
  BY <1>4, <1>6, <1>7

\* onBoard(), where no operation is: the flash of the board attached.
LEMMA FleetBoardInv ==
    ASSUME InventoryInv, NEW p \in Inventory!Processes, Inventory!FleetBoard(p)
    PROVE  InventoryInv'
<1> DEFINE b == attached.board
<1>1. /\ work[p].at = "idle" /\ writes = Inventory!NotWriting /\ writes' = Inventory!NotWriting
      /\ \A q \in Inventory!Processes : ~work[q].op
      /\ UNCHANGED <<file, asides, lock, lastSerial, attached, landed>>
  BY DEF Inventory!FleetBoard, Inventory!Operating
<1>2. b \in OwnedBoards
  BY DEF Inventory!FleetBoard, Inventory!Empty, InventoryInv, InventoryTyped
<1>3. PICK md5 \in Inventory!NewOrKnown, rows \in SUBSET Inventory!Rows, failed \in BOOLEAN :
          /\ counts' = [counts EXCEPT !.writes = @ + 1, !.faults = IF failed THEN @ + 1 ELSE @]
          /\ held' = [held EXCEPT ![b] = [s \in Inventory!Rows |-> IF s \notin rows THEN @[s]
                                                                ELSE IF failed THEN 0 ELSE md5]]
          /\ IF failed
                THEN Inventory!Update(p, b, 0, {}, TRUE) /\ unrecorded' = [unrecorded EXCEPT ![b] = @ \cup rows]
                ELSE Inventory!Update(p, b, md5, rows, TRUE) /\ UNCHANGED unrecorded
  BY DEF Inventory!FleetBoard
<1>4. md5 \in 0..2 /\ md5 # 0
  BY DEF Inventory!NewOrKnown, Inventory!Builds
<1>5. /\ held' \in [OwnedBoards -> [Inventory!Rows -> 0..2]]
      /\ counts' \in [writes : Nat, faults : Nat, damaged : Nat] /\ counts'.damaged = counts.damaged
      /\ unrecorded' \in [OwnedBoards -> SUBSET Inventory!Rows]
      /\ \A c \in OwnedBoards : unrecorded[c] \subseteq unrecorded'[c]
      /\ failed => rows \subseteq unrecorded'[b]
  <2>1. held' \in [OwnedBoards -> [Inventory!Rows -> 0..2]]
    BY <1>2, <1>3, <1>4 DEF InventoryInv, InventoryTyped
  <2>2. counts' \in [writes : Nat, faults : Nat, damaged : Nat] /\ counts'.damaged = counts.damaged
    <3>1. counts \in [writes : Nat, faults : Nat, damaged : Nat]
      BY DEF InventoryInv, InventoryTyped
    <3>2. \/ counts' = [counts EXCEPT !.writes = counts.writes + 1, !.faults = counts.faults + 1]
          \/ counts' = [counts EXCEPT !.writes = counts.writes + 1, !.faults = counts.faults]
      BY <1>3, <3>1
    <3>3. counts.writes + 1 \in Nat /\ counts.faults + 1 \in Nat /\ counts.faults \in Nat
      BY <3>1
    <3> QED
      BY <3>1, <3>2, <3>3, CountsTyped
  <2>3. unrecorded' = unrecorded \/ unrecorded' = [unrecorded EXCEPT ![b] = @ \cup rows]
    BY <1>3
  <2>4. failed => unrecorded' = [unrecorded EXCEPT ![b] = @ \cup rows]
    BY <1>3
  <2>5. unrecorded \in [OwnedBoards -> SUBSET Inventory!Rows]
    BY DEF InventoryInv, InventoryTyped
  <2>6. /\ unrecorded' \in [OwnedBoards -> SUBSET Inventory!Rows]
        /\ \A c \in OwnedBoards : unrecorded[c] \subseteq unrecorded'[c]
        /\ failed => rows \subseteq unrecorded'[b]
    BY <1>2, <2>3, <2>4, <2>5
  <2> QED
    BY <2>1, <2>2, <2>6
<1>6. \A c \in OwnedBoards, s \in Inventory!Rows :
          held'[c][s] = IF c = b /\ s \in rows THEN (IF failed THEN 0 ELSE md5) ELSE held[c][s]
  BY <1>2, <1>3 DEF InventoryInv, InventoryTyped
<1>7. Beside
  BY <1>1, <1>5 DEF Beside, InventoryInv, InventoryTyped
<1>8. writes.done = {} /\ TRUE \in BOOLEAN /\ 0 \in 0..2 /\ {} \in SUBSET Inventory!Rows
  BY <1>1 DEF Inventory!NotWriting
<1>9. CASE failed
  <2>1. Inventory!Update(p, b, 0, {}, TRUE) /\ rows \subseteq unrecorded'[b]
    BY <1>3, <1>5, <1>9
  <2>2. Fits(p, b, 0, {}, TRUE)
    BY <1>1, <1>5, <1>6, <1>8, <2>1 DEF Fits
  <2> QED
    BY <1>1, <1>2, <1>7, <1>8, <2>1, <2>2, UpdateInv, Zenon
<1>10. CASE ~failed
  <2>1. Inventory!Update(p, b, md5, rows, TRUE)
    BY <1>3, <1>10
  <2>2. Fits(p, b, md5, rows, TRUE)
    BY <1>1, <1>2, <1>4, <1>5, <1>6, <1>8, <1>10 DEF Fits
  <2> QED
    BY <1>1, <1>2, <1>4, <1>7, <1>8, <2>1, <2>2, UpdateInv, Zenon
<1> QED
  BY <1>9, <1>10

\* Every step of the inventory.
LEMMA InventoryNextInv ==
    ASSUME InventoryInv, Inventory!InventoryNext
    PROVE  InventoryInv'
<1>1. ASSUME NEW p \in Inventory!Processes, Inventory!LockTimesOut(p)
      PROVE  InventoryInv'
  <2>1. work[p] \in Updates /\ Inventory!Failed(p) /\ lock' = lock
        /\ UNCHANGED <<file, asides, lastSerial, writes, attached, held, updates, counts, landed>>
    BY <1>1 DEF Inventory!LockTimesOut, Inventory!Idle, InventoryInv, InventoryTyped
  <2> QED
    BY <2>1, FailedInv DEF InventoryInv, InventoryTyped
<1>2. ASSUME NEW p \in Inventory!Processes, Inventory!FileRefuses(p)
      PROVE  InventoryInv'
  <2>1. work[p] \in Updates /\ Inventory!Failed(p) /\ work[p].at \in {"read", "write"}
        /\ counts' = [counts EXCEPT !.faults = @ + 1]
        /\ UNCHANGED <<file, asides, lastSerial, writes, attached, held, updates, landed>>
    BY <1>2 DEF Inventory!FileRefuses, Inventory!Fault, Inventory!Idle, InventoryInv, InventoryTyped
  <2>2. \A q \in Inventory!Processes \ {p} : work[q].at \notin {"read", "write"}
    BY <2>1 DEF InventoryInv, LockHeld
  <2> QED
    BY <2>1, <2>2, FailedInv DEF InventoryInv, InventoryTyped
<1>3. ASSUME NEW p \in Inventory!Processes, Inventory!Dies(p)
      PROVE  InventoryInv'
  <2>1. work[p] \in Updates /\ Inventory!Failed(p)
        /\ lock' = (IF lock = p THEN "dead" ELSE lock)
        /\ counts' = [counts EXCEPT !.faults = @ + 1]
        /\ lastSerial' = [lastSerial EXCEPT ![p] = Inventory!Nobody]
        /\ UNCHANGED <<file, asides, writes, attached, held, updates, landed>>
    BY <1>3 DEF Inventory!Dies, Inventory!Fault, Inventory!Idle, InventoryInv, InventoryTyped
  <2>2. \A q \in Inventory!Processes \ {p} : work[q].at \in {"read", "write"} => lock' = lock
    BY <2>1 DEF InventoryInv, LockHeld
  <2>3. counts' \in [writes : Nat, faults : Nat, damaged : Nat] /\ counts'.damaged = counts.damaged
    BY <2>1 DEF InventoryInv, InventoryTyped
  <2> QED
    BY <2>1, <2>2, <2>3, FailedInv
<1>4. ASSUME Inventory!Damage
      PROVE  InventoryInv'
  <2>1. /\ file.state = "ok" /\ lock = Inventory!Nobody
        /\ file' = [state |-> "corrupt", records |-> [b \in OwnedBoards |-> Inventory!NoRecord]]
        /\ counts' = [counts EXCEPT !.faults = @ + 1, !.damaged = @ + 1]
        /\ landed' = [b \in OwnedBoards |-> 0]
        /\ UNCHANGED <<asides, lock, work, lastSerial, writes, attached, held, updates, unrecorded>>
    BY <1>4 DEF Inventory!Damage, OwnedBoards
  <2>2. /\ \A b \in OwnedBoards : file'.records[b] = Inventory!NoRecord
        /\ file' \in [state : {"ok", "corrupt"}, records : [OwnedBoards -> Records]]
    BY <2>1 DEF Records, Inventory!NoRecord
  <2>3. counts' \in [writes : Nat, faults : Nat, damaged : Nat] /\ counts'.damaged = counts.damaged + 1
    <3>1. counts \in [writes : Nat, faults : Nat, damaged : Nat]
      BY DEF InventoryInv, InventoryTyped
    <3>2. counts' = [counts EXCEPT !.faults = counts.faults + 1, !.damaged = counts.damaged + 1]
      BY <2>1, <3>1
    <3>3. counts.faults + 1 \in Nat /\ counts.damaged + 1 \in Nat
      BY <3>1
    <3> QED
      BY <3>1, <3>2, <3>3, CountsTyped
  <2>4. InventoryTyped'
    BY <2>1, <2>2, <2>3 DEF InventoryInv, InventoryTyped
  <2>5. LockHeld'
    BY <2>1 DEF LockHeld, InventoryInv, Inventory!Processes, Inventory!Nobody
  <2>6. (OneOperation /\ ToldIsHeld)'
    BY <2>1 DEF OneOperation, ToldIsHeld, InventoryInv
  <2>7. FileIsTrue'
    BY <2>2 DEF FileIsTrue, Inventory!NoRecord
  <2>8. Inventory!NothingIsLost' /\ \A b \in OwnedBoards : file'.records[b].n = landed'[b]
    BY <2>1, <2>2, <2>3 DEF Inventory!NothingIsLost, InventoryInv, InventoryTyped, Inventory!NoRecord
  <2> QED
    BY <2>4, <2>5, <2>6, <2>7, <2>8 DEF InventoryInv
<1>5. ASSUME Inventory!Replug
      PROVE  InventoryInv'
  <2>1. /\ attached' = Inventory!Empty \/ attached'.board \in OwnedBoards
        /\ UNCHANGED <<file, asides, lock, work, lastSerial, writes, held, updates, counts, landed, unrecorded>>
    BY <1>5 DEF Inventory!Replug, OwnedBoards, Inventory!Owned
  <2>2. \A b : Untold(b)' = Untold(b)
    BY <2>1 DEF Untold
  <2>3. (InventoryTyped /\ LockHeld /\ OneOperation /\ ToldIsHeld)'
    BY <2>1 DEF InventoryInv, InventoryTyped, LockHeld, OneOperation, ToldIsHeld
  <2> QED
    BY <2>1, <2>2, <2>3 DEF InventoryInv, FileIsTrue, Inventory!NothingIsLost
<1>6. {"tab", "su-fw"} = Inventory!Processes
  BY DEF Inventory!Processes
<1> QED
  BY <1>1, <1>2, <1>3, <1>4, <1>5, <1>6, TakeLockInv, ReadInv, WriteInv, StatusInv, FlashBeginsInv, FleetBoardInv,
     RowWrittenInv, FlashEndsInv, FlashFailsInv DEF Inventory!InventoryNext

LEMMA InventoryRests ==
    ASSUME InventoryInv, UNCHANGED ofInventory
    PROVE  InventoryInv'
<1>1. UNCHANGED <<file, asides, lock, work, lastSerial, writes, attached, held, updates, counts, landed, unrecorded>>
  BY DEF ofInventory
<1>2. \A b : Untold(b)' = Untold(b)
  BY <1>1 DEF Untold
<1>3. (InventoryTyped /\ LockHeld /\ OneOperation /\ ToldIsHeld)'
  BY <1>1 DEF InventoryInv, InventoryTyped, LockHeld, OneOperation, ToldIsHeld
<1> QED
  BY <1>1, <1>2, <1>3 DEF InventoryInv, FileIsTrue, Inventory!NothingIsLost

\* For any number of updates, writes and faults: no update that was reported as written is
\* lost, and a board runs the rows its record names, as long as the inventory was told of every
\* change of them (Inventory); a write that is cut is none it is told of.
THEOREM InventoryAlways == ToolsSpec => [](Inventory!NothingIsLost /\ Inventory!RecordedRowsRun)
<1>1. ToolsInit => InventoryInv
  BY InventoryInitInv DEF ToolsInit
<1>2. InventoryInv /\ [ToolsNext]_<<which, vars, ofTool, ofBridge, ofCache, ofInventory, ofCli>> => InventoryInv'
  <2> SUFFICES ASSUME InventoryInv, [ToolsNext]_<<which, vars, ofTool, ofBridge, ofCache, ofInventory, ofCli>>
               PROVE  InventoryInv'
    OBVIOUS
  <2>1. Inventory!InventoryNext \/ UNCHANGED ofInventory
    BY DEF ToolsNext
  <2> QED
    BY <2>1, InventoryNextInv, InventoryRests
<1> QED
  BY <1>1, <1>2, InventoryInvHolds, PTL DEF ToolsSpec

-----------------------------------------------------------------------------
(* The cache of pulled images (ImagePuller).                               *)

\* Builds of the build machine.
CacheAssumption == MaxBuilds \in Nat \ {0}

\* A note is no younger than the image it is read for: an image of one build is of that
\* build or a later one, and one that was rebuilt while it was read is older than what
\* the build machine has.  Of the images a roll back left beside the other one's note
\* nothing is known.
Pair(image, note, build, odd) ==
    /\ note <= build /\ (image <= MaxBuilds => image <= build)
    /\ image # 0 /\ image \notin odd /\ note # 0 /\ Cache!Size(note) = Cache!Size(image) =>
          IF image > MaxBuilds THEN note < build ELSE note <= image

Kept(d, build, odd) ==
    Pair(d["image"], d["noteImage"], build, odd) /\ Pair(d["prev"], d["notePrev"], build, odd)

\* What a pull brings.
Good(image) == IF image > MaxBuilds THEN before.remote < remote ELSE image \in before.remote..remote

Folders == [Cache!Files -> Nat]
Was(name) == before.disk[name]
\* The image there was is the build that was seen, or passes for it by the other one's note.
Passes == Was("noteImage") = seen /\ seen # 0 /\ Was("image") # 0 /\ Was("image") \in {seen} \cup crossed
Holds(image, prev, noteImage, notePrev) ==
    /\ disk["image"] = image /\ disk["prev"] = prev
    /\ disk["noteImage"] = noteImage /\ disk["notePrev"] = notePrev

\* File operations under way, with what would put them back; and ones that put back.
Doing(ops, undo) == files = ops /\ done = undo /\ ~undoing
Undoing(ops) == files = ops /\ undoing

\* putIntoPlace(), one file operation after the other.
Rotating ==
    /\ Was("image") # 0
    /\ \/ /\ Holds(Was("image"), Was("prev"), Was("noteImage"), Was("notePrev")) /\ Good(disk["new"])
          /\ Doing(<<Cache!Rm("prev"), Cache!Rm("notePrev"), Cache!Mv("image", "prev"),
                     Cache!MvNote("noteImage", "notePrev"), Cache!Mv("new", "image")>>, <<>>)
       \/ /\ Holds(Was("image"), 0, Was("noteImage"), Was("notePrev")) /\ Good(disk["new"])
          /\ Doing(<<Cache!Rm("notePrev"), Cache!Mv("image", "prev"),
                     Cache!MvNote("noteImage", "notePrev"), Cache!Mv("new", "image")>>, <<>>)
       \/ /\ Holds(Was("image"), 0, Was("noteImage"), 0) /\ Good(disk["new"])
          /\ Doing(<<Cache!Mv("image", "prev"), Cache!MvNote("noteImage", "notePrev"), Cache!Mv("new", "image")>>, <<>>)
       \/ /\ Holds(0, Was("image"), Was("noteImage"), 0) /\ Good(disk["new"])
          /\ Doing(<<Cache!MvNote("noteImage", "notePrev"), Cache!Mv("new", "image")>>, <<Cache!Mv("prev", "image")>>)
       \/ /\ Holds(0, Was("image"), 0, Was("noteImage")) /\ Good(disk["new"])
          /\ Doing(<<Cache!Mv("new", "image")>>, <<Cache!Mv("notePrev", "noteImage"), Cache!Mv("prev", "image")>>)
       \/ /\ Holds(0, Was("image"), 0, 0) /\ Good(disk["new"])
          /\ Doing(<<Cache!Mv("new", "image")>>, <<Cache!Mv("prev", "image")>>)
       \/ /\ Holds(0, Was("image"), 0, Was("noteImage"))
          /\ Undoing(<<Cache!Mv("notePrev", "noteImage"), Cache!Mv("prev", "image")>>)
       \/ /\ \E note \in {0, Was("noteImage")} : Holds(0, Was("image"), note, 0)
          /\ Undoing(<<Cache!Mv("prev", "image")>>)

\* replaceFile(), of an image of the same build or of none.
Replacing ==
    \/ /\ Was("image") = 0 /\ Holds(0, Was("prev"), Was("noteImage"), Was("notePrev")) /\ Good(disk["new"])
       /\ Doing(<<Cache!Mv("new", "image")>>, <<>>)
    \/ /\ Passes
       /\ \/ /\ Holds(Was("image"), Was("prev"), seen, Was("notePrev")) /\ Good(disk["new"])
             /\ Doing(<<Cache!Rm("aside"), Cache!Mv("image", "aside"), Cache!Mv("new", "image"), Cache!Rm("aside")>>, <<>>)
          \/ /\ Holds(Was("image"), Was("prev"), seen, Was("notePrev")) /\ Good(disk["new"])
             /\ Doing(<<Cache!Mv("image", "aside"), Cache!Mv("new", "image"), Cache!Rm("aside")>>, <<>>)
          \/ /\ Holds(0, Was("prev"), seen, Was("notePrev")) /\ Good(disk["new"]) /\ disk["aside"] = Was("image")
             /\ Doing(<<Cache!Mv("new", "image"), Cache!Rm("aside")>>, <<Cache!Mv("aside", "image")>>)
          \/ /\ Good(disk["image"]) /\ Holds(disk["image"], Was("prev"), seen, Was("notePrev"))
             /\ disk["aside"] = Was("image") /\ disk["new"] = 0
             /\ Doing(<<Cache!Rm("aside")>>, <<Cache!Mv("image", "new"), Cache!Mv("aside", "image")>>)
          \/ /\ Holds(0, Was("prev"), seen, Was("notePrev")) /\ disk["aside"] = Was("image")
             /\ Undoing(<<Cache!Mv("aside", "image")>>)

\* The operations are through: the image is in place, and what it took the place of is
\* behind it, was the same build or was none; or everything is as it was.
InPlace ==
    /\ files = <<>> /\ ~undoing
    /\ Good(disk["image"]) /\ Kept(disk, remote, crossed)
    /\ Was("image") \in {0, disk["prev"], seen} \cup crossed
PutBack == files = <<>> /\ undoing /\ Kept(disk, remote, crossed) /\ disk["image"] = Was("image")

\* rollBack(): the images, and what their notes are then.
RollingImages ==
    /\ Was("prev") # 0
    /\ disk["noteImage"] = Was("noteImage") /\ disk["notePrev"] = Was("notePrev")
    /\ \/ /\ Was("image") = 0 /\ disk["image"] = 0 /\ disk["prev"] = Was("prev")
          /\ Doing(<<Cache!Mv("prev", "image")>>, <<>>)
       \/ /\ Was("image") # 0 /\ disk["image"] = Was("image") /\ disk["prev"] = Was("prev")
          /\ Doing(<<Cache!Rm("aside"), Cache!Mv("image", "aside"), Cache!Mv("prev", "image"), Cache!Mv("aside", "prev")>>, <<>>)
       \/ /\ Was("image") # 0 /\ disk["image"] = Was("image") /\ disk["prev"] = Was("prev")
          /\ Doing(<<Cache!Mv("image", "aside"), Cache!Mv("prev", "image"), Cache!Mv("aside", "prev")>>, <<>>)
       \/ /\ Was("image") # 0 /\ disk["image"] = 0 /\ disk["prev"] = Was("prev") /\ disk["aside"] = Was("image")
          /\ Doing(<<Cache!Mv("prev", "image"), Cache!Mv("aside", "prev")>>, <<Cache!Mv("aside", "image")>>)
       \/ /\ Was("image") # 0 /\ disk["image"] = Was("prev") /\ disk["prev"] = 0 /\ disk["aside"] = Was("image")
          /\ Doing(<<Cache!Mv("aside", "prev")>>, <<Cache!Mv("image", "prev"), Cache!Mv("aside", "image")>>)
       \/ /\ disk["image"] = Was("prev") /\ disk["prev"] = Was("image")
          /\ files = <<>> /\ ~undoing
       \/ /\ Was("image") # 0 /\ disk["image"] = Was("prev") /\ disk["prev"] = 0 /\ disk["aside"] = Was("image")
          /\ Undoing(<<Cache!Mv("image", "prev"), Cache!Mv("aside", "image")>>)
       \/ /\ Was("image") # 0 /\ disk["image"] = 0 /\ disk["prev"] = Was("prev") /\ disk["aside"] = Was("image")
          /\ Undoing(<<Cache!Mv("aside", "image")>>)
       \/ /\ disk["image"] = Was("image") /\ disk["prev"] = Was("prev")
          /\ Undoing(<<>>)

\* The images that changed places are known to stand beside the other one's note.
Apart == Was("image") # Was("prev") => Was("prev") \in crossed /\ Was("image") \in {0} \cup crossed

\* The notes follow their images, or are put back when one of them cannot.
RollingNotes ==
    /\ Was("prev") # 0 /\ disk["image"] = Was("prev") /\ disk["prev"] = Was("image")
    /\ \/ /\ disk["noteImage"] = Was("noteImage") /\ disk["notePrev"] = Was("notePrev")
          /\ \/ Was("noteImage") = 0 /\ Doing(<<Cache!Mv("notePrev", "noteImage")>>, <<>>)
             \/ Was("notePrev") = 0 /\ Doing(<<Cache!Mv("noteImage", "notePrev")>>, <<>>)
             \/ /\ Was("noteImage") # 0 /\ Was("notePrev") # 0
                /\ \/ Doing(<<Cache!Rm("noteAside"), Cache!Mv("noteImage", "noteAside"),
                              Cache!Mv("notePrev", "noteImage"), Cache!Mv("noteAside", "notePrev")>>, <<>>)
                   \/ Doing(<<Cache!Mv("noteImage", "noteAside"), Cache!Mv("notePrev", "noteImage"),
                              Cache!Mv("noteAside", "notePrev")>>, <<>>)
             \/ Apart /\ Undoing(<<>>)
       \/ /\ disk["noteImage"] = 0 /\ disk["notePrev"] = Was("notePrev") /\ disk["noteAside"] = Was("noteImage")
          /\ Was("notePrev") # 0 /\ Was("noteImage") # 0
          /\ \/ Doing(<<Cache!Mv("notePrev", "noteImage"), Cache!Mv("noteAside", "notePrev")>>,
                      <<Cache!Mv("noteAside", "noteImage")>>)
             \/ Apart /\ Undoing(<<Cache!Mv("noteAside", "noteImage")>>)
       \/ /\ disk["noteImage"] = Was("notePrev") /\ disk["notePrev"] = 0 /\ disk["noteAside"] = Was("noteImage")
          /\ Was("notePrev") # 0 /\ Was("noteImage") # 0
          /\ \/ Doing(<<Cache!Mv("noteAside", "notePrev")>>,
                      <<Cache!Mv("noteImage", "notePrev"), Cache!Mv("noteAside", "noteImage")>>)
             \/ Apart /\ Undoing(<<Cache!Mv("noteImage", "notePrev"), Cache!Mv("noteAside", "noteImage")>>)
       \/ /\ disk["noteImage"] = Was("notePrev") /\ disk["notePrev"] = Was("noteImage")
          /\ files = <<>> /\ ~undoing

FileOps == [do : {"rm", "mv", "mvnote"}, from : Cache!Files, to : Cache!Files]

CacheTyped ==
    /\ disk \in Folders /\ remote \in 1..MaxBuilds /\ runs \in Nat
    /\ before \in [disk : Folders, remote : 1..MaxBuilds] /\ before.remote <= remote
    /\ \A a \in answers : a.id \in 1..runs
    /\ pulling \in {"Idle", "Stat", "Git", "Download", "Place", "Note", "ExtraStat", "ExtraDownload", "RollImages",
                    "RollNotes"}
    /\ undoing \in BOOLEAN /\ files \in Seq(FileOps) /\ done \in Seq(FileOps)

\* What a run asks is answered with what the build machine had when it began.
SeenAtBegin ==
    /\ pulling = "Stat" => pendingId = runs /\ \A a \in answers : a.id = pendingId => a.build = before.remote
    /\ pulling \in {"Git", "Download", "Place", "Note"} => seen = before.remote

NoFiles == files = <<>> /\ ~undoing

\* What each step finds in the folder.
FolderFits ==
    /\ pulling = "Idle" => NoFiles /\ done = <<>> /\ Kept(disk, remote, crossed)
    /\ pulling \in {"Stat", "Git", "Download"} =>
          NoFiles /\ done = <<>> /\ disk = [before.disk EXCEPT !["new"] = 0]
    /\ pulling = "Place" => Rotating \/ Replacing \/ InPlace \/ PutBack
    /\ pulling = "Note" => InPlace /\ done = <<>>
    /\ pulling \in {"ExtraStat", "ExtraDownload"} =>
          NoFiles /\ done = <<>> /\ Kept(disk, remote, crossed)
          /\ Was("image") \in {0, disk["prev"], seen} \cup crossed
    /\ pulling = "RollImages" => RollingImages
    /\ pulling = "RollNotes" => RollingNotes

CacheInv ==
    /\ CacheTyped /\ SeenAtBegin /\ FolderFits
    /\ Kept(before.disk, before.remote, crossed)
    /\ ended # "none" => pulling = "Idle"
    /\ Cache!SkipIsRight /\ Cache!FailureKeepsTheImage

LEMMA PairGrows ==
    ASSUME NEW image \in Nat, NEW note \in Nat, NEW b \in Nat, NEW c \in Nat, MaxBuilds \in Nat, NEW odd, NEW more,
           Pair(image, note, b, odd), b <= c, odd \subseteq more
    PROVE  Pair(image, note, c, more)
  BY DEF Pair

LEMMA PairBare ==
    ASSUME NEW image \in Nat, NEW note \in Nat, NEW b \in Nat, MaxBuilds \in Nat, NEW odd, Pair(image, note, b, odd)
    PROVE  Pair(0, note, b, odd) /\ Pair(image, 0, b, odd) /\ Pair(0, 0, b, odd)
  BY DEF Pair

LEMMA PairOdd ==
    ASSUME NEW image \in Nat, NEW note \in Nat, NEW other \in Nat, NEW b \in Nat, MaxBuilds \in Nat, NEW odd, NEW more,
           Pair(image, note, b, odd), other <= b, image \in more
    PROVE  Pair(image, other, b, more)
  BY DEF Pair

LEMMA KeptGrows ==
    ASSUME NEW d \in Folders, NEW b \in Nat, MaxBuilds \in Nat, NEW odd, NEW more, odd \subseteq more, Kept(d, b, odd)
    PROVE  Kept(d, b, more)
<1>1. /\ d["image"] \in Nat /\ d["prev"] \in Nat /\ d["noteImage"] \in Nat /\ d["notePrev"] \in Nat /\ b <= b
  BY DEF Folders, Cache!Files
<1> QED
  BY <1>1, PairGrows DEF Kept

LEMMA GoodPair ==
    ASSUME NEW image \in Nat, NEW note \in Nat, MaxBuilds \in Nat, before.remote \in Nat, remote \in Nat,
           before.remote <= remote, Good(image), note <= before.remote
    PROVE  Pair(image, note, remote, crossed)
  BY DEF Good, Pair

\* What the files of a run are worth.
LEMMA Worth ==
    ASSUME CacheInv, CacheAssumption
    PROVE  /\ \A name \in Cache!Files : Was(name) \in Nat /\ disk[name] \in Nat
           /\ remote \in Nat /\ before.remote \in Nat /\ before.remote <= remote /\ MaxBuilds \in Nat
           /\ Was("noteImage") <= before.remote /\ Was("notePrev") <= before.remote
           /\ Pair(Was("image"), Was("noteImage"), remote, crossed) /\ Pair(Was("prev"), Was("notePrev"), remote, crossed)
<1>1. /\ \A name \in Cache!Files : Was(name) \in Nat /\ disk[name] \in Nat
      /\ remote \in Nat /\ before.remote \in Nat /\ before.remote <= remote /\ MaxBuilds \in Nat
  BY DEF CacheInv, CacheTyped, CacheAssumption, Folders, Was
<1>2. {"image", "prev", "noteImage", "notePrev"} \subseteq Cache!Files
  BY DEF Cache!Files
<1>3. Pair(Was("image"), Was("noteImage"), before.remote, crossed) /\ Pair(Was("prev"), Was("notePrev"), before.remote, crossed)
  BY DEF CacheInv, Kept, Was
<1>4. Was("noteImage") <= before.remote /\ Was("notePrev") <= before.remote
  BY <1>3 DEF Pair
<1> QED
  BY <1>1, <1>2, <1>3, <1>4, PairGrows

\* The images and notes there were, the image that comes, and any of them without the other.
LEMMA Pairs ==
    ASSUME CacheInv, CacheAssumption
    PROVE  /\ Pair(Was("image"), Was("noteImage"), remote, crossed) /\ Pair(Was("prev"), Was("notePrev"), remote, crossed)
           /\ Pair(0, Was("noteImage"), remote, crossed) /\ Pair(Was("image"), 0, remote, crossed) /\ Pair(0, 0, remote, crossed)
           /\ Pair(0, Was("notePrev"), remote, crossed) /\ Pair(Was("prev"), 0, remote, crossed)
           /\ \A image \in Nat : Good(image) => Pair(image, Was("noteImage"), remote, crossed) /\ Pair(image, 0, remote, crossed)
<1>0. {"image", "prev", "noteImage", "notePrev"} \subseteq Cache!Files
  BY DEF Cache!Files
<1>1. /\ Pair(0, Was("noteImage"), remote, crossed) /\ Pair(Was("image"), 0, remote, crossed) /\ Pair(0, 0, remote, crossed)
      /\ Pair(0, Was("notePrev"), remote, crossed) /\ Pair(Was("prev"), 0, remote, crossed)
  BY <1>0, Worth, PairBare
<1>2. ASSUME NEW image \in Nat, Good(image)
      PROVE  Pair(image, Was("noteImage"), remote, crossed) /\ Pair(image, 0, remote, crossed)
  <2>1. Pair(image, Was("noteImage"), remote, crossed)
    BY <1>0, <1>2, Worth, GoodPair
  <2> QED
    BY <1>0, <1>2, <2>1, Worth, PairBare
<1> QED
  BY <1>1, <1>2, Worth

\* Whatever is half done can be believed.
LEMMA StageKept ==
    ASSUME CacheInv, CacheAssumption, pulling = "Place"
    PROVE  Kept(disk, remote, crossed)
<1>0. {"image", "prev", "noteImage", "notePrev"} \subseteq Cache!Files
  BY DEF Cache!Files
<1>1. Rotating \/ Replacing \/ InPlace \/ PutBack
  BY DEF CacheInv, FolderFits
<1>2. CASE Rotating
  BY <1>2, Pairs DEF Rotating, Holds, Kept
<1>3. CASE Replacing
  <2>1. disk["image"] \in Nat
    BY <1>0, Worth
  <2> QED
    BY <1>3, <2>1, Pairs DEF Replacing, Holds, Kept, Passes
<1> QED
  BY <1>1, <1>2, <1>3 DEF InPlace, PutBack

\* One file operation, of a remove and of a rename.
LEMMA Removes ==
    ASSUME disk \in Folders, NEW name \in Cache!Files, Head(files) = Cache!Rm(name), Cache!FileOperation
    PROVE  disk' = [disk EXCEPT ![name] = 0] /\ done' = done
<1>1. Head(files).do = "rm" /\ Head(files).from = name
  BY DEF Cache!Rm
<1>2. Cache!Apply(disk, Head(files)) = [disk EXCEPT ![name] = 0]
  <2>1. disk[name] = 0 => [disk EXCEPT ![name] = 0] = disk
    BY DEF Folders
  <2> QED
    BY <1>1, <2>1 DEF Cache!Apply, Cache!None
<1>3. done' = done
  BY <1>1 DEF Cache!FileOperation
<1> QED
  BY <1>2, <1>3 DEF Cache!FileOperation

LEMMA TwoOfThem == \A x, y : <<x>> \o <<y>> = <<x, y>>
<1> TAKE x, y
<1> DEFINE S == {x, y}
<1>1. /\ <<x>> \in Seq(S) /\ <<y>> \in Seq(S) /\ <<x, y>> \in Seq(S)
      /\ Len(<<x>>) = 1 /\ Len(<<y>>) = 1 /\ Len(<<x, y>>) = 2
  OBVIOUS
<1> HIDE DEF S
<1>2. /\ <<x>> \o <<y>> \in Seq(S) /\ Len(<<x>> \o <<y>>) = 2
      /\ (<<x>> \o <<y>>)[1] = x /\ (<<x>> \o <<y>>)[2] = y
  BY <1>1, ConcatProperties
<1>3. \A i \in 1..2 : (<<x>> \o <<y>>)[i] = <<x, y>>[i]
  BY <1>2
<1> QED
  BY <1>1, <1>2, <1>3, SeqEqual

LEMMA Renames ==
    ASSUME NEW name, NEW to, Head(files) = Cache!Mv(name, to) \/ Head(files) = Cache!MvNote(name, to),
           Cache!FileOperation
    PROVE  /\ disk' = IF disk[name] = 0 THEN disk ELSE [disk EXCEPT ![to] = disk[name], ![name] = 0]
           /\ done' = IF undoing THEN done ELSE <<Cache!Mv(to, name)>> \o done
<1>1. Head(files).do # "rm" /\ Head(files).from = name /\ Head(files).to = to
  BY DEF Cache!Mv, Cache!MvNote
<1> QED
  BY <1>1 DEF Cache!FileOperation, Cache!Apply, Cache!None

LEMMA OneByOne ==
    ASSUME Cache!FileOperation
    PROVE  /\ files' = Tail(files) /\ UNCHANGED <<before, remote, seen, undoing, pulling, failures, runs, answers, pendingId, ended, crossed>>
           /\ \A name : Was(name)' = Was(name)
  BY DEF Cache!FileOperation, Was

\* The steps of putIntoPlace(): each leads to the next, and the last one to its end.
LEMMA RotatingStep ==
    ASSUME CacheInv, CacheAssumption, Rotating, Cache!FileOperation
    PROVE  Rotating' \/ InPlace' \/ PutBack'
<1>0. /\ disk \in Folders /\ Was("image") # 0
      /\ {"image", "prev", "noteImage", "notePrev", "new", "aside"} \subseteq Cache!Files
  BY DEF CacheInv, CacheTyped, Rotating, Cache!Files
<1>1. CASE /\ Holds(Was("image"), Was("prev"), Was("noteImage"), Was("notePrev")) /\ Good(disk["new"])
           /\ Doing(<<Cache!Rm("prev"), Cache!Rm("notePrev"), Cache!Mv("image", "prev"), Cache!MvNote("noteImage", "notePrev"), Cache!Mv("new", "image")>>, <<>>)
  <2>1. Head(files) = Cache!Rm("prev") /\ files' = <<Cache!Rm("notePrev"), Cache!Mv("image", "prev"), Cache!MvNote("noteImage", "notePrev"), Cache!Mv("new", "image")>> /\ done = <<>> /\ ~undoing
    BY <1>1, OneByOne DEF Doing
  <2>2. disk' = [disk EXCEPT !["prev"] = 0] /\ done' = <<>>
    BY <1>0, <2>1, Removes
  <2>3. /\ (Holds(Was("image"), 0, Was("noteImage"), Was("notePrev")) /\ Good(disk["new"]))'
        /\ Doing(<<Cache!Rm("notePrev"), Cache!Mv("image", "prev"), Cache!MvNote("noteImage", "notePrev"), Cache!Mv("new", "image")>>, <<>>)'
    BY <1>0, <1>1, <2>1, <2>2, OneByOne DEF Folders, Holds, Doing, Good
  <2> QED
    BY <1>0, <2>3, OneByOne DEF Rotating
<1>2. CASE /\ Holds(Was("image"), 0, Was("noteImage"), Was("notePrev")) /\ Good(disk["new"])
           /\ Doing(<<Cache!Rm("notePrev"), Cache!Mv("image", "prev"), Cache!MvNote("noteImage", "notePrev"), Cache!Mv("new", "image")>>, <<>>)
  <2>1. Head(files) = Cache!Rm("notePrev") /\ files' = <<Cache!Mv("image", "prev"), Cache!MvNote("noteImage", "notePrev"), Cache!Mv("new", "image")>> /\ done = <<>> /\ ~undoing
    BY <1>2, OneByOne DEF Doing
  <2>2. disk' = [disk EXCEPT !["notePrev"] = 0] /\ done' = <<>>
    BY <1>0, <2>1, Removes
  <2>3. /\ (Holds(Was("image"), 0, Was("noteImage"), 0) /\ Good(disk["new"]))'
        /\ Doing(<<Cache!Mv("image", "prev"), Cache!MvNote("noteImage", "notePrev"), Cache!Mv("new", "image")>>, <<>>)'
    BY <1>0, <1>2, <2>1, <2>2, OneByOne DEF Folders, Holds, Doing, Good
  <2> QED
    BY <1>0, <2>3, OneByOne DEF Rotating
<1>3. CASE /\ Holds(Was("image"), 0, Was("noteImage"), 0) /\ Good(disk["new"])
           /\ Doing(<<Cache!Mv("image", "prev"), Cache!MvNote("noteImage", "notePrev"), Cache!Mv("new", "image")>>, <<>>)
  <2>1. Head(files) = Cache!Mv("image", "prev") /\ files' = <<Cache!MvNote("noteImage", "notePrev"), Cache!Mv("new", "image")>> /\ done = <<>> /\ ~undoing
    BY <1>3, OneByOne DEF Doing
  <2>2. /\ disk' = IF disk["image"] = 0 THEN disk ELSE [disk EXCEPT !["prev"] = disk["image"], !["image"] = 0]
        /\ done' = <<Cache!Mv("prev", "image")>>
    BY <2>1, Renames, TwoOfThem
  <2>3. /\ (Holds(0, Was("image"), Was("noteImage"), 0) /\ Good(disk["new"]))'
        /\ Doing(<<Cache!MvNote("noteImage", "notePrev"), Cache!Mv("new", "image")>>, <<Cache!Mv("prev", "image")>>)'
    BY <1>0, <1>3, <2>1, <2>2, OneByOne DEF Folders, Holds, Doing, Good
  <2> QED
    BY <1>0, <2>3, OneByOne DEF Rotating
<1>4. CASE /\ Holds(0, Was("image"), Was("noteImage"), 0) /\ Good(disk["new"])
           /\ Doing(<<Cache!MvNote("noteImage", "notePrev"), Cache!Mv("new", "image")>>, <<Cache!Mv("prev", "image")>>)
  <2>1. Head(files) = Cache!MvNote("noteImage", "notePrev") /\ files' = <<Cache!Mv("new", "image")>> /\ done = <<Cache!Mv("prev", "image")>> /\ ~undoing
    BY <1>4, OneByOne DEF Doing
  <2>2. /\ disk' = IF disk["noteImage"] = 0 THEN disk ELSE [disk EXCEPT !["notePrev"] = disk["noteImage"], !["noteImage"] = 0]
        /\ done' = <<Cache!Mv("notePrev", "noteImage"), Cache!Mv("prev", "image")>>
    BY <2>1, Renames, TwoOfThem
  <2>3. /\ (Holds(0, Was("image"), 0, Was("noteImage")) /\ Good(disk["new"]))'
        /\ Doing(<<Cache!Mv("new", "image")>>, <<Cache!Mv("notePrev", "noteImage"), Cache!Mv("prev", "image")>>)'
    BY <1>0, <1>4, <2>1, <2>2, OneByOne DEF Folders, Holds, Doing, Good
  <2> QED
    BY <1>0, <2>3, OneByOne DEF Rotating
<1>5. CASE /\ Holds(0, Was("image"), 0, Was("noteImage")) /\ Good(disk["new"])
           /\ Doing(<<Cache!Mv("new", "image")>>, <<Cache!Mv("notePrev", "noteImage"), Cache!Mv("prev", "image")>>)
  <2>1. Head(files) = Cache!Mv("new", "image") /\ files' = <<>> /\ done = <<Cache!Mv("notePrev", "noteImage"), Cache!Mv("prev", "image")>> /\ ~undoing
    BY <1>5, OneByOne DEF Doing
  <2>2. disk' = IF disk["new"] = 0 THEN disk ELSE [disk EXCEPT !["image"] = disk["new"], !["new"] = 0]
    BY <2>1, Renames
  <2>3. CASE disk["new"] # 0
    <3>1. /\ disk'["image"] = disk["new"] /\ disk'["prev"] = Was("image")
          /\ disk'["noteImage"] = 0 /\ disk'["notePrev"] = Was("noteImage")
      BY <1>0, <1>5, <2>2, <2>3 DEF Folders, Holds
    <3>2. Good(disk["image"])'
      BY <1>5, <3>1, OneByOne DEF Good
    <3>3. disk["new"] \in Nat /\ Good(disk["new"])
      BY <1>0, <1>5 DEF Folders
    <3>4. Kept(disk, remote, crossed)'
      BY <3>1, <3>3, Pairs, OneByOne DEF Kept
    <3> QED
      BY <2>1, <3>1, <3>2, <3>4, OneByOne DEF InPlace
  <2>4. CASE disk["new"] = 0
    BY <1>5, <2>4, Worth DEF Good, CacheAssumption, CacheInv, CacheTyped
  <2> QED
    BY <2>3, <2>4
<1>6. CASE /\ Holds(0, Was("image"), 0, 0) /\ Good(disk["new"])
           /\ Doing(<<Cache!Mv("new", "image")>>, <<Cache!Mv("prev", "image")>>)
  <2>1. Head(files) = Cache!Mv("new", "image") /\ files' = <<>> /\ done = <<Cache!Mv("prev", "image")>> /\ ~undoing
    BY <1>6, OneByOne DEF Doing
  <2>2. disk' = IF disk["new"] = 0 THEN disk ELSE [disk EXCEPT !["image"] = disk["new"], !["new"] = 0]
    BY <2>1, Renames
  <2>3. CASE disk["new"] # 0
    <3>1. /\ disk'["image"] = disk["new"] /\ disk'["prev"] = Was("image")
          /\ disk'["noteImage"] = 0 /\ disk'["notePrev"] = 0
      BY <1>0, <1>6, <2>2, <2>3 DEF Folders, Holds
    <3>2. Good(disk["image"])'
      BY <1>6, <3>1, OneByOne DEF Good
    <3>3. disk["new"] \in Nat /\ Good(disk["new"])
      BY <1>0, <1>6 DEF Folders
    <3>4. Kept(disk, remote, crossed)'
      BY <3>1, <3>3, Pairs, OneByOne DEF Kept
    <3> QED
      BY <2>1, <3>1, <3>2, <3>4, OneByOne DEF InPlace
  <2>4. CASE disk["new"] = 0
    BY <1>6, <2>4, Worth DEF Good, CacheAssumption, CacheInv, CacheTyped
  <2> QED
    BY <2>3, <2>4
<1>7. CASE Holds(0, Was("image"), 0, Was("noteImage")) /\ Undoing(<<Cache!Mv("notePrev", "noteImage"), Cache!Mv("prev", "image")>>)
  <2>1. Head(files) = Cache!Mv("notePrev", "noteImage") /\ files' = <<Cache!Mv("prev", "image")>> /\ undoing
    BY <1>7, OneByOne DEF Undoing
  <2>2. disk' = IF disk["notePrev"] = 0 THEN disk ELSE [disk EXCEPT !["noteImage"] = disk["notePrev"], !["notePrev"] = 0]
    BY <2>1, Renames
  <2>3. Holds(0, Was("image"), Was("noteImage"), 0)' /\ Undoing(<<Cache!Mv("prev", "image")>>)'
    BY <1>0, <1>7, <2>1, <2>2, OneByOne DEF Folders, Holds, Undoing
  <2> QED
    BY <1>0, <2>3, OneByOne DEF Rotating
<1>8. CASE (\E note \in {0, Was("noteImage")} : Holds(0, Was("image"), note, 0)) /\ Undoing(<<Cache!Mv("prev", "image")>>)
  <2>1. Head(files) = Cache!Mv("prev", "image") /\ files' = <<>> /\ undoing
    BY <1>8, OneByOne DEF Undoing
  <2>2. disk' = IF disk["prev"] = 0 THEN disk ELSE [disk EXCEPT !["image"] = disk["prev"], !["prev"] = 0]
    BY <2>1, Renames
  <2>3. /\ disk'["image"] = Was("image") /\ disk'["prev"] = 0
        /\ disk'["noteImage"] \in {0, Was("noteImage")} /\ disk'["notePrev"] = 0
    BY <1>0, <1>8, <2>2 DEF Folders, Holds
  <2>4. Kept(disk, remote, crossed)'
    BY <2>3, Pairs, OneByOne DEF Kept
  <2> QED
    BY <2>1, <2>3, <2>4, OneByOne DEF PutBack
<1> QED
  BY <1>1, <1>2, <1>3, <1>4, <1>5, <1>6, <1>7, <1>8 DEF Rotating

\* The steps of replaceFile(): each leads to the next, and the last one to its end.
LEMMA ReplacingStep ==
    ASSUME CacheInv, CacheAssumption, Replacing, Cache!FileOperation
    PROVE  Replacing' \/ InPlace' \/ PutBack'
<1>0. /\ disk \in Folders /\ {"image", "prev", "noteImage", "notePrev", "noteAside", "new", "aside"} \subseteq Cache!Files
  BY DEF CacheInv, CacheTyped, Cache!Files
<1>9. Good(disk["new"]) => disk["new"] # 0
  BY Worth DEF Good, CacheAssumption, CacheInv, CacheTyped
<1>1. CASE /\ Was("image") = 0
           /\ Holds(0, Was("prev"), Was("noteImage"), Was("notePrev"))
           /\ Good(disk["new"])
           /\ Doing(<<Cache!Mv("new", "image")>>, <<>>)
  <2>1. Head(files) = Cache!Mv("new", "image") /\ files' = <<>> /\ done = <<>> /\ ~undoing
    BY <1>1, OneByOne DEF Doing
  <2>2. disk' = IF disk["new"] = 0 THEN disk ELSE [disk EXCEPT !["image"] = disk["new"], !["new"] = 0]
    BY <2>1, Renames
  <2>3. disk'["image"] = disk["new"] /\ Good(disk["image"])'
    BY <1>0, <1>9, <1>1, <2>2, OneByOne DEF Folders, Good
  <2>4. /\ disk'["prev"] = Was("prev") /\ disk'["noteImage"] = Was("noteImage") /\ disk'["notePrev"] = Was("notePrev")
        /\ disk["new"] \in Nat /\ Good(disk["new"])
    BY <1>0, <1>1, <2>2 DEF Folders, Holds, Passes
  <2>5. Kept(disk, remote, crossed)'
    BY <2>3, <2>4, Pairs, OneByOne DEF Kept
  <2> QED
    BY <1>1, <2>1, <2>3, <2>5, OneByOne DEF InPlace
<1>2. CASE /\ Passes
           /\ Holds(Was("image"), Was("prev"), seen, Was("notePrev"))
           /\ Good(disk["new"])
           /\ Doing(<<Cache!Rm("aside"), Cache!Mv("image", "aside"), Cache!Mv("new", "image"), Cache!Rm("aside")>>, <<>>)
  <2>1. Head(files) = Cache!Rm("aside") /\ files' = <<Cache!Mv("image", "aside"), Cache!Mv("new", "image"), Cache!Rm("aside")>> /\ done = <<>> /\ ~undoing
    BY <1>2, OneByOne DEF Doing
  <2>2. disk' = [disk EXCEPT !["aside"] = 0] /\ done' = <<>>
    BY <1>0, <2>1, Removes
  <2>3. /\ (Passes)'
        /\ (Holds(Was("image"), Was("prev"), seen, Was("notePrev")))'
        /\ (Good(disk["new"]))'
        /\ Doing(<<Cache!Mv("image", "aside"), Cache!Mv("new", "image"), Cache!Rm("aside")>>, <<>>)'
    BY <1>0, <1>2, <2>1, <2>2, OneByOne DEF Folders, Holds, Undoing, Doing, Good, Passes
  <2> QED
    BY <1>0, <1>2, <2>3, OneByOne DEF Replacing
<1>3. CASE /\ Passes
           /\ Holds(Was("image"), Was("prev"), seen, Was("notePrev"))
           /\ Good(disk["new"])
           /\ Doing(<<Cache!Mv("image", "aside"), Cache!Mv("new", "image"), Cache!Rm("aside")>>, <<>>)
  <2>1. Head(files) = Cache!Mv("image", "aside") /\ files' = <<Cache!Mv("new", "image"), Cache!Rm("aside")>> /\ done = <<>> /\ ~undoing
    BY <1>3, OneByOne DEF Doing
  <2>2. /\ disk' = IF disk["image"] = 0 THEN disk ELSE [disk EXCEPT !["aside"] = disk["image"], !["image"] = 0]
        /\ done' = <<Cache!Mv("aside", "image")>>
    BY <2>1, Renames, TwoOfThem
  <2>3. /\ (Passes)'
        /\ (Holds(0, Was("prev"), seen, Was("notePrev")))'
        /\ (Good(disk["new"]))'
        /\ (disk["aside"] = Was("image"))'
        /\ Doing(<<Cache!Mv("new", "image"), Cache!Rm("aside")>>, <<Cache!Mv("aside", "image")>>)'
    BY <1>0, <1>3, <2>1, <2>2, OneByOne DEF Folders, Holds, Undoing, Doing, Good, Passes
  <2> QED
    BY <1>0, <1>3, <2>3, OneByOne DEF Replacing
<1>4. CASE /\ Passes
           /\ Holds(0, Was("prev"), seen, Was("notePrev"))
           /\ Good(disk["new"])
           /\ disk["aside"] = Was("image")
           /\ Doing(<<Cache!Mv("new", "image"), Cache!Rm("aside")>>, <<Cache!Mv("aside", "image")>>)
  <2>1. Head(files) = Cache!Mv("new", "image") /\ files' = <<Cache!Rm("aside")>> /\ done = <<Cache!Mv("aside", "image")>> /\ ~undoing
    BY <1>4, OneByOne DEF Doing
  <2>2. /\ disk' = IF disk["new"] = 0 THEN disk ELSE [disk EXCEPT !["image"] = disk["new"], !["new"] = 0]
        /\ done' = <<Cache!Mv("image", "new"), Cache!Mv("aside", "image")>>
    BY <2>1, Renames, TwoOfThem
  <2>3. /\ (Passes)'
        /\ (Good(disk["image"]))'
        /\ (Holds(disk["image"], Was("prev"), seen, Was("notePrev")))'
        /\ (disk["aside"] = Was("image"))'
        /\ (disk["new"] = 0)'
        /\ Doing(<<Cache!Rm("aside")>>, <<Cache!Mv("image", "new"), Cache!Mv("aside", "image")>>)'
    BY <1>0, <1>4, <2>1, <2>2, OneByOne DEF Folders, Holds, Undoing, Doing, Good, Passes
  <2> QED
    BY <1>0, <1>4, <2>3, OneByOne DEF Replacing
<1>5. CASE /\ Passes
           /\ Good(disk["image"])
           /\ Holds(disk["image"], Was("prev"), seen, Was("notePrev"))
           /\ disk["aside"] = Was("image")
           /\ disk["new"] = 0
           /\ Doing(<<Cache!Rm("aside")>>, <<Cache!Mv("image", "new"), Cache!Mv("aside", "image")>>)
  <2>1. Head(files) = Cache!Rm("aside") /\ files' = <<>> /\ done = <<Cache!Mv("image", "new"), Cache!Mv("aside", "image")>> /\ ~undoing
    BY <1>5, OneByOne DEF Doing
  <2>2. disk' = [disk EXCEPT !["aside"] = 0]
    BY <1>0, <2>1, Removes
  <2>3. disk'["image"] = disk["image"] /\ Good(disk["image"])'
    BY <1>0, <1>5, <2>2, OneByOne DEF Folders, Good
  <2>4. /\ disk'["prev"] = Was("prev") /\ disk'["noteImage"] = Was("noteImage") /\ disk'["notePrev"] = Was("notePrev")
        /\ disk["image"] \in Nat /\ Good(disk["image"])
    BY <1>0, <1>5, <2>2 DEF Folders, Holds, Passes
  <2>5. Kept(disk, remote, crossed)'
    BY <2>3, <2>4, Pairs, OneByOne DEF Kept
  <2> QED
    BY <1>5, <2>1, <2>3, <2>5, OneByOne DEF InPlace, Passes
<1>6. CASE /\ Passes
           /\ Holds(0, Was("prev"), seen, Was("notePrev"))
           /\ disk["aside"] = Was("image")
           /\ Undoing(<<Cache!Mv("aside", "image")>>)
  <2>1. Head(files) = Cache!Mv("aside", "image") /\ files' = <<>> /\ undoing
    BY <1>6, OneByOne DEF Undoing
  <2>2. disk' = IF disk["aside"] = 0 THEN disk ELSE [disk EXCEPT !["image"] = disk["aside"], !["aside"] = 0]
    BY <2>1, Renames
  <2>3. /\ disk'["image"] = Was("image") /\ disk'["prev"] = Was("prev")
        /\ disk'["noteImage"] = Was("noteImage") /\ disk'["notePrev"] = Was("notePrev")
    BY <1>0, <1>6, <2>2 DEF Folders, Holds, Passes
  <2>4. Kept(disk, remote, crossed)'
    BY <2>3, Pairs, OneByOne DEF Kept
  <2> QED
    BY <2>1, <2>3, <2>4, OneByOne DEF PutBack
<1> QED
  BY <1>1, <1>2, <1>3, <1>4, <1>5, <1>6 DEF Replacing

\* The steps of a roll back: the images change places, or keep them.
LEMMA RollingStep ==
    ASSUME CacheInv, RollingImages, Cache!FileOperation
    PROVE  RollingImages'
<1>0. /\ disk \in Folders /\ {"image", "prev", "noteImage", "notePrev", "noteAside", "new", "aside"} \subseteq Cache!Files
      /\ Was("prev") # 0 /\ disk["noteImage"] = Was("noteImage") /\ disk["notePrev"] = Was("notePrev")
  BY DEF CacheInv, CacheTyped, Cache!Files, RollingImages
<1>1. CASE /\ Was("image") = 0
           /\ disk["image"] = 0 /\ disk["prev"] = Was("prev")
           /\ Doing(<<Cache!Mv("prev", "image")>>, <<>>)
  <2>1. Head(files) = Cache!Mv("prev", "image") /\ files' = <<>> /\ done = <<>> /\ ~undoing
    BY <1>1, OneByOne DEF Doing
  <2>2. disk' = IF disk["prev"] = 0 THEN disk ELSE [disk EXCEPT !["image"] = disk["prev"], !["prev"] = 0]
    BY <2>1, Renames
  <2>3. /\ disk'["image"] = Was("prev") /\ disk'["prev"] = Was("image")
        /\ disk'["noteImage"] = disk["noteImage"] /\ disk'["notePrev"] = disk["notePrev"]
    BY <1>0, <1>1, <2>2 DEF Folders
  <2> QED
    BY <1>0, <2>1, <2>3, OneByOne DEF RollingImages, Undoing
<1>2. CASE /\ Was("image") # 0
           /\ disk["image"] = Was("image") /\ disk["prev"] = Was("prev")
           /\ Doing(<<Cache!Rm("aside"), Cache!Mv("image", "aside"), Cache!Mv("prev", "image"), Cache!Mv("aside", "prev")>>, <<>>)
  <2>1. Head(files) = Cache!Rm("aside") /\ files' = <<Cache!Mv("image", "aside"), Cache!Mv("prev", "image"), Cache!Mv("aside", "prev")>> /\ done = <<>> /\ ~undoing
    BY <1>2, OneByOne DEF Doing
  <2>2. disk' = [disk EXCEPT !["aside"] = 0] /\ done' = <<>>
    BY <1>0, <2>1, Removes
  <2>3. /\ (Was("image") # 0)'
        /\ (disk["image"] = Was("image") /\ disk["prev"] = Was("prev"))'
        /\ (disk["noteImage"] = Was("noteImage") /\ disk["notePrev"] = Was("notePrev"))'
        /\ Doing(<<Cache!Mv("image", "aside"), Cache!Mv("prev", "image"), Cache!Mv("aside", "prev")>>, <<>>)'
    BY <1>0, <1>2, <2>1, <2>2, OneByOne DEF Folders, Holds, Undoing, Doing, Good, Passes
  <2> QED
    BY <1>0, <1>2, <2>3, OneByOne DEF RollingImages
<1>3. CASE /\ Was("image") # 0
           /\ disk["image"] = Was("image") /\ disk["prev"] = Was("prev")
           /\ Doing(<<Cache!Mv("image", "aside"), Cache!Mv("prev", "image"), Cache!Mv("aside", "prev")>>, <<>>)
  <2>1. Head(files) = Cache!Mv("image", "aside") /\ files' = <<Cache!Mv("prev", "image"), Cache!Mv("aside", "prev")>> /\ done = <<>> /\ ~undoing
    BY <1>3, OneByOne DEF Doing
  <2>2. /\ disk' = IF disk["image"] = 0 THEN disk ELSE [disk EXCEPT !["aside"] = disk["image"], !["image"] = 0]
        /\ done' = <<Cache!Mv("aside", "image")>>
    BY <2>1, Renames, TwoOfThem
  <2>3. /\ (Was("image") # 0)'
        /\ (disk["image"] = 0 /\ disk["prev"] = Was("prev"))'
        /\ (disk["aside"] = Was("image"))'
        /\ (disk["noteImage"] = Was("noteImage") /\ disk["notePrev"] = Was("notePrev"))'
        /\ Doing(<<Cache!Mv("prev", "image"), Cache!Mv("aside", "prev")>>, <<Cache!Mv("aside", "image")>>)'
    BY <1>0, <1>3, <2>1, <2>2, OneByOne DEF Folders, Holds, Undoing, Doing, Good, Passes
  <2> QED
    BY <1>0, <1>3, <2>3, OneByOne DEF RollingImages
<1>4. CASE /\ Was("image") # 0
           /\ disk["image"] = 0 /\ disk["prev"] = Was("prev")
           /\ disk["aside"] = Was("image")
           /\ Doing(<<Cache!Mv("prev", "image"), Cache!Mv("aside", "prev")>>, <<Cache!Mv("aside", "image")>>)
  <2>1. Head(files) = Cache!Mv("prev", "image") /\ files' = <<Cache!Mv("aside", "prev")>> /\ done = <<Cache!Mv("aside", "image")>> /\ ~undoing
    BY <1>4, OneByOne DEF Doing
  <2>2. /\ disk' = IF disk["prev"] = 0 THEN disk ELSE [disk EXCEPT !["image"] = disk["prev"], !["prev"] = 0]
        /\ done' = <<Cache!Mv("image", "prev"), Cache!Mv("aside", "image")>>
    BY <2>1, Renames, TwoOfThem
  <2>3. /\ (Was("image") # 0)'
        /\ (disk["image"] = Was("prev") /\ disk["prev"] = 0)'
        /\ (disk["aside"] = Was("image"))'
        /\ (disk["noteImage"] = Was("noteImage") /\ disk["notePrev"] = Was("notePrev"))'
        /\ Doing(<<Cache!Mv("aside", "prev")>>, <<Cache!Mv("image", "prev"), Cache!Mv("aside", "image")>>)'
    BY <1>0, <1>4, <2>1, <2>2, OneByOne DEF Folders, Holds, Undoing, Doing, Good, Passes
  <2> QED
    BY <1>0, <1>4, <2>3, OneByOne DEF RollingImages
<1>5. CASE /\ Was("image") # 0
           /\ disk["image"] = Was("prev") /\ disk["prev"] = 0
           /\ disk["aside"] = Was("image")
           /\ Doing(<<Cache!Mv("aside", "prev")>>, <<Cache!Mv("image", "prev"), Cache!Mv("aside", "image")>>)
  <2>1. Head(files) = Cache!Mv("aside", "prev") /\ files' = <<>> /\ done = <<Cache!Mv("image", "prev"), Cache!Mv("aside", "image")>> /\ ~undoing
    BY <1>5, OneByOne DEF Doing
  <2>2. disk' = IF disk["aside"] = 0 THEN disk ELSE [disk EXCEPT !["prev"] = disk["aside"], !["aside"] = 0]
    BY <2>1, Renames
  <2>3. /\ disk'["image"] = Was("prev") /\ disk'["prev"] = Was("image")
        /\ disk'["noteImage"] = disk["noteImage"] /\ disk'["notePrev"] = disk["notePrev"]
    BY <1>0, <1>5, <2>2 DEF Folders
  <2> QED
    BY <1>0, <2>1, <2>3, OneByOne DEF RollingImages, Undoing
<1>6. CASE /\ Was("image") # 0
           /\ disk["image"] = Was("prev") /\ disk["prev"] = 0
           /\ disk["aside"] = Was("image")
           /\ Undoing(<<Cache!Mv("image", "prev"), Cache!Mv("aside", "image")>>)
  <2>1. Head(files) = Cache!Mv("image", "prev") /\ files' = <<Cache!Mv("aside", "image")>> /\ undoing
    BY <1>6, OneByOne DEF Undoing
  <2>2. disk' = IF disk["image"] = 0 THEN disk ELSE [disk EXCEPT !["prev"] = disk["image"], !["image"] = 0]
    BY <2>1, Renames
  <2>3. /\ (Was("image") # 0)'
        /\ (disk["image"] = 0 /\ disk["prev"] = Was("prev"))'
        /\ (disk["aside"] = Was("image"))'
        /\ (disk["noteImage"] = Was("noteImage") /\ disk["notePrev"] = Was("notePrev"))'
        /\ Undoing(<<Cache!Mv("aside", "image")>>)'
    BY <1>0, <1>6, <2>1, <2>2, OneByOne DEF Folders, Holds, Undoing, Doing, Good, Passes
  <2> QED
    BY <1>0, <1>6, <2>3, OneByOne DEF RollingImages
<1>7. CASE /\ Was("image") # 0
           /\ disk["image"] = 0 /\ disk["prev"] = Was("prev")
           /\ disk["aside"] = Was("image")
           /\ Undoing(<<Cache!Mv("aside", "image")>>)
  <2>1. Head(files) = Cache!Mv("aside", "image") /\ files' = <<>> /\ undoing
    BY <1>7, OneByOne DEF Undoing
  <2>2. disk' = IF disk["aside"] = 0 THEN disk ELSE [disk EXCEPT !["image"] = disk["aside"], !["aside"] = 0]
    BY <2>1, Renames
  <2>3. /\ disk'["image"] = Was("image") /\ disk'["prev"] = Was("prev")
        /\ disk'["noteImage"] = disk["noteImage"] /\ disk'["notePrev"] = disk["notePrev"]
    BY <1>0, <1>7, <2>2 DEF Folders
  <2> QED
    BY <1>0, <2>1, <2>3, OneByOne DEF RollingImages, Undoing
<1>8. CASE files = <<>>
  BY <1>8 DEF Cache!FileOperation
<1> QED
  BY <1>1, <1>2, <1>3, <1>4, <1>5, <1>6, <1>7, <1>8 DEF RollingImages, Undoing

\* The notes follow, or are put back.
LEMMA RollingNotesStep ==
    ASSUME CacheInv, RollingNotes, Cache!FileOperation
    PROVE  RollingNotes'
<1>0. /\ disk \in Folders /\ {"image", "prev", "noteImage", "notePrev", "noteAside", "new", "aside"} \subseteq Cache!Files
      /\ Was("prev") # 0 /\ disk["image"] = Was("prev") /\ disk["prev"] = Was("image")
  BY DEF CacheInv, CacheTyped, Cache!Files, RollingNotes
<1>a. (\A name : Was(name)' = Was(name)) /\ (Apart => Apart')
  BY OneByOne DEF Apart
<1>1. CASE /\ disk["noteImage"] = Was("noteImage") /\ disk["notePrev"] = Was("notePrev")
           /\ Was("noteImage") = 0
           /\ Doing(<<Cache!Mv("notePrev", "noteImage")>>, <<>>)
  <2>1. Head(files) = Cache!Mv("notePrev", "noteImage") /\ files' = <<>> /\ done = <<>> /\ ~undoing
    BY <1>1, OneByOne DEF Doing
  <2>2. disk' = IF disk["notePrev"] = 0 THEN disk ELSE [disk EXCEPT !["noteImage"] = disk["notePrev"], !["notePrev"] = 0]
    BY <2>1, Renames
  <2>3. /\ (disk["noteImage"] = Was("notePrev") /\ disk["notePrev"] = Was("noteImage"))'
        /\ (disk["image"] = Was("prev") /\ disk["prev"] = Was("image"))'
    BY <1>0, <1>a, <1>1, <2>2 DEF Folders
  <2> QED
    BY <1>0, <1>a, <2>1, <2>3, OneByOne DEF RollingNotes
<1>2. CASE /\ disk["noteImage"] = Was("noteImage") /\ disk["notePrev"] = Was("notePrev")
           /\ Was("notePrev") = 0
           /\ Doing(<<Cache!Mv("noteImage", "notePrev")>>, <<>>)
  <2>1. Head(files) = Cache!Mv("noteImage", "notePrev") /\ files' = <<>> /\ done = <<>> /\ ~undoing
    BY <1>2, OneByOne DEF Doing
  <2>2. disk' = IF disk["noteImage"] = 0 THEN disk ELSE [disk EXCEPT !["notePrev"] = disk["noteImage"], !["noteImage"] = 0]
    BY <2>1, Renames
  <2>3. /\ (disk["noteImage"] = Was("notePrev") /\ disk["notePrev"] = Was("noteImage"))'
        /\ (disk["image"] = Was("prev") /\ disk["prev"] = Was("image"))'
    BY <1>0, <1>a, <1>2, <2>2 DEF Folders
  <2> QED
    BY <1>0, <1>a, <2>1, <2>3, OneByOne DEF RollingNotes
<1>3. CASE /\ disk["noteImage"] = Was("noteImage") /\ disk["notePrev"] = Was("notePrev")
           /\ Was("noteImage") # 0 /\ Was("notePrev") # 0
           /\ Doing(<<Cache!Rm("noteAside"), Cache!Mv("noteImage", "noteAside"), Cache!Mv("notePrev", "noteImage"), Cache!Mv("noteAside", "notePrev")>>, <<>>)
  <2>1. Head(files) = Cache!Rm("noteAside") /\ files' = <<Cache!Mv("noteImage", "noteAside"), Cache!Mv("notePrev", "noteImage"), Cache!Mv("noteAside", "notePrev")>> /\ done = <<>> /\ ~undoing
    BY <1>3, OneByOne DEF Doing
  <2>2. disk' = [disk EXCEPT !["noteAside"] = 0] /\ done' = <<>>
    BY <1>0, <2>1, Removes
  <2>3. /\ (disk["noteImage"] = Was("noteImage") /\ disk["notePrev"] = Was("notePrev"))'
        /\ (disk["image"] = Was("prev") /\ disk["prev"] = Was("image"))'
    BY <1>0, <1>a, <1>3, <2>2 DEF Folders
  <2>4. Doing(<<Cache!Mv("noteImage", "noteAside"), Cache!Mv("notePrev", "noteImage"), Cache!Mv("noteAside", "notePrev")>>, <<>>)'
    BY <2>1, <2>2, OneByOne DEF Doing
  <2> QED
    BY <1>0, <1>a, <1>3, <2>3, <2>4 DEF RollingNotes
<1>4. CASE /\ disk["noteImage"] = Was("noteImage") /\ disk["notePrev"] = Was("notePrev")
           /\ Was("noteImage") # 0 /\ Was("notePrev") # 0
           /\ Doing(<<Cache!Mv("noteImage", "noteAside"), Cache!Mv("notePrev", "noteImage"), Cache!Mv("noteAside", "notePrev")>>, <<>>)
  <2>1. Head(files) = Cache!Mv("noteImage", "noteAside") /\ files' = <<Cache!Mv("notePrev", "noteImage"), Cache!Mv("noteAside", "notePrev")>> /\ done = <<>> /\ ~undoing
    BY <1>4, OneByOne DEF Doing
  <2>2. /\ disk' = IF disk["noteImage"] = 0 THEN disk ELSE [disk EXCEPT !["noteAside"] = disk["noteImage"], !["noteImage"] = 0]
        /\ done' = <<Cache!Mv("noteAside", "noteImage")>>
    BY <2>1, Renames, TwoOfThem
  <2>3. /\ (disk["noteImage"] = 0 /\ disk["notePrev"] = Was("notePrev") /\ disk["noteAside"] = Was("noteImage"))'
        /\ (disk["image"] = Was("prev") /\ disk["prev"] = Was("image"))'
    BY <1>0, <1>a, <1>4, <2>2 DEF Folders
  <2>4. Doing(<<Cache!Mv("notePrev", "noteImage"), Cache!Mv("noteAside", "notePrev")>>, <<Cache!Mv("noteAside", "noteImage")>>)'
    BY <2>1, <2>2, OneByOne DEF Doing
  <2> QED
    BY <1>0, <1>a, <1>4, <2>3, <2>4 DEF RollingNotes
<1>5. CASE /\ disk["noteImage"] = 0 /\ disk["notePrev"] = Was("notePrev") /\ disk["noteAside"] = Was("noteImage")
           /\ Was("noteImage") # 0 /\ Was("notePrev") # 0
           /\ Doing(<<Cache!Mv("notePrev", "noteImage"), Cache!Mv("noteAside", "notePrev")>>, <<Cache!Mv("noteAside", "noteImage")>>)
  <2>1. Head(files) = Cache!Mv("notePrev", "noteImage") /\ files' = <<Cache!Mv("noteAside", "notePrev")>> /\ done = <<Cache!Mv("noteAside", "noteImage")>> /\ ~undoing
    BY <1>5, OneByOne DEF Doing
  <2>2. /\ disk' = IF disk["notePrev"] = 0 THEN disk ELSE [disk EXCEPT !["noteImage"] = disk["notePrev"], !["notePrev"] = 0]
        /\ done' = <<Cache!Mv("noteImage", "notePrev"), Cache!Mv("noteAside", "noteImage")>>
    BY <2>1, Renames, TwoOfThem
  <2>3. /\ (disk["noteImage"] = Was("notePrev") /\ disk["notePrev"] = 0 /\ disk["noteAside"] = Was("noteImage"))'
        /\ (disk["image"] = Was("prev") /\ disk["prev"] = Was("image"))'
    BY <1>0, <1>a, <1>5, <2>2 DEF Folders
  <2>4. Doing(<<Cache!Mv("noteAside", "notePrev")>>, <<Cache!Mv("noteImage", "notePrev"), Cache!Mv("noteAside", "noteImage")>>)'
    BY <2>1, <2>2, OneByOne DEF Doing
  <2> QED
    BY <1>0, <1>a, <1>5, <2>3, <2>4 DEF RollingNotes
<1>6. CASE /\ disk["noteImage"] = Was("notePrev") /\ disk["notePrev"] = 0 /\ disk["noteAside"] = Was("noteImage")
           /\ Was("noteImage") # 0 /\ Was("notePrev") # 0
           /\ Doing(<<Cache!Mv("noteAside", "notePrev")>>, <<Cache!Mv("noteImage", "notePrev"), Cache!Mv("noteAside", "noteImage")>>)
  <2>1. Head(files) = Cache!Mv("noteAside", "notePrev") /\ files' = <<>> /\ done = <<Cache!Mv("noteImage", "notePrev"), Cache!Mv("noteAside", "noteImage")>> /\ ~undoing
    BY <1>6, OneByOne DEF Doing
  <2>2. disk' = IF disk["noteAside"] = 0 THEN disk ELSE [disk EXCEPT !["notePrev"] = disk["noteAside"], !["noteAside"] = 0]
    BY <2>1, Renames
  <2>3. /\ (disk["noteImage"] = Was("notePrev") /\ disk["notePrev"] = Was("noteImage"))'
        /\ (disk["image"] = Was("prev") /\ disk["prev"] = Was("image"))'
    BY <1>0, <1>a, <1>6, <2>2 DEF Folders
  <2> QED
    BY <1>0, <1>a, <2>1, <2>3, OneByOne DEF RollingNotes
<1>7. CASE /\ disk["noteImage"] = Was("notePrev") /\ disk["notePrev"] = 0 /\ disk["noteAside"] = Was("noteImage")
           /\ Was("noteImage") # 0 /\ Was("notePrev") # 0 /\ Apart
           /\ Undoing(<<Cache!Mv("noteImage", "notePrev"), Cache!Mv("noteAside", "noteImage")>>)
  <2>1. Head(files) = Cache!Mv("noteImage", "notePrev") /\ files' = <<Cache!Mv("noteAside", "noteImage")>> /\ undoing
    BY <1>7, OneByOne DEF Undoing
  <2>2. disk' = IF disk["noteImage"] = 0 THEN disk ELSE [disk EXCEPT !["notePrev"] = disk["noteImage"], !["noteImage"] = 0]
    BY <2>1, Renames
  <2>3. /\ (disk["noteImage"] = 0 /\ disk["notePrev"] = Was("notePrev") /\ disk["noteAside"] = Was("noteImage"))'
        /\ (disk["image"] = Was("prev") /\ disk["prev"] = Was("image"))'
    BY <1>0, <1>a, <1>7, <2>2 DEF Folders
  <2>4. Undoing(<<Cache!Mv("noteAside", "noteImage")>>)'
    BY <2>1, <2>2, OneByOne DEF Undoing
  <2> QED
    BY <1>0, <1>a, <1>7, <2>3, <2>4 DEF RollingNotes
<1>8. CASE /\ disk["noteImage"] = 0 /\ disk["notePrev"] = Was("notePrev") /\ disk["noteAside"] = Was("noteImage")
           /\ Was("noteImage") # 0 /\ Was("notePrev") # 0 /\ Apart
           /\ Undoing(<<Cache!Mv("noteAside", "noteImage")>>)
  <2>1. Head(files) = Cache!Mv("noteAside", "noteImage") /\ files' = <<>> /\ undoing
    BY <1>8, OneByOne DEF Undoing
  <2>2. disk' = IF disk["noteAside"] = 0 THEN disk ELSE [disk EXCEPT !["noteImage"] = disk["noteAside"], !["noteAside"] = 0]
    BY <2>1, Renames
  <2>3. /\ (disk["noteImage"] = Was("noteImage") /\ disk["notePrev"] = Was("notePrev"))'
        /\ (disk["image"] = Was("prev") /\ disk["prev"] = Was("image"))'
    BY <1>0, <1>a, <1>8, <2>2 DEF Folders
  <2>4. Undoing(<<>>)'
    BY <2>1, <2>2, OneByOne DEF Undoing
  <2> QED
    BY <1>0, <1>a, <1>8, <2>3, <2>4 DEF RollingNotes
<1>9. CASE files = <<>>
  BY <1>9 DEF Cache!FileOperation
<1> QED
  BY <1>1, <1>2, <1>3, <1>4, <1>5, <1>6, <1>7, <1>8, <1>9 DEF RollingNotes, Undoing

\* One file operation, whatever it belongs to.
LEMMA FileOperationTyped ==
    ASSUME CacheInv, Cache!FileOperation
    PROVE  CacheTyped'
<1>1. /\ disk \in Folders /\ files \in Seq(FileOps) /\ done \in Seq(FileOps) /\ files # <<>>
  BY DEF CacheInv, CacheTyped, Cache!FileOperation
<1>2. Head(files) \in FileOps /\ Tail(files) \in Seq(FileOps)
  BY <1>1
<1>3. /\ Head(files).from \in Cache!Files /\ Head(files).to \in Cache!Files
      /\ disk' = Cache!Apply(disk, Head(files)) /\ files' = Tail(files)
  BY <1>2 DEF FileOps, Cache!FileOperation
<1>4. disk' \in Folders
  BY <1>1, <1>3 DEF Folders, Cache!Apply, Cache!None
<1>5. Cache!Mv(Head(files).to, Head(files).from) \in FileOps
  BY <1>3 DEF Cache!Mv, FileOps
<1>6. done' \in Seq(FileOps)
  BY <1>1, <1>5 DEF Cache!FileOperation
<1> QED
  BY <1>1, <1>2, <1>3, <1>4, <1>6 DEF CacheInv, CacheTyped, Cache!FileOperation

LEMMA FileOperationInv ==
    ASSUME CacheInv, CacheAssumption, Cache!FileOperation
    PROVE  CacheInv'
<1>1. CacheTyped'
  BY FileOperationTyped
<1>2. UNCHANGED <<before, remote, seen, undoing, pulling, runs, answers, pendingId, ended, crossed>>
  BY OneByOne
<1>3. ended # "none" => files = <<>>
  BY DEF CacheInv, FolderFits, NoFiles
<1>4. ended = "none" /\ files # <<>>
  BY <1>3 DEF Cache!FileOperation
<1>5. pulling \in {"Place", "RollImages", "RollNotes"}
  BY <1>4 DEF CacheInv, CacheTyped, FolderFits, NoFiles, InPlace
<1>6. SeenAtBegin' /\ Kept(before.disk, before.remote, crossed)' /\ Cache!SkipIsRight' /\ Cache!FailureKeepsTheImage'
  BY <1>2, <1>4 DEF CacheInv, SeenAtBegin, Kept, Cache!SkipIsRight, Cache!FailureKeepsTheImage
<1>7. CASE pulling = "Place"
  <2>1. Rotating \/ Replacing
    BY <1>4, <1>7 DEF CacheInv, FolderFits, InPlace, PutBack
  <2>2. Rotating' \/ Replacing' \/ InPlace' \/ PutBack'
    BY <2>1, RotatingStep, ReplacingStep
  <2>3. FolderFits'
    BY <1>2, <1>7, <2>2 DEF FolderFits
  <2> QED
    BY <1>1, <1>2, <1>4, <1>6, <2>3 DEF CacheInv
<1>8. CASE pulling = "RollImages"
  <2>1. RollingImages'
    BY <1>8, RollingStep DEF CacheInv, FolderFits
  <2>2. FolderFits'
    BY <1>2, <1>8, <2>1 DEF FolderFits
  <2> QED
    BY <1>1, <1>2, <1>4, <1>6, <2>2 DEF CacheInv
<1>9. CASE pulling = "RollNotes"
  <2>1. RollingNotes'
    BY <1>9, RollingNotesStep DEF CacheInv, FolderFits
  <2>2. FolderFits'
    BY <1>2, <1>9, <2>1 DEF FolderFits
  <2> QED
    BY <1>1, <1>2, <1>4, <1>6, <2>2 DEF CacheInv
<1> QED
  BY <1>5, <1>7, <1>8, <1>9

\* The cache begins empty.
LEMMA CacheBegins ==
    ASSUME Cache!CacheInit, CacheAssumption
    PROVE  CacheInv
<1>1. /\ disk = [k \in Cache!Files |-> 0] /\ before = [disk |-> disk, remote |-> 1] /\ remote = 1 /\ runs = 0
      /\ pulling = "Idle" /\ answers = {} /\ files = <<>> /\ done = <<>> /\ undoing = FALSE /\ ended = "none"
  BY DEF Cache!CacheInit, Cache!None
<1>2. {"image", "prev", "noteImage", "notePrev"} \subseteq Cache!Files
  BY DEF Cache!Files
<1>3. CacheTyped
  <2>1. disk \in Folders /\ before \in [disk : Folders, remote : 1..MaxBuilds] /\ before.remote <= remote
    BY <1>1 DEF Folders, CacheAssumption
  <2>2. <<>> \in Seq(FileOps)
    OBVIOUS
  <2> QED
    BY <1>1, <2>1, <2>2 DEF CacheTyped, CacheAssumption
<1>4. Kept(disk, remote, crossed) /\ Kept(before.disk, before.remote, crossed)
  BY <1>1, <1>2 DEF Kept, Pair
<1> QED
  BY <1>1, <1>3, <1>4 DEF CacheInv, SeenAtBegin, FolderFits, NoFiles, Cache!SkipIsRight, Cache!FailureKeepsTheImage

\* A pull or a roll back ends, with what it may say.
LEMMA PullIsOver ==
    ASSUME CacheInv, CacheAssumption, NEW how \in {"unchanged", "pulled", "rolledBack", "failed"},
           Cache!Finish(how, disk), UNCHANGED <<remote, runs, answers, before, crossed>>, Kept(disk, remote, crossed),
           how = "failed" => Was("image") \in {0, disk["image"], disk["prev"], seen} \cup crossed,
           how = "unchanged" /\ disk["image"] \notin crossed => disk["image"] \in before.remote..MaxBuilds
    PROVE  CacheInv'
<1>1. /\ pulling' = "Idle" /\ files' = <<>> /\ done' = <<>> /\ undoing' = FALSE /\ ended' = how /\ seen' = seen
      /\ disk' = IF how = "failed" THEN [disk EXCEPT !["new"] = 0] ELSE disk
  BY DEF Cache!Finish, Cache!None
<1>2. disk \in Folders /\ {"image", "prev", "noteImage", "notePrev", "new"} \subseteq Cache!Files
  BY DEF CacheInv, CacheTyped, Cache!Files
<1>3. /\ disk' \in Folders /\ disk'["image"] = disk["image"] /\ disk'["prev"] = disk["prev"]
      /\ disk'["noteImage"] = disk["noteImage"] /\ disk'["notePrev"] = disk["notePrev"]
      /\ how = "failed" => disk'["new"] = 0
  BY <1>1, <1>2 DEF Folders
<1>4. CacheTyped'
  <2>1. <<>> \in Seq(FileOps)
    OBVIOUS
  <2> QED
    BY <1>1, <1>3, <2>1 DEF CacheInv, CacheTyped
<1>5. Kept(disk, remote, crossed)' /\ Kept(before.disk, before.remote, crossed)'
  BY <1>3 DEF CacheInv, Kept
<1>6. Cache!SkipIsRight' /\ Cache!FailureKeepsTheImage'
  BY <1>1, <1>3 DEF Cache!SkipIsRight, Cache!FailureKeepsTheImage, Cache!None, Was
<1> QED
  BY <1>1, <1>4, <1>5, <1>6 DEF CacheInv, SeenAtBegin, FolderFits, NoFiles

\* Until the image is there the folder is as it was.
LEMMA NotYet ==
    ASSUME CacheInv, CacheAssumption, pulling \in {"Stat", "Git", "Download"}
    PROVE  /\ Kept(disk, remote, crossed) /\ files = <<>> /\ done = <<>> /\ ~undoing
           /\ disk["image"] = Was("image") /\ disk["prev"] = Was("prev")
           /\ disk["noteImage"] = Was("noteImage") /\ disk["notePrev"] = Was("notePrev")
<1>1. NoFiles /\ done = <<>> /\ disk = [before.disk EXCEPT !["new"] = 0] /\ before.disk \in Folders
  BY DEF CacheInv, CacheTyped, FolderFits
<1>2. /\ disk["image"] = Was("image") /\ disk["prev"] = Was("prev")
      /\ disk["noteImage"] = Was("noteImage") /\ disk["notePrev"] = Was("notePrev")
  BY <1>1 DEF Folders, Was, Cache!Files
<1> QED
  BY <1>1, <1>2, Pairs DEF Kept, NoFiles

\* The image of whose note it is the build that was seen is that build, or passes for it.
LEMMA SameIsTheBuild ==
    ASSUME CacheInv, CacheAssumption, pulling \in {"Git", "Download"}, Cache!SameBuild
    PROVE  Passes
<1>1. seen = before.remote /\ before.remote \in 1..MaxBuilds /\ MaxBuilds \in Nat
  BY DEF CacheInv, CacheTyped, SeenAtBegin, CacheAssumption
<1>2. disk["image"] # 0 /\ disk["noteImage"] = seen /\ Cache!Size(seen) = Cache!Size(disk["image"])
  BY <1>1 DEF Cache!SameBuild, Cache!ReadNote, Cache!Note, Cache!None
<1>3. Pair(disk["image"], disk["noteImage"], before.remote, crossed) /\ disk["image"] \in Nat
  BY NotYet, Worth DEF CacheInv, Kept, Was, Cache!Files
<1>4. disk["image"] \in {seen} \cup crossed
  BY <1>1, <1>2, <1>3 DEF Pair
<1> QED
  BY <1>1, <1>2, <1>4, NotYet DEF Passes

\* begin().
LEMMA StartInv ==
    ASSUME CacheInv, NEW force, Cache!Start(force)
    PROVE  CacheInv'
<1>1. /\ pulling = "Idle" /\ runs' = runs + 1 /\ pulling' = "Stat" /\ pendingId' = runs'
      /\ answers' = answers \cup {[id |-> runs', build |-> remote]} /\ disk' = [disk EXCEPT !["new"] = 0]
      /\ ended' = "none" /\ before' = [disk |-> disk, remote |-> remote]
      /\ UNCHANGED <<remote, seen, files, done, undoing, crossed>>
  BY DEF Cache!Start, Cache!None
<1>2. disk \in Folders /\ runs \in Nat /\ (\A a \in answers : a.id \in 1..runs) /\ NoFiles /\ done = <<>> /\ Kept(disk, remote, crossed)
  BY <1>1 DEF CacheInv, CacheTyped, FolderFits
<1>3. CacheTyped'
  <2>1. \A a \in answers' : a.id \in 1..runs'
    BY <1>1, <1>2
  <2>2. disk' \in Folders /\ runs' \in Nat
    <3>1. runs' \in Nat
      BY <1>1, <1>2
    <3>2. disk' = [disk EXCEPT !["new"] = 0]
      BY <1>1
    <3>3. disk' \in Folders
      BY <1>2, <3>2 DEF Folders
    <3> QED
      BY <3>1, <3>3
  <2>3. /\ before' \in [disk : Folders, remote : 1..MaxBuilds] /\ (before.remote <= remote)'
        /\ UNCHANGED <<remote, undoing, files, done>>
    BY <1>1, <1>2 DEF CacheInv, CacheTyped
  <2> QED
    BY <1>1, <2>1, <2>2, <2>3 DEF CacheInv, CacheTyped
<1>4. SeenAtBegin'
  BY <1>1, <1>2 DEF SeenAtBegin
<1>5. FolderFits' /\ Kept(before.disk, before.remote, crossed)'
  BY <1>1, <1>2 DEF FolderFits, NoFiles, Kept
<1> QED
  BY <1>1, <1>3, <1>4, <1>5 DEF CacheInv, Cache!SkipIsRight, Cache!FailureKeepsTheImage

\* onStat().
LEMMA StatInv ==
    ASSUME CacheInv, NEW a \in answers, Cache!Stat(a)
    PROVE  CacheInv'
<1>1. /\ answers' = answers \ {a}
      /\ UNCHANGED <<disk, remote, runs, pendingId, files, done, undoing, ended, before, crossed>>
  BY DEF Cache!Stat
<1>2. CASE Cache!IsPending(a)
  <2>1. pulling = "Stat" /\ pulling' = "Git" /\ seen' = before.remote /\ ended = "none"
    BY <1>2 DEF Cache!Stat, Cache!IsPending, CacheInv, SeenAtBegin
  <2>2. CacheTyped' /\ SeenAtBegin' /\ FolderFits'
    BY <1>1, <2>1 DEF CacheInv, CacheTyped, SeenAtBegin, FolderFits, NoFiles
  <2> QED
    BY <1>1, <2>1, <2>2 DEF CacheInv, Kept, Cache!SkipIsRight, Cache!FailureKeepsTheImage
<1>3. CASE ~Cache!IsPending(a)
  <2>1. UNCHANGED <<pulling, seen>>
    BY <1>3 DEF Cache!Stat
  <2>2. CacheTyped' /\ SeenAtBegin'
    BY <1>1, <2>1 DEF CacheInv, CacheTyped, SeenAtBegin
  <2>3. FolderFits'
    BY <1>1, <2>1 DEF CacheInv, FolderFits, NoFiles, Kept, Rotating, Replacing, InPlace, PutBack, RollingImages,
                      RollingNotes, Holds, Doing, Undoing, Was, Good, Passes, Apart
  <2> QED
    BY <1>1, <2>1, <2>2, <2>3 DEF CacheInv, Kept, Cache!SkipIsRight, Cache!FailureKeepsTheImage
<1> QED
  BY <1>2, <1>3

\* remoteFactsComplete().
LEMMA FactsCompleteInv ==
    ASSUME CacheInv, CacheAssumption, Cache!FactsComplete
    PROVE  CacheInv'
<1>1. pulling = "Git" /\ UNCHANGED <<remote, runs, answers, before, crossed>> /\ ended = "none"
  BY DEF Cache!FactsComplete, CacheInv
<1>2. CASE Cache!SameBuild /\ ~forced
  <2>1. Cache!Finish("unchanged", disk)
    BY <1>2 DEF Cache!FactsComplete
  <2>2. disk["image"] \notin crossed => disk["image"] \in before.remote..MaxBuilds
    BY <1>1, <1>2, SameIsTheBuild, NotYet DEF CacheInv, CacheTyped, SeenAtBegin, CacheAssumption, Passes
  <2> QED
    BY <1>1, <2>1, <2>2, NotYet, PullIsOver
<1>3. CASE ~(Cache!SameBuild /\ ~forced)
  <2>1. pulling' = "Download" /\ UNCHANGED <<disk, pendingId, seen, files, done, undoing, ended>>
    BY <1>3 DEF Cache!FactsComplete
  <2>2. CacheTyped' /\ SeenAtBegin' /\ FolderFits'
    BY <1>1, <2>1 DEF CacheInv, CacheTyped, SeenAtBegin, FolderFits, NoFiles
  <2> QED
    BY <1>1, <2>1, <2>2 DEF CacheInv, Kept, Cache!SkipIsRight, Cache!FailureKeepsTheImage
<1> QED
  BY <1>2, <1>3

\* A pull that fails before its image is there, or after it was put in its place.
LEMMA FailsInv ==
    ASSUME CacheInv, CacheAssumption, Cache!Finish("failed", disk), UNCHANGED <<remote, runs, answers, before, crossed>>,
           pulling \in {"Stat", "Git", "Download", "ExtraStat", "ExtraDownload"}
    PROVE  CacheInv'
<1>1. Kept(disk, remote, crossed) /\ Was("image") \in {0, disk["image"], disk["prev"], seen} \cup crossed
  BY NotYet DEF CacheInv, FolderFits
<1> QED
  BY <1>1, PullIsOver

\* The image is put into its place, whatever is still to be done.
LEMMA PlacingInv ==
    ASSUME CacheInv, CacheAssumption, UNCHANGED <<remote, runs, answers, before, seen, done, undoing, ended, crossed>>,
           pulling = "Download", pulling' = "Place", disk' \in Folders,
           files' \in {<<Cache!Mv("new", "image")>>,
                       <<Cache!Rm("aside"), Cache!Mv("image", "aside"), Cache!Mv("new", "image"), Cache!Rm("aside")>>,
                       <<Cache!Rm("prev"), Cache!Rm("notePrev"), Cache!Mv("image", "prev"),
                         Cache!MvNote("noteImage", "notePrev"), Cache!Mv("new", "image")>>},
           Rotating' \/ Replacing'
    PROVE  CacheInv'
<1>1. \A a, b \in Cache!Files : Cache!Mv(a, b) \in FileOps /\ Cache!MvNote(a, b) \in FileOps /\ Cache!Rm(a) \in FileOps
  BY DEF FileOps, Cache!Mv, Cache!MvNote, Cache!Rm
<1>2. files' \in Seq(FileOps)
  <2>1. {"image", "prev", "noteImage", "notePrev", "new", "aside"} \subseteq Cache!Files
    BY DEF Cache!Files
  <2> HIDE DEF FileOps
  <2> DEFINE mv == Cache!Mv("new", "image")
  <2>2. <<mv>> \in Seq(FileOps)
    BY <1>1, <2>1
  <2>3. <<Cache!Rm("aside"), Cache!Mv("image", "aside"), Cache!Mv("new", "image"), Cache!Rm("aside")>> \in Seq(FileOps)
    BY <1>1, <2>1
  <2>4. <<Cache!Rm("prev"), Cache!Rm("notePrev"), Cache!Mv("image", "prev"),
          Cache!MvNote("noteImage", "notePrev"), Cache!Mv("new", "image")>> \in Seq(FileOps)
    BY <1>1, <2>1
  <2> QED
    BY <2>2, <2>3, <2>4
<1>3. CacheTyped'
  BY <1>2 DEF CacheInv, CacheTyped
<1>4. SeenAtBegin' /\ FolderFits'
  BY DEF CacheInv, SeenAtBegin, FolderFits
<1> QED
  BY <1>3, <1>4 DEF CacheInv, Kept, Cache!SkipIsRight, Cache!FailureKeepsTheImage

\* completeImage().
LEMMA DownloadedInv ==
    ASSUME CacheInv, CacheAssumption, Cache!Downloaded
    PROVE  CacheInv'
<1>1. /\ pulling = "Download" /\ UNCHANGED <<remote, runs, answers, before, crossed>> /\ ended = "none"
      /\ seen = before.remote /\ before.remote \in 1..MaxBuilds /\ remote \in 1..MaxBuilds /\ before.remote <= remote
      /\ MaxBuilds \in Nat /\ disk \in Folders
  BY DEF Cache!Downloaded, CacheInv, CacheTyped, SeenAtBegin, CacheAssumption
<1>2. PICK got \in {seen, remote} \cup (IF remote # seen THEN {Cache!Torn(seen)} ELSE {}) :
          IF Cache!Size(got) # Cache!Size(seen)
             THEN Cache!Finish("failed", disk)
             ELSE /\ disk' = [disk EXCEPT !["new"] = got]
                  /\ pulling' = "Place"
                  /\ files' = IF Cache!SameBuild \/ disk["image"] = 0 THEN Cache!Replace ELSE Cache!Rotate
                  /\ UNCHANGED <<pendingId, seen, done, undoing, ended>>
  BY DEF Cache!Downloaded, Cache!None
<1>3. CASE Cache!Size(got) # Cache!Size(seen)
  BY <1>1, <1>2, <1>3, FailsInv
<1>4. CASE Cache!Size(got) = Cache!Size(seen)
  <2>1. /\ disk' = [disk EXCEPT !["new"] = got] /\ pulling' = "Place"
        /\ files' = IF Cache!SameBuild \/ disk["image"] = 0 THEN Cache!Replace ELSE Cache!Rotate
        /\ UNCHANGED <<pendingId, seen, done, undoing, ended>>
    BY <1>2, <1>4
  <2>2. got \in Nat /\ Good(got)
    BY <1>1 DEF Good, Cache!Torn
  <2>3. /\ disk' \in Folders /\ disk'["new"] = got /\ disk'["image"] = Was("image") /\ disk'["prev"] = Was("prev")
        /\ disk'["noteImage"] = Was("noteImage") /\ disk'["notePrev"] = Was("notePrev")
        /\ disk["image"] = Was("image") /\ done = <<>> /\ ~undoing /\ files = <<>>
    BY <1>1, <2>1, <2>2, NotYet DEF Folders, Cache!Files
  <2>4. (\A name : Was(name)' = Was(name)) /\ Good(disk["new"])'
    BY <1>1, <2>2, <2>3 DEF Was, Good
  <2>5. CASE Was("image") = 0
    <3>1. files' = <<Cache!Mv("new", "image")>>
      BY <2>1, <2>3, <2>5 DEF Cache!Replace, Cache!None
    <3> QED
      BY <1>1, <2>1, <2>3, <2>4, <2>5, <3>1, PlacingInv DEF Replacing, Holds, Doing
  <2>6. CASE Was("image") # 0 /\ Cache!SameBuild
    <3>1. files' = <<Cache!Rm("aside"), Cache!Mv("image", "aside"), Cache!Mv("new", "image"), Cache!Rm("aside")>>
      BY <2>1, <2>3, <2>6 DEF Cache!Replace, Cache!None
    <3>2. Passes'
      BY <1>1, <2>1, <2>4, <2>6, SameIsTheBuild DEF Passes
    <3>3. Replacing'
      BY <2>1, <2>3, <2>4, <3>1, <3>2 DEF Passes, Replacing, Holds, Doing
    <3> QED
      BY <1>1, <2>1, <2>3, <3>1, <3>3, PlacingInv
  <2>7. CASE Was("image") # 0 /\ ~Cache!SameBuild
    <3>1. files' = <<Cache!Rm("prev"), Cache!Rm("notePrev"), Cache!Mv("image", "prev"),
                     Cache!MvNote("noteImage", "notePrev"), Cache!Mv("new", "image")>>
      BY <2>1, <2>3, <2>7 DEF Cache!Rotate
    <3>2. Rotating'
      BY <2>1, <2>3, <2>4, <2>7, <3>1 DEF Rotating, Holds, Doing
    <3> QED
      BY <1>1, <2>1, <2>3, <3>1, <3>2, PlacingInv
  <2> QED
    BY <2>5, <2>6, <2>7
<1> QED
  BY <1>3, <1>4

\* What a file operation that fails leaves to be done.
LEMMA Undone ==
    ASSUME Cache!FileOperationFails
    PROVE  /\ UNCHANGED <<before, remote, seen, pulling, runs, answers, pendingId, ended>>
           /\ (\A name : Was(name)' = Was(name)) /\ files # <<>> /\ ~undoing
           /\ crossed' = IF pulling = "RollNotes" THEN crossed \cup Cache!Moved ELSE crossed
           /\ Head(files).do = "mvnote" =>
                 disk' = [disk EXCEPT ![Head(files).from] = 0] /\ files' = Tail(files) /\ done' = done /\ ~undoing'
           /\ Head(files).do # "mvnote" /\ files = <<Cache!Rm("aside")>> =>
                 files' = <<>> /\ disk' = disk /\ done' = done /\ ~undoing'
           /\ Head(files).do # "mvnote" /\ files # <<Cache!Rm("aside")>> =>
                 files' = done /\ undoing' /\ done' = <<>> /\ disk' = disk
  BY DEF Cache!FileOperationFails, Cache!NotesLost, Was, Cache!None

LEMMA OpsAre ==
    \A a, b : /\ Cache!Mv(a, b).do = "mv" /\ Cache!Rm(a).do = "rm"
              /\ Cache!MvNote(a, b).do = "mvnote" /\ Cache!MvNote(a, b).from = a
  BY DEF Cache!Mv, Cache!Rm, Cache!MvNote

\* What replaceFile() removes last is not a rename, and no operation is to be done after it.
LEMMA LastIsTheRemove ==
    /\ \A a, b : files = <<Cache!Rm("aside")>> => Head(files) # Cache!Mv(a, b)
    /\ Len(files) # 1 => files # <<Cache!Rm("aside")>>
    /\ Head(files) # Cache!Rm("aside") => files # <<Cache!Rm("aside")>>
  BY OpsAre

\* A step of putIntoPlace() that fails: a note that cannot follow is removed, anything else is put back.
LEMMA RotatingFails ==
    ASSUME CacheInv, CacheAssumption, pulling = "Place", Rotating, Cache!FileOperationFails
    PROVE  Rotating' \/ PutBack'
<1>0. /\ disk \in Folders /\ Was("image") # 0 /\ Kept(disk, remote, crossed) /\ ~undoing
      /\ {"image", "prev", "noteImage", "notePrev", "new", "aside"} \subseteq Cache!Files
  BY StageKept, Undone DEF CacheInv, CacheTyped, Rotating, Cache!Files
<1>1. CASE /\ Holds(0, Was("image"), Was("noteImage"), 0) /\ Good(disk["new"])
           /\ Doing(<<Cache!MvNote("noteImage", "notePrev"), Cache!Mv("new", "image")>>, <<Cache!Mv("prev", "image")>>)
  <2>1. Head(files) = Cache!MvNote("noteImage", "notePrev") /\ Tail(files) = <<Cache!Mv("new", "image")>>
        /\ done = <<Cache!Mv("prev", "image")>>
    BY <1>1 DEF Doing
  <2>2. /\ disk' = [disk EXCEPT !["noteImage"] = 0] /\ files' = <<Cache!Mv("new", "image")>>
        /\ done' = done /\ ~undoing'
    <3>1. Head(files).do = "mvnote" /\ Head(files).from = "noteImage"
      BY <2>1, OpsAre
    <3>2. disk' = [disk EXCEPT ![Head(files).from] = 0]
      BY <3>1, Undone
    <3> QED
      BY <2>1, <3>1, <3>2, Undone
  <2>3. (Holds(0, Was("image"), 0, 0) /\ Good(disk["new"]))'
    BY <1>0, <1>1, <2>2, Undone DEF Folders, Holds, Good
  <2>4. Doing(<<Cache!Mv("new", "image")>>, <<Cache!Mv("prev", "image")>>)'
    BY <1>0, <2>1, <2>2 DEF Doing
  <2> QED
    BY <1>0, <2>3, <2>4, Undone DEF Rotating
<1>2. CASE /\ Holds(0, Was("image"), 0, Was("noteImage"))
           /\ Doing(<<Cache!Mv("new", "image")>>, <<Cache!Mv("notePrev", "noteImage"), Cache!Mv("prev", "image")>>)
  <2>1. Head(files) = Cache!Mv("new", "image") /\ done = <<Cache!Mv("notePrev", "noteImage"), Cache!Mv("prev", "image")>>
    BY <1>2 DEF Doing
  <2>2. files' = done /\ undoing' /\ disk' = disk
    BY <2>1, Undone, OpsAre, LastIsTheRemove
  <2>3. (Holds(0, Was("image"), 0, Was("noteImage")))'
    BY <1>2, <2>2, Undone DEF Holds
  <2>4. Undoing(<<Cache!Mv("notePrev", "noteImage"), Cache!Mv("prev", "image")>>)'
    BY <2>1, <2>2 DEF Undoing
  <2> QED
    BY <1>0, <2>3, <2>4, Undone DEF Rotating
<1>3. CASE /\ Holds(0, Was("image"), 0, 0)
           /\ Doing(<<Cache!Mv("new", "image")>>, <<Cache!Mv("prev", "image")>>)
  <2>1. Head(files) = Cache!Mv("new", "image") /\ done = <<Cache!Mv("prev", "image")>>
    BY <1>3 DEF Doing
  <2>2. files' = done /\ undoing' /\ disk' = disk
    BY <2>1, Undone, OpsAre, LastIsTheRemove
  <2>3. (Holds(0, Was("image"), 0, 0))'
    BY <1>3, <2>2, Undone DEF Holds
  <2>4. Undoing(<<Cache!Mv("prev", "image")>>)'
    BY <2>1, <2>2 DEF Undoing
  <2> QED
    BY <1>0, <2>3, <2>4, Undone DEF Rotating
<1>4. CASE /\ disk["image"] = Was("image") /\ done = <<>> /\ files # <<Cache!Rm("aside")>>
           /\ \E op \in {Cache!Rm("prev"), Cache!Rm("notePrev"), Cache!Mv("image", "prev")} : Head(files) = op
  <2>1. files' = <<>> /\ undoing' /\ disk' = disk
    BY <1>4, Undone, OpsAre
  <2> QED
    BY <1>0, <1>4, <2>1, Undone DEF PutBack, Kept
<1> QED
  BY <1>0, <1>1, <1>2, <1>3, <1>4 DEF Rotating, Doing, Undoing, Holds

\* A step of replaceFile() that fails.
LEMMA ReplacingFails ==
    ASSUME CacheInv, CacheAssumption, pulling = "Place", Replacing, Cache!FileOperationFails
    PROVE  Replacing' \/ PutBack' \/ InPlace'
<1>0. Kept(disk, remote, crossed) /\ ~undoing /\ crossed' = crossed
  BY StageKept, Undone
<1>1. CASE /\ disk["image"] = Was("image") /\ done = <<>> /\ files # <<Cache!Rm("aside")>>
           /\ \E op \in {Cache!Rm("aside"), Cache!Mv("image", "aside"), Cache!Mv("new", "image")} : Head(files) = op
  <2>1. files' = <<>> /\ undoing' /\ disk' = disk
    BY <1>1, Undone, OpsAre
  <2> QED
    BY <1>0, <1>1, <2>1, Undone DEF PutBack, Kept
<1>2. CASE /\ Passes
           /\ Holds(0, Was("prev"), seen, Was("notePrev")) /\ disk["aside"] = Was("image")
           /\ Doing(<<Cache!Mv("new", "image"), Cache!Rm("aside")>>, <<Cache!Mv("aside", "image")>>)
  <2>1. Head(files) = Cache!Mv("new", "image") /\ done = <<Cache!Mv("aside", "image")>>
    BY <1>2 DEF Doing
  <2>2. files' = done /\ undoing' /\ disk' = disk
    BY <2>1, Undone, OpsAre, LastIsTheRemove
  <2>3. /\ Passes'
        /\ (Holds(0, Was("prev"), seen, Was("notePrev")) /\ disk["aside"] = Was("image"))'
    BY <1>0, <1>2, <2>2, Undone DEF Holds, Passes
  <2>4. Undoing(<<Cache!Mv("aside", "image")>>)'
    BY <2>1, <2>2 DEF Undoing
  <2> QED
    BY <2>3, <2>4 DEF Replacing
<1>3. CASE /\ Passes
           /\ Good(disk["image"]) /\ Holds(disk["image"], Was("prev"), seen, Was("notePrev"))
           /\ Doing(<<Cache!Rm("aside")>>, <<Cache!Mv("image", "new"), Cache!Mv("aside", "image")>>)
  <2>1. files = <<Cache!Rm("aside")>> /\ Head(files).do # "mvnote"
    BY <1>3, OpsAre DEF Doing
  <2>2. files' = <<>> /\ ~undoing' /\ disk' = disk
    BY <2>1, Undone
  <2> QED
    BY <1>0, <1>3, <2>2, Undone DEF InPlace, Passes, Good
<1> QED
  BY <1>0, <1>1, <1>2, <1>3, LastIsTheRemove, OpsAre DEF Replacing, Doing, Undoing, Holds

\* A step of a roll back that fails while the images change places.
LEMMA RollingFails ==
    ASSUME CacheInv, RollingImages, Cache!FileOperationFails
    PROVE  RollingImages'
<1>0. /\ Was("prev") # 0 /\ disk["noteImage"] = Was("noteImage") /\ disk["notePrev"] = Was("notePrev")
      /\ ~undoing /\ files # <<>>
  BY Undone DEF RollingImages
<1>1. CASE /\ disk["image"] = Was("image") /\ disk["prev"] = Was("prev") /\ done = <<>> /\ files # <<Cache!Rm("aside")>>
           /\ \E op \in {Cache!Rm("aside"), Cache!Mv("image", "aside"), Cache!Mv("prev", "image")} : Head(files) = op
  <2>1. files' = <<>> /\ undoing' /\ disk' = disk
    BY <1>1, Undone, OpsAre
  <2> QED
    BY <1>0, <1>1, <2>1, Undone DEF RollingImages, Undoing
<1>2. CASE /\ Was("image") # 0 /\ disk["image"] = 0 /\ disk["prev"] = Was("prev") /\ disk["aside"] = Was("image")
           /\ Doing(<<Cache!Mv("prev", "image"), Cache!Mv("aside", "prev")>>, <<Cache!Mv("aside", "image")>>)
  <2>1. Head(files) = Cache!Mv("prev", "image") /\ done = <<Cache!Mv("aside", "image")>>
    BY <1>2 DEF Doing
  <2>2. files' = done /\ undoing' /\ disk' = disk
    BY <2>1, Undone, OpsAre, LastIsTheRemove
  <2>3. Undoing(<<Cache!Mv("aside", "image")>>)'
    BY <2>1, <2>2 DEF Undoing
  <2> QED
    BY <1>0, <1>2, <2>2, <2>3, Undone DEF RollingImages
<1>3. CASE /\ Was("image") # 0 /\ disk["image"] = Was("prev") /\ disk["prev"] = 0 /\ disk["aside"] = Was("image")
           /\ Doing(<<Cache!Mv("aside", "prev")>>, <<Cache!Mv("image", "prev"), Cache!Mv("aside", "image")>>)
  <2>1. Head(files) = Cache!Mv("aside", "prev") /\ done = <<Cache!Mv("image", "prev"), Cache!Mv("aside", "image")>>
    BY <1>3 DEF Doing
  <2>2. files' = done /\ undoing' /\ disk' = disk
    BY <2>1, Undone, OpsAre, LastIsTheRemove
  <2>3. Undoing(<<Cache!Mv("image", "prev"), Cache!Mv("aside", "image")>>)'
    BY <2>1, <2>2 DEF Undoing
  <2> QED
    BY <1>0, <1>3, <2>2, <2>3, Undone DEF RollingImages
<1> QED
  BY <1>0, <1>1, <1>2, <1>3, LastIsTheRemove, OpsAre DEF RollingImages, Doing, Undoing

\* The builds that stand elsewhere than before, when the images have changed places.
LEMMA MovedAre ==
    ASSUME Was("prev") # 0, disk["image"] = Was("prev"), disk["prev"] = Was("image"), Was("image") # Was("prev")
    PROVE  Was("prev") \in Cache!Moved /\ Was("image") \in {0} \cup Cache!Moved
  BY DEF Cache!Moved, Cache!None, Was

\* A step of a roll back that fails while the notes follow: the images keep their new
\* places, and are known to.
LEMMA RollingNotesFails ==
    ASSUME CacheInv, pulling = "RollNotes", RollingNotes, Cache!FileOperationFails
    PROVE  RollingNotes'
<1>0. /\ Was("prev") # 0 /\ disk["image"] = Was("prev") /\ disk["prev"] = Was("image")
      /\ ~undoing /\ files # <<>> /\ (\A name : Was(name)' = Was(name))
  BY Undone DEF RollingNotes
<1>1. Apart'
  BY <1>0, MovedAre, Undone DEF Apart
<1>2. CASE /\ disk["noteImage"] = Was("noteImage") /\ disk["notePrev"] = Was("notePrev") /\ done = <<>>
           /\ files # <<Cache!Rm("aside")>>
           /\ \E op \in {Cache!Rm("noteAside"), Cache!Mv("noteImage", "noteAside"), Cache!Mv("notePrev", "noteImage"),
                        Cache!Mv("noteImage", "notePrev")} : Head(files) = op
  <2>1. files' = <<>> /\ undoing' /\ disk' = disk
    BY <1>2, Undone, OpsAre
  <2> QED
    BY <1>0, <1>1, <1>2, <2>1 DEF RollingNotes, Undoing
<1>3. CASE /\ disk["noteImage"] = 0 /\ disk["notePrev"] = Was("notePrev") /\ disk["noteAside"] = Was("noteImage")
           /\ Was("notePrev") # 0 /\ Was("noteImage") # 0
           /\ Doing(<<Cache!Mv("notePrev", "noteImage"), Cache!Mv("noteAside", "notePrev")>>,
                    <<Cache!Mv("noteAside", "noteImage")>>)
  <2>1. Head(files) = Cache!Mv("notePrev", "noteImage") /\ done = <<Cache!Mv("noteAside", "noteImage")>>
    BY <1>3 DEF Doing
  <2>2. files' = done /\ undoing' /\ disk' = disk
    BY <2>1, Undone, OpsAre, LastIsTheRemove
  <2>3. Undoing(<<Cache!Mv("noteAside", "noteImage")>>)'
    BY <2>1, <2>2 DEF Undoing
  <2> QED
    BY <1>0, <1>1, <1>3, <2>2, <2>3 DEF RollingNotes
<1>4. CASE /\ disk["noteImage"] = Was("notePrev") /\ disk["notePrev"] = 0 /\ disk["noteAside"] = Was("noteImage")
           /\ Was("notePrev") # 0 /\ Was("noteImage") # 0
           /\ Doing(<<Cache!Mv("noteAside", "notePrev")>>,
                    <<Cache!Mv("noteImage", "notePrev"), Cache!Mv("noteAside", "noteImage")>>)
  <2>1. /\ Head(files) = Cache!Mv("noteAside", "notePrev")
        /\ done = <<Cache!Mv("noteImage", "notePrev"), Cache!Mv("noteAside", "noteImage")>>
    BY <1>4 DEF Doing
  <2>2. files' = done /\ undoing' /\ disk' = disk
    BY <2>1, Undone, OpsAre, LastIsTheRemove
  <2>3. Undoing(<<Cache!Mv("noteImage", "notePrev"), Cache!Mv("noteAside", "noteImage")>>)'
    BY <2>1, <2>2 DEF Undoing
  <2> QED
    BY <1>0, <1>1, <1>4, <2>2, <2>3 DEF RollingNotes
<1> QED
  BY <1>0, <1>2, <1>3, <1>4, LastIsTheRemove, OpsAre DEF RollingNotes, Doing, Undoing

LEMMA FileOperationFailsInv ==
    ASSUME CacheInv, CacheAssumption, Cache!FileOperationFails
    PROVE  CacheInv'
<1>0. files # <<>> /\ UNCHANGED <<before, remote, seen, pulling, runs, answers, pendingId, ended>>
  BY Undone
<1>1. CacheTyped'
  <2>1. /\ disk \in Folders /\ files \in Seq(FileOps) /\ done \in Seq(FileOps)
    BY DEF CacheInv, CacheTyped
  <2>2. Head(files) \in FileOps /\ Tail(files) \in Seq(FileOps) /\ <<>> \in Seq(FileOps)
    BY <1>0, <2>1
  <2>3. files' \in Seq(FileOps) /\ done' \in Seq(FileOps)
    BY <2>1, <2>2, Undone
  <2>4. disk' \in Folders
    BY <2>1, Undone DEF Folders
  <2>5. undoing' \in BOOLEAN
    BY DEF CacheInv, CacheTyped, Cache!FileOperationFails
  <2> QED
    BY <1>0, <2>3, <2>4, <2>5 DEF CacheInv, CacheTyped
<1>2. ended = "none" /\ pulling \in {"Place", "RollImages", "RollNotes"}
  BY <1>0, Undone DEF CacheInv, CacheTyped, FolderFits, NoFiles, InPlace
<1>3. FolderFits'
  <2>1. CASE pulling = "Place"
    <3>1. Rotating \/ Replacing
      BY <1>0, <2>1 DEF CacheInv, FolderFits, InPlace, PutBack
    <3>2. Rotating' \/ Replacing' \/ PutBack' \/ InPlace'
      BY <2>1, <3>1, RotatingFails, ReplacingFails
    <3> QED
      BY <1>0, <2>1, <3>2 DEF FolderFits
  <2>2. CASE pulling = "RollImages"
    BY <1>0, <2>2, RollingFails DEF CacheInv, FolderFits
  <2>3. CASE pulling = "RollNotes"
    BY <1>0, <2>3, RollingNotesFails DEF CacheInv, FolderFits
  <2> QED
    BY <1>2, <2>1, <2>2, <2>3
<1>4. Kept(before.disk, before.remote, crossed)'
  <2>1. before.disk \in Folders /\ before.remote \in Nat /\ MaxBuilds \in Nat
    BY DEF CacheInv, CacheTyped, CacheAssumption
  <2>2. crossed \subseteq crossed' /\ Kept(before.disk, before.remote, crossed)
    BY Undone DEF CacheInv
  <2>3. Kept(before.disk, before.remote, crossed')
    BY <2>1, <2>2, KeptGrows
  <2> QED
    BY <1>0, <2>3
<1> QED
  BY <1>0, <1>1, <1>2, <1>3, <1>4 DEF CacheInv, SeenAtBegin, Cache!SkipIsRight, Cache!FailureKeepsTheImage

\* The image is in its place, or what was begun is put back.
LEMMA PlacedInv ==
    ASSUME CacheInv, CacheAssumption, Cache!Placed
    PROVE  CacheInv'
<1>1. /\ pulling = "Place" /\ files = <<>> /\ UNCHANGED <<remote, runs, answers, before, crossed>> /\ ended = "none"
      /\ Kept(disk, remote, crossed)
  BY StageKept DEF Cache!Placed, CacheInv
<1>2. InPlace \/ PutBack
  BY <1>1 DEF CacheInv, FolderFits, Rotating, Replacing, Doing, Undoing
<1>3. CASE undoing
  <2>1. Cache!Finish("failed", disk) /\ disk["image"] = Was("image")
    BY <1>2, <1>3 DEF Cache!Placed, InPlace, PutBack
  <2> QED
    BY <1>1, <2>1, PullIsOver
<1>4. CASE ~undoing
  <2>1. InPlace /\ pulling' = "Note" /\ done' = <<>> /\ UNCHANGED <<disk, seen, files, undoing, ended>>
    BY <1>2, <1>4 DEF Cache!Placed, PutBack
  <2>2. InPlace'
    BY <1>1, <2>1 DEF InPlace, Good, Kept, Was
  <2>3. <<>> \in Seq(FileOps)
    OBVIOUS
  <2>4. CacheTyped' /\ SeenAtBegin' /\ FolderFits'
    BY <1>1, <2>1, <2>2, <2>3 DEF CacheInv, CacheTyped, SeenAtBegin, FolderFits
  <2> QED
    BY <1>1, <2>1, <2>4 DEF CacheInv, Kept, Cache!SkipIsRight, Cache!FailureKeepsTheImage
<1> QED
  BY <1>3, <1>4

\* The note of the image.
LEMMA WriteNoteInv ==
    ASSUME CacheInv, CacheAssumption, NEW ok, Cache!WriteNote(ok)
    PROVE  CacheInv'
<1>1. /\ pulling = "Note" /\ pulling' = "ExtraStat"
      /\ UNCHANGED <<remote, runs, seen, files, done, undoing, answers, ended, before, crossed>>
      /\ disk' = IF ok THEN [disk EXCEPT !["noteImage"] = seen] ELSE disk
  BY DEF Cache!WriteNote
<1>2. InPlace /\ done = <<>> /\ ended = "none" /\ seen = before.remote /\ disk \in Folders /\ before.remote \in 1..MaxBuilds
  BY <1>1 DEF CacheInv, CacheTyped, FolderFits, SeenAtBegin
<1>3. {"image", "prev", "noteImage", "notePrev"} \subseteq Cache!Files
  BY DEF Cache!Files
<1>4. /\ disk' \in Folders /\ disk'["image"] = disk["image"] /\ disk'["prev"] = disk["prev"]
      /\ disk'["notePrev"] = disk["notePrev"] /\ disk'["noteImage"] \in {seen, disk["noteImage"]}
  BY <1>1, <1>2, <1>3 DEF Folders
<1>5. Pair(disk["image"], seen, remote, crossed)
  <2>1. seen \in Nat /\ seen <= before.remote /\ disk["image"] \in Nat /\ Good(disk["image"])
    BY <1>2, <1>3, Worth DEF InPlace
  <2> QED
    BY <2>1, Worth, GoodPair
<1>6. Kept(disk, remote, crossed)'
  BY <1>1, <1>2, <1>4, <1>5 DEF Kept, InPlace
<1>7. CacheTyped' /\ SeenAtBegin'
  BY <1>1, <1>4 DEF CacheInv, CacheTyped, SeenAtBegin
<1>8. FolderFits'
  BY <1>1, <1>2, <1>4, <1>6 DEF FolderFits, InPlace, NoFiles, Was
<1> QED
  BY <1>1, <1>2, <1>7, <1>8 DEF CacheInv, Kept, Cache!SkipIsRight, Cache!FailureKeepsTheImage

\* The extra files, with which the pull ends.
LEMMA ExtraFileInv ==
    ASSUME CacheInv, CacheAssumption, Cache!ExtraFile
    PROVE  CacheInv'
<1>1. /\ pulling \in {"ExtraStat", "ExtraDownload"} /\ UNCHANGED <<remote, runs, answers, before, crossed>> /\ ended = "none"
      /\ Kept(disk, remote, crossed)
  BY DEF Cache!ExtraFile, CacheInv, FolderFits
<1>2. CASE pulling' = "ExtraDownload" /\ UNCHANGED <<disk, pendingId, seen, files, done, undoing, ended>>
  <2>1. CacheTyped' /\ SeenAtBegin' /\ FolderFits'
    BY <1>1, <1>2 DEF CacheInv, CacheTyped, SeenAtBegin, FolderFits, NoFiles, Kept, Was
  <2> QED
    BY <1>1, <1>2, <2>1 DEF CacheInv, Kept, Cache!SkipIsRight, Cache!FailureKeepsTheImage
<1>3. CASE Cache!Finish("pulled", disk)
  BY <1>1, <1>3, PullIsOver
<1>4. CASE Cache!Finish("failed", disk)
  BY <1>1, <1>4, FailsInv
<1> QED
  BY <1>2, <1>3, <1>4 DEF Cache!ExtraFile

\* The transfer ends without a file, the connection is lost, or the pull is cancelled.
LEMMA PullFailsInv ==
    ASSUME CacheInv, CacheAssumption, Cache!TransferFails \/ Cache!Lost \/ Cache!Cancel
    PROVE  CacheInv'
<1>1. UNCHANGED <<remote, runs, answers, before, crossed>> /\ pulling \in {"Stat", "Git", "Download", "ExtraStat", "ExtraDownload"}
  BY DEF Cache!TransferFails, Cache!Lost, Cache!Cancel
<1>2. CASE Cache!Finish("failed", disk)
  BY <1>1, <1>2, FailsInv
<1>3. CASE UNCHANGED <<disk, pulling, pendingId, seen, files, done, undoing, ended>>
  <2>1. CacheTyped' /\ SeenAtBegin'
    BY <1>1, <1>3 DEF CacheInv, CacheTyped, SeenAtBegin
  <2>2. FolderFits'
    BY <1>1, <1>3 DEF CacheInv, FolderFits, NoFiles, Kept, Was
  <2> QED
    BY <1>1, <1>3, <2>1, <2>2 DEF CacheInv, Kept, Cache!SkipIsRight, Cache!FailureKeepsTheImage
<1> QED
  BY <1>2, <1>3 DEF Cache!TransferFails, Cache!Lost, Cache!Cancel

\* rollBack().
LEMMA RollBackInv ==
    ASSUME CacheInv, Cache!RollBack
    PROVE  CacheInv'
<1>1. /\ pulling = "Idle" /\ disk["prev"] # 0 /\ runs' = runs + 1 /\ pulling' = "RollImages" /\ ended' = "none"
      /\ files' = Cache!Swap("image", "prev", "aside") /\ before' = [disk |-> disk, remote |-> remote]
      /\ UNCHANGED <<disk, remote, seen, done, undoing, answers, crossed>>
  BY DEF Cache!RollBack, Cache!None
<1>2. /\ disk \in Folders /\ runs \in Nat /\ (\A a \in answers : a.id \in 1..runs) /\ ~undoing /\ done = <<>>
      /\ Kept(disk, remote, crossed)
  BY <1>1 DEF CacheInv, CacheTyped, FolderFits, NoFiles
<1>3. \A name : Was(name)' = disk[name]
  BY <1>1 DEF Was
<1>4. files' = IF disk["image"] = 0 THEN <<Cache!Mv("prev", "image")>>
               ELSE <<Cache!Rm("aside"), Cache!Mv("image", "aside"), Cache!Mv("prev", "image"), Cache!Mv("aside", "prev")>>
  BY <1>1 DEF Cache!Swap, Cache!None
<1>5. RollingImages'
  BY <1>1, <1>2, <1>3, <1>4 DEF RollingImages, Doing
<1>6. files' \in Seq(FileOps)
  <2>1. \A a, b \in Cache!Files : Cache!Mv(a, b) \in FileOps /\ Cache!Rm(a) \in FileOps
    BY DEF FileOps, Cache!Mv, Cache!Rm
  <2>2. {"image", "prev", "aside"} \subseteq Cache!Files
    BY DEF Cache!Files
  <2>3. /\ <<Cache!Mv("prev", "image")>> \in Seq(FileOps)
        /\ <<Cache!Rm("aside"), Cache!Mv("image", "aside"), Cache!Mv("prev", "image"), Cache!Mv("aside", "prev")>> \in Seq(FileOps)
    BY <2>1, <2>2
  <2> QED
    BY <1>4, <2>3
<1>7. CacheTyped'
  <2>1. before' \in [disk : Folders, remote : 1..MaxBuilds] /\ (before.remote <= remote)'
    BY <1>1, <1>2 DEF CacheInv, CacheTyped
  <2>2. runs' \in Nat /\ \A a \in answers' : a.id \in 1..runs'
    BY <1>1, <1>2
  <2> QED
    BY <1>1, <1>6, <2>1, <2>2 DEF CacheInv, CacheTyped
<1>8. SeenAtBegin' /\ FolderFits' /\ Kept(before.disk, before.remote, crossed)'
  BY <1>1, <1>2, <1>5 DEF SeenAtBegin, FolderFits, Kept
<1> QED
  BY <1>1, <1>7, <1>8 DEF CacheInv, Cache!SkipIsRight, Cache!FailureKeepsTheImage

\* Beside the other one's note nothing is known of an image but its age.
LEMMA Crossing ==
    ASSUME CacheInv, CacheAssumption, Apart
    PROVE  /\ Pair(Was("prev"), Was("noteImage"), remote, crossed)
           /\ Pair(Was("image"), Was("notePrev"), remote, crossed)
<1>0. {"image", "prev", "noteImage", "notePrev"} \subseteq Cache!Files
  BY DEF Cache!Files
<1>1. CASE Was("image") = Was("prev")
  BY <1>1, Pairs
<1>2. CASE Was("prev") \in crossed /\ Was("image") \in crossed
  BY <1>0, <1>2, Worth, PairOdd
<1>3. CASE Was("prev") \in crossed /\ Was("image") = 0
  <2>1. Pair(Was("prev"), Was("noteImage"), remote, crossed)
    BY <1>0, <1>3, Worth, PairOdd
  <2> QED
    BY <1>3, <2>1, Pairs
<1> QED
  BY <1>1, <1>2, <1>3 DEF Apart

\* The images have changed places, or the notes.
LEMMA RolledBackInv ==
    ASSUME CacheInv, CacheAssumption, Cache!RolledBack
    PROVE  CacheInv'
<1>1. /\ pulling \in {"RollImages", "RollNotes"} /\ files = <<>> /\ UNCHANGED <<remote, runs, answers, before, crossed>>
      /\ ended = "none"
  BY DEF Cache!RolledBack, CacheInv
<1>2. CASE pulling = "RollImages" /\ undoing
  <2>1. Cache!Finish("failed", disk)
    BY <1>2 DEF Cache!RolledBack
  <2>2. /\ disk["image"] = Was("image") /\ disk["prev"] = Was("prev")
        /\ disk["noteImage"] = Was("noteImage") /\ disk["notePrev"] = Was("notePrev")
    BY <1>1, <1>2 DEF CacheInv, FolderFits, RollingImages, Doing, Undoing
  <2>3. Kept(disk, remote, crossed)
    BY <2>2, Pairs DEF Kept
  <2> QED
    BY <1>1, <2>1, <2>2, <2>3, PullIsOver
<1>3. CASE pulling = "RollImages" /\ ~undoing
  <2>1. /\ pulling' = "RollNotes" /\ files' = Cache!Swap("noteImage", "notePrev", "noteAside") /\ done' = <<>>
        /\ UNCHANGED <<disk, seen, undoing, ended>>
    BY <1>3 DEF Cache!RolledBack
  <2>2. /\ disk["image"] = Was("prev") /\ disk["prev"] = Was("image") /\ Was("prev") # 0
        /\ disk["noteImage"] = Was("noteImage") /\ disk["notePrev"] = Was("notePrev")
    BY <1>1, <1>3 DEF CacheInv, FolderFits, RollingImages, Doing, Undoing
  <2>3. /\ disk'["image"] = Was("prev")' /\ disk'["prev"] = Was("image")' /\ Was("prev")' # 0
        /\ disk'["noteImage"] = Was("noteImage")' /\ disk'["notePrev"] = Was("notePrev")'
    BY <1>1, <2>1, <2>2 DEF Was
  <2>4. files' = IF disk["noteImage"] = 0 /\ disk["notePrev"] = 0 THEN <<>>
                 ELSE IF disk["noteImage"] = 0 THEN <<Cache!Mv("notePrev", "noteImage")>>
                 ELSE IF disk["notePrev"] = 0 THEN <<Cache!Mv("noteImage", "notePrev")>>
                 ELSE <<Cache!Rm("noteAside"), Cache!Mv("noteImage", "noteAside"),
                        Cache!Mv("notePrev", "noteImage"), Cache!Mv("noteAside", "notePrev")>>
    BY <2>1 DEF Cache!Swap, Cache!None
  <2>5. RollingNotes'
    BY <1>3, <2>1, <2>2, <2>3, <2>4 DEF RollingNotes, Doing
  <2>6. files' \in Seq(FileOps) /\ done' \in Seq(FileOps)
    <3>1. \A a, b \in Cache!Files : Cache!Mv(a, b) \in FileOps /\ Cache!Rm(a) \in FileOps
      BY DEF FileOps, Cache!Mv, Cache!Rm
    <3>2. {"noteImage", "notePrev", "noteAside"} \subseteq Cache!Files
      BY DEF Cache!Files
    <3>3. /\ <<>> \in Seq(FileOps) /\ <<Cache!Mv("notePrev", "noteImage")>> \in Seq(FileOps)
          /\ <<Cache!Mv("noteImage", "notePrev")>> \in Seq(FileOps)
          /\ <<Cache!Rm("noteAside"), Cache!Mv("noteImage", "noteAside"),
               Cache!Mv("notePrev", "noteImage"), Cache!Mv("noteAside", "notePrev")>> \in Seq(FileOps)
      BY <3>1, <3>2
    <3> QED
      BY <2>1, <2>4, <3>3
  <2>7. CacheTyped' /\ SeenAtBegin' /\ FolderFits'
    BY <1>1, <2>1, <2>5, <2>6 DEF CacheInv, CacheTyped, SeenAtBegin, FolderFits
  <2> QED
    BY <1>1, <2>1, <2>7 DEF CacheInv, Kept, Cache!SkipIsRight, Cache!FailureKeepsTheImage
<1>4. CASE pulling = "RollNotes"
  <2>1. Cache!Finish("rolledBack", disk)
    BY <1>4 DEF Cache!RolledBack
  <2>2. /\ disk["image"] = Was("prev") /\ disk["prev"] = Was("image")
        /\ \/ disk["noteImage"] = Was("notePrev") /\ disk["notePrev"] = Was("noteImage")
           \/ Apart /\ disk["noteImage"] = Was("noteImage") /\ disk["notePrev"] = Was("notePrev")
    BY <1>1, <1>4 DEF CacheInv, FolderFits, RollingNotes, Doing, Undoing
  <2>3. /\ Apart => Pair(Was("prev"), Was("noteImage"), remote, crossed)
        /\ Apart => Pair(Was("image"), Was("notePrev"), remote, crossed)
    BY Crossing
  <2>4. Kept(disk, remote, crossed)
    BY <2>2, <2>3, Pairs DEF Kept
  <2> QED
    BY <1>1, <2>1, <2>4, PullIsOver
<1> QED
  BY <1>1, <1>2, <1>3, <1>4

\* A roll back that is cut short can be believed as well, but for the images that moved.
LEMMA RollKept ==
    ASSUME CacheInv, CacheAssumption, pulling \in {"RollImages", "RollNotes"}
    PROVE  Kept(disk, remote, crossed \cup Cache!Moved)
<1> DEFINE more == crossed \cup Cache!Moved
<1>0. {"image", "prev", "noteImage", "notePrev"} \subseteq Cache!Files
  BY DEF Cache!Files
<1>1. /\ disk["image"] \in {0, Was("image"), Was("prev")} /\ disk["prev"] \in {0, Was("image"), Was("prev")}
      /\ disk["noteImage"] \in {0, Was("noteImage"), Was("notePrev")}
      /\ disk["notePrev"] \in {0, Was("noteImage"), Was("notePrev")}
      /\ disk["noteImage"] # Was("noteImage") => disk["image"] # Was("image") \/ Was("image") = Was("prev")
      /\ disk["notePrev"] # Was("notePrev") => disk["prev"] # Was("prev") \/ Was("image") = Was("prev")
  BY DEF CacheInv, FolderFits, RollingImages, RollingNotes
<1>2. ASSUME NEW image \in {0, Was("image"), Was("prev")}, NEW note \in {0, Was("noteImage"), Was("notePrev")},
             image = 0 \/ image \in more
      PROVE  Pair(image, note, remote, more)
  <2>1. PICK own \in Nat : Pair(image, own, remote, crossed)
    BY <1>0, <1>2, Pairs, Worth
  <2>2. image \in Nat /\ note \in Nat /\ note <= remote
    BY <1>0, Worth
  <2>3. CASE image \in more
    <3> HIDE DEF more
    <3> QED
      BY <2>1, <2>2, <2>3, Worth, PairOdd
  <2>4. CASE image = 0
    BY <2>2, <2>4, Worth DEF Pair
  <2> QED
    BY <1>2, <2>3, <2>4
<1>3. ASSUME NEW image \in {Was("image"), Was("prev")}, NEW note \in {0, Was("noteImage"), Was("notePrev")},
             Pair(image, note, remote, crossed)
      PROVE  Pair(image, note, remote, more)
  <2>1. image \in Nat /\ note \in Nat /\ remote <= remote
    BY <1>0, Worth
  <2> QED
    BY <1>3, <2>1, Worth, PairGrows
<1>4. /\ disk["image"] \in {0, Was("image")} \cup more
      /\ disk["prev"] \in {0, Was("prev")} \cup more
  BY DEF Cache!Moved, Cache!None, Was
<1> HIDE DEF more
<1>5. Pair(disk["image"], disk["noteImage"], remote, more)
  <2>1. CASE disk["image"] = 0 \/ disk["image"] \in more
    BY <1>1, <1>2, <2>1
  <2>2. CASE disk["image"] = Was("image")
    <3>1. Pair(disk["image"], disk["noteImage"], remote, crossed)
      BY <1>1, <2>2, Pairs
    <3> QED
      BY <1>1, <1>3, <2>2, <3>1
  <2> QED
    BY <1>4, <2>1, <2>2
<1>6. Pair(disk["prev"], disk["notePrev"], remote, more)
  <2>1. CASE disk["prev"] = 0 \/ disk["prev"] \in more
    BY <1>1, <1>2, <2>1
  <2>2. CASE disk["prev"] = Was("prev")
    <3>1. Pair(disk["prev"], disk["notePrev"], remote, crossed)
      BY <1>1, <2>2, Pairs
    <3> QED
      BY <1>1, <1>3, <2>2, <3>1
  <2> QED
    BY <1>4, <2>1, <2>2
<1>7. Kept(disk, remote, more)
  BY <1>5, <1>6 DEF Kept
<1> QED
  BY <1>7 DEF more

\* The program dies, whatever it was about.
LEMMA DiesInv ==
    ASSUME CacheInv, CacheAssumption, Cache!Dies
    PROVE  CacheInv'
<1>1. /\ pulling # "Idle" /\ pulling' = "Idle" /\ files' = <<>> /\ done' = <<>>
      /\ undoing' = FALSE /\ answers' = {} /\ ended' = "none" /\ UNCHANGED <<disk, remote, runs, seen, before>>
      /\ crossed' = IF pulling \in {"RollImages", "RollNotes"} THEN crossed \cup Cache!Moved ELSE crossed
  BY DEF Cache!Dies, Cache!NotesLost
<1>2. Kept(disk, remote, crossed)'
  <2>1. CASE pulling \in {"RollImages", "RollNotes"}
    BY <1>1, <2>1, RollKept
  <2>2. CASE pulling \notin {"RollImages", "RollNotes"}
    BY <1>1, <2>2, NotYet, StageKept DEF CacheInv, CacheTyped, FolderFits, InPlace
  <2> QED
    BY <2>1, <2>2
<1>3. Kept(before.disk, before.remote, crossed)'
  <2>1. before.disk \in Folders /\ before.remote \in Nat /\ MaxBuilds \in Nat
    BY DEF CacheInv, CacheTyped, CacheAssumption
  <2>2. crossed \subseteq crossed' /\ Kept(before.disk, before.remote, crossed)
    BY <1>1 DEF CacheInv
  <2>3. Kept(before.disk, before.remote, crossed')
    BY <2>1, <2>2, KeptGrows
  <2> QED
    BY <1>1, <2>3
<1>4. <<>> \in Seq(FileOps)
  OBVIOUS
<1>5. CacheTyped' /\ SeenAtBegin' /\ FolderFits'
  BY <1>1, <1>2, <1>4 DEF CacheInv, CacheTyped, SeenAtBegin, FolderFits, NoFiles
<1> QED
  BY <1>1, <1>3, <1>5 DEF CacheInv, Cache!SkipIsRight, Cache!FailureKeepsTheImage

\* A build of the build machine takes nothing from what is kept.
LEMMA BuildInv ==
    ASSUME CacheInv, CacheAssumption, Cache!Build
    PROVE  CacheInv'
<1>1. /\ remote < MaxBuilds /\ remote' = remote + 1
      /\ UNCHANGED <<disk, runs, pulling, pendingId, seen, files, done, undoing, answers, ended, before, crossed>>
  BY DEF Cache!Build, Cache!run
<1>2. /\ disk \in Folders /\ remote \in Nat /\ MaxBuilds \in Nat /\ before.remote \in Nat /\ before.remote <= remote
      /\ {"image", "prev", "noteImage", "notePrev"} \subseteq Cache!Files
  BY DEF CacheInv, CacheTyped, CacheAssumption, Cache!Files
<1>3. Kept(disk, remote, crossed) => Kept(disk, remote, crossed)'
  <2>1. /\ disk["image"] \in Nat /\ disk["prev"] \in Nat /\ disk["noteImage"] \in Nat /\ disk["notePrev"] \in Nat
    BY <1>2 DEF Folders
  <2>2. remote' \in Nat /\ remote <= remote'
    BY <1>1, <1>2
  <2>3. ASSUME NEW image \in Nat, NEW note \in Nat, Pair(image, note, remote, crossed)
        PROVE  Pair(image, note, remote', crossed)
    BY <1>2, <2>2, <2>3, PairGrows
  <2> QED
    BY <1>1, <2>1, <2>3 DEF Kept
<1>4. \A image \in Nat : Good(image) => Good(image)'
  BY <1>1, <1>2 DEF Good
<1>5. disk["new"] \in Nat /\ disk["image"] \in Nat
  BY <1>2 DEF Folders, Cache!Files
<1>6. CacheTyped' /\ SeenAtBegin'
  BY <1>1, <1>2 DEF CacheInv, CacheTyped, SeenAtBegin
<1>7. FolderFits'
  <2>1. (\A name : Was(name)' = Was(name)) /\ (NoFiles => NoFiles')
    BY <1>1 DEF Was, NoFiles
  <2>2. Rotating => Rotating'
    BY <1>1, <1>4, <1>5, <2>1 DEF Rotating, Holds, Doing, Undoing
  <2>3. Replacing => Replacing'
    BY <1>1, <1>4, <1>5, <2>1 DEF Replacing, Holds, Doing, Undoing, Passes
  <2>4. (InPlace => InPlace') /\ (PutBack => PutBack')
    BY <1>1, <1>3, <1>4, <1>5, <2>1 DEF InPlace, PutBack
  <2>5. (RollingImages => RollingImages') /\ (RollingNotes => RollingNotes')
    BY <1>1, <2>1 DEF RollingImages, RollingNotes, Doing, Undoing, Apart
  <2> QED
    BY <1>1, <1>3, <2>1, <2>2, <2>3, <2>4, <2>5 DEF CacheInv, FolderFits
<1> QED
  BY <1>1, <1>6, <1>7 DEF CacheInv, Kept, Cache!SkipIsRight, Cache!FailureKeepsTheImage

\* A step of another part.
LEMMA CacheRests ==
    ASSUME CacheInv, UNCHANGED ofCache
    PROVE  CacheInv'
<1>1. UNCHANGED <<disk, remote, runs, pulling, pendingId, answers, seen, files, done, undoing, ended, before, crossed>>
  BY DEF ofCache
<1>2. CacheTyped' /\ SeenAtBegin'
  BY <1>1 DEF CacheInv, CacheTyped, SeenAtBegin
<1>3. FolderFits'
  BY <1>1 DEF CacheInv, FolderFits, NoFiles, Kept, Rotating, Replacing, InPlace, PutBack, RollingImages,
              RollingNotes, Holds, Doing, Undoing, Was, Good, Passes, Apart
<1> QED
  BY <1>1, <1>2, <1>3 DEF CacheInv, Kept, Cache!SkipIsRight, Cache!FailureKeepsTheImage

\* One step of the cache, whatever it does.
LEMMA CacheNextInv ==
    ASSUME CacheInv, CacheAssumption, Cache!CacheNext
    PROVE  CacheInv'
BY StartInv, StatInv, FactsCompleteInv, DownloadedInv, PullFailsInv, FileOperationInv, FileOperationFailsInv, PlacedInv,
   WriteNoteInv, ExtraFileInv, RollBackInv, RolledBackInv, DiesInv, BuildInv DEF Cache!CacheNext

\* For any number of builds, pulls, roll backs and faults, wherever they strike: a pull that is
\* skipped is of the build at hand, or of an image that a roll back left beside the other one's
\* note; and one that fails leaves the last image, or one that passes for it (ImagePuller).
THEOREM CacheIsTrueAlways ==
    ASSUME CacheAssumption
    PROVE  ToolsSpec => [](Cache!SkipIsRight /\ Cache!FailureKeepsTheImage)
<1>1. ToolsInit => CacheInv
  BY CacheBegins DEF ToolsInit
<1>2. CacheInv /\ [ToolsNext]_<<which, vars, ofTool, ofBridge, ofCache, ofInventory, ofCli>> => CacheInv'
  <2> SUFFICES ASSUME CacheInv, [ToolsNext]_<<which, vars, ofTool, ofBridge, ofCache, ofInventory, ofCli>>
               PROVE  CacheInv'
    OBVIOUS
  <2>1. Cache!CacheNext \/ UNCHANGED ofCache
    BY DEF ToolsNext
  <2> QED
    BY <2>1, CacheNextInv, CacheRests
<1>3. CacheInv => Cache!SkipIsRight /\ Cache!FailureKeepsTheImage
  BY DEF CacheInv
<1> QED
  BY <1>1, <1>2, <1>3, PTL DEF ToolsSpec

\* What is kept on disk can be believed, as far as FilesAreTrue says: the cache, and the two
\* claims of the inventory, for any number of builds, pulls, updates and faults.
THEOREM FilesAreTrueAlways ==
    ASSUME CacheAssumption
    PROVE  ToolsSpec => []FilesAreTrue
<1>1. ToolsSpec => [](Cache!SkipIsRight /\ Cache!FailureKeepsTheImage)
  BY CacheIsTrueAlways
<1>2. Cache!SkipIsRight /\ Cache!FailureKeepsTheImage /\ Inventory!NothingIsLost /\ Inventory!RecordedRowsRun => FilesAreTrue
  BY DEF FilesAreTrue
<1> QED
  BY <1>1, <1>2, InventoryAlways, PTL

-----------------------------------------------------------------------------
(* A run of su-fw (CliRun).                                                *)

CliAssumption == MaxEntries \in Nat

Untagged(entries, i) == {j \in 1..i : entries[j].tag = 0}
UpTo(S, n) == {m \in S : m <= n}

CliStops == [interrupted : BOOLEAN, timedOut : BOOLEAN, cancelPending : BOOLEAN]
OptionNames ==
    {"bad", "timeout", "mcu", "all", "partitions", "serial", "serials", "all-boards", "max-parallel", "dry-run",
     "force-layout", "expect-image", "force", "no-wait", "role", "password-env", "password-stdin"}
CliLines == [command : Cli!Commands, options : SUBSET OptionNames, entries : Seq(Cli!Entries), interactive : BOOLEAN]
JobPlaces == {"none", "waits", "asks", "writes", "returns", "mcu", "not started", "done", "failed", "no loader",
              "no ssh", "cancelled", "cancelled later"}
CliJobs == [at : JobPlaces, asked : Nat, method : BOOLEAN, written : BOOLEAN, drains : BOOLEAN, strays : BOOLEAN]

\* What the job has done tells where it is; it is there only in the last stage of a run, and only a
\* fleet drains.
JobTells ==
    /\ Cli!Running /\ job.at # "none" => Cli!Stage = "op"
    /\ job.at \in {"none", "waits", "asks"} => ~job.method
    /\ job.at \in {"writes", "returns", "mcu"} => job.method
    /\ job.at \in {"returns", "mcu"} => job.written
    /\ job.written => job.method
    /\ job.at = "cancelled" /\ job.method /\ ~Cli!IsFleet(line) => job.written
    /\ job.drains => Cli!IsFleet(line)
    /\ ~job.strays

CliInv ==
    /\ line \in CliLines
    /\ Len(line.entries) <= MaxEntries /\ (line.entries # <<>> => "serials" \in line.options)
    /\ stop \in CliStops /\ job \in CliJobs
    /\ Cli!Running => exit = Cli!Nothing
    /\ JobTells /\ Cli!ExitIsTrue

LEMMA SameCardinality ==
    ASSUME NEW S
    PROVE  Cli!Cardinality(S) = Cardinality(S)
  BY DEF Cli!Cardinality, Cardinality

\* Of the numbers that are free there is one of each rank: at most two are taken.
LEMMA RankIsTaken ==
    ASSUME CliAssumption, NEW entries \in Seq(Cli!Entries), NEW k \in 1..MaxEntries
    PROVE  \E n \in Cli!FreeTags(entries) : Cardinality(UpTo(Cli!FreeTags(entries), n)) = k
<1> DEFINE E == Cli!Explicit(entries)
           F == Cli!FreeTags(entries)
<1>1. E \subseteq {1, 2} /\ k \in Nat /\ 1 <= k /\ k <= MaxEntries /\ MaxEntries \in Nat
  <2>1. \A i \in DOMAIN entries : entries[i] \in Cli!Entries
    OBVIOUS
  <2>2. \A i \in DOMAIN entries : entries[i].tag \in 0..2
    BY <2>1 DEF Cli!Entries
  <2> QED
    BY <2>2 DEF CliAssumption, Cli!Explicit
<1>2. F = {n \in 1..(2 * MaxEntries + 2) : n \notin E}
  BY DEF Cli!FreeTags
<1> HIDE DEF E, F
<1>3. CASE 1 \in E /\ 2 \in E
  <2>1. k + 2 \in F /\ UpTo(F, k + 2) = 3..(k + 2)
    BY <1>1, <1>2, <1>3 DEF UpTo
  <2> QED
    BY <1>1, <2>1, FS_Interval DEF F
<1>4. CASE 1 \in E /\ 2 \notin E
  <2>1. k + 1 \in F /\ UpTo(F, k + 1) = 2..(k + 1)
    BY <1>1, <1>2, <1>4 DEF UpTo
  <2> QED
    BY <1>1, <2>1, FS_Interval DEF F
<1>5. CASE 1 \notin E /\ 2 \notin E
  <2>1. k \in F /\ UpTo(F, k) = 1..k
    BY <1>1, <1>2, <1>5 DEF UpTo
  <2> QED
    BY <1>1, <2>1, FS_Interval DEF F
<1>6. CASE 1 \notin E /\ 2 \in E
  <2>1. CASE k = 1
    <3>1. 1 \in F /\ UpTo(F, 1) = 1..1
      BY <1>1, <1>2, <1>6 DEF UpTo
    <3>2. Cardinality(1..1) = k
      <4>1. 1..1 = {1}
        OBVIOUS
      <4> QED
        BY <2>1, <4>1, FS_Singleton
    <3> QED
      BY <3>1, <3>2 DEF F
  <2>2. CASE k # 1
    <3>1. k + 1 \in F /\ UpTo(F, k + 1) = 3..(k + 1) \cup {1}
      BY <1>1, <1>2, <1>6, <2>2 DEF UpTo
    <3>2. IsFiniteSet(3..(k + 1)) /\ Cardinality(3..(k + 1)) = k - 1
      BY <1>1, <2>2, FS_Interval
    <3>3. Cardinality(3..(k + 1) \cup {1}) = k
      <4>1. 1 \notin 3..(k + 1)
        BY <1>1
      <4>2. Cardinality(3..(k + 1) \cup {1}) = Cardinality(3..(k + 1)) + 1
        BY <3>2, <4>1, FS_AddElement
      <4> QED
        BY <1>1, <3>2, <4>2
    <3> QED
      BY <3>1, <3>3 DEF F
  <2> QED
    BY <2>1, <2>2
<1> QED
  BY <1>3, <1>4, <1>5, <1>6

\* Entries without a tag are counted up.
LEMMA UntaggedRises ==
    ASSUME CliAssumption, NEW entries \in Seq(Cli!Entries), Len(entries) <= MaxEntries,
           NEW i \in DOMAIN entries, entries[i].tag = 0
    PROVE  /\ Cardinality(Untagged(entries, i)) \in 1..MaxEntries
           /\ \A j \in DOMAIN entries : i < j /\ entries[j].tag = 0 =>
                 Cardinality(Untagged(entries, i)) < Cardinality(Untagged(entries, j))
<1>1. /\ DOMAIN entries = 1..Len(entries) /\ Len(entries) \in Nat /\ MaxEntries \in Nat /\ i \in Nat /\ 1 <= i /\ i <= Len(entries)
  BY DEF CliAssumption
<1>2. \A j \in DOMAIN entries : /\ IsFiniteSet(Untagged(entries, j)) /\ Cardinality(Untagged(entries, j)) \in Nat
                                /\ Cardinality(Untagged(entries, j)) <= j
  <2> TAKE j \in DOMAIN entries
  <2>1. Untagged(entries, j) \in SUBSET (1..j) /\ IsFiniteSet(1..j) /\ Cardinality(1..j) = j
    BY <1>1, FS_Interval DEF Untagged
  <2> QED
    BY <2>1, FS_Subset, FS_CardinalityType
<1>3. Cardinality(Untagged(entries, i)) # 0
  <2>1. i \in Untagged(entries, i)
    BY <1>1 DEF Untagged
  <2> QED
    BY <1>2, <2>1, FS_EmptySet
<1>4. ASSUME NEW j \in DOMAIN entries, i < j, entries[j].tag = 0
      PROVE  Cardinality(Untagged(entries, i)) < Cardinality(Untagged(entries, j))
  <2>1. Untagged(entries, i) \in SUBSET Untagged(entries, j) /\ j \in Untagged(entries, j) /\ j \notin Untagged(entries, i)
    BY <1>1, <1>4 DEF Untagged
  <2>2. /\ Cardinality(Untagged(entries, i)) <= Cardinality(Untagged(entries, j))
        /\ Cardinality(Untagged(entries, i)) # Cardinality(Untagged(entries, j))
    BY <1>2, <2>1, FS_Subset
  <2> QED
    BY <1>2, <2>2
<1> QED
  BY <1>1, <1>2, <1>3, <1>4

\* A tag is used twice only when it was given twice.
LEMMA TagsRepeat ==
    ASSUME CliAssumption, NEW entries \in Seq(Cli!Entries), Len(entries) <= MaxEntries, Cli!Repeats(Cli!Tags(entries))
    PROVE  \E i, j \in DOMAIN entries : i # j /\ entries[i].tag = entries[j].tag /\ entries[i].tag # 0
<1> DEFINE Ranked(n, k) == n \in Cli!FreeTags(entries) /\ Cardinality(UpTo(Cli!FreeTags(entries), n)) = k
           rank(i) == Cardinality(Untagged(entries, i))
           tag == Cli!Tags(entries)
<1>1. /\ DOMAIN tag = DOMAIN entries
      /\ \A i \in DOMAIN entries :
            tag[i] = IF entries[i].tag # 0 THEN entries[i].tag
                     ELSE CHOOSE n \in Cli!FreeTags(entries) : Cardinality(UpTo(Cli!FreeTags(entries), n)) = rank(i)
  <2> DEFINE nth(k) == CHOOSE n \in Cli!FreeTags(entries) : Cardinality(UpTo(Cli!FreeTags(entries), n)) = k
  <2>1. /\ DOMAIN tag = DOMAIN entries
        /\ \A i \in DOMAIN entries :
              tag[i] = IF entries[i].tag # 0 THEN entries[i].tag
                       ELSE Cli!Nth(Cli!Cardinality(Untagged(entries, i)), Cli!FreeTags(entries))
    BY DEF Cli!Tags, Untagged
  <2>2. \A i \in DOMAIN entries : Cli!Cardinality(Untagged(entries, i)) = rank(i)
    BY SameCardinality
  <2>3. \A k : Cli!Nth(k, Cli!FreeTags(entries)) = nth(k)
    BY SameCardinality DEF Cli!Nth, UpTo
  <2> HIDE DEF tag, rank, nth
  <2>4. \A i \in DOMAIN entries :
           tag[i] = IF entries[i].tag # 0 THEN entries[i].tag ELSE nth(rank(i))
    BY <2>1, <2>2, <2>3
  <2> QED
    BY <2>1, <2>4 DEF nth
<1>2. \A i \in DOMAIN entries : entries[i].tag # 0 => tag[i] = entries[i].tag /\ tag[i] \notin Cli!FreeTags(entries)
  <2> TAKE i \in DOMAIN entries
  <2> HAVE entries[i].tag # 0
  <2>1. entries[i].tag \in Cli!Explicit(entries)
    BY DEF Cli!Explicit
  <2> QED
    BY <1>1, <2>1 DEF Cli!FreeTags
<1>3. \A i \in DOMAIN entries : entries[i].tag = 0 => Ranked(tag[i], rank(i))
  <2> TAKE i \in DOMAIN entries
  <2> HAVE entries[i].tag = 0
  <2>1. rank(i) \in 1..MaxEntries
    BY UntaggedRises
  <2> HIDE DEF rank
  <2>2. \E n \in Cli!FreeTags(entries) : Cardinality(UpTo(Cli!FreeTags(entries), n)) = rank(i)
    BY <2>1, RankIsTaken
  <2>3. tag[i] = CHOOSE n \in Cli!FreeTags(entries) : Cardinality(UpTo(Cli!FreeTags(entries), n)) = rank(i)
    BY <1>1
  <2> QED
    BY <2>2, <2>3
<1>4. PICK i \in DOMAIN entries, j \in DOMAIN entries : i # j /\ tag[i] = tag[j]
  BY <1>1 DEF Cli!Repeats
<1>5. i \in Nat /\ j \in Nat
  OBVIOUS
<1>6. CASE entries[i].tag # 0 /\ entries[j].tag # 0
  BY <1>2, <1>4, <1>6
<1>7. CASE entries[i].tag # 0 /\ entries[j].tag = 0
  BY <1>2, <1>3, <1>4, <1>7
<1>8. CASE entries[i].tag = 0 /\ entries[j].tag # 0
  BY <1>2, <1>3, <1>4, <1>8
<1>9. CASE entries[i].tag = 0 /\ entries[j].tag = 0
  <2>1. rank(i) = rank(j)
    BY <1>3, <1>4, <1>9
  <2>2. /\ rank(i) \in 1..MaxEntries /\ rank(j) \in 1..MaxEntries
        /\ i < j => rank(i) < rank(j)
        /\ j < i => rank(j) < rank(i)
    BY <1>9, UntaggedRises
  <2> HIDE DEF rank
  <2> QED
    BY <1>4, <1>5, <2>1, <2>2 DEF CliAssumption
<1> QED
  BY <1>6, <1>7, <1>8, <1>9

\* An accepted command line says in one way what is written where.
LEMMA AcceptedIsOne ==
    ASSUME CliInv, CliAssumption
    PROVE  Cli!ChoiceIsOne
<1>1. /\ line.options \subseteq OptionNames /\ line.entries \in Seq(Cli!Entries) /\ Len(line.entries) <= MaxEntries
      /\ line.entries # <<>> => "serials" \in line.options
  BY DEF CliInv, CliLines
<1>2. ASSUME line.command = "flash-soc", ~Cli!Problem(line)
      PROVE  /\ Cardinality(line.options \cap {"all", "partitions"}) = 1
             /\ Cardinality(line.options \cap {"serial", "serials", "all-boards"}) <= 1
             /\ "expect-image" \in line.options => line.options \cap {"serial", "serials"} # {}
  <2>1. ~Cli!FleetProblem(line) /\ ~Cli!ExpectProblem(line)
        /\ (~Cli!IsFleet(line) => ("all" \in line.options) # ("partitions" \in line.options))
    BY <1>2 DEF Cli!Problem
  <2>2. \/ line.options \cap {"all", "partitions"} = {"all"}
        \/ line.options \cap {"all", "partitions"} = {"partitions"}
    BY <2>1 DEF Cli!FleetProblem, Cli!IsFleet
  <2>3. \/ line.options \cap {"serial", "serials", "all-boards"} = {"serial"}
        \/ line.options \cap {"serial", "serials", "all-boards"} = {"serials"}
        \/ line.options \cap {"serial", "serials", "all-boards"} = {"all-boards"}
        \/ line.options \cap {"serial", "serials", "all-boards"} = {}
    BY <2>1 DEF Cli!FleetProblem, Cli!IsFleet
  <2>4. "expect-image" \in line.options => line.options \cap {"serial", "serials"} # {}
    BY <1>1, <2>1 DEF Cli!ExpectProblem
  <2>5. \A x : Cardinality({x}) = 1
    BY FS_Singleton
  <2>6. Cardinality({}) = 0
    BY FS_EmptySet
  <2>7. Cardinality(line.options \cap {"all", "partitions"}) = 1
    BY <2>2, <2>5
  <2>8. Cardinality(line.options \cap {"serial", "serials", "all-boards"}) \in {0, 1}
    BY <2>3, <2>5, <2>6
  <2> QED
    BY <2>4, <2>7, <2>8
<1>3. Cli!Repeats(Cli!Tags(line.entries)) => \E i, j \in DOMAIN line.entries :
          i # j /\ line.entries[i].tag = line.entries[j].tag /\ line.entries[i].tag # 0
  BY <1>1, TagsRepeat
<1>4. line.command = "flash-soc" /\ ~Cli!Problem(line) =>
          /\ Cardinality(line.options \cap {"all", "partitions"}) = 1
          /\ Cardinality(line.options \cap {"serial", "serials", "all-boards"}) <= 1
          /\ "expect-image" \in line.options => line.options \cap {"serial", "serials"} # {}
  BY <1>2
<1> QED
  BY <1>3, <1>4, SameCardinality DEF Cli!ChoiceIsOne

\* A run begins, or its line was refused before it began.
LEMMA CliBegins ==
    ASSUME CliAssumption, Cli!CliInit \/ CliRests
    PROVE  CliInv
<1>1. CASE CliRests
  <2>1. line.entries = <<>> /\ line \in CliLines
    <3>1. <<>> \in Seq(Cli!Entries)
      OBVIOUS
    <3> QED
      BY <1>1, <3>1 DEF CliRests, CliLines, OptionNames, Cli!Commands
  <2>2. Len(line.entries) <= MaxEntries
    BY <2>1 DEF CliAssumption
  <2>3. stop \in CliStops /\ job = Cli!NoJob /\ exit.code = "usage" /\ exit.says = "none"
    BY <1>1 DEF CliRests, CliStops
  <2> QED
    BY <2>1, <2>2, <2>3 DEF CliInv, CliJobs, JobPlaces, JobTells, Cli!NoJob, Cli!Running, Cli!ExitIsTrue
<1>2. CASE Cli!CliInit
  <2>1. PICK c \in Cli!Commands : line \in Cli!LinesOf(c)
    BY <1>2 DEF Cli!CliInit, Cli!Lines
  <2>2. /\ line \in [command : {c}, options : SUBSET OptionNames, entries : BoundedSeq(Cli!Entries, MaxEntries), interactive : BOOLEAN]
        /\ line.entries # <<>> => "serials" \in line.options
    <3>1. Cli!OptionsOf(c) \subseteq OptionNames
      BY DEF Cli!OptionsOf, OptionNames
    <3>2. Cli!BoundedSeq(Cli!Entries, MaxEntries) = BoundedSeq(Cli!Entries, MaxEntries)
      BY DEF Cli!BoundedSeq, BoundedSeq, Cli!SeqOf, SeqOf
    <3> QED
      BY <2>1, <3>1, <3>2 DEF Cli!LinesOf
  <2>3. line.entries \in Seq(Cli!Entries) /\ Len(line.entries) <= MaxEntries
    <3>1. PICK m \in 0..MaxEntries : line.entries \in [1..m -> Cli!Entries]
      BY <2>2 DEF BoundedSeq, SeqOf
    <3>2. m \in Nat
      BY <3>1
    <3> QED
      BY <3>1, <3>2 DEF CliAssumption
  <2>4. line \in CliLines
    BY <2>2, <2>3 DEF CliLines
  <2>5. stop \in CliStops /\ job = Cli!NoJob /\ exit = Cli!Nothing
    BY <1>2 DEF Cli!CliInit, CliStops
  <2> QED
    BY <2>2, <2>3, <2>4, <2>5 DEF CliInv, CliJobs, JobPlaces, JobTells, Cli!NoJob, Cli!Nothing, Cli!Running, Cli!ExitIsTrue
<1> QED
  BY <1>1, <1>2

\* A run that is left says what became of it.
LeftTruly ==
    /\ exit'.code # "none" /\ exit'.says # "interrupted after the image was written"
    /\ exit'.code = "cancelled" => Cli!Aborted \/ exit'.says = "answered no"

LEMMA LeaveTells ==
    ASSUME NEW code, NEW says, Cli!Leave(code, says)
    PROVE  exit'.code = code /\ exit'.says = says
  BY DEF Cli!Leave

LEMMA LeaveTruly ==
    ASSUME NEW code, NEW says, Cli!Leave(code, says), code # "none", says # "interrupted after the image was written",
           code = "cancelled" => Cli!Aborted \/ says = "answered no"
    PROVE  LeftTruly
  BY LeaveTells DEF LeftTruly

LEMMA GoOnTells ==
    ASSUME Cli!GoOn
    PROVE  UNCHANGED exit \/ LeftTruly
<1>1. CASE UNCHANGED exit
  BY <1>1
<1>2. CASE Cli!Leave("ok", "done")
  BY <1>2, LeaveTruly
<1> QED
  BY <1>1, <1>2 DEF Cli!GoOn

\* A run whose job is not there yet goes on with its stages, or ends.
LEMMA StageOver ==
    ASSUME CliInv, Cli!Running, job.at = "none", UNCHANGED <<stop, job>>, UNCHANGED line,
           UNCHANGED exit \/ LeftTruly
    PROVE  CliInv'
<1>1. JobTells'
  BY DEF CliInv, JobTells, Cli!IsFleet
<1>2. ~job.written
  BY DEF CliInv, JobTells
<1>3. Cli!Running' => exit' = Cli!Nothing
  BY DEF CliInv, Cli!Running, LeftTruly
<1>4. Cli!ExitIsTrue'
  <2>1. CASE UNCHANGED exit
    BY <2>1 DEF CliInv, Cli!Running, Cli!Nothing, Cli!ExitIsTrue
  <2>2. CASE LeftTruly
    BY <1>2, <2>2 DEF LeftTruly, Cli!ExitIsTrue, Cli!Aborted
  <2> QED
    BY <2>1, <2>2
<1> QED
  BY <1>1, <1>3, <1>4 DEF CliInv

\* The command line is read.
LEMMA ParseInv ==
    ASSUME CliInv, CliAssumption, Cli!Running, Cli!Parse
    PROVE  CliInv'
<1>1. /\ Cli!Stage = "parse" /\ UNCHANGED <<queued, job>> /\ line' = [line EXCEPT !.entries = <<>>]
  BY DEF Cli!Parse
<1>2. /\ stop' \in CliStops
      /\ \/ stop'.interrupted /\ exit'.code = "cancelled" /\ exit'.says = "interrupted"
         \/ exit'.code \in {"usage", "ok", "failed", "no board"} /\ exit'.says = exit'.code
         \/ UNCHANGED exit
  <2> DEFINE reads == "password-stdin" \in line.options /\ ~("password-env" \in line.options)
             caught == reads /\ signals > 0
  <2>1. /\ stop' = [stop EXCEPT !.interrupted = caught]
        /\ \/ caught /\ exit'.code = "cancelled" /\ exit'.says = "interrupted"
           \/ exit'.code \in {"usage", "ok", "failed", "no board"} /\ exit'.says = exit'.code
           \/ UNCHANGED exit
    BY LeaveTells DEF Cli!Parse
  <2>2. caught \in BOOLEAN /\ stop \in CliStops
    BY DEF CliInv
  <2> HIDE DEF caught
  <2>3. stop' \in CliStops /\ stop'.interrupted = caught
    BY <2>1, <2>2 DEF CliStops
  <2> QED
    BY <2>1, <2>3
<1>3. job.at = "none"
  BY <1>1 DEF CliInv, JobTells
<1>4. /\ line' \in CliLines
      /\ line'.options = line.options /\ line'.entries = <<>> /\ Len(line'.entries) <= MaxEntries
  <2>1. <<>> \in Seq(Cli!Entries)
    OBVIOUS
  <2>2. line \in CliLines
    BY DEF CliInv
  <2>3. line' \in CliLines /\ line'.options = line.options /\ line'.entries = <<>>
    BY <1>1, <2>1, <2>2 DEF CliLines
  <2>4. Len(<<>>) <= MaxEntries
    BY DEF CliAssumption
  <2> QED
    BY <2>3, <2>4
<1>6. JobTells'
  BY <1>1, <1>3, <1>4 DEF CliInv, JobTells, Cli!IsFleet
<1>7. (Cli!Running' => exit' = Cli!Nothing) /\ Cli!ExitIsTrue'
  <2>1. ~job.written
    BY <1>3 DEF CliInv, JobTells
  <2>2. CASE stop'.interrupted /\ exit'.code = "cancelled" /\ exit'.says = "interrupted"
    BY <1>1, <1>3, <2>1, <2>2 DEF Cli!Running, Cli!ExitIsTrue, Cli!Aborted
  <2>3. CASE exit'.code \in {"usage", "ok", "failed", "no board"} /\ exit'.says = exit'.code
    BY <1>1, <1>3, <2>1, <2>3 DEF Cli!Running, Cli!ExitIsTrue
  <2>4. CASE UNCHANGED exit
    <3>1. exit' = Cli!Nothing
      BY <2>4 DEF CliInv
    <3>2. exit'.code = "none" /\ exit'.says = "none"
      BY <3>1 DEF Cli!Nothing
    <3> QED
      BY <3>1, <3>2 DEF Cli!ExitIsTrue
  <2> QED
    BY <1>2, <2>2, <2>3, <2>4
<1> QED
  BY <1>1, <1>2, <1>4, <1>6, <1>7 DEF CliInv

\* The stages before the operation.
LEMMA WaitsInv ==
    ASSUME CliInv, Cli!Running, Cli!Expect \/ Cli!Board \/ Cli!Layout \/ Cli!Plan \/ Cli!Confirm
    PROVE  CliInv'
<1>1. /\ Cli!Stage \in {"expect", "board", "layout", "plan", "confirm"} /\ UNCHANGED <<line, stop, job>>
  BY DEF Cli!Expect, Cli!Board, Cli!Layout, Cli!Plan, Cli!Confirm
<1>2. job.at = "none"
  BY <1>1 DEF CliInv, JobTells
<1>3. UNCHANGED exit \/ LeftTruly
  <2>1. CASE Cli!Expect
    BY <2>1, GoOnTells, LeaveTruly DEF Cli!Expect
  <2>2. CASE Cli!Board
    BY <2>2, GoOnTells, LeaveTruly DEF Cli!Board
  <2>3. CASE Cli!Layout
    BY <2>3, GoOnTells, LeaveTruly DEF Cli!Layout
  <2>4. CASE Cli!Plan
    BY <2>4, GoOnTells, LeaveTruly DEF Cli!Plan
  <2>5. CASE Cli!Confirm
    BY <2>5, GoOnTells, LeaveTruly DEF Cli!Confirm
  <2> QED
    BY <2>1, <2>2, <2>3, <2>4, <2>5
<1> QED
  BY <1>1, <1>2, <1>3, StageOver

\* The job goes on where it is.
LEMMA JobGoesOn ==
    ASSUME CliInv, Cli!Running, UNCHANGED <<line, exit>>, stop' \in CliStops, job' \in CliJobs, JobTells'
    PROVE  CliInv'
<1>1. exit' = Cli!Nothing
  BY DEF CliInv
<1>2. Cli!ExitIsTrue'
  BY <1>1 DEF Cli!ExitIsTrue, Cli!Nothing
<1> QED
  BY <1>1, <1>2 DEF CliInv

\* A cancel of the job.
LEMMA CancelledTells ==
    ASSUME CliInv, Cli!Busy, Cli!Running, UNCHANGED <<line, todo, exit>>, job' = Cli!Cancelled(job)
    PROVE  job' \in CliJobs /\ JobTells'
<1>1. job \in CliJobs
  BY DEF CliInv
<1>2. CASE Cli!IsFleet(line)
  <2>1. job' = [job EXCEPT !.drains = TRUE]
    BY <1>2 DEF Cli!Cancelled
  <2> QED
    BY <1>1, <1>2, <2>1 DEF CliInv, CliJobs, JobPlaces, JobTells, Cli!IsFleet, Cli!Stage, Cli!Running
<1>3. CASE ~Cli!IsFleet(line) /\ job.at \in {"waits", "returns"}
  <2>1. job' = [job EXCEPT !.at = "cancelled"]
    BY <1>3 DEF Cli!Cancelled
  <2> QED
    BY <1>1, <1>3, <2>1 DEF CliInv, CliJobs, JobPlaces, JobTells, Cli!IsFleet, Cli!Stage, Cli!Running
<1>4. CASE ~Cli!IsFleet(line) /\ job.at = "mcu"
  <2>1. job' = [job EXCEPT !.at = "cancelled later"]
    BY <1>4 DEF Cli!Cancelled
  <2> QED
    BY <1>1, <1>4, <2>1 DEF CliInv, CliJobs, JobPlaces, JobTells, Cli!IsFleet, Cli!Stage, Cli!Running
<1>5. CASE ~Cli!IsFleet(line) /\ job.at \notin {"waits", "returns", "mcu"}
  <2>1. job' = job
    BY <1>5 DEF Cli!Cancelled
  <2> QED
    BY <1>1, <2>1 DEF CliInv, JobTells, Cli!IsFleet, Cli!Stage, Cli!Running
<1> QED
  BY <1>2, <1>3, <1>4, <1>5

\* An interrupt, the timeout, or the cancel sent again.
LEMMA StopsInv ==
    ASSUME CliInv, Cli!Running, Cli!Stops
    PROVE  CliInv'
<1>1. /\ UNCHANGED <<line, todo, exit>> /\ stop \in CliStops /\ job \in CliJobs /\ JobTells
  BY DEF Cli!Stops, Cli!Deliver, Cli!Deferred, Cli!TimerFires, Cli!CancelAgain, CliInv
<1>2. \/ UNCHANGED job
      \/ Cli!Busy /\ job' = Cli!Cancelled(job)
  BY DEF Cli!Stops, Cli!Deliver, Cli!Deferred, Cli!TimerFires, Cli!CancelAgain, Cli!StopRun, Cli!Cancellable
<1>3. stop' \in CliStops
  <2>1. Cli!Busy \in BOOLEAN /\ Cli!Cancellable \in BOOLEAN
    BY DEF Cli!Busy, Cli!Cancellable
  <2>2. ASSUME NEW flag \in {"interrupted", "timedOut"}, Cli!StopRun(flag)
        PROVE  stop' \in CliStops
    BY <1>1, <2>1, <2>2 DEF Cli!StopRun, CliStops
  <2>3. CASE Cli!CancelAgain
    BY <1>1, <2>3 DEF Cli!CancelAgain, CliStops
  <2> QED
    BY <2>2, <2>3 DEF Cli!Stops, Cli!Deliver, Cli!Deferred, Cli!TimerFires
<1>4. job' \in CliJobs /\ JobTells'
  <2>1. CASE UNCHANGED job
    BY <1>1, <2>1 DEF JobTells, Cli!IsFleet, Cli!Stage, Cli!Running
  <2> QED
    BY <1>1, <1>2, <2>1, CancelledTells
<1> QED
  BY <1>1, <1>3, <1>4, JobGoesOn

\* What the job and its owner do.
LEMMA JobInv ==
    ASSUME CliInv, Cli!Running, Cli!Start \/ Cli!Human \/ Cli!Job
    PROVE  CliInv'
<1>1. /\ UNCHANGED <<line, todo, exit, stop>> /\ stop \in CliStops /\ job \in CliJobs /\ JobTells
  BY DEF CliInv, Cli!Start, Cli!Human, Cli!Job, Cli!Press, Cli!Ask, Cli!Answer, Cli!Write, Cli!Written,
         Cli!WriteFails, Cli!Drains, Cli!McuStep, Cli!Ends
<1> SUFFICES job' \in CliJobs /\ JobTells'
  BY <1>1, JobGoesOn
<1>2. CASE Cli!Start
  <2>1. PICK place \in {"not started", "waits"} : job' = [job EXCEPT !.at = place]
    BY <1>2 DEF Cli!Start
  <2> QED
    BY <1>1, <1>2, <2>1 DEF Cli!Start, CliJobs, JobPlaces, JobTells, Cli!IsFleet, Cli!Stage, Cli!Running
<1>3. CASE Cli!Press
  BY <1>1, <1>3 DEF Cli!Press, JobTells, Cli!IsFleet, Cli!Stage, Cli!Running
<1>4. CASE Cli!Ask
  <2> DEFINE there == [job EXCEPT !.at = "asks"]
  <2>1. there \in CliJobs /\ there.asked + 1 \in Nat
    <3>1. "asks" \in JobPlaces
      BY DEF JobPlaces
    <3>2. there \in CliJobs
      BY <1>1, <3>1 DEF CliJobs
    <3> HIDE DEF there
    <3> QED
      BY <3>2 DEF CliJobs
  <2>2. job' = [there EXCEPT !.asked = @ + 1]
    BY <1>1, <1>4 DEF Cli!Ask, CliJobs
  <2>3. /\ job' \in CliJobs /\ job'.at = "asks"
        /\ UNCHANGED <<job.method, job.written, job.drains, job.strays>>
    BY <1>1, <2>1, <2>2 DEF CliJobs
  <2> QED
    BY <1>1, <1>4, <2>3 DEF Cli!Ask, JobTells, Cli!IsFleet, Cli!Stage, Cli!Running
<1>5. CASE Cli!Answer
  BY <1>1, <1>5 DEF Cli!Answer, CliJobs, JobPlaces, JobTells, Cli!IsFleet, Cli!Stage, Cli!Running
<1>6. CASE Cli!Write
  BY <1>1, <1>6 DEF Cli!Write, CliJobs, JobPlaces, JobTells, Cli!IsFleet, Cli!Stage, Cli!Running
<1>7. CASE Cli!Written
  BY <1>1, <1>7 DEF Cli!Written, CliJobs, JobPlaces, JobTells, Cli!IsFleet, Cli!Stage, Cli!Running
<1>8. CASE Cli!WriteFails
  BY <1>1, <1>8 DEF Cli!WriteFails, CliJobs, JobPlaces, JobTells, Cli!IsFleet, Cli!Stage, Cli!Running
<1>9. CASE Cli!Drains
  BY <1>1, <1>9 DEF Cli!Drains, CliJobs, JobPlaces, JobTells, Cli!IsFleet, Cli!Stage, Cli!Running
<1>10. CASE Cli!McuStep
  BY <1>1, <1>10 DEF Cli!McuStep, CliJobs, JobPlaces, JobTells, Cli!IsFleet, Cli!Stage, Cli!Running
<1>11. CASE Cli!Ends
  BY <1>1, <1>11 DEF Cli!Ends, CliJobs, JobPlaces, JobTells, Cli!IsFleet, Cli!Stage, Cli!Running
<1> QED
  BY <1>2, <1>3, <1>4, <1>5, <1>6, <1>7, <1>8, <1>9, <1>10, <1>11 DEF Cli!Human, Cli!Job

\* The run is left with what became of the operation.
LEMMA OperationEndedInv ==
    ASSUME CliInv, Cli!Running, Cli!OperationEnded
    PROVE  CliInv'
<1>1. /\ UNCHANGED <<line, stop, job>> /\ exit' = [code |-> Cli!Outcome.code, says |-> Cli!Outcome.says]
      /\ job.at \in {"not started", "done", "failed", "no loader", "no ssh", "cancelled", "cancelled later"}
  BY DEF Cli!OperationEnded, Cli!Leave
<1>2. exit'.code # "none"
  BY <1>1 DEF Cli!Outcome
<1>3. JobTells'
  BY <1>1, <1>2 DEF CliInv, JobTells, Cli!IsFleet, Cli!Running
<1>4. Cli!ExitIsTrue'
  <2>1. /\ job.at = "cancelled" /\ job.method /\ ~Cli!IsFleet(line) => job.written
        /\ job.written => job.method
    BY DEF CliInv, JobTells
  <2>2. Cli!Aborted' = Cli!Aborted /\ Cli!IsFleet(line)' = Cli!IsFleet(line)
    BY <1>1 DEF Cli!Aborted, Cli!IsFleet
  <2> QED
    BY <1>1, <2>1, <2>2 DEF Cli!Outcome, Cli!ExitIsTrue
<1> QED
  BY <1>1, <1>2, <1>3, <1>4 DEF CliInv, Cli!Running

\* An accepted command line says in exactly one way what is written on which boards, the exit code
\* is what happened, and nothing of the job goes on after a cancel has ended it (FirmwareCli).
THEOREM CliHoldsAlways ==
    ASSUME CliAssumption
    PROVE  ToolsSpec => []CliHolds
<1>1. ToolsInit => CliInv
  BY CliBegins DEF ToolsInit
<1>2. CliInv /\ [ToolsNext]_<<which, vars, ofTool, ofBridge, ofCache, ofInventory, ofCli>> => CliInv'
  <2> SUFFICES ASSUME CliInv, [ToolsNext]_<<which, vars, ofTool, ofBridge, ofCache, ofInventory, ofCli>>
               PROVE  CliInv'
    OBVIOUS
  <2>1. Cli!CliNext \/ UNCHANGED ofCli
    BY DEF ToolsNext
  <2>2. CASE UNCHANGED ofCli
    <3>1. UNCHANGED <<line, todo, stop, job, exit>>
      BY <2>2 DEF ofCli
    <3>2. JobTells' /\ Cli!ExitIsTrue'
      BY <3>1 DEF CliInv, JobTells, Cli!ExitIsTrue, Cli!IsFleet, Cli!Stage, Cli!Running, Cli!Aborted
    <3> QED
      BY <3>1, <3>2 DEF CliInv, Cli!Running
  <2>3. CASE Cli!CliNext
    BY <2>3, ParseInv, WaitsInv, StopsInv, JobInv, OperationEndedInv DEF Cli!CliNext, Cli!Loop
  <2> QED
    BY <2>1, <2>2, <2>3
<1>3. CliInv => CliHolds
  BY AcceptedIsOne DEF CliHolds, CliInv, JobTells, Cli!NothingAfterTheEnd
<1> QED
  BY <1>1, <1>2, <1>3, PTL DEF ToolsSpec
===============================================================================
