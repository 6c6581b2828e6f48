---- MODULE AnsiParser ----
(***************************************************************************)
(* The control-sequence parser of the terminal (AnsiParser): characters    *)
(* go into a text run that is handed to the screen in one piece, controls  *)
(* act on the screen at once, sequences collect their parameters first.    *)
(* A character is one of the classes the state machine tells apart.        *)
(***************************************************************************)
EXTENDS Integers, FiniteSets

CONSTANTS MaxParams,     \* kMaxParams
          MaxSubParams,  \* kMaxSubParams
          MaxString,     \* kMaxControlStringLength
          MaxOsc,        \* kMaxOscLength
          MaxInter       \* bound: intermediate bytes counted

VARIABLES state,       \* m_state
          held,        \* m_textRun holds characters the screen has not seen
          seq,         \* what the current sequence has collected
          charsets,    \* [g, gl, savedG, savedGl]: designations and DECSC's copy
          modes        \* the modes kept outside the screen

parser == <<state, held, seq, charsets, modes>>

DcsStates == {"DcsEntry", "DcsParam", "DcsIntermediate", "DcsPassthrough", "DcsIgnore"}
Strings == DcsStates \cup {"SosPmApcString"}
Sequences7Bit == {"Escape", "EscapeIntermediate", "CsiEntry", "CsiParam", "CsiIntermediate", "CsiIgnore"} \cup Strings
States == {"Ground", "OscString"} \cup Sequences7Bit

(* Final bytes: those with a meaning of their own after ESC, and the rest. *)
Finals == {"[", "]", "P", "X", "other"}
C1 == {"csi9B", "osc9D", "dcs90", "sos98", "st9C", "c1"}
Class == Finals \cup C1
         \cup {"esc", "can", "c0", "bel", "del", "digit", "semicolon", "colon", "private", "inter", "wide"}
C0 == {"c0", "bel"}
ParamBytes == {"digit", "semicolon", "colon", "private"}

(* clearSequence()                                                         *)
NoSequence == [params |-> 0, subs |-> 0, inters |-> 0, private |-> FALSE, osc |-> 0, string |-> 0,
               inSub |-> FALSE, overflow |-> FALSE]

PlainCharsets == [g |-> [i \in {0, 1} |-> "ascii"], gl |-> 0, savedG |-> [i \in {0, 1} |-> "ascii"], savedGl |-> 0]
PlainModes == [newLine |-> FALSE, cursorKeys |-> FALSE, paste |-> FALSE]

ParserInit == /\ state = "Ground"
              /\ held = FALSE
              /\ seq = NoSequence
              /\ charsets = PlainCharsets
              /\ modes = PlainModes

Goto(s) == state' = s
Keep == UNCHANGED <<charsets, modes>>
Capped(n, max) == IF n < max THEN n + 1 ELSE max

(* collectParam()                                                          *)
Collect(c) ==
    LET one == IF seq.params = 0 THEN [seq EXCEPT !.params = 1] ELSE seq
    IN  seq' = CASE c = "semicolon" ->
                      IF one.overflow \/ one.params >= MaxParams
                      THEN [one EXCEPT !.inSub = FALSE, !.overflow = TRUE]
                      ELSE [one EXCEPT !.inSub = FALSE, !.params = @ + 1, !.subs = 0]
                 [] c = "colon" /\ ~one.overflow ->
                      IF one.subs >= MaxSubParams THEN [one EXCEPT !.overflow = TRUE]
                      ELSE [one EXCEPT !.subs = @ + 1, !.inSub = TRUE]
                 [] OTHER -> one

(* Mutant: the run is not flushed before an escape sequence.               *)
EscKeepsText == /\ UNCHANGED held
                /\ seq' = NoSequence
                /\ Goto("Escape")
                /\ Keep

(* ESC starts a sequence anywhere; one in a title ends the title.          *)
Esc == /\ held' = (held /\ state # "Ground")
       /\ seq' = NoSequence
       /\ Goto("Escape")
       /\ Keep

(* CAN and SUB abort any sequence, the C1 controls start one.              *)
Abort == held' = FALSE /\ seq' = NoSequence /\ Goto("Ground") /\ Keep

EightBit(c) ==
    /\ held' = FALSE
    /\ seq' = NoSequence
    /\ Goto(CASE c = "csi9B" -> "CsiEntry" [] c = "osc9D" -> "OscString" [] c = "dcs90" -> "DcsEntry"
              [] c = "sos98" -> "SosPmApcString" [] OTHER -> "Ground")
    /\ Keep

(* What the first tests of processCodePoint() make of the current state:   *)
(* text outside ASCII ends a sequence, and so does a string too long.      *)
Abandons(c) == \/ c = "wide" /\ state \in Sequences7Bit
               \/ state \in Strings /\ seq.string >= MaxString

(* executeC0(): SO and SI choose the active charset, the rest is for the   *)
(* screen alone.                                                           *)
ExecuteC0(c) == /\ \E gl \in {charsets.gl} \cup (IF c = "c0" THEN {0, 1} ELSE {}) :
                       charsets' = [charsets EXCEPT !.gl = gl]
                /\ UNCHANGED modes

(* Ground prints: a control flushes the run first.                         *)
Printed(c) == /\ Goto("Ground")
              /\ seq' = IF Abandons(c) THEN NoSequence ELSE seq
              /\ IF c \in C0 THEN held' = FALSE /\ ExecuteC0(c)
                 ELSE held' = (held \/ c # "del") /\ Keep

(* dispatchEscape(): DECSC, DECRC, RIS, a charset designation, or another. *)
DispatchEscape(c) ==
    /\ seq' = NoSequence
    /\ Goto("Ground")
    /\ UNCHANGED held
    /\ \/ /\ seq.inters = 0 /\ c = "digit" /\ UNCHANGED modes
          /\ \/ charsets' = [charsets EXCEPT !.savedG = charsets.g, !.savedGl = charsets.gl]
             \/ charsets' = [charsets EXCEPT !.g = charsets.savedG, !.gl = charsets.savedGl]
       \/ seq.inters = 0 /\ c = "other" /\ charsets' = PlainCharsets /\ modes' = PlainModes
       \/ /\ seq.inters > 0 /\ UNCHANGED modes
          /\ \E i \in {0, 1}, set \in {"ascii", "graphics"} :
                 /\ set = "graphics" => seq.inters = 1 /\ c = "digit"
                 /\ charsets' = [charsets EXCEPT !.g[i] = set]
       \/ Keep

(* dispatchCsi(), setMode() and softReset() as far as the parser keeps the *)
(* mode: DECSTR, LNM, DECCKM, bracketed paste.                             *)
DispatchCsi(c) ==
    /\ seq' = NoSequence
    /\ Goto("Ground")
    /\ UNCHANGED held
    /\ \/ c = "other" /\ seq.inters > 0 /\ ~seq.private /\ charsets' = PlainCharsets /\ modes' = PlainModes
       \/ /\ c = "other" /\ seq.params > 0 /\ seq.inters = 0
          /\ \E on \in BOOLEAN, m \in {"newLine", "cursorKeys", "paste"} :
                 /\ seq.private = (m # "newLine")
                 /\ modes' = [modes EXCEPT ![m] = on]
          /\ UNCHANGED charsets
       \/ Keep

Intermediate(next) ==
    seq' = [seq EXCEPT !.inters = Capped(@, MaxInter)] /\ Goto(next) /\ UNCHANGED held /\ Keep

Ignored == UNCHANGED <<state, held, seq, charsets, modes>>
Step(next) == Goto(next) /\ UNCHANGED <<held, seq, charsets, modes>>

InEscape(c) ==
    \/ c \in C0 /\ ExecuteC0(c) /\ UNCHANGED <<state, held, seq>>
    \/ c = "del" /\ Ignored
    \/ c = "inter" /\ Intermediate("EscapeIntermediate")
    \/ /\ c \notin C0 \cup {"del", "inter"}
       /\ IF state = "Escape" /\ c \in Finals \ {"other"}
          THEN Step(CASE c = "[" -> "CsiEntry" [] c = "]" -> "OscString" [] c = "P" -> "DcsEntry" [] OTHER -> "SosPmApcString")
          ELSE DispatchEscape(c)

InCsi(c) ==
    \/ c \in C0 /\ ExecuteC0(c) /\ UNCHANGED <<state, held, seq>>
    \/ c = "del" /\ Ignored
    \/ c = "inter" /\ Intermediate("CsiIntermediate")
    \/ /\ c \in ParamBytes /\ Keep /\ UNCHANGED held
       /\ CASE state = "CsiIntermediate" -> Goto("CsiIgnore") /\ UNCHANGED seq
            [] c # "private" /\ state # "CsiIntermediate" -> Collect(c) /\ Goto("CsiParam")
            [] c = "private" /\ state = "CsiEntry" -> seq' = [seq EXCEPT !.private = TRUE] /\ Goto("CsiParam")
            [] c = "private" /\ state = "CsiParam" -> Goto("CsiIgnore") /\ UNCHANGED seq
    \/ c \in Finals /\ DispatchCsi(c)

(* Mutant: the end of a malformed CSI sequence keeps what it collected.     *)
InCsiIgnoreKeeps(c) ==
    \/ c \in C0 /\ ExecuteC0(c) /\ UNCHANGED <<state, held, seq>>
    \/ c \in Finals /\ UNCHANGED seq /\ Goto("Ground") /\ UNCHANGED held /\ Keep
    \/ c \notin Finals \cup C0 /\ Ignored

InCsiIgnore(c) ==
    \/ c \in C0 /\ ExecuteC0(c) /\ UNCHANGED <<state, held, seq>>
    \/ c \in Finals /\ seq' = NoSequence /\ Goto("Ground") /\ UNCHANGED held /\ Keep
    \/ c \notin Finals \cup C0 /\ Ignored

InOsc(c) ==
    \/ c = "bel" /\ seq' = NoSequence /\ Goto("Ground") /\ UNCHANGED held /\ Keep
    \/ c \in {"c0", "del"} /\ Ignored
    \/ /\ c \notin C0 \cup {"del"}
       /\ seq' = [seq EXCEPT !.osc = Capped(@, MaxOsc)] /\ UNCHANGED <<state, held>> /\ Keep

(* A string is consumed and counted until ST, or until it is too long.     *)
InString(c) ==
    /\ seq' = [seq EXCEPT !.string = @ + 1]
    /\ UNCHANGED held /\ Keep
    /\ Goto(IF state \in {"DcsPassthrough", "DcsIgnore", "SosPmApcString"} \/ c \in C0 \cup {"del"} THEN state
            ELSE IF c \in Finals THEN "DcsPassthrough"
            ELSE IF c = "inter" THEN "DcsIntermediate"
            ELSE IF \/ state = "DcsEntry" /\ c # "colon"
                    \/ state = "DcsParam" /\ c \in {"digit", "semicolon"} THEN "DcsParam"
            ELSE "DcsIgnore")

(* processCodePoint()                                                      *)
ProcessCodePoint(c) ==
    \/ c = "esc" /\ Esc
    \/ c = "can" /\ Abort
    \/ c \in C1 /\ EightBit(c)
    \/ /\ c \notin {"esc", "can"} \cup C1
       /\ \/ (state = "Ground" \/ Abandons(c)) /\ Printed(c)
          \/ /\ ~Abandons(c)
             /\ \/ state \in {"Escape", "EscapeIntermediate"} /\ InEscape(c)
                \/ state \in {"CsiEntry", "CsiParam", "CsiIntermediate"} /\ InCsi(c)
                \/ state = "CsiIgnore" /\ InCsiIgnore(c)
                \/ state = "OscString" /\ InOsc(c)
                \/ state \in Strings /\ InString(c)

(* The end of a chunk hands the run over.                                  *)
EndOfChunk == held /\ held' = FALSE /\ UNCHANGED <<state, seq, charsets, modes>>

(* reset(), from "Reset terminal".                                         *)
ResetParser == /\ Goto("Ground")
               /\ held' = FALSE
               /\ seq' = NoSequence
               /\ charsets' = PlainCharsets
               /\ modes' = PlainModes

ParserNext == (\E c \in Class : ProcessCodePoint(c)) \/ EndOfChunk \/ ResetParser
ParserSpec == ParserInit /\ [][ParserNext]_parser

ParserTypeOK ==
    /\ state \in States
    /\ held \in BOOLEAN
    /\ seq \in [params : 0..MaxParams, subs : 0..MaxSubParams, inters : 0..MaxInter, private : BOOLEAN, osc : 0..MaxOsc,
                string : 0..MaxString, inSub : BOOLEAN, overflow : BOOLEAN]
    /\ charsets.g \in [{0, 1} -> {"ascii", "graphics"}] /\ charsets.gl \in {0, 1}
    /\ charsets.savedG \in [{0, 1} -> {"ascii", "graphics"}] /\ charsets.savedGl \in {0, 1}
    /\ modes \in [{"newLine", "cursorKeys", "paste"} -> BOOLEAN]

(* The screen sees output in the order it came: while a sequence is read,  *)
(* when a control may act on the screen at once, no text is still held     *)
(* back (processCodePoint, flushText).                                     *)
TextGoesFirst == held => state = "Ground"

(* No sequence inherits anything of the one before, also when noise broke  *)
(* that one off: in Ground and where a sequence starts, nothing collected  *)
(* is left (clearSequence).                                                *)
SequencesStartClean ==
    /\ state \in {"Ground", "Escape"} => seq = NoSequence
    /\ state = "CsiEntry" => seq = NoSequence
    /\ state # "OscString" => seq.osc = 0
    /\ state \notin Strings => seq.string = 0
    /\ state \notin {"CsiParam", "CsiIntermediate", "CsiIgnore"} => seq.params = 0 /\ ~seq.private

====
