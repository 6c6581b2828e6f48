---------------------------- MODULE MCSessionData ----------------------------
(* What the bytes of a session pass through, each part checked by itself: a    *)
(* behaviour is one of a single part, chosen when it begins, and the other     *)
(* parts rest in an initial state.                                             *)
EXTENDS Sequences

CONSTANTS MaxBytes, MaxChunk,
          MaxParams, MaxSubParams, MaxString, MaxOsc, MaxInter,
          MaxCols,
          Heights, Limits, MaxOutput, MaxMoves, MaxQueue,
          MaxExtras

VARIABLES part,
          given, text, bytes, pending, carry,
          state, held, seq, charsets, modes,
          row, col, wrapNext, autoWrap, insert, last,
          t,
          format, active, atStart, file, logged, broken, extras, replay, data, fed

Stream == INSTANCE Utf8Stream
Parser == INSTANCE AnsiParser
Row == INSTANCE TerminalRow
View == INSTANCE TerminalView
Log == INSTANCE SessionLog

ofStream == <<given, text, bytes, pending, carry>>
ofParser == <<state, held, seq, charsets, modes>>
ofRow == <<row, col, wrapNext, autoWrap, insert, last>>
ofLog == <<format, active, atStart, file, logged, broken, extras, replay, data, fed>>

Init ==
    /\ part \in {"stream", "parser", "row", "view", "log"}
    /\ Stream!StreamInit
    /\ Parser!ParserInit
    /\ Row!RowInit
    /\ View!ViewInit
    /\ part # "view" => t.grid.bottom = (CHOOSE n \in Heights : TRUE) /\ t.grid.limit = (CHOOSE l \in Limits : TRUE)
    /\ Log!LogInit
    /\ part # "log" => format = "text"

Next ==
    \/ part = "stream" /\ Stream!StreamNext /\ UNCHANGED <<part, ofParser, ofRow, t, ofLog>>
    \/ part = "parser" /\ Parser!ParserNext /\ UNCHANGED <<part, ofStream, ofRow, t, ofLog>>
    \/ part = "row" /\ Row!RowNext /\ UNCHANGED <<part, ofStream, ofParser, t, ofLog>>
    \/ part = "view" /\ View!ViewNext /\ UNCHANGED <<part, ofStream, ofParser, ofRow, ofLog>>
    \/ part = "log" /\ Log!LogNext /\ UNCHANGED <<part, ofStream, ofParser, ofRow, t>>

Spec == Init /\ [][Next]_<<part, ofStream, ofParser, ofRow, t, ofLog>>

\* The screen shows what the board wrote, however the link cuts it: a character cut in two is
\* decoded once, text stays before the control behind it, no sequence inherits what an earlier
\* one collected, a wide character is never halved, and a line wraps from its last column only
\* (decodeChunk, AnsiParser::flushText, clearSequence, TerminalScreen::eraseCells, doPutChar).
ScreenIsTheOutput ==
    /\ Stream!CutsDoNotShow
    /\ Parser!TextGoesFirst /\ Parser!SequencesStartClean
    /\ Row!WideCharsAreWhole /\ Row!WrapsFromTheEdge

\* A selection and a view scrolled back stay on their lines while output goes on, paused output
\* is parsed once and in order, and the replay of a log is what was shown (onScrollbackChanged,
\* resumeOutput, SessionLogger::write, stripTimestamps).
LinesStayTheirOwn ==
    /\ View!SelectionFollowsText /\ View!ViewStays /\ View!OutputInOrder
    /\ Log!ReplayIsTheOutput
=============================================================================
