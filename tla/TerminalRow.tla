---- MODULE TerminalRow ----
(***************************************************************************)
(* One line of the screen and the cursor on it (TerminalScreen): the       *)
(* operations that write, erase, shift and fit cells.  A character of      *)
(* double width takes a lead cell and a trail cell, and every operation    *)
(* may start or end in the middle of one.  The other lines are not kept: a *)
(* line the cursor moves to is any line whose wide characters are whole.   *)
(***************************************************************************)
EXTENDS Integers, FiniteSetsExt

CONSTANT MaxCols     \* bound: columns of the grid

VARIABLES row,       \* cells of the cursor's line
          col,       \* m_cursor.col, from 1
          wrapNext,  \* m_pendingWrap
          autoWrap,  \* m_autoWrap
          insert,    \* m_insertMode
          last       \* width of m_lastChar, zero when there is none

line == <<row, col, wrapNext, autoWrap, insert, last>>

Cell == {"blank", "narrow", "lead", "trail"}
Cols == DOMAIN row
Last == Max(Cols)

Clamp(n, lo, hi) == Max({lo, Min({n, hi})})
BlankLine(n) == [c \in 1..n |-> "blank"]

Whole(r) == \A c \in DOMAIN r : /\ r[c] = "lead" => c + 1 \in DOMAIN r /\ r[c + 1] = "trail"
                                /\ r[c] = "trail" => c - 1 \in DOMAIN r /\ r[c - 1] = "lead"

(* Mutant: erasing does not look at the halves beyond its ends.            *)
EraseBare(r, from, to) == [c \in DOMAIN r |-> IF c \in from..to THEN "blank" ELSE r[c]]

(* eraseCells(): from..to, and the other half of a wide character cut by   *)
(* either end.                                                             *)
Erase(r, from, to) ==
    LET cut(c) == \/ c = from - 1 /\ r[from] = "trail"
                  \/ c = to + 1 /\ to \in DOMAIN r /\ r[to] = "lead"
    IN  [c \in DOMAIN r |-> IF c \in from..to \/ (from <= to /\ cut(c)) THEN "blank" ELSE r[c]]

(* fixWideCells(): a half without its other half becomes blank.  The scan  *)
(* goes left to right, so a trail is judged by the lead already fixed.     *)
Fixed(r) ==
    LET fix[c \in DOMAIN r] ==
            CASE r[c] = "lead" -> IF c + 1 \in DOMAIN r /\ r[c + 1] = "trail" THEN "lead" ELSE "blank"
              [] r[c] = "trail" -> IF c - 1 \in DOMAIN r /\ fix[c - 1] = "lead" THEN "trail" ELSE "blank"
              [] OTHER -> r[c]
    IN  fix

(* fitLineToColumns()                                                      *)
Fit(r, n) == [c \in 1..n |-> IF c \notin DOMAIN r \/ (c = n /\ n < Max(DOMAIN r) /\ r[c] = "lead") THEN "blank" ELSE r[c]]

Placed(r, c, w) == IF w = 2 THEN [r EXCEPT ![c] = "lead", ![c + 1] = "trail"] ELSE [r EXCEPT ![c] = "narrow"]

(* Cells from c on move n to the right, or from c + n on move n left.      *)
ShiftRight(r, c, n) == [k \in DOMAIN r |-> IF k < c THEN r[k] ELSE IF k < c + n THEN "blank" ELSE r[k - n]]
ShiftLeft(r, c, n) == [k \in DOMAIN r |-> IF k < c THEN r[k] ELSE IF k + n \in DOMAIN r THEN r[k + n] ELSE "blank"]

(* insertChars() and deleteChars() first blank a wide character whose      *)
(* trail is under the cursor.                                              *)
Opened(r, c) == IF r[c] = "trail" THEN Erase(r, c, c) ELSE r

RowInit == /\ row = BlankLine(MaxCols)
           /\ col = 1
           /\ wrapNext = FALSE
           /\ autoWrap = TRUE
           /\ insert = FALSE
           /\ last = 0

(* doPutChar() on the line r with the cursor at c.                         *)
Put(r, c, w) ==
    LET opened == IF insert THEN ShiftRight(Opened(r, c), c, w) ELSE Erase(r, c, c + w - 1)
        placed == Placed(opened, c, w)
        next   == c + w
    IN  /\ row' = IF insert THEN Fixed(placed) ELSE placed
        /\ col' = Min({next, Last})
        /\ wrapNext' = (next > Last /\ autoWrap)

(* A wide character in the last column without autowrap: a narrow cell.    *)
PutNarrow(r) ==
    /\ row' = [Erase(r, Last, Last) EXCEPT ![Last] = "narrow"]
    /\ col' = Last
    /\ wrapNext' = FALSE

Width(w) == IF Last < 2 THEN 1 ELSE w

(* A whole character: a pending wrap, then a wrap for want of a column,    *)
(* take the cursor to the line below, which may be any.                    *)
PutChar(w, below) ==
    /\ w > 0
    /\ LET r == IF wrapNext THEN below ELSE row
           c == IF wrapNext THEN 1 ELSE col
       IN  IF Width(w) = 2 /\ c = Last
           THEN IF autoWrap THEN Put(below, 1, 2) ELSE PutNarrow(r)
           ELSE Put(r, c, Width(w))
    /\ last' = w
    /\ UNCHANGED <<autoWrap, insert>>

RepeatLastChar(below) == last > 0 /\ PutChar(last, below)

(* ICH, DCH, ECH and EL.                                                   *)
Edited(r) == row' = r /\ wrapNext' = FALSE /\ UNCHANGED <<col, autoWrap, insert, last>>
InsertChars(n) == Edited(Fixed(ShiftRight(Opened(row, col), col, Clamp(n, 1, Last - col + 1))))
DeleteChars(n) == Edited(Fixed(ShiftLeft(Opened(row, col), col, Clamp(n, 1, Last - col + 1))))
EraseChars(n) == Edited(Erase(row, col, col + Clamp(n, 1, Last - col + 1) - 1))
EraseInLine(mode) == Edited(CASE mode = 0 -> Erase(row, col, Last)
                              [] mode = 1 -> Erase(row, 1, col)
                              [] mode = 2 -> Erase(row, 1, Last))

(* Cursor movement: HT, BS, CR, CHA and the moves to another line.         *)
MoveTo(c) == col' = Clamp(c, 1, Last) /\ wrapNext' = FALSE /\ UNCHANGED <<row, autoWrap, insert, last>>
OtherLine(r, c) == row' = r /\ col' = c /\ wrapNext' = FALSE /\ UNCHANGED <<autoWrap, insert, last>>

\* Mutant: turning autowrap off leaves a pending wrap.
SetAutoWrapOnly(on) == autoWrap' = on /\ UNCHANGED <<row, col, wrapNext, insert, last>>

SetAutoWrap(on) == autoWrap' = on /\ wrapNext' = (wrapNext /\ on) /\ UNCHANGED <<row, col, insert, last>>
SetInsertMode(on) == insert' = on /\ UNCHANGED <<row, col, wrapNext, autoWrap, last>>

(* resize(): the line is cut or padded, the cursor stays inside.           *)
Resize(n) == /\ n # Last
             /\ row' = Fit(row, n)
             /\ col' = Min({col, n})
             /\ wrapNext' = FALSE
             /\ UNCHANGED <<autoWrap, insert, last>>

WholeRows(n) == {r \in [1..n -> Cell] : Whole(r)}

RowNext ==
    \/ \E w \in {1, 2}, below \in WholeRows(Last) : PutChar(w, below)
    \/ \E below \in WholeRows(Last) : RepeatLastChar(below)
    \/ \E n \in Cols : InsertChars(n) \/ DeleteChars(n) \/ EraseChars(n)
    \/ \E mode \in 0..2 : EraseInLine(mode)
    \/ \E c \in 0..(Last + 1) : MoveTo(c)
    \/ \E r \in WholeRows(Last), c \in Cols : OtherLine(r, c)
    \/ \E on \in BOOLEAN : SetAutoWrap(on) \/ SetInsertMode(on)
    \/ \E n \in 1..MaxCols : Resize(n)

RowSpec == RowInit /\ [][RowNext]_line

RowTypeOK == /\ \E n \in 1..MaxCols : row \in [1..n -> Cell]
             /\ col \in Cols
             /\ wrapNext \in BOOLEAN /\ autoWrap \in BOOLEAN /\ insert \in BOOLEAN
             /\ last \in 0..2

(* "Never leave half of a wide character behind" (eraseCells): whatever    *)
(* writes, erases, shifts or cuts the line, each lead cell is followed by  *)
(* its trail and each trail follows its lead.                              *)
WideCharsAreWhole == Whole(row)

(* The cursor waits to wrap only behind a character in the last column and *)
(* only with autowrap on, so no move or mode leaves a wrap to be done from *)
(* somewhere else.                                                         *)
WrapsFromTheEdge == wrapNext => col = Last /\ autoWrap

====
