---- MODULE TerminalView ----
(***************************************************************************)
(* The lines of a terminal and the view on them: TerminalScreen's grid,    *)
(* scrollback and alternate screen, and TerminalWidget's scroll position,  *)
(* selection and "pause output while selecting".  The selection and the    *)
(* view are numbers of lines counted from the oldest line kept, so they    *)
(* must follow whenever lines are dropped or moved.  A line is the number  *)
(* of the output that wrote it, zero while it is blank.                    *)
(***************************************************************************)
EXTENDS Integers, SequencesExt, FiniteSetsExt

CONSTANTS Heights,        \* numbers of rows the window can have
          Limits,         \* scrollback limits of the preferences
          MaxOutput,      \* bound: pieces of output
          MaxMoves,       \* bound: pieces that do not just print a line
          MaxQueue        \* m_pauseBufferLimit

VARIABLE t
(* grid                       TerminalScreen; its dropped counts from      *)
(*                            m_seenScrollbackDropped                      *)
(* bar, max, follow           the scroll bar and m_followOutput            *)
(* sel, selecting             the selection's two lines, a drag under way  *)
(* pausing, paused, queue     m_pauseWhileSelecting, m_outputPaused,       *)
(*                            m_pendingPaused                              *)
(* fed, moves, shown          pieces of output received, those that do    *)
(*                            not just print a line, and those parsed     *)
(* mark, top, bent            what the user marked and scrolled to, and    *)
(*                            whether the alternate screen was resized     *)

Blank == 0
NoSelection == [active |-> FALSE, anchor |-> 1, end |-> 1, some |-> FALSE]
NoMark == <<Blank, Blank>>
BlankLines(n) == [i \in 1..n |-> Blank]

(* --- The screen ------------------------------------------------------- *)

Lines(g) == g.back \o g.screen
At(g, i) == IF i \in DOMAIN Lines(g) THEN Lines(g)[i] ELSE Blank
Rows(g) == Len(g.screen)
WholeRegion(g) == g.top = 1 /\ g.bottom = Rows(g)

(* trimScrollback(): the oldest lines over the limit go, and are counted.  *)
Trimmed(g) ==
    LET excess == Max({0, Len(g.back) - g.limit})
    IN  [g EXCEPT !.back = SubSeq(@, excess + 1, Len(@)), !.dropped = @ + excess]

(* scrollRegionUp(1): the top line of the region goes to the scrollback    *)
(* when the region is the whole screen and the screen the primary one.     *)
ScrollUp(g, push) ==
    LET moved == [g EXCEPT !.screen = InsertAt(RemoveAt(@, g.top), g.bottom, Blank)]
    IN  IF push THEN Trimmed([moved EXCEPT !.back = Append(@, g.screen[g.top]), !.dirty = TRUE]) ELSE moved
ScrollDown(g) == [g EXCEPT !.screen = InsertAt(RemoveAt(@, g.bottom), g.top, Blank)]

LineFeed(g) ==
    IF g.cursor = g.bottom THEN ScrollUp(g, ~g.alt /\ WholeRegion(g))
    ELSE [g EXCEPT !.cursor = Min({@ + 1, Rows(g)})]

Write(g, id) == LineFeed([g EXCEPT !.screen[g.cursor] = id])

ReverseIndex(g) == IF g.cursor = g.top THEN ScrollDown(g) ELSE [g EXCEPT !.cursor = Max({1, @ - 1})]

InsertLine(g) == IF g.cursor \in g.top..g.bottom
                 THEN [g EXCEPT !.screen = InsertAt(RemoveAt(@, g.bottom), g.cursor, Blank)] ELSE g
DeleteLine(g) == IF g.cursor \in g.top..g.bottom
                 THEN [g EXCEPT !.screen = InsertAt(RemoveAt(@, g.cursor), g.bottom, Blank)] ELSE g

SetRegion(g, top, bottom) ==
    IF top < bottom THEN [g EXCEPT !.top = top, !.bottom = bottom, !.cursor = 1] ELSE g

(* CSI ? 1049 h and l, CSI 3 J, ESC c.                                     *)
EnterAlternate(g) ==
    IF g.alt THEN [g EXCEPT !.screen = BlankLines(Rows(g))]
    ELSE [g EXCEPT !.saved = g.screen, !.savedCursor = g.cursor, !.screen = BlankLines(Rows(g)), !.alt = TRUE]
LeaveAlternate(g) ==
    LET cursor == IF g.savedCursor = 0 THEN IF g.alt THEN g.cursor ELSE 1 ELSE g.savedCursor
        back   == IF g.alt THEN [g EXCEPT !.screen = g.saved, !.saved = <<>>, !.alt = FALSE] ELSE g
    IN  [back EXCEPT !.cursor = Min({cursor, Rows(g)})]
EraseScrollback(g) == [g EXCEPT !.back = <<>>, !.dirty = @ \/ g.back # <<>>]
FullReset(g) == [EraseScrollback(g) EXCEPT !.screen = BlankLines(Rows(g)), !.saved = <<>>, !.savedCursor = 0,
                    !.alt = FALSE, !.cursor = 1, !.top = 1, !.bottom = Rows(g)]

(* One screen of resize(): lines above the anchor leave first, into the    *)
(* scrollback if that is theirs; a taller screen takes them back.          *)
Fewer(s, b, anchor, n, push) ==
    LET up == Min({Len(s) - n, Max({0, anchor - n})})
    IN  [screen |-> SubSeq(s, up + 1, up + n), back |-> IF push THEN b \o SubSeq(s, 1, up) ELSE b, moved |-> -up]
More(s, b, n, pull) ==
    LET down == IF pull THEN Min({n - Len(s), Len(b)}) ELSE 0
    IN  [screen |-> SubSeq(b, Len(b) - down + 1, Len(b)) \o s \o BlankLines(n - Len(s) - down),
         back |-> SubSeq(b, 1, Len(b) - down), moved |-> down]
Fitted(s, b, anchor, n, mine) == IF Len(s) > n THEN Fewer(s, b, anchor, n, mine) ELSE More(s, b, n, mine)

(* Where the saved primary screen is anchored: its saved cursor, or its    *)
(* last line that is not blank.                                            *)
SavedAnchor(g) == IF g.savedCursor > 0 THEN g.savedCursor ELSE Max({1} \cup {i \in DOMAIN g.saved : g.saved[i] # Blank})

Resized(g, n) ==
    LET a == Fitted(g.screen, g.back, g.cursor, n, ~g.alt)
        p == Fitted(g.saved, a.back, SavedAnchor(g), n, TRUE)
    IN  Trimmed([g EXCEPT !.screen = a.screen,
                          !.cursor = Min({@ + a.moved, n}),
                          !.saved = IF g.alt THEN p.screen ELSE @,
                          !.savedCursor = IF g.alt /\ @ > 0 THEN Max({1, @ + p.moved}) ELSE @,
                          !.back = IF g.alt THEN p.back ELSE a.back,
                          !.top = 1, !.bottom = n,
                          !.dirty = (@ \/ (IF g.alt THEN p.back ELSE a.back) # g.back)])

(* pushScreenToScrollback() and clearAll()                                 *)
PushScreen(g) ==
    LET used == Max({g.cursor} \cup {i \in DOMAIN g.screen : g.screen[i] # Blank})
        kept == IF g.alt THEN g ELSE Trimmed([g EXCEPT !.back = @ \o SubSeq(g.screen, 1, used), !.dirty = TRUE])
    IN  [kept EXCEPT !.screen = BlankLines(Rows(g)), !.cursor = 1]
ClearAllLines(g) == [EraseScrollback(g) EXCEPT !.screen = BlankLines(Rows(g)), !.cursor = 1,
                                               !.saved = BlankLines(Len(g.saved))]

(* --- Output ----------------------------------------------------------- *)

(* What a piece of output does to the screen, and whether it moves lines   *)
(* other than by scrolling the whole primary screen.                       *)
Kinds == {"line", "reverse", "insert", "delete", "region", "alternate", "primary", "erase", "reset"}
Apply(g, piece) ==
    CASE piece.kind = "line" -> Write(g, piece.id)
      [] piece.kind = "reverse" -> ReverseIndex(g)
      [] piece.kind = "insert" -> InsertLine(g)
      [] piece.kind = "delete" -> DeleteLine(g)
      [] piece.kind = "region" -> SetRegion(g, Min({2, Rows(g)}), Rows(g))
      [] piece.kind = "alternate" -> EnterAlternate(g)
      [] piece.kind = "primary" -> LeaveAlternate(g)
      [] piece.kind = "erase" -> EraseScrollback(g)
      [] piece.kind = "reset" -> FullReset(g)
Scrolls(g, piece) == piece.kind = "line" /\ ~g.alt /\ WholeRegion(g)

(* AnsiParser::feed() of a chunk: one batch, one notification at its end.  *)
Fed(g, chunk) == FoldLeft(Apply, g, chunk)
OnlyScrolls(g, chunk) ==
    \A i \in DOMAIN chunk : Scrolls(FoldLeft(Apply, g, SubSeq(chunk, 1, i - 1)), chunk[i])

(* --- The view --------------------------------------------------------- *)

(* updateScrollBar()                                                       *)
BarUpdated(w) ==
    LET max   == Len(w.grid.back)
        value == IF w.follow THEN max ELSE Min({w.bar, max})
    IN  [w EXCEPT !.bar = value, !.max = max, !.follow = (value = max)]

ScrolledToBottom(w) == [w EXCEPT !.bar = w.max, !.follow = TRUE]

(* Mutants: the view, or the selection, does not follow dropped lines.      *)
ShiftViewOnly(w, delta) == [w EXCEPT !.bar = IF w.follow THEN @ ELSE Max({0, @ - delta})]
ShiftSelectionOnly(w, delta) ==
    [w EXCEPT !.sel.anchor = Max({1, @ - delta}), !.sel.end = Max({1, @ - delta})]

(* onScrollbackChanged(): lines dropped from the top shift the view, when  *)
(* it does not follow the output, and the selection.                       *)
Shift(w, delta) ==
    LET s == w.sel
        a == s.anchor - delta
        e == s.end - delta
    IN  [w EXCEPT !.bar = IF w.follow THEN @ ELSE Max({0, @ - delta}),
                  !.sel = IF ~s.active THEN s
                          ELSE IF Max({a, e}) < 1 THEN NoSelection
                          ELSE [s EXCEPT !.anchor = Max({1, a}), !.end = Max({1, e})],
                  !.selecting = @ /\ ~(s.active /\ Max({a, e}) < 1)]

Changed(w) ==
    IF ~w.grid.dirty THEN w
    ELSE BarUpdated([Shift(w, w.grid.dropped) EXCEPT !.grid.dropped = 0, !.grid.dirty = FALSE])

(* The widget w parses a chunk; pieces out of order would be noticed.      *)
Parse(w, chunk) ==
    LET quiet == OnlyScrolls(w.grid, chunk)
    IN  Changed([w EXCEPT !.grid = Fed(@, chunk),
                          !.shown = FoldLeft(LAMBDA n, piece : IF piece.id = n + 1 THEN piece.id ELSE 0, @, chunk),
                          !.mark = IF quiet THEN @ ELSE NoMark,
                          !.top = IF quiet THEN @ ELSE Blank])

(* Mutant: what waited is parsed on resuming and waits on.                  *)
ResumedKeepsQueue(w) == IF w.paused THEN Parse([w EXCEPT !.paused = FALSE], w.queue) ELSE w

(* resumeOutput()                                                          *)
Resumed(w) == IF w.paused THEN Parse([w EXCEPT !.paused = FALSE, !.queue = <<>>], w.queue) ELSE w

(* clearSelection(): nothing left to protect, so the output flows again.   *)
Deselected(w) == Resumed([w EXCEPT !.sel = NoSelection, !.selecting = @ /\ ~w.sel.active, !.mark = NoMark])

(* The widget after the screen became g.  A selection that fell off the    *)
(* top ends the pause.                                                     *)
Noticed(w, g) == LET next == Changed([w EXCEPT !.grid = g])
                 IN  IF w.sel.active /\ ~next.sel.active THEN Resumed(next) ELSE next

(* feedData(): a paused display queues, up to its limit.                   *)
Received(w, chunk) ==
    IF ~w.paused THEN Parse(w, chunk)
    ELSE LET more == [w EXCEPT !.queue = @ \o chunk]
         IN  IF Len(more.queue) > MaxQueue THEN Resumed(more) ELSE more

(* setSelectionRange() and the mouse: a selection that is not empty stops  *)
(* the display.                                                            *)
Selected(w, anchor, end, some) ==
    [w EXCEPT !.sel = [active |-> TRUE, anchor |-> anchor, end |-> end, some |-> some],
              !.paused = @ \/ (some /\ w.pausing),
              !.mark = <<At(w.grid, anchor), At(w.grid, end)>>,
              !.bent = FALSE]

ViewInit ==
    \E n \in Heights, limit \in Limits :
        t = [grid |-> [screen |-> BlankLines(n), back |-> <<>>, dropped |-> 0, limit |-> limit, alt |-> FALSE, saved |-> <<>>,
                       savedCursor |-> 0, cursor |-> 1, top |-> 1, bottom |-> n, dirty |-> FALSE],
             bar |-> 0, max |-> 0, follow |-> TRUE, sel |-> NoSelection, selecting |-> FALSE,
             pausing |-> TRUE, paused |-> FALSE, queue |-> <<>>, fed |-> 0, moves |-> 0, shown |-> 0,
             mark |-> NoMark, top |-> Blank, bent |-> FALSE]

Visible == (t.bar + 1)..(t.bar + Rows(t.grid))

Moves(kinds) == Cardinality({i \in DOMAIN kinds : kinds[i] # "line"})
Output(kinds) ==
    /\ t.fed + Len(kinds) <= MaxOutput
    /\ t.moves + Moves(kinds) <= MaxMoves
    /\ t' = Received([t EXCEPT !.fed = @ + Len(kinds), !.moves = @ + Moves(kinds)],
                     [i \in DOMAIN kinds |-> [kind |-> kinds[i], id |-> t.fed + i]])

(* mousePressEvent(), mouseMoveEvent(), mouseReleaseEvent()                *)
Press(l) == t' = [Selected(t, l, l, FALSE) EXCEPT !.selecting = TRUE]
Drag(l) == t.selecting /\ t' = Selected(t, t.sel.anchor, l, TRUE)
ExtendTo(l) == t.sel.active /\ t' = [Selected(t, t.sel.anchor, l, TRUE) EXCEPT !.selecting = TRUE]
Release ==
    /\ t.selecting
    /\ LET up == [t EXCEPT !.selecting = FALSE]
       IN  t' = IF t.sel.active /\ ~t.sel.some THEN Resumed([up EXCEPT !.sel.active = FALSE, !.mark = NoMark]) ELSE up

(* mouseDoubleClickEvent(), a triple click, findNext()                     *)
SelectAt(l) == t' = [Selected(t, l, l, TRUE) EXCEPT !.selecting = FALSE]

SelectAll ==
    LET text == {i \in DOMAIN Lines(t.grid) : Lines(t.grid)[i] # Blank}
    IN  t' = IF text = {} THEN Deselected(t) ELSE Selected(t, 1, Max(text), TRUE)

(* copySelection() in mark mode, Escape, Ctrl+C with a selection.          *)
CopyOrCancel == t.sel.active /\ t' = Deselected(t)

SetPauseWhileSelecting(on) ==
    /\ on # t.pausing
    /\ t' = IF on THEN [t EXCEPT !.pausing = TRUE] ELSE Resumed([t EXCEPT !.pausing = FALSE])

(* The scroll bar's valueChanged(), from the wheel, the keys and find.     *)
Scroll(v) ==
    /\ v \in 0..t.max /\ v # t.bar
    /\ t' = [t EXCEPT !.bar = v, !.follow = (v = t.max), !.top = IF v = t.max THEN Blank ELSE At(t.grid, v + 1)]

(* resizeEvent(): sizeChanged() comes before the change of the scrollback. *)
ResizeTo(n) ==
    /\ n # Rows(t.grid)
    /\ LET g == Resized(t.grid, n)
       IN  t' = Noticed([BarUpdated([t EXCEPT !.grid = g]) EXCEPT !.bent = @ \/ t.grid.alt,
                             !.top = IF t.grid.alt THEN Blank ELSE @], g)

SetScrollbackMax(limit) ==
    /\ limit # t.grid.limit
    /\ LET g == Trimmed([t.grid EXCEPT !.limit = limit])
       IN  t' = BarUpdated(Noticed(t, [g EXCEPT !.dirty = g.back # t.grid.back]))

(* The clears: what waited is parsed after them, on the cleared screen.    *)
Unpaused(w) == [w EXCEPT !.paused = FALSE, !.queue = <<>>]
Cleared(w, g) == ScrolledToBottom(BarUpdated(Noticed(w, g)))

ClearScreen ==
    LET w == IF t.paused THEN Deselected(Unpaused(t)) ELSE t
    IN  t' = Received(Cleared(w, PushScreen(t.grid)), t.queue)
ClearScrollback ==
    t' = Received(BarUpdated(Noticed(Deselected(Unpaused(t)), EraseScrollback(t.grid))), t.queue)
ClearAll == t' = Received(Cleared(Deselected(Unpaused(t)), ClearAllLines(t.grid)), t.queue)
ResetTerminal == t' = Received(Cleared(Deselected(Unpaused(t)), FullReset(t.grid)), t.queue)

ViewNext ==
    \/ \E kinds \in UNION {[1..n -> Kinds] : n \in 1..2} : Output(kinds)
    \/ \E l \in Visible : Press(l)
    \/ \E l \in Visible : Drag(l)
    \/ \E l \in Visible : ExtendTo(l)
    \/ \E l \in Visible : SelectAt(l)
    \/ Release \/ SelectAll \/ CopyOrCancel
    \/ \E on \in BOOLEAN : SetPauseWhileSelecting(on)
    \/ \E v \in 0..t.max : Scroll(v)
    \/ \E n \in Heights : ResizeTo(n)
    \/ \E limit \in Limits : SetScrollbackMax(limit)
    \/ ClearScreen \/ ClearScrollback \/ ClearAll \/ ResetTerminal

ViewSpec == ViewInit /\ [][ViewNext]_t

(* --- Properties ------------------------------------------------------- *)

ViewTypeOK ==
    /\ Rows(t.grid) \in Heights
    /\ t.grid.cursor \in 1..Rows(t.grid) /\ t.grid.savedCursor \in 0..(Max(Heights) + Max(Limits))
    /\ 1 <= t.grid.top /\ t.grid.top <= t.grid.bottom /\ t.grid.bottom <= Rows(t.grid)
    /\ Len(t.grid.back) <= t.grid.limit
    /\ Len(t.grid.saved) = IF t.grid.alt THEN Rows(t.grid) ELSE 0
    /\ t.max = Len(t.grid.back) /\ t.bar \in 0..t.max /\ t.follow = (t.bar = t.max)

Holds(l, i, id) == id # Blank /\ id \in Range(l) => i \in DOMAIN l /\ l[i] = id

(* "The selection stays under the same text": while the text the user      *)
(* marked exists, the selection's ends are on its lines, whatever scrolled *)
(* away, was dropped from a full scrollback, or moved with the height of   *)
(* the window (onScrollbackChanged).                                       *)
SelectionFollowsText ==
    t.sel.active /\ ~t.bent =>
        /\ Holds(Lines(t.grid), t.sel.anchor, t.mark[1])
        /\ Holds(Lines(t.grid), t.sel.end, t.mark[2])

(* A view scrolled back stays on the line the user scrolled to for as long *)
(* as it is kept, and does not drift with the output.                      *)
ViewStays == ~t.follow => Holds(Lines(t.grid), t.bar + 1, t.top)

(* "Never lose data": whatever was paused, resumed, cleared or overflowed, *)
(* output is parsed once and in the order it came, and nothing waits while *)
(* the display runs.                                                       *)
OutputInOrder ==
    /\ t.shown + Len(t.queue) = t.fed
    /\ \A i \in DOMAIN t.queue : t.queue[i].id = t.shown + i
    /\ ~t.paused => t.queue = <<>>

(* "Screen, scrollback and selection are frozen" while output is paused    *)
(* (docs/DESIGN.md:259).  The code moves the primary screen's lines in and *)
(* out of the scrollback when the alternate screen is resized.             *)
PausedIsFrozen ==
    t.paused => /\ Holds(Lines(t.grid), t.sel.anchor, t.mark[1])
                /\ Holds(Lines(t.grid), t.sel.end, t.mark[2])

====
