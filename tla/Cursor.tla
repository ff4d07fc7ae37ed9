------------------------------- MODULE Cursor -------------------------------
(***************************************************************************)
(* The cursor of each terminal (x_pos and y_pos) under its two writers     *)
(* (src/lib.c): putc() and do_backspace(), which run inside the keyboard   *)
(* interrupt with interrupts off and work on the visible terminal, and     *)
(* putc_buffer(), which runs in the system call terminal_write() of the    *)
(* terminal's own process with interrupts on.  Between any two accesses of *)
(* putc_buffer() the handler may move the same cursor.  So may it between  *)
(* the two halves of the clear_setpos() in terminal_read().                *)
(*                                                                         *)
(* A position is a record of a column, a row and the number of lines that  *)
(* have been scrolled off since some moment.  What the cells hold is the   *)
(* subject of Display.                                                     *)
(***************************************************************************)
EXTENDS Integers

CONSTANTS Terminals,    \* one process of each runs and makes system calls
          NUM_COLS, NUM_ROWS,
          MaxRow        \* bound: the last row that is followed off the screen

ASSUME CursorAssumption ==
    /\ NUM_COLS \in Nat \ {0, 1}
    /\ NUM_ROWS \in Nat \ {0, 1}
    /\ MaxRow \in Nat /\ MaxRow >= NUM_ROWS

LastRow == NUM_ROWS - 1
Kinds == {"char", "newline"}

VARIABLES
    pos,            \* pos[t]: x_pos and y_pos of terminal t
    active,         \* the visible terminal
    at,             \* at[t]: where the process of t is in its system call
    held,           \* held[t]: the value it has loaded to increment
    goal,           \* goal[t]: where its call should end (history)
    disturbed       \* disturbed[t]: another one moved the cursor (history)

cvars == <<pos, active, at, held, goal, disturbed>>

Cell(col, row, up) == [col |-> col, row |-> row, up |-> up]
Home == Cell(0, 0, 0)
Leave == "user"     \* outside of the system calls

-----------------------------------------------------------------------------
(* putc() and do_backspace(), which nothing interrupts.                    *)

\* Fault: the last row is not the one below which there is none.
NewLine_OffByOne(p) ==
    IF p.row = NUM_ROWS THEN Cell(0, p.row, p.up + 1)
    ELSE Cell(0, p.row + 1, p.up)

\* In the last row the display is shifted instead, and only there.
NewLine(p) ==
    IF p.row = LastRow THEN Cell(0, p.row, p.up + 1)
    ELSE Cell(0, p.row + 1, p.up)

PutC(p, kind) ==
    IF kind = "newline" \/ p.col + 1 >= NUM_COLS THEN NewLine(p)
    ELSE Cell(p.col + 1, p.row, p.up)

Back(p) == IF p.col # 0 THEN Cell(p.col - 1, p.row, p.up)
           ELSE Cell(NUM_COLS - 1, p.row - 1, p.up)

\* Fault: the way back from the blank does not cross the line.
DoBackspace_InRow(p) ==
    IF p.col = 0 /\ p.row = 0 THEN p
    ELSE LET b == PutC(Back(p), "char")
         IN  IF b.col # 0 THEN Cell(b.col - 1, b.row, b.up) ELSE b

\* Fault: the upper left corner is not looked for.
DoBackspace_NoCorner(p) == Back(PutC(Back(p), "char"))

\* One cell back, a blank over what is there, and back again.
DoBackspace(p) ==
    IF p.col = 0 /\ p.row = 0 THEN p ELSE Back(PutC(Back(p), "char"))

-----------------------------------------------------------------------------
(* The keyboard interrupt: it works on the visible terminal.               *)

\* Terminal t's cursor is moved by someone else than its process.
Move(t, p) ==
    /\ p.row <= MaxRow
    /\ pos' = [pos EXCEPT ![t] = Cell(p.col, p.row, 0)]
    /\ disturbed' = [disturbed EXCEPT ![t] = at[t] # Leave]
    /\ UNCHANGED <<active, at, held, goal>>

\* A key that is printed, Enter, the newline of a filled line, one character
\* of a kernel message.
Key == \E kind \in Kinds : Move(active, PutC(pos[active], kind))

KeyBackspace == Move(active, DoBackspace(pos[active]))

\* Alt-Fn: the terminals keep their cursors.
SwitchTerminal ==
    /\ \E t \in Terminals \ {active} : active' = t
    /\ UNCHANGED <<pos, at, held, goal, disturbed>>

\* halt() of a terminal's shell, interrupts off: clear_setpos(0, 0).
HaltClear == Move(active, Home)

-----------------------------------------------------------------------------
(* putc_buffer() for the process of terminal t, one access a step.         *)

\* Where a character leads from p, by the number of the cell it is in.
Successor(p, kind) ==
    LET cell == p.row * NUM_COLS + p.col
        next == IF kind = "newline" THEN (p.row + 1) * NUM_COLS ELSE cell + 1
        row  == next \div NUM_COLS
    IN  IF row > LastRow THEN Cell(next % NUM_COLS, LastRow, row - LastRow)
        ELSE Cell(next % NUM_COLS, row, 0)

\* The call of a process begins.
Enter(t, kind, to) ==
    /\ at[t] = Leave
    /\ at' = [at EXCEPT ![t] = to]
    /\ goal' = [goal EXCEPT ![t] = Successor(pos[t], kind)]
    \* From below the screen there is no such cell.
    /\ disturbed' = [disturbed EXCEPT ![t] = pos[t].row > LastRow]
    /\ pos' = [pos EXCEPT ![t] = Cell(@.col, @.row, 0)]
    /\ UNCHANGED active

Step(t, from, to) ==
    /\ at[t] = from
    /\ at' = [at EXCEPT ![t] = to]
    /\ goal' = IF to = Leave THEN [goal EXCEPT ![t] = Home] ELSE goal
    /\ held' = IF to = Leave THEN [held EXCEPT ![t] = 0] ELSE held
    /\ UNCHANGED <<active, disturbed>>

\* x_pos++ and y_pos++ load the value here and store it in a later step.
WriteChar(t) ==
    /\ Enter(t, "char", "store_col")
    /\ held' = [held EXCEPT ![t] = pos[t].col]

WriteNewLine(t) ==
    /\ Enter(t, "newline", "test_row")
    /\ UNCHANGED held

StoreCol(t) ==
    /\ Step(t, "store_col", "test_col")
    /\ pos' = [pos EXCEPT ![t] = Cell(held[t] + 1, @.row, @.up)]

\* Fault: the line is one cell too long.
TestCol_OffByOne(t) ==
    /\ UNCHANGED pos
    /\ \/ pos[t].col > NUM_COLS /\ Step(t, "test_col", "test_row")
       \/ pos[t].col <= NUM_COLS /\ Step(t, "test_col", Leave)

TestCol(t) ==
    /\ UNCHANGED pos
    /\ \/ pos[t].col >= NUM_COLS /\ Step(t, "test_col", "test_row")
       \/ pos[t].col < NUM_COLS /\ Step(t, "test_col", Leave)

TestRow(t) ==
    \/ /\ pos[t].row = LastRow
       /\ Step(t, "test_row", "zero_col")
       /\ pos' = [pos EXCEPT ![t] = Cell(@.col, @.row, 1)]
    \/ /\ pos[t].row # LastRow
       /\ Step(t, "test_row", "load_row")
       /\ UNCHANGED pos

LoadRow(t) ==
    /\ at[t] = "load_row"
    /\ at' = [at EXCEPT ![t] = "store_row"]
    /\ held' = [held EXCEPT ![t] = pos[t].row]
    /\ UNCHANGED <<pos, active, goal, disturbed>>

StoreRow(t) ==
    /\ held[t] < MaxRow
    /\ Step(t, "store_row", "zero_col")
    /\ pos' = [pos EXCEPT ![t] = Cell(@.col, held[t] + 1, @.up)]

ZeroCol(t) ==
    /\ Step(t, "zero_col", Leave)
    /\ pos' = [pos EXCEPT ![t] = Cell(0, @.row, @.up)]

-----------------------------------------------------------------------------
(* terminal_read() of a Ctrl-L in the process of t: clear_setpos(), which  *)
(* looks for the visible terminal once for each coordinate.                *)

ClearCol(t) ==
    /\ at[t] = Leave
    /\ at' = [at EXCEPT ![t] = "clear_row"]
    /\ pos' = [pos EXCEPT ![active] = Cell(0, @.row, @.up)]
    /\ disturbed' = [disturbed EXCEPT ![active] = TRUE, ![t] = TRUE]
    /\ UNCHANGED <<active, held, goal>>

ClearRow(t) ==
    /\ at[t] = "clear_row"
    /\ at' = [at EXCEPT ![t] = Leave]
    /\ pos' = [pos EXCEPT ![active] = Cell(@.col, 0, @.up)]
    /\ disturbed' = [disturbed EXCEPT ![active] = TRUE]
    /\ UNCHANGED <<active, held, goal>>

-----------------------------------------------------------------------------

CInit ==
    /\ pos = [t \in Terminals |-> Home]
    /\ active \in Terminals
    /\ at = [t \in Terminals |-> Leave]
    /\ held = [t \in Terminals |-> 0]
    /\ goal = [t \in Terminals |-> Home]
    /\ disturbed = [t \in Terminals |-> FALSE]

CNext ==
    \/ Key \/ KeyBackspace \/ SwitchTerminal \/ HaltClear
    \/ \E t \in Terminals :
          \/ WriteChar(t) \/ WriteNewLine(t)
          \/ StoreCol(t) \/ TestCol(t)
          \/ TestRow(t) \/ LoadRow(t) \/ StoreRow(t) \/ ZeroCol(t)
          \/ ClearCol(t) \/ ClearRow(t)

CSpec == CInit /\ [][CNext]_cvars

-----------------------------------------------------------------------------
(* Properties.                                                             *)

Positions == [col : 0 .. NUM_COLS, row : 0 .. MaxRow, up : {0, 1}]

\* In particular no row and no column is ever negative, although
\* do_backspace() decrements both.
CTypeOK ==
    /\ pos \in [Terminals -> Positions]
    /\ active \in Terminals
    /\ at \in [Terminals -> {Leave, "store_col", "test_col", "test_row",
                             "load_row", "store_row", "zero_col", "clear_row"}]
    /\ held \in [Terminals -> Nat]
    /\ disturbed \in [Terminals -> BOOLEAN]

\* do_backspace() after putc() of a key finds the cell of that key: also
\* over the end of a line, also when the key or the blank that erases it has
\* shifted the display, and from any position the races below leave.
EraseUndoesType ==
    \A t \in Terminals :
        LET p == pos[t]
            q == DoBackspace(PutC(p, "char"))
        IN  p.col < NUM_COLS => /\ q.col = p.col
                                /\ q.row + q.up = p.row + p.up

\* putc_buffer() of a process that nobody disturbs moves its cursor to the
\* next cell or line, and scrolls by one line below the last: whether its
\* terminal is visible, hidden, or is switched in the middle, and whatever is
\* typed on the others.
WritesAdvance ==
    [][\A t \in Terminals :
          at[t] \notin {Leave, "clear_row"} /\ at'[t] = Leave /\ ~disturbed[t]
              => pos'[t] = goal[t]]_cvars

\* A cursor gets below the last row only when putc_buffer() has been
\* overtaken by the keyboard between its test and its increment.
LeavesScreenOnlyByRace ==
    [][\A t \in Terminals :
          pos[t].row <= LastRow /\ pos'[t].row > LastRow
              => at[t] = "store_row" /\ disturbed[t]]_cvars

\* terminal_write() brackets its characters with disable_irq(KEYBOARD_IRQ),
\* "Disable (mask) the specified IRQ": the cursor stays on the screen.
StaysOnScreen == \A t \in Terminals : pos[t].row <= LastRow
=============================================================================
