---------------------------- MODULE Cursor_proofs ----------------------------
(***************************************************************************)
(* The cursor properties for any number of terminals and any screen.       *)
(*                                                                         *)
(* The invariant says where a process that is not disturbed has got to on  *)
(* the way to its goal; a process that is disturbed keeps only the types.  *)
(***************************************************************************)
EXTENDS Cursor, TLAPS

USE CursorAssumption
USE DEF LastRow, Leave, Cell

-----------------------------------------------------------------------------
(* putc() and do_backspace().                                              *)

Cells == [col : 0 .. NUM_COLS, row : Nat, up : Nat]
Inside(p) == p.col < NUM_COLS

\* putc() leaves the cursor in a line, never in the upper left corner, and
\* does not leave the screen.
LEMMA PutCFacts ==
    ASSUME NEW p \in Cells, NEW kind \in Kinds
    PROVE  /\ PutC(p, kind) \in Cells
           /\ Inside(PutC(p, kind))
           /\ ~(PutC(p, kind).col = 0 /\ PutC(p, kind).row = 0)
           /\ p.row <= LastRow => PutC(p, kind).row <= LastRow
  BY DEF Cells, Inside, PutC, NewLine

\* One cell back from anywhere but the corner.
LEMMA BackFacts ==
    ASSUME NEW p \in Cells, ~(p.col = 0 /\ p.row = 0)
    PROVE  /\ Back(p) \in Cells /\ Inside(Back(p))
           /\ p.row <= LastRow => Back(p).row <= LastRow
  BY DEF Cells, Inside, Back

\* No coordinate of do_backspace() is negative, nor off the screen.
LEMMA DoBackspaceFacts ==
    ASSUME NEW p \in Cells
    PROVE  /\ DoBackspace(p) \in Cells
           /\ Inside(DoBackspace(p))
           /\ p.row <= LastRow => DoBackspace(p).row <= LastRow
<1>1. CASE p.col = 0 /\ p.row = 0
  BY <1>1 DEF DoBackspace, Inside
<1>2. CASE ~(p.col = 0 /\ p.row = 0)
  <2> DEFINE b == Back(p)
             c == PutC(b, "char")
  <2>1. b \in Cells /\ (p.row <= LastRow => b.row <= LastRow)
    BY <1>2, BackFacts
  <2>2. "char" \in Kinds
    BY DEF Kinds
  <2>3. /\ c \in Cells /\ ~(c.col = 0 /\ c.row = 0)
        /\ b.row <= LastRow => c.row <= LastRow
    <3> HIDE DEF b
    <3> QED
      BY <2>1, <2>2, PutCFacts
  <2>4. /\ Back(c) \in Cells /\ Inside(Back(c))
        /\ c.row <= LastRow => Back(c).row <= LastRow
    <3> HIDE DEF c
    <3> QED
      BY <2>3, BackFacts
  <2>5. DoBackspace(p) = Back(c)
    BY <1>2 DEF DoBackspace
  <2> QED
    BY <2>1, <2>3, <2>4, <2>5
<1> QED
  BY <1>1, <1>2

\* Where a key leads that does not end its line, and one that does.
LEMMA PutCCases ==
    ASSUME NEW p \in Cells
    PROVE  /\ p.col + 1 < NUM_COLS =>
                PutC(p, "char") = Cell(p.col + 1, p.row, p.up)
           /\ p.col + 1 >= NUM_COLS /\ p.row = LastRow =>
                PutC(p, "char") = Cell(0, p.row, p.up + 1)
           /\ p.col + 1 >= NUM_COLS /\ p.row # LastRow =>
                PutC(p, "char") = Cell(0, p.row + 1, p.up)
  BY DEF Cells, PutC, NewLine

\* One cell back, and a blank over it: the way that putc() came.
LEMMA BackThenPutC ==
    ASSUME NEW p \in Cells, Inside(p), ~(p.col = 0 /\ p.row = 0)
    PROVE  LET c == PutC(Back(p), "char")
           IN  /\ c.col = p.col
               /\ c.row + c.up = p.row + p.up
<1>1. CASE p.col # 0
  <2>1. Back(p) = Cell(p.col - 1, p.row, p.up)
    BY <1>1 DEF Back, Cells
  <2>2. Back(p) \in Cells /\ Back(p).col + 1 < NUM_COLS
    BY <1>1, <2>1 DEF Cells, Inside
  <2>3. PutC(Back(p), "char") = Cell(Back(p).col + 1, Back(p).row, Back(p).up)
    BY <2>2, PutCCases
  <2> QED
    BY <2>1, <2>3 DEF Cells
<1>2. CASE p.col = 0
  <2>1. Back(p) = Cell(NUM_COLS - 1, p.row - 1, p.up)
    BY <1>2 DEF Back, Cells
  <2>2. Back(p) \in Cells /\ Back(p).col + 1 >= NUM_COLS
    BY <1>2, <2>1 DEF Cells
  <2>3. CASE Back(p).row = LastRow
    BY <1>2, <2>1, <2>2, <2>3, PutCCases DEF Cells
  <2>4. CASE Back(p).row # LastRow
    BY <1>2, <2>1, <2>2, <2>4, PutCCases DEF Cells
  <2> QED
    BY <2>3, <2>4
<1> QED
  BY <1>1, <1>2

\* do_backspace() finds the cell of the key before it.
LEMMA BackspaceUndoesPutC ==
    ASSUME NEW p \in Cells, Inside(p)
    PROVE  LET q == DoBackspace(PutC(p, "char"))
           IN  q.col = p.col /\ q.row + q.up = p.row + p.up
<1> DEFINE a == PutC(p, "char")
           c == PutC(Back(a), "char")
<1>1. a \in Cells /\ Inside(a) /\ ~(a.col = 0 /\ a.row = 0)
  BY PutCFacts DEF Kinds
<1>2. /\ c \in Cells /\ Inside(c) /\ ~(c.col = 0 /\ c.row = 0)
      /\ c.col = a.col /\ c.row + c.up = a.row + a.up
  <2> HIDE DEF a
  <2> QED
    BY <1>1, BackFacts, PutCFacts, BackThenPutC DEF Kinds
<1>3. DoBackspace(a) = Back(c)
  BY <1>1 DEF DoBackspace
<1>4. /\ p.col + 1 < NUM_COLS =>
            a.col = p.col + 1 /\ a.row + a.up = p.row + p.up
      /\ p.col + 1 = NUM_COLS =>
            a.col = 0 /\ a.row + a.up = p.row + p.up + 1
  <2>1. CASE p.col + 1 < NUM_COLS
    BY <2>1, PutCCases
  <2>2. CASE p.col + 1 = NUM_COLS /\ p.row = LastRow
    BY <2>2, PutCCases DEF Cells
  <2>3. CASE p.col + 1 = NUM_COLS /\ p.row # LastRow
    BY <2>3, PutCCases DEF Cells
  <2> QED
    BY <2>1, <2>2, <2>3 DEF Cells, Inside
<1> HIDE DEF c
<1>5. CASE c.col # 0
  <2>1. Back(c).col = c.col - 1 /\ Back(c).row = c.row /\ Back(c).up = c.up
    BY <1>2, <1>5 DEF Back, Cells
  <2> QED
    BY <1>2, <1>3, <1>4, <1>5, <2>1 DEF Cells, Inside
<1>6. CASE c.col = 0
  <2>1. Back(c).col = NUM_COLS - 1 /\ Back(c).row = c.row - 1 /\ Back(c).up = c.up
    BY <1>2, <1>6 DEF Back, Cells
  <2> QED
    BY <1>2, <1>3, <1>4, <1>6, <2>1 DEF Cells, Inside
<1> QED
  BY <1>5, <1>6

-----------------------------------------------------------------------------
(* The next cell by its number.                                            *)

\* Division with remainder, the other way round.
LEMMA CellNumber ==
    ASSUME NEW b \in Nat \ {0}, NEW q \in Nat, NEW r \in 0 .. b - 1,
           NEW n, n = q * b + r
    PROVE  n \div b = q /\ n % b = r
  OBVIOUS

\* A line further, or one line scrolled.
Below(p) == IF p.row = LastRow THEN Cell(0, p.row, 1) ELSE Cell(0, p.row + 1, 0)

\* A newline leads to the first cell of the next row, or scrolls.
LEMMA SuccessorNewLine ==
    ASSUME NEW p \in Cells, p.row <= LastRow
    PROVE  Successor(p, "newline") = Below(p)
<1> DEFINE n == (p.row + 1) * NUM_COLS
<1>1. PICK q \in Nat : q = p.row + 1
  BY DEF Cells
<1>2. n = q * NUM_COLS
  BY <1>1
<1>3. n \div NUM_COLS = q /\ n % NUM_COLS = 0
  <2> HIDE DEF n
  <2> QED
    BY <1>2
<1> QED
  BY <1>1, <1>3 DEF Successor, Below, Cells

\* A character before the last column leads one cell to the right.
LEMMA SuccessorInLine ==
    ASSUME NEW p \in Cells, p.row <= LastRow, p.col + 1 < NUM_COLS
    PROVE  Successor(p, "char") = Cell(p.col + 1, p.row, 0)
<1> DEFINE n == (p.row * NUM_COLS + p.col) + 1
<1>1. PICK q \in Nat, r \in 0 .. NUM_COLS - 1 : q = p.row /\ r = p.col + 1
  BY DEF Cells
<1>2. n = q * NUM_COLS + r
  BY <1>1 DEF Cells
<1>3. n \div NUM_COLS = q /\ n % NUM_COLS = r
  <2> HIDE DEF n
  <2> QED
    BY <1>2
<1> QED
  BY <1>1, <1>3 DEF Successor, Cells

\* A character in the last column leads where a newline does.
LEMMA SuccessorLineEnd ==
    ASSUME NEW p \in Cells, p.row <= LastRow, p.col + 1 = NUM_COLS
    PROVE  Successor(p, "char") = Below(p)
<1>1. /\ (p.row * NUM_COLS + p.col) + 1 = (p.row + 1) * NUM_COLS + 0
      /\ p.row + 1 \in Nat /\ 0 \in 0 .. NUM_COLS - 1
      /\ NUM_COLS \in Nat \ {0}
  BY DEF Cells
<1>2. /\ ((p.row * NUM_COLS + p.col) + 1) \div NUM_COLS = p.row + 1
      /\ ((p.row * NUM_COLS + p.col) + 1) % NUM_COLS = 0
  BY <1>1, CellNumber
<1> QED
  BY <1>2 DEF Successor, Below, Cells

\* Which line a call scrolls to depends on the cell, not on earlier lines.
LEMMA SuccessorOfCell ==
    ASSUME NEW p \in Cells, NEW kind \in Kinds
    PROVE  /\ Successor(p, kind) = Successor(Cell(p.col, p.row, 0), kind)
           /\ Below(p) = Below(Cell(p.col, p.row, 0))
  BY DEF Successor, Below

-----------------------------------------------------------------------------
(* The invariant.                                                          *)

Places == {Leave, "store_col", "test_col", "test_row",
           "load_row", "store_row", "zero_col", "clear_row"}

\* What is so of a terminal whatever the others do to it.  Only inside
\* putc_buffer() does a cursor stand behind the end of its line.
Sound(t) ==
    /\ pos[t] \in Cells /\ pos[t].row <= MaxRow /\ pos[t].up \in {0, 1}
    /\ at[t] \in Places /\ held[t] \in Nat /\ disturbed[t] \in BOOLEAN
    /\ at[t] \in {Leave, "store_col", "clear_row"} => Inside(pos[t])
    /\ at[t] = "store_col" => held[t] < NUM_COLS

\* Where an undisturbed process is on its way.
OnTheWay(t) ==
    /\ at[t] \notin {Leave, "clear_row"} => pos[t].row <= LastRow
    /\ at[t] = "store_col" => /\ pos[t].up = 0 /\ held[t] = pos[t].col
                              /\ goal[t] = Successor(pos[t], "char")
    /\ at[t] = "test_col" =>
          /\ pos[t].up = 0 /\ pos[t].col > 0
          /\ goal[t] = Successor(Cell(pos[t].col - 1, pos[t].row, 0), "char")
    /\ at[t] = "test_row" => pos[t].up = 0 /\ goal[t] = Below(pos[t])
    /\ at[t] \in {"load_row", "store_row"} =>
          /\ pos[t].up = 0 /\ pos[t].row < LastRow
          /\ goal[t] = Below(pos[t])
    /\ at[t] = "store_row" => held[t] = pos[t].row
    /\ at[t] = "zero_col" => goal[t] = Cell(0, pos[t].row, pos[t].up)

\* Each variable is what its actions take it for.
Shape ==
    /\ pos = [t \in Terminals |-> pos[t]]
    /\ at = [t \in Terminals |-> at[t]]
    /\ held = [t \in Terminals |-> held[t]]
    /\ goal = [t \in Terminals |-> goal[t]]
    /\ disturbed = [t \in Terminals |-> disturbed[t]]
    /\ active \in Terminals

CInv == /\ Shape
        /\ \A t \in Terminals : Sound(t)
        /\ \A t \in Terminals : ~disturbed[t] => OnTheWay(t)

\* The invariant gives the type invariant.
LEMMA CInvTypes == CInv => CTypeOK
<1> SUFFICES ASSUME CInv PROVE CTypeOK
  OBVIOUS
<1>1. ASSUME NEW t \in Terminals PROVE pos[t] \in Positions
  <2>1. pos[t] \in Cells /\ pos[t].row <= MaxRow /\ pos[t].up \in {0, 1}
    BY DEF CInv, Sound
  <2>2. pos[t].row \in 0 .. MaxRow
    BY <2>1 DEF Cells
  <2> QED
    BY <2>1, <2>2 DEF Cells, Positions
<1>2. pos \in [Terminals -> Positions]
  BY <1>1 DEF CInv, Shape
<1> QED
  BY <1>2 DEF CInv, Shape, Sound, Places, CTypeOK

\* The boot state satisfies the invariant.
LEMMA CInitial == CInit => CInv
<1> SUFFICES ASSUME CInit PROVE CInv
  OBVIOUS
<1>1. Shape
  BY DEF CInit, Shape
<1>2. ASSUME NEW t \in Terminals PROVE Sound(t) /\ OnTheWay(t)
  BY DEF CInit, Sound, OnTheWay, Home, Cells, Inside, Places
<1> QED
  BY <1>1, <1>2 DEF CInv

\* A terminal that a step leaves alone stays as it is.
LEMMA Untouched ==
    ASSUME CInv, NEW u \in Terminals,
           pos'[u] = pos[u], at'[u] = at[u], held'[u] = held[u],
           goal'[u] = goal[u], disturbed'[u] = disturbed[u]
    PROVE  Sound(u)' /\ (~disturbed'[u] => OnTheWay(u)')
<1>1. Sound(u) /\ (~disturbed[u] => OnTheWay(u))
  BY DEF CInv
<1>2. Sound(u)'
  BY <1>1 DEF Sound
<1>3. ~disturbed[u] => OnTheWay(u)'
  BY <1>1 DEF OnTheWay, Successor, Below
<1> QED
  BY <1>2, <1>3

\* The keyboard puts a cursor in a line: a process on its way is disturbed.
LEMMA MoveStep ==
    ASSUME CInv, NEW t \in Terminals, NEW q \in Cells, Inside(q), Move(t, q)
    PROVE  CInv'
<1>1. Shape'
  BY DEF CInv, Shape, Move
<1>2. ASSUME NEW u \in Terminals, u # t
      PROVE  Sound(u)' /\ (~disturbed'[u] => OnTheWay(u)')
  BY <1>2, Untouched DEF CInv, Shape, Move
<1>3. Sound(t)'
  BY DEF CInv, Shape, Sound, Move, Cells, Inside
<1>4. ~disturbed'[t] => OnTheWay(t)'
  BY DEF CInv, Shape, Move, OnTheWay
<1> QED
  BY <1>1, <1>2, <1>3, <1>4 DEF CInv

-----------------------------------------------------------------------------
(* The steps of putc_buffer().                                             *)

\* What holds of the process of t before its step.
LEMMA Before ==
    ASSUME CInv, NEW t \in Terminals
    PROVE  Sound(t) /\ (~disturbed[t] => OnTheWay(t)) /\ Shape
  BY DEF CInv

\* A step of t has only to be looked at for t.
LEMMA OnlyOne ==
    ASSUME CInv, NEW t \in Terminals, Shape',
           \A u \in Terminals \ {t} :
              /\ pos'[u] = pos[u] /\ at'[u] = at[u] /\ held'[u] = held[u]
              /\ goal'[u] = goal[u] /\ disturbed'[u] = disturbed[u],
           Sound(t)', ~disturbed'[t] => OnTheWay(t)'
    PROVE  CInv'
<1>1. ASSUME NEW u \in Terminals, u # t
      PROVE  Sound(u)' /\ (~disturbed'[u] => OnTheWay(u)')
  BY <1>1, Untouched
<1> QED
  BY <1>1 DEF CInv

\* The begin of putc_buffer() for a character records where it should end.
LEMMA WriteCharStep ==
    ASSUME CInv, NEW t \in Terminals, WriteChar(t)
    PROVE  CInv'
<1>0. Sound(t) /\ (~disturbed[t] => OnTheWay(t)) /\ Shape
  BY Before
<1> USE <1>0 DEF WriteChar, Enter
<1>1. Shape'
  BY DEF Shape
<1>2. Sound(t)'
  BY DEF Shape, Sound, Cells, Inside, Places
<1>3. ~disturbed'[t] => OnTheWay(t)'
  <2>1. /\ pos'[t] = Cell(pos[t].col, pos[t].row, 0) /\ held'[t] = pos[t].col
        /\ goal'[t] = Successor(pos[t], "char") /\ at'[t] = "store_col"
        /\ disturbed'[t] = (pos[t].row > LastRow)
    BY DEF Shape
  <2>2. Successor(pos[t], "char") = Successor(pos'[t], "char")
    BY <2>1, SuccessorOfCell DEF Sound, Kinds
  <2>3. Successor(pos[t], "char")' = Successor(pos'[t], "char")
    BY DEF Successor
  <2>4. ASSUME ~disturbed'[t] PROVE pos[t].row <= LastRow
    <3>1. pos[t].row \in Nat
      BY DEF Sound, Cells
    <3>2. ~(pos[t].row > LastRow)
      BY <2>1, <2>4, Zenon
    <3> QED
      BY <3>1, <3>2
  <2> QED
    BY <2>1, <2>2, <2>3, <2>4 DEF OnTheWay
<1> QED
  BY <1>1, <1>2, <1>3, OnlyOne DEF Shape

\* The begin of putc_buffer() for a newline records where it should end.
LEMMA WriteNewLineStep ==
    ASSUME CInv, NEW t \in Terminals, WriteNewLine(t)
    PROVE  CInv'
<1>0. Sound(t) /\ (~disturbed[t] => OnTheWay(t)) /\ Shape
  BY Before
<1> USE <1>0 DEF WriteNewLine, Enter
<1>1. Shape'
  BY DEF Shape
<1>2. Sound(t)'
  BY DEF Shape, Sound, Cells, Inside, Places
<1>3. ~disturbed'[t] => OnTheWay(t)'
  <2>1. /\ pos'[t] = Cell(pos[t].col, pos[t].row, 0)
        /\ goal'[t] = Successor(pos[t], "newline") /\ at'[t] = "test_row"
        /\ disturbed'[t] = (pos[t].row > LastRow)
    BY DEF Shape
  <2>4. ASSUME ~disturbed'[t] PROVE pos[t].row <= LastRow
    <3>1. pos[t].row \in Nat
      BY DEF Sound, Cells
    <3>2. ~(pos[t].row > LastRow)
      BY <2>1, <2>4, Zenon
    <3> QED
      BY <3>1, <3>2
  <2>2. ~disturbed'[t] => goal'[t] = Below(pos[t])
    BY <2>1, <2>4, SuccessorNewLine DEF Sound
  <2>3. Below(pos[t])' = Below(pos[t])
    BY <2>1 DEF Below
  <2> QED
    BY <2>1, <2>2, <2>3, <2>4 DEF OnTheWay
<1> QED
  BY <1>1, <1>2, <1>3, OnlyOne DEF Shape

\* x_pos++ stores what was loaded, which is x_pos unless a key came between.
LEMMA StoreColStep ==
    ASSUME CInv, NEW t \in Terminals, StoreCol(t)
    PROVE  CInv'
<1>0. Sound(t) /\ (~disturbed[t] => OnTheWay(t)) /\ Shape
  BY Before
<1> USE <1>0 DEF StoreCol, Step
<1>1. Shape'
  BY DEF Shape
<1>2. Sound(t)'
  BY DEF Shape, Sound, Cells, Inside, Places
<1>3. ~disturbed'[t] => OnTheWay(t)'
  <2> SUFFICES ASSUME ~disturbed'[t] PROVE OnTheWay(t)'
    OBVIOUS
  <2>1. OnTheWay(t) /\ at[t] = "store_col" /\ pos[t] \in Cells
    BY DEF Shape, Sound
  <2>2. /\ pos'[t] = Cell(pos[t].col + 1, pos[t].row, 0)
        /\ pos[t] = Cell(pos[t].col, pos[t].row, 0)
        /\ goal'[t] = Successor(pos[t], "char") /\ at'[t] = "test_col"
        /\ pos[t].row <= LastRow
    BY <2>1 DEF OnTheWay, Shape, Cells
  <2>3. goal'[t] = Successor(Cell(pos'[t].col - 1, pos'[t].row, 0), "char")
    BY <2>1, <2>2 DEF Cells
  <2>4. goal'[t] = Successor(Cell(pos[t].col - 1, pos[t].row, 0), "char")'
    BY <2>3 DEF Successor
  <2> QED
    BY <2>1, <2>2, <2>4 DEF OnTheWay, Cells
<1> QED
  BY <1>1, <1>2, <1>3, OnlyOne DEF Shape

\* The cell that an undisturbed process has written to.
LEMMA Written ==
    ASSUME CInv, NEW t \in Terminals, at[t] = "test_col", ~disturbed[t]
    PROVE  LET p == Cell(pos[t].col - 1, pos[t].row, 0)
           IN  /\ p \in Cells /\ p.row <= LastRow
               /\ goal[t] = Successor(p, "char") /\ pos[t].up = 0
               /\ Below(p) = Below(pos[t])
               /\ pos[t] = Cell(p.col + 1, p.row, 0)
<1>1. Sound(t) /\ OnTheWay(t)
  BY Before
<1> QED
  BY <1>1 DEF Sound, OnTheWay, Cells, Below

\* The test for the end of the line either ends the call at its goal or not.
LEMMA TestColStep ==
    ASSUME CInv, NEW t \in Terminals, TestCol(t)
    PROVE  CInv'
<1>0. Sound(t) /\ (~disturbed[t] => OnTheWay(t)) /\ Shape
  BY Before
<1> USE <1>0 DEF TestCol, Step
<1>1. Shape'
  BY DEF Shape
<1>2. Sound(t)'
  BY DEF Shape, Sound, Cells, Inside, Places
<1>3. ~disturbed'[t] => OnTheWay(t)'
  <2> SUFFICES ASSUME ~disturbed'[t], at'[t] # Leave PROVE OnTheWay(t)'
    BY DEF OnTheWay
  <2> DEFINE p == Cell(pos[t].col - 1, pos[t].row, 0)
  <2>1. /\ at[t] = "test_col" /\ at'[t] = "test_row" /\ pos[t].col >= NUM_COLS
        /\ pos'[t] = pos[t] /\ goal'[t] = goal[t] /\ ~disturbed[t]
    BY DEF Shape
  <2>2. /\ p \in Cells /\ p.row <= LastRow
        /\ goal[t] = Successor(p, "char") /\ pos[t].up = 0
        /\ Below(p) = Below(pos[t])
    BY <2>1, Written
  <2>3. p.col + 1 = NUM_COLS
    BY <2>1 DEF Sound, Cells
  <2>4. goal[t] = Below(pos[t])
    <3> HIDE DEF p
    <3> QED
      BY <2>2, <2>3, SuccessorLineEnd
  <2>5. Below(pos[t])' = Below(pos[t])
    BY <2>1 DEF Below
  <2> QED
    BY <2>1, <2>2, <2>4, <2>5 DEF OnTheWay
<1> QED
  BY <1>1, <1>2, <1>3, OnlyOne DEF Shape

\* The test for the last row scrolls or goes on to increment y_pos.
LEMMA TestRowStep ==
    ASSUME CInv, NEW t \in Terminals, TestRow(t)
    PROVE  CInv'
<1>0. Sound(t) /\ (~disturbed[t] => OnTheWay(t)) /\ Shape
  BY Before
<1> USE <1>0 DEF TestRow, Step
<1>1. Shape'
  BY DEF Shape
<1>2. Sound(t)'
  BY DEF Shape, Sound, Cells, Places
<1>3. ~disturbed'[t] => OnTheWay(t)'
  BY DEF Shape, Sound, OnTheWay, Below, Cells
<1> QED
  BY <1>1, <1>2, <1>3, OnlyOne DEF Shape

\* The load of y_pos changes only what the process holds.
LEMMA LoadRowStep ==
    ASSUME CInv, NEW t \in Terminals, LoadRow(t)
    PROVE  CInv'
<1> USE DEF LoadRow
<1>1. Shape' /\ Sound(t) /\ (~disturbed[t] => OnTheWay(t)) /\ Shape
  BY Before DEF Shape
<1>2. /\ at[t] = "load_row" /\ at'[t] = "store_row" /\ held'[t] = pos[t].row
      /\ pos'[t] = pos[t] /\ goal'[t] = goal[t] /\ disturbed'[t] = disturbed[t]
  BY <1>1 DEF Shape
<1>3. Sound(t)'
  <2>1. pos[t].row \in Nat
    BY <1>1 DEF Sound, Cells
  <2> QED
    BY <1>1, <1>2, <2>1 DEF Sound, Places
<1>4. ~disturbed'[t] => OnTheWay(t)'
  BY <1>1, <1>2 DEF OnTheWay, Below
<1> QED
  BY <1>1, <1>3, <1>4, OnlyOne DEF Shape

\* y_pos++ leaves the screen only if the cursor was moved since the test.
LEMMA StoreRowStep ==
    ASSUME CInv, NEW t \in Terminals, StoreRow(t)
    PROVE  CInv'
<1>0. Sound(t) /\ (~disturbed[t] => OnTheWay(t)) /\ Shape
  BY Before
<1> USE <1>0 DEF StoreRow, Step
<1>1. Shape'
  BY DEF Shape
<1>2. Sound(t)'
  BY DEF Shape, Sound, Cells, Places
<1>3. ~disturbed'[t] => OnTheWay(t)'
  BY DEF Shape, Sound, OnTheWay, Below, Cells
<1> QED
  BY <1>1, <1>2, <1>3, OnlyOne DEF Shape

\* The last store of the call brings an undisturbed cursor to its goal.
LEMMA ZeroColStep ==
    ASSUME CInv, NEW t \in Terminals, ZeroCol(t)
    PROVE  CInv'
<1>0. Sound(t) /\ (~disturbed[t] => OnTheWay(t)) /\ Shape
  BY Before
<1> USE <1>0 DEF ZeroCol, Step
<1>1. Shape'
  BY DEF Shape
<1>2. Sound(t)'
  BY DEF Shape, Sound, Cells, Inside, Places
<1>3. ~disturbed'[t] => OnTheWay(t)'
  BY DEF Shape, OnTheWay
<1> QED
  BY <1>1, <1>2, <1>3, OnlyOne DEF Shape

-----------------------------------------------------------------------------
(* The other steps.                                                        *)

\* A key that is printed, and one that erases.
LEMMA KeyStep == CInv /\ (Key \/ KeyBackspace \/ HaltClear) => CInv'
<1> SUFFICES ASSUME CInv, Key \/ KeyBackspace \/ HaltClear PROVE CInv'
  OBVIOUS
<1>1. active \in Terminals /\ pos[active] \in Cells
  BY DEF CInv, Shape, Sound
<1>2. ASSUME NEW kind \in Kinds, Move(active, PutC(pos[active], kind))
      PROVE  CInv'
  BY <1>1, <1>2, PutCFacts, MoveStep
<1>3. CASE KeyBackspace
  BY <1>1, <1>3, DoBackspaceFacts, MoveStep DEF KeyBackspace
<1>4. CASE HaltClear
  <2>1. Home \in Cells /\ Inside(Home)
    BY DEF Home, Cells, Inside
  <2> QED
    BY <1>1, <1>4, <2>1, MoveStep DEF HaltClear
<1> QED
  BY <1>2, <1>3, <1>4 DEF Key

\* A terminal switch touches no cursor.
LEMMA SwitchStep == CInv /\ SwitchTerminal => CInv'
<1> SUFFICES ASSUME CInv, SwitchTerminal PROVE CInv'
  OBVIOUS
<1>1. Shape'
  BY DEF CInv, Shape, SwitchTerminal
<1>2. ASSUME NEW u \in Terminals
      PROVE  Sound(u)' /\ (~disturbed'[u] => OnTheWay(u)')
  BY Untouched DEF SwitchTerminal
<1> QED
  BY <1>1, <1>2 DEF CInv

\* Either half of clear_setpos() disturbs the visible terminal; its caller is
\* not in putc_buffer().
LEMMA ClearStep ==
    ASSUME CInv, NEW t \in Terminals, ClearCol(t) \/ ClearRow(t)
    PROVE  CInv'
<1>1. Shape'
  BY DEF CInv, Shape, ClearCol, ClearRow
<1>2. ASSUME NEW u \in Terminals
      PROVE  Sound(u)' /\ (~disturbed'[u] => OnTheWay(u)')
  <2>1. CASE u # t /\ u # active
    BY <2>1, Untouched DEF CInv, Shape, ClearCol, ClearRow
  <2>2. CASE u = t \/ u = active
    <3>1. Sound(u) /\ Shape
      BY DEF CInv
    <3>2. /\ \/ pos'[u] = pos[u]
             \/ pos'[u] = Cell(0, pos[u].row, pos[u].up)
             \/ at'[u] # "store_col" /\ pos'[u] = Cell(pos[u].col, 0, pos[u].up)
                /\ at[u] \in {Leave, "clear_row"}
             \/ u = active /\ at'[u] = at[u]
                /\ pos'[u] = Cell(pos[u].col, 0, pos[u].up)
          /\ held'[u] = held[u] /\ disturbed'[u] \in BOOLEAN
          /\ \/ at'[u] = at[u]
             \/ at[u] \in {Leave, "clear_row"} /\ at'[u] \in {Leave, "clear_row"}
      BY <2>2, <3>1 DEF Sound, Shape, ClearCol, ClearRow
    <3>3. Sound(u)'
      BY <3>1, <3>2 DEF Sound, Cells, Inside, Places
    <3>4. disturbed'[u] \/ at'[u] \in {Leave, "clear_row"}
      BY <2>2, <3>1 DEF Shape, ClearCol, ClearRow
    <3>5. at'[u] \in {Leave, "clear_row"} => OnTheWay(u)'
      BY DEF OnTheWay
    <3> QED
      BY <3>3, <3>4, <3>5
  <2> QED
    BY <2>1, <2>2
<1> QED
  BY <1>1, <1>2 DEF CInv

\* Every step keeps the invariant.
LEMMA CInvStep == CInv /\ [CNext]_cvars => CInv'
<1> SUFFICES ASSUME CInv, [CNext]_cvars PROVE CInv'
  OBVIOUS
<1>1. CASE Key \/ KeyBackspace \/ HaltClear
  BY <1>1, KeyStep
<1>2. CASE SwitchTerminal
  BY <1>2, SwitchStep
<1>3. ASSUME NEW t \in Terminals,
             \/ WriteChar(t) \/ WriteNewLine(t)
             \/ StoreCol(t) \/ TestCol(t)
             \/ TestRow(t) \/ LoadRow(t) \/ StoreRow(t) \/ ZeroCol(t)
             \/ ClearCol(t) \/ ClearRow(t)
      PROVE  CInv'
  BY <1>3, WriteCharStep, WriteNewLineStep, StoreColStep, TestColStep,
     TestRowStep, LoadRowStep, StoreRowStep, ZeroColStep, ClearStep
<1>4. CASE UNCHANGED cvars
  <2>1. Shape'
    BY <1>4 DEF CInv, Shape, cvars
  <2>2. ASSUME NEW u \in Terminals
        PROVE  Sound(u)' /\ (~disturbed'[u] => OnTheWay(u)')
    BY <1>4, Untouched DEF cvars
  <2> QED
    BY <2>1, <2>2 DEF CInv
<1> QED
  BY <1>1, <1>2, <1>3, <1>4 DEF CNext

-----------------------------------------------------------------------------
(* The theorems.                                                           *)

\* The inductive invariant of the cursors, for every size of the screen.
THEOREM CInvariance == CSpec => []CInv
  BY CInitial, CInvStep, PTL DEF CSpec

\* No cursor is outside of its line and no coordinate is negative, whatever
\* putc(), do_backspace() and putc_buffer() do to each other.
THEOREM CursorTypes == CSpec => []CTypeOK
  BY CInvariance, CInvTypes, PTL

\* do_backspace() erases the key before it, in every state that the races
\* can lead to, on a screen of any size.
THEOREM ErasesUndoTyping == CSpec => []EraseUndoesType
<1>1. CInv => EraseUndoesType
  <2> SUFFICES ASSUME CInv, NEW t \in Terminals, pos[t].col < NUM_COLS
               PROVE  LET q == DoBackspace(PutC(pos[t], "char"))
                      IN  /\ q.col = pos[t].col
                          /\ q.row + q.up = pos[t].row + pos[t].up
    BY DEF EraseUndoesType
  <2>1. pos[t] \in Cells /\ Inside(pos[t])
    BY DEF CInv, Sound, Inside
  <2> QED
    BY <2>1, BackspaceUndoesPutC
<1> QED
  BY <1>1, CInvariance, PTL

\* putc_buffer() of an undisturbed process gets where it should.
THEOREM WritesAlwaysAdvance == CSpec => WritesAdvance
<1>1. ASSUME CInv, [CNext]_cvars, NEW t \in Terminals,
             at[t] \notin {Leave, "clear_row"}, at'[t] = Leave, ~disturbed[t]
      PROVE  pos'[t] = goal[t]
  <2>1. Sound(t) /\ OnTheWay(t) /\ Shape
    BY <1>1, Before
  <2>2. (TestCol(t) /\ pos[t].col < NUM_COLS) \/ ZeroCol(t)
    BY <1>1, <2>1 DEF CNext, cvars, Key, KeyBackspace, HaltClear, Move,
       SwitchTerminal, WriteChar, WriteNewLine, Enter, StoreCol, TestCol,
       TestRow, LoadRow, StoreRow, ZeroCol, Step, ClearCol, ClearRow, Shape
  <2>3. CASE TestCol(t) /\ pos[t].col < NUM_COLS
    <3> DEFINE p == Cell(pos[t].col - 1, pos[t].row, 0)
    <3>1. at[t] = "test_col" /\ pos'[t] = pos[t]
      BY <2>3 DEF TestCol, Step
    <3>2. /\ p \in Cells /\ p.row <= LastRow /\ goal[t] = Successor(p, "char")
          /\ pos[t] = Cell(p.col + 1, p.row, 0)
      BY <1>1, <3>1, Written
    <3>3. p.col + 1 < NUM_COLS
      BY <2>1, <2>3 DEF Sound, Cells
    <3>4. goal[t] = pos[t]
      <4> HIDE DEF p
      <4> QED
        BY <3>2, <3>3, SuccessorInLine
    <3> QED
      BY <3>1, <3>4
  <2>4. CASE ZeroCol(t)
    BY <2>1, <2>4 DEF ZeroCol, Step, OnTheWay, Shape
  <2> QED
    BY <2>2, <2>3, <2>4
<1>2. CInv /\ [CNext]_cvars => [\A t \in Terminals :
          at[t] \notin {Leave, "clear_row"} /\ at'[t] = Leave /\ ~disturbed[t]
              => pos'[t] = goal[t]]_cvars
  BY <1>1
<1> QED
  BY <1>2, CInvariance, PTL DEF CSpec, WritesAdvance

\* putc() and do_backspace() do not leave the screen.
LEMMA KeysStay ==
    ASSUME CInv, Key \/ KeyBackspace \/ HaltClear, NEW t \in Terminals,
           pos[t].row <= LastRow
    PROVE  pos'[t].row <= LastRow
<1>1. active \in Terminals /\ pos[active] \in Cells /\ Shape
  BY DEF CInv, Shape, Sound
<1>2. PICK q \in Cells : /\ Move(active, q)
                         /\ pos[active].row <= LastRow => q.row <= LastRow
  <2>1. CASE Key
    BY <1>1, <2>1, PutCFacts DEF Key
  <2>2. CASE KeyBackspace
    BY <1>1, <2>2, DoBackspaceFacts DEF KeyBackspace
  <2>3. CASE HaltClear
    <3>1. Home \in Cells /\ Home.row <= LastRow
      BY DEF Home, Cells
    <3> QED
      BY <2>3, <3>1 DEF HaltClear
  <2> QED
    BY <2>1, <2>2, <2>3
<1> QED
  BY <1>1, <1>2 DEF Move, Shape

\* A cursor leaves the screen only by an increment that the keyboard has
\* overtaken.
THEOREM LeavesOnlyByRace == CSpec => LeavesScreenOnlyByRace
<1>1. ASSUME CInv, [CNext]_cvars, NEW t \in Terminals,
             pos[t].row <= LastRow, pos'[t].row > LastRow
      PROVE  at[t] = "store_row" /\ disturbed[t]
  <2>1. Sound(t) /\ Shape /\ (~disturbed[t] => OnTheWay(t))
    BY <1>1, Before
  <2>2. ~(pos'[t].row <= LastRow) \/ pos'[t].row \notin Nat
    BY <1>1
  <2>3. pos[t].row \in Nat
    BY <2>1 DEF Sound, Cells
  <2>4. pos'[t].row # pos[t].row
    BY <1>1, <2>3
  <2>5. CASE Key \/ KeyBackspace \/ HaltClear
    <3>1. pos'[t].row <= LastRow
      BY <1>1, <2>5, KeysStay
    <3>2. Sound(t)'
      BY <1>1, CInvStep DEF CInv
    <3> QED
      BY <1>1, <3>1, <3>2 DEF Sound, Cells
  <2>6. CASE \E u \in Terminals : StoreRow(u)
    <3>1. PICK u \in Terminals : StoreRow(u)
      BY <2>6
    <3>2. u = t
      BY <2>1, <2>4, <3>1 DEF StoreRow, Step, Shape
    <3>3. at[t] = "store_row" /\ pos'[t].row = held[t] + 1
      BY <2>1, <3>1, <3>2 DEF StoreRow, Step, Shape
    <3>4. ~disturbed[t] => held[t] = pos[t].row /\ pos[t].row < LastRow
      BY <2>1, <3>3 DEF OnTheWay
    <3> QED
      BY <1>1, <2>3, <3>3, <3>4
  <2>7. CASE \E u \in Terminals : ClearRow(u)
    BY <1>1, <2>1, <2>4, <2>7 DEF ClearRow, Shape
  <2>8. CASE \/ SwitchTerminal \/ UNCHANGED cvars
             \/ \E u \in Terminals :
                   \/ WriteChar(u) \/ WriteNewLine(u) \/ StoreCol(u)
                   \/ TestCol(u) \/ TestRow(u) \/ LoadRow(u) \/ ZeroCol(u)
                   \/ ClearCol(u)
    BY <2>1, <2>4, <2>8 DEF SwitchTerminal, cvars, WriteChar, WriteNewLine,
       Enter, StoreCol, TestCol, TestRow, LoadRow, ZeroCol, ClearCol, Step, Shape
  <2> QED
    BY <1>1, <2>5, <2>6, <2>7, <2>8 DEF CNext
<1>2. CInv /\ [CNext]_cvars => [\A t \in Terminals :
          pos[t].row <= LastRow /\ pos'[t].row > LastRow
              => at[t] = "store_row" /\ disturbed[t]]_cvars
  BY <1>1
<1> QED
  BY <1>2, CInvariance, PTL DEF CSpec, LeavesScreenOnlyByRace
=============================================================================
