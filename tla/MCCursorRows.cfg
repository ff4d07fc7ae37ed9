\* Does the cursor stay on the screen?
SPECIFICATION CSpec
CONSTANTS
    t1 = t1
    t2 = t2
    Terminals = {t1, t2}
    NUM_COLS = 2
    NUM_ROWS = 3
    MaxRow = 4
SYMMETRY TerminalSymmetry
INVARIANT
    StaysOnScreen
