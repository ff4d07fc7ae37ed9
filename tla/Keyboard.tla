------------------------------ MODULE Keyboard ------------------------------
(***************************************************************************)
(* The line discipline between the keyboard interrupt and the readers      *)
(* (src/drivers/keyboard.c).  keyboard_interrupt_handler() runs with       *)
(* interrupts off and is one step per key; keyboard_read() runs with       *)
(* interrupts on, and is cut where another key, or a switch to another     *)
(* process, can come between two of its accesses to the terminal.  The     *)
(* disable_irq() around its last lines does not hold keys back: it writes  *)
(* the PIC's command port, not its mask (src/x86/i8259.c:101).             *)
(*                                                                         *)
(* Every open terminal has a reader: its top process, now and then in      *)
(* keyboard_read().  executing_term() is the reader's own terminal then.   *)
(* Keys go to the visible terminal.  The driver never looks at the bytes   *)
(* of a line, only at their number, so the model keeps buffer_size and no  *)
(* bytes.  The modifier keys' state is an input: each key comes with it.   *)
(***************************************************************************)
EXTENDS Integers

CONSTANTS MAX_TERMINALS,
          MAX_BUFFER_SIZE,
          SizeLimit     \* no key is pressed that would make a line longer

ASSUME KeyboardAssumption ==
    /\ MAX_TERMINALS \in Nat \ {0}
    /\ MAX_BUFFER_SIZE \in Nat \ {0, 1, 2}
    \* one byte past the buffer lies attrib, then come ack and read_ack
    /\ SizeLimit \in 1 .. MAX_BUFFER_SIZE + 1

Terminals == 0 .. MAX_TERMINALS - 1

\* The places of keyboard_read() at which it can be interrupted, named for
\* what it does next.  Outside of it a reader is "away", or "faulted" when
\* the last one was ended by a page fault in there.
Outside == {"away", "faulted"}
Places == Outside \cup {"reset_ack", "spin", "clear_ack", "disarm", "copy"}

VARIABLES
    curr_terminal,  \* the visible terminal
    open,           \* the terminals that have a process
    buffer_size,    \* buffer_size[t]: the length of t's line
    ack,            \* ack[t]: set when a line is there to be read
    read_ack,       \* read_ack[t]: keys go into the line
    at,             \* at[t]: where the reader of t is
    entered         \* entered[t]: the line was closed with Enter (history)

kvars == <<curr_terminal, open, buffer_size, ack, read_ack, at, entered>>

Init ==
    /\ curr_terminal = 0
    /\ open = {0}
    /\ buffer_size = [t \in Terminals |-> 0]
    /\ ack = [t \in Terminals |-> 0]
    /\ read_ack = [t \in Terminals |-> 0]
    /\ at = [t \in Terminals |-> "away"]
    /\ entered = [t \in Terminals |-> FALSE]

-----------------------------------------------------------------------------
(* Keys.  t is active_term() in all of them.                               *)

\* Fault: ack counts the lines.
Wake_Counts(t) == ack' = [ack EXCEPT ![t] = @ + 1]

Wake(t) == ack' = [ack EXCEPT ![t] = 1]

\* Fault: keys are stored whether or not somebody reads.
Put_Always(t, n) == buffer_size[t] + n

\* The length after n more bytes, which count only while a line is read.
Put(t, n) == IF read_ack[t] = 1 THEN buffer_size[t] + n ELSE buffer_size[t]

Filled(size) == size >= MAX_BUFFER_SIZE - 2

\* The handler's end, for every key but Enter and Backspace: a filled line
\* is closed with a newline, whether it is being read or not.
Finish(t, size) ==
    LET closed == IF Filled(size) THEN size + 1 ELSE size
    IN  /\ closed <= SizeLimit
        /\ buffer_size' = [buffer_size EXCEPT ![t] = closed]
        /\ IF Filled(size) THEN Wake(t) ELSE UNCHANGED ack
        /\ UNCHANGED <<curr_terminal, open, read_ack, at, entered>>

\* A key that prints one character.
KeyChar == Finish(curr_terminal, Put(curr_terminal, 1))

\* Tab prints four blanks if the line has room for them.
KeyTab ==
    LET t == curr_terminal
        room == buffer_size[t] + 4 < MAX_BUFFER_SIZE - 2
    IN  Finish(t, IF room THEN Put(t, 4) ELSE buffer_size[t])

\* A key that prints nothing, for example an arrow key.
KeySilent == Finish(curr_terminal, buffer_size[curr_terminal])

KeyBackspace ==
    LET t == curr_terminal
    IN  /\ read_ack[t] = 1
        /\ buffer_size[t] > 0
        /\ buffer_size' = [buffer_size EXCEPT ![t] = @ - 1]
        /\ UNCHANGED <<curr_terminal, open, ack, read_ack, at, entered>>

KeyEnter ==
    LET t == curr_terminal
    IN  /\ Put(t, 1) <= SizeLimit
        /\ buffer_size' = [buffer_size EXCEPT ![t] = Put(t, 1)]
        /\ entered' = [entered EXCEPT ![t] = @ \/ read_ack[t] = 1]
        /\ Wake(t)
        /\ UNCHANGED <<curr_terminal, open, read_ack, at>>

\* Ctrl-A, Ctrl-C and Ctrl-L replace the line that is being read.
KeyControl ==
    LET t == curr_terminal
    IN  /\ read_ack[t] = 1
        /\ buffer_size' = [buffer_size EXCEPT ![t] = 1]
        /\ Wake(t)
        /\ UNCHANGED <<curr_terminal, open, read_ack, at, entered>>

\* Alt-F1 .. Alt-F3.  The switch to a terminal without a process starts one,
\* or is refused when all pids are used: then the reader of the terminal that
\* stays visible is told to return.
KeySwitch ==
    \E t \in Terminals \ {curr_terminal} :
        /\ curr_terminal' = t
        /\ open' = open \cup {t}
        /\ UNCHANGED <<buffer_size, ack, read_ack, at, entered>>

KeySwitchRefused ==
    /\ open # Terminals
    /\ Wake(curr_terminal)
    /\ UNCHANGED <<curr_terminal, open, buffer_size, read_ack, at, entered>>

Key == \/ KeyChar \/ KeyTab \/ KeySilent \/ KeyBackspace \/ KeyEnter
       \/ KeyControl \/ KeySwitch \/ KeySwitchRefused

-----------------------------------------------------------------------------
(* keyboard_read() by the top process of terminal t.                       *)

Goto(t, from, to) == at[t] = from /\ at' = [at EXCEPT ![t] = to]

ReadArm(t) ==
    /\ t \in open
    /\ at[t] \in Outside
    /\ at' = [at EXCEPT ![t] = "reset_ack"]
    /\ read_ack' = [read_ack EXCEPT ![t] = 1]
    /\ UNCHANGED <<curr_terminal, open, buffer_size, ack, entered>>

ReadResetAck(t) ==
    /\ Goto(t, "reset_ack", "spin")
    /\ ack' = [ack EXCEPT ![t] = 0]
    /\ UNCHANGED <<curr_terminal, open, buffer_size, read_ack, entered>>

\* Fault: the loop looks at active_term().
ReadWake_Active(t) ==
    /\ Goto(t, "spin", "clear_ack")
    /\ ack[curr_terminal] = 1
    /\ UNCHANGED <<curr_terminal, open, buffer_size, ack, read_ack, entered>>

ReadWake(t) ==
    /\ Goto(t, "spin", "clear_ack")
    /\ ack[t] = 1
    /\ UNCHANGED <<curr_terminal, open, buffer_size, ack, read_ack, entered>>

ReadClearAck(t) ==
    /\ Goto(t, "clear_ack", "disarm")
    /\ ack' = [ack EXCEPT ![t] = 0]
    /\ UNCHANGED <<curr_terminal, open, buffer_size, read_ack, entered>>

ReadDisarm(t) ==
    /\ Goto(t, "disarm", "copy")
    /\ read_ack' = [read_ack EXCEPT ![t] = 0]
    /\ UNCHANGED <<curr_terminal, open, buffer_size, ack, entered>>

\* The line goes to the caller and the buffer is emptied.  A key that comes
\* in between can only close a filled line once more, which is lost here too.
ReadCopy(t) ==
    /\ Goto(t, "copy", "away")
    /\ buffer_size' = [buffer_size EXCEPT ![t] = 0]
    /\ entered' = [entered EXCEPT ![t] = FALSE]
    /\ UNCHANGED <<curr_terminal, open, ack, read_ack>>

\* The caller's buffer is not mapped, which read() does not check: memcpy()
\* faults, the process is halted and its line stays where it is.
ReadFault(t) ==
    /\ Goto(t, "copy", "faulted")
    /\ UNCHANGED <<curr_terminal, open, buffer_size, ack, read_ack, entered>>

\* keyboard_read() once it is called.
ReadOn(t) == \/ ReadResetAck(t) \/ ReadWake(t) \/ ReadClearAck(t)
             \/ ReadDisarm(t) \/ ReadCopy(t) \/ ReadFault(t)

Next == Key \/ \E t \in Terminals : ReadArm(t) \/ ReadOn(t)

Spec == Init /\ [][Next]_kvars

\* The scheduler serves every terminal with a process (Processes!Scheduled),
\* so a reader goes on when it can.  No key need ever be pressed.
FairSpec == Spec /\ \A t \in Terminals : WF_kvars(ReadOn(t))

-----------------------------------------------------------------------------
(* Properties.                                                             *)

KTypeOK ==
    /\ curr_terminal \in Terminals
    /\ open \subseteq Terminals
    /\ buffer_size \in [Terminals -> 0 .. SizeLimit]
    /\ ack \in [Terminals -> {0, 1}]
    /\ read_ack \in [Terminals -> {0, 1}]
    /\ at \in [Terminals -> Places]
    /\ entered \in [Terminals -> BOOLEAN]

\* Nothing is left behind: whatever is typed while the reader passes through
\* the end of keyboard_read() with the mask not working, and whatever is
\* typed when nobody reads, a read that follows one that returned starts with
\* an empty line.  (After a fault the next reader finds the old line.)
StartsEmpty ==
    \A t \in Terminals :
        /\ at[t] = "away" => buffer_size[t] = 0
        /\ at[t] \in Outside => read_ack[t] = 0

\* A reader that was told about its line leaves the loop and the function,
\* even if its terminal is hidden by then and whatever is typed on the
\* others: no other step takes the news away while it spins.
AckedReadReturns ==
    \A t \in Terminals : at[t] = "spin" /\ ack[t] = 1 ~> at[t] \in Outside

\* keyboard.c:194 "check for buffer filled": the check at MAX_BUFFER_SIZE - 2
\* is there to keep the line within the buffer.
BufferInBounds ==
    \A t \in Terminals : buffer_size[t] <= MAX_BUFFER_SIZE

\* keyboard.c:233 "spin until user presses Enter or the buffer has been
\* filled": a reader does not go on waiting when the line it reads has been
\* closed with Enter.
NoLostWakeup ==
    \A t \in Terminals : at[t] = "spin" /\ entered[t] => ack[t] = 1
=============================================================================
