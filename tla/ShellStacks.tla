---------------------------- MODULE ShellStacks ----------------------------
(***************************************************************************)
(* What the process core of MazeOS promises, without PCBs, kernel stacks,  *)
(* pids' order or page directories: every terminal that was opened has a   *)
(* stack of processes, of which only the top one runs while the others     *)
(* wait for the one above them; one terminal has the CPU and one the       *)
(* screen; and the CPU comes round to every terminal with processes.       *)
(***************************************************************************)
EXTENDS Integers, Sequences

CONSTANTS Process, Terminal

VARIABLES stack,    \* stack[t]: the processes of terminal t, bottom first
          running,  \* the terminal that has the CPU
          shown     \* the terminal that has the screen

vars == <<stack, running, shown>>

Processes(t) == {stack[t][i] : i \in 1 .. Len(stack[t])}

Free == Process \ UNION {Processes(t) : t \in Terminal}

Init ==
    \E t \in Terminal, p \in Process :
        /\ stack = [u \in Terminal |-> IF u = t THEN <<p>> ELSE <<>>]
        /\ running = t
        /\ shown = t

\* The CPU goes to another terminal.
GiveCpu(t) ==
    /\ t # running
    /\ stack[t] # <<>>
    /\ running' = t
    /\ UNCHANGED <<stack, shown>>

\* The running process starts a child and waits for it.
Start(p) ==
    /\ p \in Free
    /\ stack[running] # <<>>
    /\ stack' = [stack EXCEPT ![running] = Append(@, p)]
    /\ UNCHANGED <<running, shown>>

\* The running process ends and its parent continues.
Finish ==
    /\ Len(stack[running]) > 1
    /\ stack' = [stack EXCEPT ![running] = SubSeq(@, 1, Len(@) - 1)]
    /\ UNCHANGED <<running, shown>>

\* The only process of the running terminal ends: a new one takes its place,
\* under a free pid or the same one.
Restart(p) ==
    /\ Len(stack[running]) = 1
    /\ p \in Free \cup Processes(running)
    /\ stack' = [stack EXCEPT ![running] = <<p>>]
    /\ UNCHANGED <<running, shown>>

Show(t) ==
    /\ t # shown
    /\ stack[t] # <<>>
    /\ shown' = t
    /\ UNCHANGED <<stack, running>>

\* An empty terminal comes to the screen, and gets a process and the CPU.
Open(t, p) ==
    /\ stack[t] = <<>>
    /\ p \in Free
    /\ stack' = [stack EXCEPT ![t] = <<p>>]
    /\ running' = t
    /\ shown' = t

Next ==
    \/ \E t \in Terminal : GiveCpu(t) \/ Show(t)
    \/ \E p \in Process : Start(p) \/ Restart(p)
    \/ \E t \in Terminal, p \in Process : Open(t, p)
    \/ Finish

Spec == Init /\ [][Next]_vars

\* Every terminal with processes is served, whatever the others do.
FairSpec == Spec /\ \A t \in Terminal : WF_vars(GiveCpu(t))
=============================================================================
