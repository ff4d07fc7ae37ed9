------------------------ MODULE ProcessesRefinement ------------------------
(***************************************************************************)
(* The process core implements ShellStacks: the stack of a terminal is the *)
(* used part of its child_procs array.                                     *)
(***************************************************************************)
EXTENDS Processes, Sequences

StackOf(t) == [i \in 1 .. num_procs[t] |-> child_procs[t][i - 1]]

Abstract == INSTANCE ShellStacks
    WITH Process <- Pids,
         Terminal <- Terminals,
         stack <- [t \in Terminals |-> StackOf(t)],
         running <- exec_term,
         shown <- curr_terminal

\* Every step of the pid table, PCB, stack and TSS bookkeeping is a step of
\* ShellStacks or leaves it unchanged, and the PIT serves every terminal: no
\* process runs beside its child, none disappears, no pid is given to two.
ImplementsShellStacks == Abstract!FairSpec
=============================================================================
