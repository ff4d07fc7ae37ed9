----------------------------- MODULE Processes -----------------------------
(***************************************************************************)
(* The process core of MazeOS: the pid table and the round-robin scheduler *)
(* (src/process.c), the process stack of each terminal and the terminal    *)
(* switch (src/drivers/terminal.c), and the system calls and exceptions    *)
(* that start and end processes (src/syscalls/syscalls.c, src/x86/idt.c).  *)
(*                                                                         *)
(* A PCB lies at the bottom of its process's 8 KB kernel stack, so a       *)
(* pcb_t pointer, a kernel stack block and a pid name the same thing and   *)
(* are all a member of Pids here.  halt, execute, the PIT handler and      *)
(* switch_active_terminal run with interrupts off from their cli() on:     *)
(* each is one action.  Between two actions the CPU is in user mode or in  *)
(* a system call that leaves this state alone, with interrupts on.         *)
(***************************************************************************)
EXTENDS Integers

CONSTANTS MAX_PROCESSES,    \* size of the pid table and of a process stack
          MAX_TERMINALS

ASSUME ProcessesAssumption == /\ MAX_PROCESSES \in Nat \ {0}
                              /\ MAX_TERMINALS \in Nat \ {0}

NULL == 0
RETURN_EXCEPTION == 256

Pids == 1 .. MAX_PROCESSES
Terminals == 0 .. MAX_TERMINALS - 1
Slots == 0 .. MAX_PROCESSES - 1

\* The kernel functions whose stack frame a saved k_esp/k_ebp may lie in;
\* "fresh" is the value execute() gives a PCB that has not been saved yet.
SavedIn == {"fresh", "execute", "context_switch", "switch_active_terminal"}

VARIABLES
    available_pids, \* available_pids[p]: 1 when pid p is in use
    child_procs,    \* child_procs[t][i]: the PCBs on terminal t, bottom first
    num_procs,      \* num_procs[t]: how many of them
    exec_term,      \* the terminal whose top process has the CPU
    curr_terminal,  \* the terminal on the screen
    parent,         \* the PCB fields parent, retval and k_esp
    retval,
    k_esp,          \* block: the kernel stack pointed into; frame: whose frame
    kstack,         \* the innermost frame really suspended on each kernel
                    \* stack, "live" on the CPU's own, "dead" after a halt
    esp,            \* the kernel stack the CPU runs (or last ran) on
    tss_esp0,       \* the kernel stack it enters from user mode
    user_page       \* the process whose 4 MB frame is mapped at 128 MB

tables  == <<available_pids, child_procs, num_procs>>
pcbs    == <<parent, retval, k_esp>>
cpu     == <<kstack, esp, tss_esp0, user_page>>
vars    == <<tables, exec_term, curr_terminal, pcbs, cpu>>

-----------------------------------------------------------------------------
(* The pid table and the terminals' process stacks.                        *)

\* get_available_pid() finds q in the table pids.
LowestFree(pids, q) == /\ pids[q] = 0
                       /\ \A r \in Pids : r < q => pids[r] # 0

\* Faults, for the mutants: the table stores the pid; free_pid() forgets that
\* pids start at 1.
MarkUsed_StoresPid(pids, q) == [pids EXCEPT ![q] = q]

MarkUsed(pids, q) == [pids EXCEPT ![q] = 1]

FreePid_OffByOne(pids, p) ==
    [pids EXCEPT ![IF p < MAX_PROCESSES THEN p + 1 ELSE p] = 0]

FreePid(pids, p) == [pids EXCEPT ![p] = 0]

Top(t) == child_procs[t][num_procs[t] - 1]

\* The interrupted or trapping code was in user mode, and the CPU took its
\* stack from the TSS, or it was in the kernel and stays on its stack.
EntryStacks == {esp, tss_esp0}

\* Fault: halt() pops the stack of the terminal on the screen.
PopTop_Active ==
    [child_procs EXCEPT ![curr_terminal][num_procs[curr_terminal] - 1] = NULL]

\* executing_term()->child_procs without its top entry, as halt leaves it.
PopTop == [child_procs EXCEPT ![exec_term][num_procs[exec_term] - 1] = NULL]

-----------------------------------------------------------------------------
(* Giving the CPU to another process.                                      *)

\* Fault: the TSS is not updated.
SwitchTo_OldTSS(q, ctx, frames) ==
    /\ user_page' = q
    /\ esp' = ctx[q].block
    /\ kstack' = [frames EXCEPT ![ctx[q].block] = "live"]
    /\ UNCHANGED tss_esp0

\* The page directory and the TSS take process q's values, and the CPU
\* continues in the frame that the k_esp of q's PCB points to.
SwitchTo(q, ctx, frames) ==
    /\ user_page' = q
    /\ tss_esp0' = q
    /\ esp' = ctx[q].block
    /\ kstack' = [frames EXCEPT ![ctx[q].block] = "live"]

\* Faults: every process gets a parent; an exception's mark survives.
ParentOf_Always(height, p) == p
ClearMark_Missing(marks, q) == marks

\* The first process of a terminal has no parent; any other one has the
\* process whose kernel stack execute() was called on.
ParentOf(height, p) == IF height = 0 THEN NULL ELSE p

\* The PCB is cleared before it is filled in.
ClearMark(marks, q) == [marks EXCEPT ![q] = 0]

\* execute() from its get_available_pid() on: on kernel stack p, for a
\* terminal t that n and kids describe, with the pid table pids, out of which
\* it gets pid q.  ctx, marks and frames are the PCBs' saved contexts and return
\* values and the kernel stacks as they are at the call.
Launch(t, p, q, pids, kids, n, ctx, marks, frames) ==
    /\ LowestFree(pids, q)
    /\ available_pids' = MarkUsed(pids, q)
    /\ child_procs' = [kids EXCEPT ![t][n[t]] = q]
    /\ num_procs' = [n EXCEPT ![t] = @ + 1]
    /\ parent' = [parent EXCEPT ![q] = ParentOf(n[t], p)]
    /\ k_esp' = [ctx EXCEPT ![q] = [block |-> q, frame |-> "fresh"]]
    /\ retval' = ClearMark(marks, q)
    /\ kstack' = [frames EXCEPT ![q] = "live"]
    /\ esp' = q
    /\ tss_esp0' = q
    /\ user_page' = q

\* Fault: execute() does not store its caller's stack pointer.
SaveContext_NotInExecute(in, p, f) ==
    IF f = "execute" THEN k_esp
    ELSE [k_esp EXCEPT ![in] = [block |-> p, frame |-> f]]

\* A call that leaves kernel stack p in function f stores where it is in the
\* PCB `in'.
SaveContext(in, p, f) == [k_esp EXCEPT ![in] = [block |-> p, frame |-> f]]

-----------------------------------------------------------------------------
(* The initial state: entry() has run execute("shell") for terminal 0, and *)
(* no interrupt has arrived since its sti().                               *)

Init ==
    /\ available_pids = [p \in Pids |-> IF p = 1 THEN 1 ELSE 0]
    /\ child_procs = [t \in Terminals |->
                        [i \in Slots |-> IF t = 0 /\ i = 0 THEN 1 ELSE NULL]]
    /\ num_procs = [t \in Terminals |-> IF t = 0 THEN 1 ELSE 0]
    /\ exec_term = 0
    /\ curr_terminal = 0
    /\ parent = [p \in Pids |-> NULL]
    /\ retval = [p \in Pids |-> 0]
    /\ k_esp = [p \in Pids |-> [block |-> p, frame |-> "fresh"]]
    /\ kstack = [p \in Pids |-> IF p = 1 THEN "live" ELSE "dead"]
    /\ esp = 1
    /\ tss_esp0 = 1
    /\ user_page = 1

-----------------------------------------------------------------------------
(* The scheduler.                                                          *)

\* How far the handler's search has to go from the executing terminal to t.
Distance(t) == (t - exec_term) % MAX_TERMINALS

\* Fault: the search always starts at terminal 0.
NextTerminal_FromZero(t) ==
    /\ t # exec_term
    /\ num_procs[t] > 0
    /\ \A u \in Terminals \ {exec_term} : num_procs[u] > 0 => t <= u

\* The handler's search stops at t: the next terminal with a process.
NextTerminal(t) ==
    /\ t # exec_term
    /\ num_procs[t] > 0
    /\ \A u \in Terminals \ {exec_term} :
            num_procs[u] > 0 => Distance(t) <= Distance(u)

\* pit_interrupt_handler() and context_switch().  With every process on one
\* terminal the handler changes nothing.
PitInterrupt ==
    \E t \in Terminals, p \in EntryStacks :
        /\ NextTerminal(t)
        /\ exec_term' = t
        /\ k_esp' = SaveContext(p, p, "context_switch")
        /\ SwitchTo(Top(t), k_esp', [kstack EXCEPT ![p] = "context_switch"])
        /\ UNCHANGED <<tables, curr_terminal, parent, retval>>

-----------------------------------------------------------------------------
(* System calls and exceptions.                                            *)

\* execute() of a valid program file by a process.  With no free pid, and for
\* a name that is not a program, the call returns and changes nothing here.
Execute ==
    \E q \in Pids :
        LET p == tss_esp0
        IN  /\ Launch(exec_term, p, q, available_pids, child_procs, num_procs,
                      IF num_procs[exec_term] = 0 THEN k_esp
                      ELSE SaveContext(p, p, "execute"),
                      retval, [kstack EXCEPT ![p] = "execute"])
            /\ UNCHANGED <<exec_term, curr_terminal>>

\* halt() of the process whose PCB get_pcb() finds at p, for the system call
\* and for an exception, in user mode or in the kernel, whose handler writes
\* RETURN_EXCEPTION into the PCB first: the PCBs' return values it leaves.
HaltMarks(p) == {[retval EXCEPT ![p] = RETURN_EXCEPTION]}
                    \cup (IF p = tss_esp0 THEN {retval} ELSE {})

\* With a parent: the parent's execute() call returns.
HaltChild ==
    \E p \in EntryStacks :
        /\ parent[p] # NULL
        /\ available_pids' = FreePid(available_pids, p)
        /\ child_procs' = PopTop
        /\ num_procs' = [num_procs EXCEPT ![exec_term] = @ - 1]
        /\ retval' \in HaltMarks(p)
        /\ SwitchTo(parent[p], k_esp, [kstack EXCEPT ![p] = "dead"])
        /\ UNCHANGED <<exec_term, curr_terminal, parent, k_esp>>

\* Fault: the terminal's first process is not replaced.
HaltRoot_NoShell ==
    \E p \in EntryStacks :
        /\ parent[p] = NULL
        /\ available_pids' = FreePid(available_pids, p)
        /\ child_procs' = PopTop
        /\ num_procs' = [num_procs EXCEPT ![exec_term] = @ - 1]
        /\ UNCHANGED <<exec_term, curr_terminal, pcbs, cpu>>

\* A terminal's first process: execute("shell") is called on the dead
\* process's kernel stack, for the terminal that has just become empty.
HaltRoot ==
    \E p \in EntryStacks, q \in Pids : \E marks \in HaltMarks(p) :
        /\ parent[p] = NULL
        /\ Launch(exec_term, p, q, FreePid(available_pids, p), PopTop,
                  [num_procs EXCEPT ![exec_term] = @ - 1],
                  k_esp, marks, [kstack EXCEPT ![p] = "dead"])
        /\ UNCHANGED <<exec_term, curr_terminal>>

-----------------------------------------------------------------------------
(* The terminal switch, from the keyboard interrupt (Alt-F1 .. Alt-F3).    *)

\* Fault: an empty terminal is shown without starting a shell.
ShowTerminal_Empty ==
    \E t \in Terminals \ {curr_terminal} :
        /\ curr_terminal' = t
        /\ UNCHANGED <<tables, exec_term, pcbs, cpu>>

\* switch_active_terminal() to a terminal that has a process.
ShowTerminal ==
    \E t \in Terminals \ {curr_terminal} :
        /\ num_procs[t] > 0
        /\ curr_terminal' = t
        /\ UNCHANGED <<tables, exec_term, pcbs, cpu>>

\* switch_active_terminal() to an empty terminal while a pid is free: the
\* interrupted process is left there and a shell starts on the new terminal.
\* Without a free pid the switch is refused and changes nothing here.
OpenTerminal ==
    \E t \in Terminals \ {curr_terminal}, p \in EntryStacks, q \in Pids :
        /\ num_procs[t] = 0
        /\ curr_terminal' = t
        /\ exec_term' = t
        /\ Launch(t, p, q, available_pids, child_procs, num_procs,
                  SaveContext(Top(exec_term), p, "switch_active_terminal"),
                  retval, [kstack EXCEPT ![p] = "switch_active_terminal"])

-----------------------------------------------------------------------------
Next == PitInterrupt \/ Execute \/ HaltChild \/ HaltRoot
            \/ ShowTerminal \/ OpenTerminal

Spec == Init /\ [][Next]_vars

\* The PIT runs in periodic mode (pit_init) and no code path leaves
\* interrupts off for ever, so a tick that has something to do comes.
FairSpec == Spec /\ WF_vars(PitInterrupt)

-----------------------------------------------------------------------------
(* Properties.                                                             *)

TypeOK ==
    /\ available_pids \in [Pids -> {0, 1}]
    /\ child_procs \in [Terminals -> [Slots -> Pids \cup {NULL}]]
    /\ num_procs \in [Terminals -> 0 .. MAX_PROCESSES]
    /\ exec_term \in Terminals
    /\ curr_terminal \in Terminals
    /\ parent \in [Pids -> Pids \cup {NULL}]
    /\ retval \in [Pids -> {0, RETURN_EXCEPTION}]
    /\ k_esp \in [Pids -> [block : Pids, frame : SavedIn]]
    /\ kstack \in [Pids -> (SavedIn \ {"fresh"}) \cup {"live", "dead"}]
    /\ esp \in Pids
    /\ tss_esp0 \in Pids
    /\ user_page \in Pids

\* The kernel keeps the truth about its processes twice: in the pid table and
\* in the terminals' child_procs.  They agree whatever system calls,
\* exceptions and switches came before: a pid is used exactly when one slot
\* of one terminal holds its PCB, no PCB is in two slots, the slots from
\* num_procs up are NULL.  No pid leaks and none is handed out twice.
TablesAgree ==
    /\ \A t \in Terminals, i \in Slots :
            child_procs[t][i] # NULL <=> i < num_procs[t]
    /\ \A t \in Terminals, i \in Slots :
            child_procs[t][i] # NULL => available_pids[child_procs[t][i]] = 1
    /\ \A p \in Pids : available_pids[p] = 1 =>
            \E t \in Terminals, i \in Slots : child_procs[t][i] = p
    /\ \A t, u \in Terminals, i, j \in Slots :
            child_procs[t][i] # NULL /\ child_procs[t][i] = child_procs[u][j]
                => t = u /\ i = j

\* halt() finds the process to return to through pcb->parent, the scheduler
\* through child_procs; the two must name the same process at every depth,
\* and only a terminal's first process may have a NULL parent.
ParentChain ==
    \A t \in Terminals, i \in Slots : i < num_procs[t] =>
        parent[child_procs[t][i]] =
            IF i = 0 THEN NULL ELSE child_procs[t][i - 1]

\* Between two actions the stack the CPU is on, the stack it will enter the
\* kernel on and the program mapped at 128 MB all belong to the top process
\* of the executing terminal, which halt() and execute() take for granted.
CpuRunsTop ==
    /\ num_procs[exec_term] > 0
    /\ esp = Top(exec_term)
    /\ tss_esp0 = Top(exec_term)
    /\ user_page = Top(exec_term)

\* A saved k_esp is only ever used by code that can return through the frame
\* it points into: context_switch() leaves through the frame of a
\* context_switch() or a switch_active_terminal() call, halt() jumps into the
\* middle of an execute() call.  So a process that waits for its child has
\* its execute() frame saved, the top process of a terminal that waits for
\* the CPU has one of the other two, each on its own kernel stack, and that
\* frame is the innermost one there.
SavedContexts ==
    \A t \in Terminals, i \in Slots : i < num_procs[t] =>
        LET p == child_procs[t][i]
            top == i = num_procs[t] - 1
        IN  /\ ~top => /\ k_esp[p] = [block |-> p, frame |-> "execute"]
                       /\ kstack[p] = "execute"
            /\ top /\ t = exec_term => kstack[p] = "live"
            /\ top /\ t # exec_term =>
                /\ k_esp[p] = [block |-> p, frame |-> kstack[p]]
                /\ kstack[p] \in {"context_switch", "switch_active_terminal"}

\* switch_active_terminal() dereferences child_procs[num_procs - 1] of the
\* terminal it leaves: the terminal on the screen always has a process.
ActiveHasProc == num_procs[curr_terminal] > 0

\* A pid is used again after an exception ended its process; the mark that
\* the exception left in the PCB must not reach the next process, whose
\* halt() would then report an exception.
NoStaleException == \A p \in Pids : available_pids[p] = 1 => retval[p] = 0

\* A terminal that was opened keeps a process for ever: no step, not even
\* halt() or an exception of its last one, leaves it empty.
TerminalsNeverDie ==
    [][\A t \in Terminals : num_procs[t] > 0 => num_procs'[t] > 0]_vars

\* The turn of a terminal that waits comes nearer each time that the CPU goes
\* to another one, except that Alt-Fn may put a new terminal in between:
\* there are only so many.
TurnComesNearer ==
    [][exec_term' # exec_term =>
          \/ \A t \in Terminals \ {exec_term, exec_term'} :
                num_procs[t] > 0 => Distance(t)' < Distance(t)
          \/ \E t \in Terminals : num_procs[t] = 0 /\ num_procs'[t] > 0]_vars

\* Round-robin scheduling: the terminal of every process that is waiting for
\* the CPU gets it, whatever the others do and however many there are.
Scheduled ==
    \A t \in Terminals : num_procs[t] > 0 ~> exec_term = t
=============================================================================
