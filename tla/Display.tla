------------------------------ MODULE Display ------------------------------
(***************************************************************************)
(* Who draws where: the screen, the backup page of each terminal and the   *)
(* page tables that lead to them (src/paging.c, the display half of        *)
(* switch_active_terminal() in src/drivers/terminal.c, vidmap() and what   *)
(* halt() does to video memory in src/syscalls/syscalls.c), on top of the  *)
(* process core, whose actions are extended here.                          *)
(*                                                                         *)
(* A physical page is named by the terminal whose phys_vidmem_backup it is *)
(* or SCREEN (0xB8000).  Its text is abstracted to the set of marks <<t,   *)
(* how>>: something that processes of terminal t put there by             *)
(* terminal_write() ("write") or through a vidmap()ed page ("draw") is     *)
(* still on it.  Kernel messages are left out.                             *)
(***************************************************************************)
EXTENDS Processes

CONSTANT Watched    \* the ways to draw whose marks the pages keep

ASSUME DisplayAssumption == Watched \subseteq {"write", "draw"}

SCREEN == MAX_TERMINALS         \* not a terminal
NOWHERE == MAX_TERMINALS + 1    \* a page table entry that is not present
Pages == Terminals \cup {SCREEN}
Marks == Terminals \X Watched

\* What a page holds once terminal t has drawn on it.
Marked(text, t, how) == IF how \in Watched THEN text \cup {<<t, how>>} ELSE text

VARIABLES
    page,           \* page[g]: the marks on physical page g
    backup_map,     \* backup_map[t]: the page virt_vidmem_backup of t leads to
    user_pte,       \* the page the one user video page leads to, or NOWHERE
    vidmem,         \* vidmem[p]: p's PCB has vidmem_virt_addr set
    in_vidmap,      \* in_vidmap[p]: p is in vidmap(), its page just mapped
    wrote           \* wrote[t]: t wrote since its text was last cleared

video    == <<page, backup_map, user_pte, vidmem, in_vidmap, wrote>>
dvars    == <<vars, video>>

\* The page with the current text of terminal t.
PageOf(t) == IF t = curr_terminal THEN SCREEN ELSE t

DInit ==
    /\ Init
    /\ page = [g \in Pages |-> {}]
    /\ backup_map = [t \in Terminals |-> IF t = 0 THEN SCREEN ELSE t]
    /\ user_pte = NOWHERE
    /\ vidmem = [p \in Pids |-> FALSE]
    /\ in_vidmap = [p \in Pids |-> FALSE]
    /\ wrote = [t \in Terminals |-> FALSE]

-----------------------------------------------------------------------------
(* Pieces of the handlers.                                                 *)

Running == tss_esp0

\* clear_setpos(0, 0): clears the screen, whichever terminal it shows.
ClearScreen ==
    /\ page' = [page EXCEPT ![SCREEN] = {}]
    /\ wrote' = [wrote EXCEPT ![curr_terminal] = FALSE]

\* execute() zeroes the PCB of the process it starts, which esp' is.
NewPcb == vidmem' = [vidmem EXCEPT ![esp'] = FALSE]

\* Fault: halt() does not unmap the page.
Unmap_Forgets == user_pte' = user_pte

\* halt() unmaps the user video page if the process had asked for it.
Unmap == user_pte' = IF vidmem[Running] THEN NOWHERE ELSE user_pte

\* Fault: the new terminal's text is loaded before the old one's is saved.
SwitchScreen_LoadFirst(t) ==
    LET old == curr_terminal
        loaded == [page EXCEPT ![SCREEN] = page[t]]
    IN  /\ page' = [loaded EXCEPT ![old] = loaded[SCREEN]]
        /\ backup_map' = [backup_map EXCEPT ![old] = old, ![t] = SCREEN]

\* Fault: the old terminal's backup address is left on the screen.
SwitchScreen_KeepMap(t) ==
    LET old == curr_terminal
        saved == [page EXCEPT ![old] = page[SCREEN]]
    IN  /\ page' = [saved EXCEPT ![SCREEN] = saved[backup_map[t]]]
        /\ backup_map' = [backup_map EXCEPT ![t] = SCREEN]

\* Fault: the new terminal's backup address is unmapped, like the user page.
SwitchScreen_Unmap(t) ==
    LET old == curr_terminal
        saved == [page EXCEPT ![old] = page[SCREEN]]
    IN  /\ page' = [saved EXCEPT ![SCREEN] = saved[backup_map[t]]]
        /\ backup_map' = [backup_map EXCEPT ![old] = old, ![t] = NOWHERE]

\* switch_active_terminal(), the two memcpy calls and the backup mappings:
\* the old terminal's backup address leads to its own page again, where the
\* screen is saved, then the new one's text is loaded and its address leads
\* to the screen.
SwitchScreen(t) ==
    LET old == curr_terminal
        saved == [page EXCEPT ![old] = page[SCREEN]]
    IN  /\ page' = [saved EXCEPT ![SCREEN] = saved[backup_map[t]]]
        /\ backup_map' = [backup_map EXCEPT ![old] = old, ![t] = SCREEN]

\* The user video page: to the old terminal's backup if the top process there
\* has one, then to the screen if the top process of terminal t has one.
SwitchUserPage(t) ==
    user_pte' = IF num_procs[t] > 0 /\ vidmem[Top(t)] THEN SCREEN
                ELSE IF vidmem[Top(curr_terminal)] THEN curr_terminal
                ELSE user_pte

-----------------------------------------------------------------------------
(* The actions of the process core.                                        *)

DPitInterrupt == PitInterrupt /\ UNCHANGED video

DExecute ==
    /\ Execute
    /\ ~in_vidmap[Running]
    /\ NewPcb
    /\ UNCHANGED <<page, backup_map, user_pte, in_vidmap, wrote>>

DHaltChild ==
    /\ HaltChild
    /\ ~in_vidmap[Running]
    /\ Unmap
    /\ UNCHANGED <<page, backup_map, vidmem, in_vidmap, wrote>>

DHaltRoot ==
    /\ HaltRoot
    /\ ~in_vidmap[Running]
    /\ Unmap
    /\ ClearScreen
    /\ NewPcb
    /\ UNCHANGED <<backup_map, in_vidmap>>

DShowTerminal ==
    /\ ShowTerminal
    /\ SwitchScreen(curr_terminal')
    /\ SwitchUserPage(curr_terminal')
    /\ UNCHANGED <<vidmem, in_vidmap, wrote>>

DOpenTerminal ==
    /\ OpenTerminal
    /\ SwitchScreen(curr_terminal')
    /\ SwitchUserPage(curr_terminal')
    /\ NewPcb
    /\ UNCHANGED <<in_vidmap, wrote>>

-----------------------------------------------------------------------------
(* The running process draws.  System calls run with interrupts on, so any *)
(* of the actions above can come between two of these steps.               *)

\* Fault: putc_buffer() writes to the screen, as putc() does.
TerminalWrite_Putc ==
    /\ ~in_vidmap[Running]
    /\ page' = [page EXCEPT ![SCREEN] = Marked(@, exec_term, "write")]
    /\ wrote' = [wrote EXCEPT ![exec_term] = TRUE]
    /\ UNCHANGED <<vars, backup_map, user_pte, vidmem, in_vidmap>>

\* One putc_buffer() of terminal_write(): to the backup address of the
\* executing terminal.
TerminalWrite ==
    LET g == backup_map[exec_term]
    IN  /\ ~in_vidmap[Running]
        /\ page' = [page EXCEPT ![g] = Marked(@, exec_term, "write")]
        /\ wrote' = [wrote EXCEPT ![exec_term] = TRUE]
        /\ UNCHANGED <<vars, backup_map, user_pte, vidmem, in_vidmap>>

\* terminal_read() that finds CTRL_L in the line it read.
TerminalReadCtrlL ==
    /\ ~in_vidmap[Running]
    /\ ClearScreen
    /\ UNCHANGED <<vars, backup_map, user_pte, vidmem, in_vidmap>>

\* vidmap(), up to map_user_video_mem() ...
VidmapMap ==
    /\ ~in_vidmap[Running]
    /\ user_pte' = SCREEN
    /\ in_vidmap' = [in_vidmap EXCEPT ![Running] = TRUE]
    /\ UNCHANGED <<vars, page, backup_map, vidmem, wrote>>

\* ... and from the PCB's vidmem_virt_addr on.
VidmapRecord ==
    /\ in_vidmap[Running]
    /\ vidmem' = [vidmem EXCEPT ![Running] = TRUE]
    /\ in_vidmap' = [in_vidmap EXCEPT ![Running] = FALSE]
    /\ UNCHANGED <<vars, page, backup_map, user_pte, wrote>>

\* A program that called vidmap() stores to the address it got.
UserDraw ==
    /\ vidmem[Running] /\ ~in_vidmap[Running]
    /\ user_pte # NOWHERE
    /\ page' = [page EXCEPT ![user_pte] = Marked(@, exec_term, "draw")]
    /\ UNCHANGED <<vars, backup_map, user_pte, vidmem, in_vidmap, wrote>>

DNext ==
    \/ DPitInterrupt \/ DExecute \/ DHaltChild \/ DHaltRoot
    \/ DShowTerminal \/ DOpenTerminal
    \/ TerminalWrite \/ TerminalReadCtrlL
    \/ VidmapMap \/ VidmapRecord \/ UserDraw

DSpec == DInit /\ [][DNext]_dvars

-----------------------------------------------------------------------------
(* Properties.                                                             *)

DTypeOK ==
    /\ page \in [Pages -> SUBSET Marks]
    /\ backup_map \in [Terminals -> Pages]
    /\ user_pte \in Pages \cup {NOWHERE}
    /\ vidmem \in [Pids -> BOOLEAN]
    /\ in_vidmap \in [Pids -> BOOLEAN]
    /\ wrote \in [Terminals -> BOOLEAN]

\* terminal_write() always goes through the backup address of the executing
\* terminal.  Whatever the interleaving of switches, scheduling, starts and
\* halts, that text is found on the terminal's own backup page or, while it
\* is the visible one, on the screen, and on no other terminal's page.
WritesStayHome ==
    \A g \in Pages, t \in Terminals : <<t, "write">> \in page[g] =>
        g = t \/ (g = SCREEN /\ t = curr_terminal)

\* What a terminal wrote since it was last cleared is still there, on the
\* page the user sees when it is or becomes visible: no switch loses text,
\* also when the writer runs in the background.
NoLostOutput ==
    \A t \in Terminals :
        wrote[t] /\ "write" \in Watched => <<t, "write">> \in page[PageOf(t)]

\* While the one user video page is mapped, some live process has asked for
\* it: halt, restart and switch, in any order, never leave the video memory
\* mapped into programs that did not call vidmap().
UserPageHasOwner ==
    user_pte # NOWHERE =>
        \E p \in Pids : available_pids[p] = 1 /\ (vidmem[p] \/ in_vidmap[p])

\* terminal.c:196 "if vidmap was created for current terminal, map that to
\* backup": what a program draws through its vidmap()ed page stays on its own
\* terminal, as terminal_write() text does.
DrawsStayHome ==
    \A g \in Pages, t \in Terminals : <<t, "draw">> \in page[g] =>
        g = t \/ (g = SCREEN /\ t = curr_terminal)
=============================================================================
