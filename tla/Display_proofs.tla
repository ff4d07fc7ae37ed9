---------------------------- MODULE Display_proofs ----------------------------
(***************************************************************************)
(* terminal_write()'s text stays on its own terminal and is not lost, for  *)
(* any number of terminals and processes.                                  *)
(*                                                                         *)
(* The invariant adds that the backup address of every terminal leads to   *)
(* the page with its current text; what the process core needs of its own  *)
(* state is IInv of Processes_proofs.                                      *)
(***************************************************************************)
EXTENDS Display, Processes_proofs

USE ProcessesAssumption

\* Every backup address leads to its terminal's text.
MapsHome == \A t \in Terminals : backup_map[t] = PageOf(t)

Texts == page \in [Pages -> SUBSET Marks]
             /\ backup_map \in [Terminals -> Pages]
             /\ wrote \in [Terminals -> BOOLEAN]

Home == Texts /\ MapsHome /\ WritesStayHome /\ NoLostOutput

\* The screen is no terminal, and each terminal has a page.
LEMMA PagesFacts ==
    /\ SCREEN \in Pages /\ SCREEN \notin Terminals /\ Terminals \subseteq Pages
    /\ \A t \in Terminals : PageOf(t) \in Pages
  BY DEF SCREEN, Pages, Terminals, PageOf

\* A mark is added, and nothing taken away.
LEMMA MarkedFacts ==
    ASSUME NEW text \in SUBSET Marks, NEW t \in Terminals,
           NEW how \in {"write", "draw"}
    PROVE  /\ Marked(text, t, how) \in SUBSET Marks
           /\ text \subseteq Marked(text, t, how)
           /\ \A m \in Marked(text, t, how) : m \in text \/ m = <<t, how>>
           /\ how \in Watched => <<t, how>> \in Marked(text, t, how)
  BY DEF Marked, Marks

-----------------------------------------------------------------------------
(* What the handlers do to the texts.                                      *)

\* Nothing is drawn and nothing switched.
LEMMA TextsStay ==
    ASSUME Home, UNCHANGED <<page, backup_map, wrote, curr_terminal>>
    PROVE  Home'
  BY DEF Home, Texts, MapsHome, WritesStayHome, NoLostOutput, PageOf

\* clear_setpos(): the visible terminal has written nothing any more.
LEMMA ClearKeepsHome ==
    ASSUME Home, ClearScreen, UNCHANGED <<backup_map, curr_terminal>>,
           curr_terminal \in Terminals
    PROVE  Home'
<1>1. Texts'
  BY PagesFacts DEF Home, Texts, ClearScreen
<1>2. MapsHome'
  BY DEF Home, MapsHome, PageOf
<1>3. WritesStayHome'
  BY DEF Home, Texts, WritesStayHome, ClearScreen
<1>4. NoLostOutput'
  <2> SUFFICES ASSUME NEW t \in Terminals, wrote'[t], "write" \in Watched
               PROVE  <<t, "write">> \in page'[PageOf(t)]
    BY DEF NoLostOutput, PageOf
  <2>1. t # curr_terminal /\ wrote[t]
    BY DEF Home, Texts, ClearScreen
  <2>2. PageOf(t) = t /\ t # SCREEN
    BY <2>1, PagesFacts DEF PageOf
  <2>3. page'[t] = page[t]
    BY <2>2, PagesFacts DEF Home, Texts, ClearScreen
  <2> QED
    BY <2>1, <2>2, <2>3 DEF Home, NoLostOutput
<1> QED
  BY <1>1, <1>2, <1>3, <1>4 DEF Home

\* switch_active_terminal(): saves the text of the one and loads the other's.
LEMMA SwitchKeepsHome ==
    ASSUME Home, curr_terminal \in Terminals,
           NEW t \in Terminals, t # curr_terminal, curr_terminal' = t,
           SwitchScreen(t), wrote' = wrote
    PROVE  Home'
<1> DEFINE old == curr_terminal
<1>1. /\ backup_map[t] = t /\ t # SCREEN /\ old # SCREEN /\ old # t
      /\ t \in Pages /\ old \in Pages /\ SCREEN \in Pages
  BY PagesFacts DEF Home, MapsHome, PageOf
<1>2. /\ page' \in [Pages -> SUBSET Marks]
      /\ page'[SCREEN] = page[t] /\ page'[old] = page[SCREEN]
      /\ \A g \in Pages \ {SCREEN, old} : page'[g] = page[g]
  BY <1>1 DEF SwitchScreen, Home, Texts
<1>3. /\ backup_map' \in [Terminals -> Pages]
      /\ backup_map'[t] = SCREEN /\ backup_map'[old] = old
      /\ \A u \in Terminals \ {t, old} : backup_map'[u] = backup_map[u]
  BY <1>1 DEF SwitchScreen, Home, Texts
<1>4. Texts'
  BY <1>2, <1>3 DEF Home, Texts
<1>5. MapsHome'
  BY <1>1, <1>3 DEF Home, MapsHome, PageOf
<1>6. WritesStayHome'
  <2> SUFFICES ASSUME NEW g \in Pages, NEW u \in Terminals,
                      <<u, "write">> \in page'[g]
               PROVE  g = u \/ (g = SCREEN /\ u = t)
    BY DEF WritesStayHome
  <2>1. CASE g = SCREEN
    BY <1>1, <1>2, <2>1 DEF Home, WritesStayHome
  <2>2. CASE g = old
    BY <1>1, <1>2, <2>2, PagesFacts DEF Home, WritesStayHome
  <2>3. CASE g \notin {SCREEN, old}
    BY <1>2, <2>3 DEF Home, WritesStayHome
  <2> QED
    BY <2>1, <2>2, <2>3
<1>7. NoLostOutput'
  <2> SUFFICES ASSUME NEW u \in Terminals, wrote[u], "write" \in Watched
               PROVE  <<u, "write">> \in page'[PageOf(u)']
    BY DEF NoLostOutput
  <2>1. <<u, "write">> \in page[PageOf(u)]
    BY DEF Home, NoLostOutput
  <2>2. page'[PageOf(u)'] = page[PageOf(u)]
    BY <1>1, <1>2, PagesFacts DEF PageOf
  <2> QED
    BY <2>1, <2>2
<1> QED
  BY <1>4, <1>5, <1>6, <1>7 DEF Home

\* A store to a page: of terminal_write() only to where its own text is.
LEMMA DrawKeepsHome ==
    ASSUME Home, UNCHANGED <<backup_map, curr_terminal>>,
           NEW x \in Terminals, NEW g \in Pages, NEW how \in {"write", "draw"},
           page' = [page EXCEPT ![g] = Marked(@, x, how)],
           how = "write" => g = PageOf(x),
           wrote' = IF how = "write" THEN [wrote EXCEPT ![x] = TRUE] ELSE wrote
    PROVE  Home'
<1>1. /\ Marked(page[g], x, how) \in SUBSET Marks
      /\ page[g] \subseteq Marked(page[g], x, how)
      /\ \A m \in Marked(page[g], x, how) : m \in page[g] \/ m = <<x, how>>
      /\ how \in Watched => <<x, how>> \in Marked(page[g], x, how)
  <2>1. page[g] \in SUBSET Marks
    BY DEF Home, Texts
  <2> QED
    BY <2>1, MarkedFacts
<1>2. Texts'
  BY <1>1 DEF Home, Texts
<1>3. MapsHome'
  BY DEF Home, MapsHome, PageOf
<1>4. /\ page'[g] = Marked(page[g], x, how)
      /\ \A h \in Pages \ {g} : page'[h] = page[h]
  BY DEF Home, Texts
<1>5. WritesStayHome'
  <2> SUFFICES ASSUME NEW h \in Pages, NEW u \in Terminals,
                      <<u, "write">> \in page'[h]
               PROVE  h = u \/ (h = SCREEN /\ u = curr_terminal)
    BY DEF WritesStayHome
  <2>1. CASE <<u, "write">> \in page[h]
    BY <2>1 DEF Home, WritesStayHome
  <2>2. CASE <<u, "write">> \notin page[h]
    <3>1. h = g /\ u = x /\ how = "write"
      BY <1>1, <1>4, <2>2
    <3> QED
      BY <3>1 DEF PageOf
  <2> QED
    BY <2>1, <2>2
<1>6. NoLostOutput'
  <2> SUFFICES ASSUME NEW u \in Terminals, wrote'[u], "write" \in Watched
               PROVE  <<u, "write">> \in page'[PageOf(u)]
    BY DEF NoLostOutput, PageOf
  <2>1. CASE wrote[u]
    <3>1. <<u, "write">> \in page[PageOf(u)] /\ PageOf(u) \in Pages
      BY <2>1, PagesFacts DEF Home, NoLostOutput
    <3> QED
      BY <1>1, <1>4, <3>1
  <2>2. CASE ~wrote[u]
    <3>1. u = x /\ how = "write"
      BY <2>2 DEF Home, Texts
    <3> QED
      BY <1>1, <1>4, <3>1
  <2> QED
    BY <2>1, <2>2
<1> QED
  BY <1>2, <1>3, <1>5, <1>6 DEF Home

-----------------------------------------------------------------------------
(* The actions.                                                            *)

\* What the page table and the PCBs are.
Video == user_pte \in Pages \cup {NOWHERE}
             /\ vidmem \in [Pids -> BOOLEAN] /\ in_vidmap \in [Pids -> BOOLEAN]

DInv == IInv /\ Home /\ Video

\* Who runs and who is visible.
LEMMA Actors ==
    ASSUME IInv
    PROVE  /\ exec_term \in Terminals /\ curr_terminal \in Terminals
           /\ Running \in Pids /\ esp \in Pids
  BY DEF IInv, TypeOK, Running

\* Each action of the display takes a step of the process core, or none.
LEMMA StepOfCore == [DNext]_dvars => [Next]_vars
  BY DEF DNext, dvars, Next, DPitInterrupt, DExecute, DHaltChild, DHaltRoot,
     DShowTerminal, DOpenTerminal, TerminalWrite, TerminalReadCtrlL, VidmapMap,
     VidmapRecord, UserDraw

\* The texts are where they should be after every action.
LEMMA HomeStep == DInv /\ [DNext]_dvars => Home'
<1> SUFFICES ASSUME DInv, [DNext]_dvars PROVE Home'
  OBVIOUS
<1>1. /\ IInv /\ Home /\ Video
      /\ exec_term \in Terminals /\ curr_terminal \in Terminals
  BY Actors DEF DInv
<1>2. CASE DPitInterrupt \/ DExecute \/ DHaltChild \/ UNCHANGED dvars
  <2>1. UNCHANGED <<page, backup_map, wrote, curr_terminal>>
    BY <1>2 DEF DPitInterrupt, DExecute, DHaltChild, PitInterrupt, Execute,
       HaltChild, dvars, video, vars
  <2> QED
    BY <1>1, <2>1, TextsStay
<1>3. CASE DHaltRoot
  <2>1. ClearScreen /\ UNCHANGED <<backup_map, curr_terminal>>
    BY <1>3 DEF DHaltRoot, HaltRoot
  <2> QED
    BY <1>1, <2>1, ClearKeepsHome
<1>4. CASE DShowTerminal \/ DOpenTerminal
  <2>1. PICK t \in Terminals \ {curr_terminal} : curr_terminal' = t
    BY <1>4 DEF DShowTerminal, DOpenTerminal, ShowTerminal, OpenTerminal
  <2>2. SwitchScreen(t) /\ wrote' = wrote
    BY <1>4, <2>1 DEF DShowTerminal, DOpenTerminal
  <2> QED
    BY <1>1, <2>1, <2>2, SwitchKeepsHome
<1>5. CASE TerminalWrite
  <2>1. backup_map[exec_term] = PageOf(exec_term) /\ PageOf(exec_term) \in Pages
    BY <1>1, PagesFacts DEF Home, MapsHome
  <2>2. /\ page' = [page EXCEPT ![PageOf(exec_term)] = Marked(@, exec_term, "write")]
        /\ wrote' = [wrote EXCEPT ![exec_term] = TRUE]
        /\ UNCHANGED <<backup_map, curr_terminal>>
    BY <1>5, <2>1 DEF TerminalWrite, vars
  <2> QED
    BY <1>1, <2>1, <2>2, DrawKeepsHome
<1>6. CASE TerminalReadCtrlL
  <2>1. ClearScreen /\ UNCHANGED <<backup_map, curr_terminal>>
    BY <1>6 DEF TerminalReadCtrlL, vars
  <2> QED
    BY <1>1, <2>1, ClearKeepsHome
<1>7. CASE VidmapMap \/ VidmapRecord
  <2>1. UNCHANGED <<page, backup_map, wrote, curr_terminal>>
    BY <1>7 DEF VidmapMap, VidmapRecord, vars
  <2> QED
    BY <1>1, <2>1, TextsStay
<1>8. CASE UserDraw
  <2>1. /\ user_pte \in Pages
        /\ page' = [page EXCEPT ![user_pte] = Marked(@, exec_term, "draw")]
        /\ wrote' = wrote /\ UNCHANGED <<backup_map, curr_terminal>>
    BY <1>1, <1>8 DEF UserDraw, Video, vars
  <2> QED
    BY <1>1, <2>1, DrawKeepsHome
<1> QED
  BY <1>2, <1>3, <1>4, <1>5, <1>6, <1>7, <1>8 DEF DNext

\* Every step keeps the page mapped for the backup address of each terminal.
LEMMA VideoStep == DInv /\ [DNext]_dvars => Video'
<1> SUFFICES ASSUME DInv, [DNext]_dvars PROVE Video'
  OBVIOUS
<1>1. /\ Video /\ curr_terminal \in Pages /\ SCREEN \in Pages
      /\ Running \in Pids /\ esp' \in Pids /\ curr_terminal' \in Pages
  BY Actors, PagesFacts, StepOfCore, StepIInv DEF DInv, IInv, TypeOK
<1>2. CASE DPitInterrupt \/ TerminalWrite \/ TerminalReadCtrlL \/ UserDraw
           \/ UNCHANGED dvars
  BY <1>1, <1>2 DEF DPitInterrupt, TerminalWrite, TerminalReadCtrlL, UserDraw,
     dvars, video, Video
<1>3. CASE DExecute \/ DHaltRoot
  BY <1>1, <1>3 DEF DExecute, DHaltRoot, NewPcb, Unmap, Video
<1>4. CASE DHaltChild
  BY <1>1, <1>4 DEF DHaltChild, Unmap, Video
<1>5. CASE DShowTerminal \/ DOpenTerminal
  BY <1>1, <1>5 DEF DShowTerminal, DOpenTerminal, SwitchUserPage, NewPcb, Video
<1>6. CASE VidmapMap \/ VidmapRecord
  BY <1>1, <1>6 DEF VidmapMap, VidmapRecord, Video
<1> QED
  BY <1>2, <1>3, <1>4, <1>5, <1>6 DEF DNext

-----------------------------------------------------------------------------
(* The user video page and the processes that asked for it.                *)

\* Process o lives and has asked for the page, or is just doing so.
Owns(o) == available_pids[o] = 1 /\ (vidmem[o] \/ in_vidmap[o])

\* The process that has the CPU and the top one of the visible terminal live.
LEMMA BothLive ==
    ASSUME IInv
    PROVE  /\ esp = Running /\ available_pids[Running] = 1
           /\ Top(curr_terminal) \in Pids
           /\ available_pids[Top(curr_terminal)] = 1
           /\ \A t \in Terminals : num_procs[t] > 0 =>
                Top(t) \in Pids /\ available_pids[Top(t)] = 1
<1>1. ASSUME NEW t \in Terminals, num_procs[t] > 0
      PROVE  Top(t) \in Pids /\ available_pids[Top(t)] = 1
  <2>1. num_procs[t] - 1 \in Slots /\ num_procs[t] - 1 < num_procs[t]
    BY <1>1 DEF IInv, TypeOK, Slots
  <2> QED
    BY <2>1, UsedSlots DEF Top
<1>2. esp = Running /\ Running = Top(exec_term) /\ num_procs[exec_term] > 0
  BY DEF IInv, CpuRunsTop, Running
<1>3. num_procs[curr_terminal] > 0
  BY DEF IInv, ActiveHasProc
<1> QED
  BY <1>1, <1>2, <1>3, Actors

\* A process that starts takes the page from nobody: its pid was free.
LEMMA StartKeepsOwner ==
    ASSUME NEW pids \in [Pids -> {0, 1}], NEW q \in Pids, LowestFree(pids, q),
           available_pids' = MarkUsed(pids, q), esp' = q, NewPcb, Video,
           in_vidmap' = in_vidmap,
           NEW o \in Pids, pids[o] = 1, vidmem[o] \/ in_vidmap[o]
    PROVE  Owns(o)'
  BY DEF LowestFree, MarkUsed, NewPcb, Video, Owns

\* No step leaves the page mapped without a process that asked for it.
LEMMA OwnerStep ==
    DInv /\ UserPageHasOwner /\ [DNext]_dvars => UserPageHasOwner'
<1> SUFFICES ASSUME DInv, UserPageHasOwner, [DNext]_dvars,
                    user_pte' # NOWHERE
             PROVE  \E o \in Pids : Owns(o)'
  BY DEF UserPageHasOwner, Owns
<1>1. /\ IInv /\ Video /\ available_pids \in [Pids -> {0, 1}]
      /\ Running \in Pids /\ curr_terminal \in Terminals
  BY Actors DEF DInv, IInv, TypeOK
<1>2. user_pte # NOWHERE => \E o \in Pids : Owns(o)
  BY DEF UserPageHasOwner, Owns
<1>3. CASE DPitInterrupt \/ TerminalWrite \/ TerminalReadCtrlL \/ UserDraw
           \/ UNCHANGED dvars
  <2>1. UNCHANGED <<user_pte, available_pids, vidmem, in_vidmap>>
    BY <1>3 DEF DPitInterrupt, PitInterrupt, TerminalWrite, TerminalReadCtrlL,
       UserDraw, dvars, video, vars, tables
  <2> QED
    BY <1>2, <2>1 DEF Owns
<1>4. CASE DExecute
  <2>1. PICK q \in Pids : /\ LowestFree(available_pids, q)
                          /\ available_pids' = MarkUsed(available_pids, q)
                          /\ esp' = q
    BY <1>4 DEF DExecute, Execute, Launch
  <2>2. NewPcb /\ UNCHANGED <<user_pte, in_vidmap>>
    BY <1>4 DEF DExecute
  <2>3. PICK o \in Pids : Owns(o)
    BY <1>2, <2>2
  <2> QED
    BY <1>1, <2>1, <2>2, <2>3, StartKeepsOwner DEF Owns
<1>5. CASE DHaltChild \/ DHaltRoot
  <2>1. ~in_vidmap[Running] /\ Unmap /\ in_vidmap' = in_vidmap
    BY <1>5 DEF DHaltChild, DHaltRoot
  <2>2. ~vidmem[Running] /\ user_pte # NOWHERE
    BY <2>1 DEF Unmap
  <2>3. PICK o \in Pids \ {Running} : Owns(o)
    BY <1>2, <2>1, <2>2 DEF Owns
  <2> DEFINE left == FreePid(available_pids, Running)
  <2>4. left \in [Pids -> {0, 1}] /\ left[o] = 1
    BY <1>1, <2>3 DEF FreePid, Owns
  <2>5. EntryStacks = {Running}
    BY <1>1, BothLive DEF EntryStacks, Running
  <2>6. CASE DHaltChild
    <3>1. available_pids' = left /\ vidmem' = vidmem
      BY <2>5, <2>6 DEF DHaltChild, HaltChild
    <3> QED
      BY <2>1, <2>3, <2>4, <3>1 DEF Owns
  <2>7. CASE DHaltRoot
    <3>1. PICK q \in Pids : /\ LowestFree(left, q)
                            /\ available_pids' = MarkUsed(left, q)
                            /\ esp' = q
      BY <2>5, <2>7 DEF DHaltRoot, HaltRoot, Launch
    <3>2. NewPcb
      BY <2>7 DEF DHaltRoot
    <3> QED
      BY <1>1, <2>1, <2>3, <2>4, <3>1, <3>2, StartKeepsOwner DEF Owns
  <2> QED
    BY <1>5, <2>6, <2>7
<1>6. CASE DShowTerminal
  <2>1. PICK t \in Terminals : num_procs[t] > 0 /\ curr_terminal' = t
    BY <1>6 DEF DShowTerminal, ShowTerminal
  <2>2. SwitchUserPage(t) /\ UNCHANGED <<available_pids, vidmem, in_vidmap>>
    BY <1>6, <2>1 DEF DShowTerminal, ShowTerminal, tables
  <2>3. CASE vidmem[Top(t)]
    BY <1>1, <2>1, <2>2, <2>3, BothLive DEF Owns
  <2>4. CASE ~vidmem[Top(t)] /\ vidmem[Top(curr_terminal)]
    BY <1>1, <2>2, <2>4, BothLive DEF Owns
  <2>5. CASE ~vidmem[Top(t)] /\ ~vidmem[Top(curr_terminal)]
    BY <1>2, <2>2, <2>5 DEF SwitchUserPage, Owns
  <2> QED
    BY <2>3, <2>4, <2>5
<1>7. CASE DOpenTerminal
  <2>1. PICK t \in Terminals, q \in Pids :
            /\ num_procs[t] = 0 /\ curr_terminal' = t
            /\ LowestFree(available_pids, q)
            /\ available_pids' = MarkUsed(available_pids, q) /\ esp' = q
    BY <1>7 DEF DOpenTerminal, OpenTerminal, Launch
  <2>2. SwitchUserPage(t) /\ NewPcb /\ in_vidmap' = in_vidmap
    BY <1>7, <2>1 DEF DOpenTerminal
  <2>3. PICK o \in Pids : Owns(o)
    <3>1. CASE vidmem[Top(curr_terminal)]
      BY <1>1, <3>1, BothLive DEF Owns
    <3>2. CASE ~vidmem[Top(curr_terminal)]
      BY <1>2, <2>1, <2>2, <3>2 DEF SwitchUserPage
    <3> QED
      BY <3>1, <3>2
  <2> QED
    BY <1>1, <2>1, <2>2, <2>3, StartKeepsOwner DEF Owns
<1>8. CASE VidmapMap \/ VidmapRecord
  <2>1. available_pids' = available_pids
    BY <1>8 DEF VidmapMap, VidmapRecord, vars, tables
  <2>2. (vidmem[Running] \/ in_vidmap[Running])'
    <3>1. CASE VidmapMap
      BY <1>1, <3>1 DEF VidmapMap, Video, Running, vars, cpu
    <3>2. CASE VidmapRecord
      BY <1>1, <3>2 DEF VidmapRecord, Video, Running, vars, cpu
    <3> QED
      BY <1>8, <3>1, <3>2
  <2>3. Running' = Running
    BY <1>8 DEF VidmapMap, VidmapRecord, vars, cpu, Running
  <2> QED
    BY <1>1, <2>1, <2>2, <2>3, BothLive DEF Owns
<1> QED
  BY <1>3, <1>4, <1>5, <1>6, <1>7, <1>8 DEF DNext

-----------------------------------------------------------------------------
(* The theorems.                                                           *)

\* At boot nothing is written and the screen is terminal 0's.
LEMMA DInitial == DInit => DInv
<1> SUFFICES ASSUME DInit PROVE DInv
  OBVIOUS
<1>1. IInv
  BY InitIInv DEF DInit
<1>2. Texts /\ Video
  BY PagesFacts DEF DInit, Texts, Video
<1>3. MapsHome /\ WritesStayHome /\ NoLostOutput
  BY DEF DInit, Init, MapsHome, WritesStayHome, NoLostOutput, PageOf
<1> QED
  BY <1>1, <1>2, <1>3 DEF DInv, Home

\* The invariant of the display.
THEOREM DisplayInvariance == DSpec => []DInv
<1>1. DInv /\ [DNext]_dvars => DInv'
  BY HomeStep, VideoStep, StepOfCore, StepIInv DEF DInv
<1> QED
  BY <1>1, DInitial, PTL DEF DSpec

\* No page table entry leads to a page that is not a terminal's or the
\* screen.
THEOREM DisplayTypes == DSpec => []DTypeOK
<1>1. DInv => DTypeOK
  BY DEF DInv, Home, Texts, Video, DTypeOK
<1> QED
  BY <1>1, DisplayInvariance, PTL

\* terminal_write() never shows on another terminal.
THEOREM WritesAreHome == DSpec => []WritesStayHome
<1>1. DInv => WritesStayHome
  BY DEF DInv, Home
<1> QED
  BY <1>1, DisplayInvariance, PTL

\* No terminal switch, start or halt loses a terminal's text.
THEOREM OutputIsKept == DSpec => []NoLostOutput
<1>1. DInv => NoLostOutput
  BY DEF DInv, Home
<1> QED
  BY <1>1, DisplayInvariance, PTL

\* The user video page is mapped only while a live process has asked for it.
THEOREM UserPageIsOwned == DSpec => []UserPageHasOwner
<1>1. DInit => UserPageHasOwner
  BY DEF DInit, UserPageHasOwner
<1> QED
  BY <1>1, DisplayInvariance, OwnerStep, PTL DEF DSpec

\* The display is a detail of the process core: all that is proved of the
\* core's states holds with it.
THEOREM DisplayRefinesCore == DSpec => Spec
<1>1. DInit => Init
  BY DEF DInit
<1> QED
  BY <1>1, StepOfCore, PTL DEF DSpec, Spec
=============================================================================
