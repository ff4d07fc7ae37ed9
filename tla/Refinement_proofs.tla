------------------------- MODULE Refinement_proofs -------------------------
(***************************************************************************)
(* Every step of the process core is a step of ShellStacks, for any number *)
(* of pids and terminals: the safety part of ImplementsShellStacks.  That  *)
(* a mapped step is allowed by ShellStacks rests on the inductive          *)
(* invariant: which process is on top, how deep the stack is, and that a   *)
(* free pid is on no stack.                                                *)
(***************************************************************************)
EXTENDS ProcessesRefinement, Processes_proofs, SequenceTheorems

-----------------------------------------------------------------------------
(* Stacks as sequences.                                                    *)

\* The sequence of the m lowest entries of a child_procs array.
Lowest(slots, m) == [i \in 1 .. m |-> slots[i - 1]]

\* It is a sequence of length m.
LEMMA LowestIsSeq ==
    ASSUME NEW slots, NEW m \in Nat,
           \A i \in 0 .. m - 1 : slots[i] \in Pids
    PROVE  /\ Lowest(slots, m) \in Seq(Pids)
           /\ Len(Lowest(slots, m)) = m
           /\ \A i \in 1 .. m : Lowest(slots, m)[i] = slots[i - 1]
<1>1. \A i \in 1 .. m : i - 1 \in 0 .. m - 1
  OBVIOUS
<1>2. Lowest(slots, m) \in [1 .. m -> Pids]
  BY <1>1 DEF Lowest
<1> QED BY <1>2 DEF Lowest

\* It depends on these entries only.
LEMMA LowestSame ==
    ASSUME NEW slots, NEW other, NEW m \in Nat,
           \A i \in 0 .. m - 1 : slots[i] = other[i]
    PROVE  Lowest(slots, m) = Lowest(other, m)
<1>1. \A i \in 1 .. m : slots[i - 1] = other[i - 1]
  OBVIOUS
<1> QED BY <1>1 DEF Lowest

\* A process stored in slot m is appended.
LEMMA LowestPush ==
    ASSUME NEW slots, NEW other, NEW m \in Nat,
           \A i \in 0 .. m - 1 : slots[i] \in Pids /\ other[i] = slots[i],
           other[m] \in Pids
    PROVE  Lowest(other, m + 1) = Append(Lowest(slots, m), other[m])
<1>1. /\ Lowest(slots, m) \in Seq(Pids) /\ Len(Lowest(slots, m)) = m
      /\ \A i \in 1 .. m : Lowest(slots, m)[i] = slots[i - 1]
  BY LowestIsSeq
<1>2. \A i \in 0 .. (m + 1) - 1 : other[i] \in Pids
  OBVIOUS
<1>3. /\ Lowest(other, m + 1) \in Seq(Pids) /\ Len(Lowest(other, m + 1)) = m + 1
      /\ \A i \in 1 .. m + 1 : Lowest(other, m + 1)[i] = other[i - 1]
  BY <1>2, LowestIsSeq, m + 1 \in Nat
<1> DEFINE pushed == Append(Lowest(slots, m), other[m])
<1>4. /\ pushed \in Seq(Pids) /\ Len(pushed) = m + 1
      /\ \A i \in 1 .. m : pushed[i] = slots[i - 1]
      /\ pushed[m + 1] = other[m]
  BY <1>1, AppendProperties
<1>5. \A i \in 1 .. m + 1 : pushed[i] = other[i - 1]
  <2> SUFFICES ASSUME NEW i \in 1 .. m + 1 PROVE pushed[i] = other[i - 1]
    OBVIOUS
  <2>1. CASE i = m + 1
    BY <2>1, <1>4
  <2>2. CASE i \in 1 .. m
    BY <2>2, <1>4, i - 1 \in 0 .. m - 1
  <2>3. i = m + 1 \/ i \in 1 .. m
    OBVIOUS
  <2> QED BY <2>1, <2>2, <2>3
<1> HIDE DEF pushed
<1>6. Lowest(other, m + 1) = pushed
  BY <1>3, <1>4, <1>5, SeqEqual
<1> QED BY <1>6 DEF pushed

\* The lowest entries are a prefix of more of them.
LEMMA LowestPop ==
    ASSUME NEW slots, NEW m \in Nat \ {0},
           \A i \in 0 .. m - 1 : slots[i] \in Pids
    PROVE  Lowest(slots, m - 1)
                = SubSeq(Lowest(slots, m), 1, Len(Lowest(slots, m)) - 1)
<1>1. /\ Lowest(slots, m) \in Seq(Pids) /\ Len(Lowest(slots, m)) = m
      /\ \A i \in 1 .. m : Lowest(slots, m)[i] = slots[i - 1]
  BY LowestIsSeq
<1>2. \A i \in 0 .. (m - 1) - 1 : slots[i] \in Pids
  OBVIOUS
<1>3. /\ Lowest(slots, m - 1) \in Seq(Pids) /\ Len(Lowest(slots, m - 1)) = m - 1
      /\ \A i \in 1 .. m - 1 : Lowest(slots, m - 1)[i] = slots[i - 1]
  BY <1>2, LowestIsSeq, m - 1 \in Nat
<1> DEFINE popped == SubSeq(Lowest(slots, m), 1, m - 1)
<1>4. \A i \in 1 .. m - 1 : Lowest(slots, m)[i] \in Pids
  BY <1>1
<1>5. /\ popped \in Seq(Pids) /\ Len(popped) = m - 1
      /\ \A i \in 1 .. m - 1 : popped[i] = Lowest(slots, m)[i]
  BY <1>4, SubSeqProperties
<1> HIDE DEF popped
<1>6. Lowest(slots, m - 1) = popped
  BY <1>1, <1>3, <1>5, SeqEqual
<1> QED BY <1>1, <1>6 DEF popped

-----------------------------------------------------------------------------
(* The stacks of a state.                                                  *)

\* The abstract stack of a terminal is its child_procs array up to num_procs.
LEMMA StackIsSeq ==
    ASSUME IInv, NEW t \in Terminals
    PROVE  /\ num_procs[t] \in Nat
           /\ StackOf(t) = Lowest(child_procs[t], num_procs[t])
           /\ \A i \in 0 .. num_procs[t] - 1 :
                    i \in Slots /\ i < num_procs[t] /\ child_procs[t][i] \in Pids
           /\ StackOf(t) \in Seq(Pids)
           /\ Len(StackOf(t)) = num_procs[t]
           /\ \A i \in 1 .. num_procs[t] : StackOf(t)[i] = child_procs[t][i - 1]
<1>1. num_procs[t] \in 0 .. MAX_PROCESSES /\ MAX_PROCESSES \in Nat
  BY ProcessesAssumption DEF IInv, TypeOK
<1>2. StackOf(t) = Lowest(child_procs[t], num_procs[t])
  BY DEF StackOf, Lowest
<1>3. \A i \in 0 .. num_procs[t] - 1 :
            i \in Slots /\ i < num_procs[t] /\ child_procs[t][i] \in Pids
  <2>1. \A i \in 0 .. num_procs[t] - 1 : i \in Slots /\ i < num_procs[t]
    BY <1>1 DEF Slots
  <2> QED BY <2>1, UsedSlots
<1> QED BY <1>1, <1>2, <1>3, LowestIsSeq

\* The abstract variable: all stacks.
Stacks == [t \in Terminals |-> StackOf(t)]

\* A pid that is not used is on no stack.
LEMMA UnusedIsFree ==
    ASSUME IInv, NEW q \in Pids, available_pids[q] = 0
    PROVE  q \in Abstract!Free
<1>1. ASSUME NEW t \in Terminals, NEW i \in 1 .. Len(Stacks[t])
      PROVE  Stacks[t][i] # q
  <2>1. i \in 1 .. num_procs[t] /\ Stacks[t][i] = child_procs[t][i - 1]
    BY <1>1, StackIsSeq DEF Stacks
  <2>2. i - 1 \in 0 .. num_procs[t] - 1
    BY <2>1, StackIsSeq
  <2>3. i - 1 \in Slots /\ i - 1 < num_procs[t]
    BY <2>2, StackIsSeq
  <2>4. available_pids[child_procs[t][i - 1]] = 1
    BY <2>3, UsedSlots
  <2> QED BY <2>1, <2>4
<1> QED BY <1>1 DEF Abstract!Free, Abstract!Processes, Stacks

\* What happens to one terminal's stack happens to the abstract variable.
LEMMA OneStackChanges ==
    ASSUME NEW t \in Terminals, NEW s, StackOf(t)' = s,
           \A u \in Terminals \ {t} : StackOf(u)' = StackOf(u)
    PROVE  Stacks' = [Stacks EXCEPT ![t] = s]
BY DEF Stacks

\* A child on top of terminal t.
LEMMA PushStack ==
    ASSUME IInv, NEW t \in Terminals, NEW q \in Pids, num_procs[t] \in Slots,
           child_procs' = [child_procs EXCEPT ![t][num_procs[t]] = q],
           num_procs' = [num_procs EXCEPT ![t] = @ + 1]
    PROVE  Stacks' = [Stacks EXCEPT ![t] = Append(@, q)]
<1> DEFINE n == num_procs[t]
           slots == child_procs[t]
           other == child_procs'[t]
<1>1. /\ child_procs \in [Terminals -> [Slots -> Pids \cup {NULL}]]
      /\ num_procs \in [Terminals -> 0 .. MAX_PROCESSES]
  BY DEF IInv, TypeOK
<1>2. /\ num_procs'[t] = n + 1
      /\ other = [slots EXCEPT ![n] = q]
      /\ \A u \in Terminals \ {t} : /\ num_procs'[u] = num_procs[u]
                                    /\ child_procs'[u] = child_procs[u]
  BY <1>1
<1>3. n \in Nat /\ \A i \in 0 .. n - 1 : i \in Slots /\ i # n /\ slots[i] \in Pids
  BY StackIsSeq
<1>4. slots \in [Slots -> Pids \cup {NULL}] /\ n \in Slots
  BY <1>1
<1>5. other[n] = q /\ \A i \in 0 .. n - 1 : other[i] = slots[i]
  BY <1>2, <1>3, <1>4
<1>6. StackOf(t)' = Lowest(other, n + 1)
  BY <1>2 DEF StackOf, Lowest
<1>7. StackOf(t) = Lowest(slots, n)
  BY StackIsSeq
<1> HIDE DEF n, slots, other
<1>8. Lowest(other, n + 1) = Append(Lowest(slots, n), q)
  BY <1>3, <1>5, LowestPush
<1>9. StackOf(t)' = Append(StackOf(t), q)
  BY <1>6, <1>7, <1>8
<1>10. \A u \in Terminals \ {t} : StackOf(u)' = StackOf(u)
  BY <1>2 DEF StackOf
<1>11. Stacks' = [Stacks EXCEPT ![t] = StackOf(t)']
  BY <1>10, OneStackChanges
<1> QED BY <1>9, <1>11 DEF Stacks

-----------------------------------------------------------------------------
(* Each action is mapped to one of ShellStacks.                            *)

\* The state that entry() leaves: one process, on terminal 0.
LEMMA InitMaps == Init => Abstract!Init
<1> SUFFICES ASSUME Init PROVE Abstract!Init
  OBVIOUS
<1>1. 0 \in Terminals /\ 1 \in Pids /\ 0 \in Slots
  BY ProcessesAssumption DEF Terminals, Pids, Slots
<1>2. StackOf(0) = <<1>>
  <2>1. num_procs[0] = 1 /\ child_procs[0][0] = 1
    BY <1>1 DEF Init
  <2>2. \A i \in 1 .. 1 : i - 1 = 0
    OBVIOUS
  <2> QED BY <2>1, <2>2 DEF StackOf
<1>3. ASSUME NEW t \in Terminals, t # 0 PROVE StackOf(t) = <<>>
  BY <1>3 DEF Init, StackOf
<1>4. Stacks = [u \in Terminals |-> IF u = 0 THEN <<1>> ELSE <<>>]
  BY <1>2, <1>3 DEF Stacks
<1> QED BY <1>1, <1>4 DEF Abstract!Init, Stacks, Init

\* A tick gives the CPU to another terminal that has a process.
LEMMA PitMaps ==
    ASSUME IInv, PitInterrupt PROVE \E t \in Terminals : Abstract!GiveCpu(t)
<1>1. PICK t \in Terminals :
        /\ t # exec_term /\ num_procs[t] > 0
        /\ exec_term' = t
        /\ UNCHANGED <<child_procs, num_procs, curr_terminal>>
  BY DEF PitInterrupt, NextTerminal, tables
<1>2. Stacks' = Stacks
  BY <1>1 DEF Stacks, StackOf
<1>3. Len(StackOf(t)) > 0
  BY <1>1, StackIsSeq
<1>4. Stacks[t] # <<>>
  BY <1>3, Len(<<>>) = 0 DEF Stacks
<1> QED BY <1>1, <1>2, <1>4 DEF Abstract!GiveCpu, Stacks

\* execute() by a process starts its child.
LEMMA ExecuteMaps ==
    ASSUME IInv, Execute PROVE \E q \in Pids : Abstract!Start(q)
<1> DEFINE x == exec_term
<1>1. x \in Terminals /\ num_procs[x] \in 1 .. MAX_PROCESSES /\ MAX_PROCESSES \in Nat
  BY RunningProcess, ProcessesAssumption
<1>2. PICK q \in Pids :
        /\ LowestFree(available_pids, q)
        /\ child_procs' = [child_procs EXCEPT ![x][num_procs[x]] = q]
        /\ num_procs' = [num_procs EXCEPT ![x] = @ + 1]
        /\ UNCHANGED <<exec_term, curr_terminal>>
  BY DEF Execute, Launch
<1>3. available_pids[q] = 0
  BY <1>2 DEF LowestFree
<1>4. num_procs[x] < MAX_PROCESSES
  BY <1>1, <1>3, TablesNow, RoomForOne
<1>5. num_procs[x] \in Slots
  BY <1>1, <1>4 DEF Slots
<1>6. Stacks' = [Stacks EXCEPT ![x] = Append(@, q)]
  BY <1>1, <1>2, <1>5, PushStack
<1>7. q \in Abstract!Free
  BY <1>3, UnusedIsFree
<1>8. Len(StackOf(x)) > 0
  BY <1>1, StackIsSeq
<1>9. Stacks[x] # <<>>
  BY <1>1, <1>8, Len(<<>>) = 0 DEF Stacks
<1> QED BY <1>2, <1>6, <1>7, <1>9 DEF Abstract!Start, Stacks

\* A switch to a terminal with a process.
LEMMA ShowMaps ==
    ASSUME IInv, ShowTerminal PROVE \E t \in Terminals : Abstract!Show(t)
<1>1. PICK t \in Terminals :
        /\ t # curr_terminal /\ num_procs[t] > 0
        /\ curr_terminal' = t
        /\ UNCHANGED <<child_procs, num_procs, exec_term>>
  BY DEF ShowTerminal, tables
<1>2. Stacks' = Stacks
  BY <1>1 DEF Stacks, StackOf
<1>3. Len(StackOf(t)) > 0
  BY <1>1, StackIsSeq
<1>4. Stacks[t] # <<>>
  BY <1>3, Len(<<>>) = 0 DEF Stacks
<1> QED BY <1>1, <1>2, <1>4 DEF Abstract!Show, Stacks

\* The first process of a terminal.
LEMMA OpenMaps ==
    ASSUME IInv, OpenTerminal
    PROVE  \E t \in Terminals, q \in Pids : Abstract!Open(t, q)
<1>1. PICK t \in Terminals, q \in Pids :
        /\ num_procs[t] = 0
        /\ LowestFree(available_pids, q)
        /\ child_procs' = [child_procs EXCEPT ![t][num_procs[t]] = q]
        /\ num_procs' = [num_procs EXCEPT ![t] = @ + 1]
        /\ exec_term' = t /\ curr_terminal' = t
  BY DEF OpenTerminal, Launch
<1>2. available_pids[q] = 0
  BY <1>1 DEF LowestFree
<1>3. num_procs[t] \in Slots
  BY <1>1, ProcessesAssumption DEF Slots
<1>4. Stacks' = [Stacks EXCEPT ![t] = Append(@, q)]
  BY <1>1, <1>3, PushStack
<1>5. StackOf(t) = <<>>
  BY <1>1, StackIsSeq, EmptySeq
<1>6. Stacks[t] = <<>> /\ Append(<<>>, q) = <<q>>
  BY <1>5 DEF Stacks
<1>7. Stacks' = [Stacks EXCEPT ![t] = <<q>>]
  BY <1>4, <1>6
<1>8. q \in Abstract!Free
  BY <1>2, UnusedIsFree
<1> QED BY <1>1, <1>6, <1>7, <1>8 DEF Abstract!Open, Stacks

\* halt() of a child takes the top off its terminal's stack.
LEMMA HaltChildMaps ==
    ASSUME IInv, HaltChild PROVE Abstract!Finish
<1> PICK x \in Terminals : x = exec_term
  BY RunningProcess
<1> DEFINE n == num_procs[x]
<1>1. x \in Terminals /\ n \in 1 .. MAX_PROCESSES /\ EntryStacks = {Top(x)}
  BY RunningProcess
<1>2. /\ parent[Top(x)] # NULL
      /\ child_procs' = [child_procs EXCEPT ![x][n - 1] = NULL]
      /\ num_procs' = [num_procs EXCEPT ![x] = @ - 1]
      /\ UNCHANGED <<exec_term, curr_terminal>>
  BY <1>1 DEF HaltChild, PopTop
<1>3. n > 1
  BY <1>1, <1>2, RunningParent
<1>4. /\ child_procs \in [Terminals -> [Slots -> Pids \cup {NULL}]]
      /\ num_procs \in [Terminals -> 0 .. MAX_PROCESSES]
  BY DEF IInv, TypeOK
<1>5. /\ num_procs'[x] = n - 1
      /\ child_procs'[x] = [child_procs[x] EXCEPT ![n - 1] = NULL]
      /\ \A u \in Terminals \ {x} : StackOf(u)' = StackOf(u)
  BY <1>1, <1>2, <1>4 DEF StackOf
<1>6. /\ n \in Nat \ {0} /\ n - 1 \in Nat
      /\ \A i \in 0 .. n - 1 : i \in Slots /\ child_procs[x][i] \in Pids
  BY <1>1, StackIsSeq
<1>7. \A i \in 0 .. (n - 1) - 1 : child_procs'[x][i] = child_procs[x][i]
  BY <1>1, <1>4, <1>5, <1>6
<1>8. StackOf(x)' = Lowest(child_procs'[x], n - 1)
  BY <1>5 DEF StackOf, Lowest
<1>9. StackOf(x) = Lowest(child_procs[x], n)
  BY <1>1, StackIsSeq
<1> HIDE DEF n
<1>10. Lowest(child_procs'[x], n - 1) = Lowest(child_procs[x], n - 1)
  BY <1>6, <1>7, LowestSame
<1>11. StackOf(x)' = SubSeq(StackOf(x), 1, Len(StackOf(x)) - 1)
  BY <1>6, <1>8, <1>9, <1>10, LowestPop
<1>12. Stacks' = [Stacks EXCEPT ![x] = SubSeq(@, 1, Len(@) - 1)]
  <2>1. Stacks' = [Stacks EXCEPT ![x] = StackOf(x)']
    BY <1>1, <1>5, OneStackChanges
  <2> QED BY <2>1, <1>1, <1>11 DEF Stacks
<1>13. Len(Stacks[x]) > 1
  BY <1>1, <1>3, StackIsSeq DEF Stacks, n
<1> QED BY <1>2, <1>12, <1>13 DEF Abstract!Finish, Stacks

\* halt() of a terminal's first process replaces it by a shell.
LEMMA HaltRootMaps ==
    ASSUME IInv, HaltRoot PROVE \E q \in Pids : Abstract!Restart(q)
<1> PICK x \in Terminals : x = exec_term
  BY RunningProcess
<1> DEFINE p == Top(x)
<1>1. /\ x \in Terminals /\ p \in Pids /\ EntryStacks = {p}
      /\ num_procs[x] \in 1 .. MAX_PROCESSES /\ p = child_procs[x][num_procs[x] - 1]
  BY RunningProcess
<1>2. parent[p] = NULL
  BY <1>1 DEF HaltRoot
<1>3. num_procs[x] = 1
  BY <1>2, RunningParent
<1>4. PICK q \in Pids :
        /\ LowestFree(FreePid(available_pids, p), q)
        /\ child_procs' = [PopTop EXCEPT
                ![x][[num_procs EXCEPT ![x] = @ - 1][x]] = q]
        /\ num_procs' = [[num_procs EXCEPT ![x] = @ - 1] EXCEPT ![x] = @ + 1]
        /\ UNCHANGED <<exec_term, curr_terminal>>
  BY <1>1 DEF HaltRoot, Launch
<1>5. /\ child_procs \in [Terminals -> [Slots -> Pids \cup {NULL}]]
      /\ num_procs \in [Terminals -> 0 .. MAX_PROCESSES]
      /\ available_pids \in [Pids -> {0, 1}]
      /\ 0 \in Slots
  BY ProcessesAssumption DEF IInv, TypeOK, Slots
<1>6. [num_procs EXCEPT ![x] = @ - 1][x] = 0
  BY <1>1, <1>3, <1>5
<1>7. num_procs'[x] = 1 /\ child_procs'[x][0] = q
  BY <1>1, <1>4, <1>5, <1>6 DEF PopTop
<1>8. \A u \in Terminals \ {x} : StackOf(u)' = StackOf(u)
  BY <1>1, <1>4, <1>5 DEF PopTop, StackOf
<1>9. StackOf(x)' = <<q>>
  <2>1. \A i \in 1 .. 1 : i - 1 = 0
    OBVIOUS
  <2> QED BY <2>1, <1>7 DEF StackOf
<1>10. Stacks' = [Stacks EXCEPT ![x] = <<q>>]
  BY <1>1, <1>8, <1>9, OneStackChanges
<1>11. /\ Len(Stacks[x]) = 1 /\ Stacks[x][1] = p
  <2>1. Stacks[x] = StackOf(x)
    BY DEF Stacks
  <2>2. /\ Len(StackOf(x)) = 1
        /\ \A i \in 1 .. 1 : StackOf(x)[i] = child_procs[x][i - 1]
    BY <1>3, StackIsSeq
  <2>3. StackOf(x)[1] = child_procs[x][0]
    BY <2>2
  <2> QED BY <2>1, <2>2, <2>3, <1>1, <1>3
<1>12. q \in Abstract!Free \cup Abstract!Processes(x)
  <2>1. CASE q = p
    BY <2>1, <1>11 DEF Abstract!Processes, Stacks
  <2>2. CASE q # p
    <3>1. available_pids[q] = 0
      BY <2>2, <1>1, <1>4, <1>5 DEF LowestFree, FreePid
    <3> QED BY <3>1, UnusedIsFree
  <2> QED BY <2>1, <2>2
<1> QED BY <1>4, <1>10, <1>11, <1>12 DEF Abstract!Restart, Stacks

\* Every step is mapped to a step of ShellStacks or to a stutter.
LEMMA StepMaps ==
    ASSUME IInv, [Next]_vars PROVE [Abstract!Next]_(Abstract!vars)
<1>1. CASE PitInterrupt
  BY <1>1, PitMaps DEF Abstract!Next
<1>2. CASE Execute
  BY <1>2, ExecuteMaps DEF Abstract!Next
<1>3. CASE HaltChild
  BY <1>3, HaltChildMaps DEF Abstract!Next
<1>4. CASE HaltRoot
  BY <1>4, HaltRootMaps DEF Abstract!Next
<1>5. CASE ShowTerminal
  BY <1>5, ShowMaps DEF Abstract!Next
<1>6. CASE OpenTerminal
  BY <1>6, OpenMaps DEF Abstract!Next
<1>7. CASE UNCHANGED vars
  BY <1>7 DEF vars, tables, StackOf, Abstract!vars
<1> QED BY <1>1, <1>2, <1>3, <1>4, <1>5, <1>6, <1>7 DEF Next

\* The process core implements the abstract stacks of processes: the safety
\* part of ImplementsShellStacks, for any number of pids and terminals.
THEOREM CoreImplementsShellStacks == Spec => Abstract!Spec
<1>1. IInv /\ [Next]_vars => [Abstract!Next]_(Abstract!vars)
  BY StepMaps
<1> QED BY <1>1, InitMaps, Invariance, PTL DEF Spec, Abstract!Spec

-----------------------------------------------------------------------------
(* The fairness of the abstract specification.                             *)

\* When ShellStacks can give the CPU to t: its ENABLED, written out.
CanGiveCpu(t) == t # exec_term /\ Stacks[t] # <<>>

Served ==
    \A t \in Terminals :
        []([]CanGiveCpu(t) => <><<Abstract!GiveCpu(t)>>_(Abstract!vars))

\* With the code's three terminals, a tick that stays possible and happens in
\* the end serves every terminal as ShellStacks promises: all of the
\* refinement, for any number of pids.
THEOREM CoreServesTerminals ==
    ASSUME MAX_TERMINALS = 3
    PROVE  Spec /\ TickFair => Abstract!Spec /\ Served
<1>1. ASSUME NEW t \in Terminals
      PROVE  Spec /\ TickFair =>
               []([]CanGiveCpu(t) => <><<Abstract!GiveCpu(t)>>_(Abstract!vars))
  <2>1. Spec /\ TickFair => (num_procs[t] > 0 ~> exec_term = t)
    BY TurnOfThree
  <2>2. IInv /\ CanGiveCpu(t) => num_procs[t] > 0 /\ ~(exec_term = t)
    <3> SUFFICES ASSUME IInv, CanGiveCpu(t), ~(num_procs[t] > 0) PROVE FALSE
      BY DEF CanGiveCpu
    <3>1. num_procs[t] = 0
      BY DEF IInv, TypeOK
    <3>2. StackOf(t) = <<>>
      BY <3>1 DEF StackOf
    <3> QED
      BY <3>2 DEF CanGiveCpu, Stacks
  <2>3. Spec => []IInv
    BY Invariance
  <2> QED
    BY <2>1, <2>2, <2>3, PTL
<1>2. Spec /\ TickFair => Served
  BY <1>1 DEF Served
<1> QED
  BY <1>2, CoreImplementsShellStacks
=============================================================================
