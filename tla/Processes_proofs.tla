-------------------------- MODULE Processes_proofs --------------------------
(***************************************************************************)
(* Proofs about Processes.tla for every MAX_PROCESSES and MAX_TERMINALS.   *)
(* The inductive invariant is the conjunction of the module's invariants:  *)
(* each of them needs the others one step earlier.                         *)
(***************************************************************************)
EXTENDS Processes, Numbers

-----------------------------------------------------------------------------
(* The pid table and the process stacks, as values, so that what a push    *)
(* and a pop do to them can be stated for the tables halt() leaves half    *)
(* way, before it calls execute().                                         *)

Tables(pids, kids, n) ==
    /\ pids \in [Pids -> {0, 1}]
    /\ kids \in [Terminals -> [Slots -> Pids \cup {NULL}]]
    /\ n \in [Terminals -> 0 .. MAX_PROCESSES]
    /\ \A t \in Terminals, i \in Slots : kids[t][i] # NULL <=> i < n[t]
    /\ \A t \in Terminals, i \in Slots :
            kids[t][i] # NULL => pids[kids[t][i]] = 1
    /\ \A p \in Pids : pids[p] = 1 =>
            \E t \in Terminals, i \in Slots : kids[t][i] = p
    /\ \A t, u \in Terminals, i, j \in Slots :
            kids[t][i] # NULL /\ kids[t][i] = kids[u][j] => t = u /\ i = j

Chain(par, kids, n) ==
    \A t \in Terminals, i \in Slots : i < n[t] =>
        par[kids[t][i]] = IF i = 0 THEN NULL ELSE kids[t][i - 1]

\* The tables of a state are right when the two invariants about them hold.
LEMMA TablesOfState ==
    TypeOK => (TablesAgree <=> Tables(available_pids, child_procs, num_procs))
BY DEF TypeOK, TablesAgree, Tables

\* The same for the parent chain.
LEMMA ChainOfState == ParentChain <=> Chain(parent, child_procs, num_procs)
BY DEF ParentChain, Chain

\* While a pid is free no terminal's stack is full: execute() never writes
\* past the end of child_procs.
LEMMA RoomForOne ==
    ASSUME NEW pids, NEW kids, NEW n, Tables(pids, kids, n),
           NEW q \in Pids, pids[q] = 0, NEW t \in Terminals
    PROVE  n[t] < MAX_PROCESSES
<1>1. MAX_PROCESSES \in Nat /\ MAX_PROCESSES > 0
  BY ProcessesAssumption
<1>0. n[t] \in 0 .. MAX_PROCESSES
  BY DEF Tables
<1> SUFFICES ASSUME n[t] = MAX_PROCESSES PROVE FALSE
  BY <1>0, <1>1
<1> DEFINE f == [i \in Slots |-> kids[t][i]]
<1>2. \A i \in Slots : kids[t][i] \in Pids \ {q}
  BY <1>1 DEF Tables, Slots, Pids, NULL
<1>3. f \in [Slots -> Pids \ {q}]
  BY <1>2
<1>4. IsFiniteSet(Slots) /\ Cardinality(Slots) = MAX_PROCESSES
  BY <1>1, FS_Interval DEF Slots
<1>5. IsFiniteSet(Pids) /\ Cardinality(Pids) = MAX_PROCESSES
  BY <1>1, FS_Interval DEF Pids
<1>6. IsFiniteSet(Pids \ {q}) /\ Cardinality(Pids \ {q}) = MAX_PROCESSES - 1
  BY <1>5, FS_RemoveElement
<1>7. PICK i, j \in Slots : i # j /\ f[i] = f[j]
  <2> HIDE DEF f
  <2>1. Cardinality(Pids \ {q}) < Cardinality(Slots)
    BY <1>1, <1>4, <1>6
  <2> QED BY <2>1, <1>3, <1>4, <1>6, FS_PigeonHole
<1>8. kids[t][i] = kids[t][j] /\ kids[t][i] # NULL
  BY <1>2, <1>7 DEF NULL, Pids
<1> QED BY <1>7, <1>8 DEF Tables

\* Putting a free pid on top of a stack that has room keeps the tables right.
LEMMA PushTables ==
    ASSUME NEW pids, NEW kids, NEW n, Tables(pids, kids, n),
           NEW t \in Terminals, NEW q \in Pids, pids[q] = 0,
           n[t] < MAX_PROCESSES
    PROVE  Tables(MarkUsed(pids, q), [kids EXCEPT ![t][n[t]] = q],
                  [n EXCEPT ![t] = @ + 1])
<1> DEFINE pids1 == MarkUsed(pids, q)
           kids1 == [kids EXCEPT ![t][n[t]] = q]
           n1 == [n EXCEPT ![t] = @ + 1]
<1>1. MAX_PROCESSES \in Nat /\ n[t] \in Slots /\ q # NULL
  BY ProcessesAssumption DEF Tables, Slots, Pids, NULL
<1>2. /\ \A u \in Terminals, i \in Slots :
            kids1[u][i] = IF u = t /\ i = n[t] THEN q ELSE kids[u][i]
      /\ \A u \in Terminals : n1[u] = IF u = t THEN n[t] + 1 ELSE n[u]
      /\ \A p \in Pids : pids1[p] = IF p = q THEN 1 ELSE pids[p]
  BY <1>1 DEF Tables, MarkUsed
<1>3. /\ pids1 \in [Pids -> {0, 1}]
      /\ kids1 \in [Terminals -> [Slots -> Pids \cup {NULL}]]
      /\ n1 \in [Terminals -> 0 .. MAX_PROCESSES]
  BY <1>1 DEF Tables, MarkUsed
<1>4. \A u \in Terminals, i \in Slots : kids[u][i] # q
  BY <1>1 DEF Tables
<1> HIDE DEF pids1, kids1, n1
<1>5. \A u \in Terminals, i \in Slots : kids1[u][i] # NULL <=> i < n1[u]
  BY <1>1, <1>2 DEF Tables, Slots
<1>6. \A u \in Terminals, i \in Slots :
            kids1[u][i] # NULL => pids1[kids1[u][i]] = 1
  BY <1>2, <1>4 DEF Tables
<1>7. ASSUME NEW p \in Pids, pids1[p] = 1
      PROVE  \E u \in Terminals, i \in Slots : kids1[u][i] = p
  <2>1. CASE p = q
    BY <2>1, <1>1, <1>2
  <2>2. CASE p # q
    <3>1. PICK u \in Terminals, i \in Slots : kids[u][i] = p
      BY <2>2, <1>2, <1>7 DEF Tables
    <3>2. kids[t][n[t]] = NULL
      BY <1>1 DEF Tables
    <3>3. kids1[u][i] = p
      BY <3>1, <3>2, <1>2 DEF Pids, NULL
    <3> QED BY <3>3
  <2> QED BY <2>1, <2>2
<1>8. ASSUME NEW u \in Terminals, NEW v \in Terminals,
             NEW i \in Slots, NEW j \in Slots,
             kids1[u][i] # NULL, kids1[u][i] = kids1[v][j]
      PROVE  u = v /\ i = j
  BY <1>2, <1>4, <1>8 DEF Tables
<1> QED BY <1>3, <1>5, <1>6, <1>7, <1>8 DEF Tables, pids1, kids1, n1

\* Taking the top of a stack away and freeing its pid keeps them right.
LEMMA PopTables ==
    ASSUME NEW pids, NEW kids, NEW n, Tables(pids, kids, n),
           NEW t \in Terminals, n[t] > 0
    PROVE  Tables(FreePid(pids, kids[t][n[t] - 1]),
                  [kids EXCEPT ![t][n[t] - 1] = NULL],
                  [n EXCEPT ![t] = @ - 1])
<1> DEFINE top == kids[t][n[t] - 1]
           pids1 == FreePid(pids, top)
           kids1 == [kids EXCEPT ![t][n[t] - 1] = NULL]
           n1 == [n EXCEPT ![t] = @ - 1]
<1>1. /\ MAX_PROCESSES \in Nat /\ n[t] \in 1 .. MAX_PROCESSES
      /\ n[t] - 1 \in Slots
      /\ top \in Pids /\ top # NULL
  BY ProcessesAssumption DEF Tables, Slots, Pids, NULL
<1>2. /\ \A u \in Terminals, i \in Slots :
            kids1[u][i] = IF u = t /\ i = n[t] - 1 THEN NULL ELSE kids[u][i]
      /\ \A u \in Terminals : n1[u] = IF u = t THEN n[t] - 1 ELSE n[u]
      /\ \A p \in Pids : pids1[p] = IF p = top THEN 0 ELSE pids[p]
  BY <1>1 DEF Tables, FreePid
<1>3. /\ pids1 \in [Pids -> {0, 1}]
      /\ kids1 \in [Terminals -> [Slots -> Pids \cup {NULL}]]
      /\ n1 \in [Terminals -> 0 .. MAX_PROCESSES]
  BY <1>1 DEF Tables, FreePid
<1>4. \A u \in Terminals, i \in Slots :
            kids[u][i] = top => u = t /\ i = n[t] - 1
  BY <1>1 DEF Tables
<1> HIDE DEF pids1, kids1, n1, top
<1>5. ASSUME NEW u \in Terminals, NEW i \in Slots
      PROVE  kids1[u][i] # NULL <=> i < n1[u]
  <2>1. i \in Nat /\ n[u] \in Nat /\ (kids[u][i] # NULL <=> i < n[u])
    BY <1>1 DEF Tables, Slots
  <2> QED BY <2>1, <1>1, <1>2
<1>6. \A u \in Terminals, i \in Slots :
            kids1[u][i] # NULL => pids1[kids1[u][i]] = 1
  BY <1>2, <1>4 DEF Tables
<1>7. ASSUME NEW p \in Pids, pids1[p] = 1
      PROVE  \E u \in Terminals, i \in Slots : kids1[u][i] = p
  <2>1. p # top /\ pids[p] = 1
    BY <1>2, <1>7
  <2>2. PICK u \in Terminals, i \in Slots : kids[u][i] = p
    BY <2>1 DEF Tables
  <2>3. kids1[u][i] = p
    BY <2>1, <2>2, <1>2 DEF top
  <2> QED BY <2>3
<1>8. ASSUME NEW u \in Terminals, NEW v \in Terminals,
             NEW i \in Slots, NEW j \in Slots,
             kids1[u][i] # NULL, kids1[u][i] = kids1[v][j]
      PROVE  u = v /\ i = j
  BY <1>2, <1>8 DEF Tables
<1> QED BY <1>3, <1>5, <1>6, <1>7, <1>8 DEF Tables, pids1, kids1, n1, top

\* execute() links the new PCB to the one below it.
LEMMA PushChain ==
    ASSUME NEW pids, NEW kids, NEW n, NEW par, Tables(pids, kids, n),
           par \in [Pids -> Pids \cup {NULL}], Chain(par, kids, n),
           NEW t \in Terminals, NEW q \in Pids, NEW p \in Pids, pids[q] = 0,
           n[t] < MAX_PROCESSES, n[t] > 0 => p = kids[t][n[t] - 1]
    PROVE  Chain([par EXCEPT ![q] = ParentOf(n[t], p)],
                 [kids EXCEPT ![t][n[t]] = q], [n EXCEPT ![t] = @ + 1])
<1> DEFINE kids1 == [kids EXCEPT ![t][n[t]] = q]
           n1 == [n EXCEPT ![t] = @ + 1]
           par1 == [par EXCEPT ![q] = ParentOf(n[t], p)]
<1>1. MAX_PROCESSES \in Nat /\ n[t] \in Slots
  BY ProcessesAssumption DEF Tables, Slots
<1>2. /\ \A u \in Terminals, i \in Slots :
            kids1[u][i] = IF u = t /\ i = n[t] THEN q ELSE kids[u][i]
      /\ \A u \in Terminals : n1[u] = IF u = t THEN n[t] + 1 ELSE n[u]
      /\ \A r \in Pids : par1[r] = IF r = q THEN ParentOf(n[t], p) ELSE par[r]
  BY <1>1 DEF Tables
<1>3. \A u \in Terminals, i \in Slots :
            i < n[u] => kids[u][i] # q /\ kids[u][i] \in Pids
  BY DEF Tables
<1> HIDE DEF kids1, n1, par1
<1>4. ASSUME NEW u \in Terminals, NEW i \in Slots, i < n1[u]
      PROVE  par1[kids1[u][i]] = IF i = 0 THEN NULL ELSE kids1[u][i - 1]
  <2>0. i \in Nat /\ n[u] \in Nat /\ (i # 0 => i - 1 \in Slots)
    BY <1>1 DEF Tables, Slots
  <2>1. CASE u = t /\ i = n[t]
    <3>1. kids1[u][i] = q /\ par1[q] = ParentOf(n[t], p)
      BY <2>1, <1>2
    <3>2. CASE i = 0
      BY <3>1, <3>2, <2>1 DEF ParentOf
    <3>3. CASE i # 0
      <4>1. kids1[u][i - 1] = kids[t][n[t] - 1]
        BY <3>3, <2>0, <2>1, <1>2
      <4> QED BY <3>1, <3>3, <4>1, <2>0, <2>1 DEF ParentOf
    <3> QED BY <3>2, <3>3
  <2>2. CASE ~(u = t /\ i = n[t])
    <3>1. i < n[u]
      BY <2>0, <2>2, <1>2, <1>4
    <3>2. kids1[u][i] = kids[u][i] /\ par1[kids1[u][i]] = par[kids[u][i]]
      BY <3>1, <2>2, <1>2, <1>3
    <3>3. i # 0 => kids1[u][i - 1] = kids[u][i - 1]
      BY <3>1, <2>0, <1>2
    <3> QED BY <3>1, <3>2, <3>3 DEF Chain
  <2> QED BY <2>1, <2>2
<1> QED BY <1>4 DEF Chain, kids1, n1, par1

\* The links below the process that ends are not disturbed.
LEMMA PopChain ==
    ASSUME NEW pids, NEW kids, NEW n, NEW par, Tables(pids, kids, n),
           Chain(par, kids, n), NEW t \in Terminals, n[t] > 0
    PROVE  Chain(par, [kids EXCEPT ![t][n[t] - 1] = NULL],
                 [n EXCEPT ![t] = @ - 1])
<1> DEFINE kids1 == [kids EXCEPT ![t][n[t] - 1] = NULL]
           n1 == [n EXCEPT ![t] = @ - 1]
<1>1. MAX_PROCESSES \in Nat /\ n[t] - 1 \in Slots
  BY ProcessesAssumption DEF Tables, Slots
<1>2. /\ \A u \in Terminals, i \in Slots :
            kids1[u][i] = IF u = t /\ i = n[t] - 1 THEN NULL ELSE kids[u][i]
      /\ \A u \in Terminals : n1[u] = IF u = t THEN n[t] - 1 ELSE n[u]
  BY <1>1 DEF Tables
<1> HIDE DEF kids1, n1
<1>3. ASSUME NEW u \in Terminals, NEW i \in Slots, i < n1[u]
      PROVE  par[kids1[u][i]] = IF i = 0 THEN NULL ELSE kids1[u][i - 1]
  <2>1. i \in Nat /\ n[u] \in Nat /\ (i # 0 => i - 1 \in Slots)
    BY <1>1 DEF Tables, Slots
  <2>2. i < n[u] /\ kids1[u][i] = kids[u][i]
    BY <2>1, <1>2, <1>3
  <2>3. i # 0 => kids1[u][i - 1] = kids[u][i - 1]
    BY <2>1, <1>2, <1>3
  <2> QED BY <2>2, <2>3 DEF Chain
<1> QED BY <1>3 DEF Chain, kids1, n1

-----------------------------------------------------------------------------
(* The inductive invariant.                                                *)

IInv == /\ TypeOK
        /\ TablesAgree
        /\ ParentChain
        /\ CpuRunsTop
        /\ SavedContexts
        /\ ActiveHasProc
        /\ NoStaleException

\* The state that entry() leaves satisfies the invariant.
LEMMA InitIInv == Init => IInv
<1> SUFFICES ASSUME Init PROVE IInv
  OBVIOUS
<1>1. MAX_PROCESSES \in Nat \ {0} /\ MAX_TERMINALS \in Nat \ {0}
  BY ProcessesAssumption
<1>2. 1 \in Pids /\ 0 \in Terminals /\ 0 \in Slots
  BY <1>1 DEF Pids, Terminals, Slots
<1>3. TypeOK
  BY <1>1, <1>2 DEF Init, TypeOK, SavedIn, NULL, RETURN_EXCEPTION
<1>4. TablesAgree
  <2>1. \A t \in Terminals, i \in Slots :
            /\ child_procs[t][i] = IF t = 0 /\ i = 0 THEN 1 ELSE 0
            /\ i \in Nat
    BY <1>1 DEF Init, NULL, Slots
  <2>2. \A t \in Terminals : num_procs[t] = IF t = 0 THEN 1 ELSE 0
    BY DEF Init
  <2>3. \A p \in Pids : available_pids[p] = IF p = 1 THEN 1 ELSE 0
    BY DEF Init
  <2> QED BY <1>2, <2>1, <2>2, <2>3 DEF TablesAgree, NULL
<1>5. ParentChain
  BY <1>2 DEF Init, ParentChain, Slots
<1>6. CpuRunsTop /\ ActiveHasProc
  BY <1>2 DEF Init, CpuRunsTop, ActiveHasProc, Top
<1>7. SavedContexts
  BY <1>2 DEF Init, SavedContexts, Slots
<1>8. NoStaleException
  BY DEF Init, NoStaleException
<1> QED BY <1>3, <1>4, <1>5, <1>6, <1>7, <1>8 DEF IInv

\* The three cases of SavedContexts for one slot and the PCB p in it.
Settled(t, i, p) ==
    /\ i # num_procs[t] - 1 => /\ k_esp[p] = [block |-> p, frame |-> "execute"]
                               /\ kstack[p] = "execute"
    /\ i = num_procs[t] - 1 /\ t = exec_term => kstack[p] = "live"
    /\ i = num_procs[t] - 1 /\ t # exec_term =>
            /\ k_esp[p] = [block |-> p, frame |-> kstack[p]]
            /\ kstack[p] \in {"context_switch", "switch_active_terminal"}

\* SavedContexts says of every slot which of the two it is.
LEMMA SettledSlots ==
    SavedContexts <=> \A t \in Terminals, i \in Slots :
                        i < num_procs[t] => Settled(t, i, child_procs[t][i])
BY DEF SavedContexts, Settled

\* What the invariant says of the process that has the CPU: it is the only
\* one a trap or an interrupt can hit, and no other slot holds its PCB.
LEMMA RunningProcess ==
    ASSUME IInv
    PROVE  /\ exec_term \in Terminals
           /\ num_procs[exec_term] \in 1 .. MAX_PROCESSES
           /\ num_procs[exec_term] - 1 \in Slots
           /\ Top(exec_term) = child_procs[exec_term][num_procs[exec_term] - 1]
           /\ Top(exec_term) \in Pids
           /\ Top(exec_term) # NULL
           /\ available_pids[Top(exec_term)] = 1
           /\ kstack[Top(exec_term)] = "live"
           /\ EntryStacks = {Top(exec_term)}
           /\ tss_esp0 = Top(exec_term)
           /\ \A t \in Terminals, i \in Slots :
                    child_procs[t][i] = Top(exec_term)
                        => t = exec_term /\ i = num_procs[exec_term] - 1
<1> USE DEF IInv
<1>1. /\ exec_term \in Terminals /\ num_procs[exec_term] > 0
      /\ num_procs[exec_term] \in 0 .. MAX_PROCESSES
      /\ MAX_PROCESSES \in Nat
  BY ProcessesAssumption DEF TypeOK, CpuRunsTop
<1>2. /\ num_procs[exec_term] - 1 \in Slots
      /\ num_procs[exec_term] - 1 < num_procs[exec_term]
  BY <1>1 DEF Slots
<1>3. /\ Top(exec_term) \in Pids \cup {NULL}
      /\ Top(exec_term) # NULL
      /\ available_pids[Top(exec_term)] = 1
  BY <1>1, <1>2 DEF Top, TypeOK, TablesAgree
<1>4. kstack[Top(exec_term)] = "live"
  <2>1. Settled(exec_term, num_procs[exec_term] - 1, Top(exec_term))
    BY <1>1, <1>2, SettledSlots DEF Top
  <2> QED BY <2>1 DEF Settled
<1>5. EntryStacks = {Top(exec_term)} /\ tss_esp0 = Top(exec_term)
  BY DEF EntryStacks, CpuRunsTop
<1>6. \A t \in Terminals, i \in Slots :
            child_procs[t][i] = Top(exec_term)
                => t = exec_term /\ i = num_procs[exec_term] - 1
  BY <1>1, <1>2, <1>3 DEF Top, TablesAgree
<1> QED BY <1>1, <1>2, <1>3, <1>4, <1>5, <1>6 DEF Top

\* The used slots hold used pids, so none holds a free one.
LEMMA UsedSlots ==
    ASSUME IInv, NEW t \in Terminals, NEW i \in Slots, i < num_procs[t]
    PROVE  /\ child_procs[t][i] \in Pids
           /\ child_procs[t][i] # NULL
           /\ available_pids[child_procs[t][i]] = 1
BY DEF IInv, TypeOK, TablesAgree

\* No PCB is in two slots.
LEMMA OneSlot ==
    ASSUME IInv, NEW t \in Terminals, NEW u \in Terminals,
           NEW i \in Slots, NEW j \in Slots,
           child_procs[t][i] # NULL, child_procs[t][i] = child_procs[u][j]
    PROVE  t = u /\ i = j
BY DEF IInv, TablesAgree

-----------------------------------------------------------------------------
(* Each action preserves it.                                               *)

\* A tick: the process that loses the CPU is saved in context_switch(), the
\* one that gets it continues on its own stack.
LEMMA PitPreserves == IInv /\ PitInterrupt => IInv'
<1> SUFFICES ASSUME IInv, PitInterrupt PROVE IInv'
  OBVIOUS
<1> DEFINE old == Top(exec_term)
<1>1. PICK t \in Terminals :
        /\ t # exec_term /\ num_procs[t] > 0
        /\ exec_term' = t
        /\ k_esp' = SaveContext(old, old, "context_switch")
        /\ SwitchTo(Top(t), k_esp', [kstack EXCEPT ![old] = "context_switch"])
        /\ UNCHANGED <<tables, curr_terminal, parent, retval>>
  BY RunningProcess DEF PitInterrupt, NextTerminal
<1> DEFINE new == Top(t)
<1>2. /\ num_procs[t] - 1 \in Slots /\ num_procs[t] - 1 < num_procs[t]
      /\ new = child_procs[t][num_procs[t] - 1]
      /\ num_procs[t] \in Nat
  BY <1>1, ProcessesAssumption DEF IInv, TypeOK, Slots, Top
<1>3. /\ new \in Pids /\ new # old
      /\ k_esp[new] = [block |-> new, frame |-> kstack[new]]
  <2>1. Settled(t, num_procs[t] - 1, new)
    BY <1>2, SettledSlots DEF IInv
  <2> QED BY <2>1, <1>1, <1>2, UsedSlots, RunningProcess DEF Settled
<1>4. /\ k_esp' = [k_esp EXCEPT ![old] = [block |-> old,
                                          frame |-> "context_switch"]]
      /\ k_esp'[new] = k_esp[new]
  BY <1>1, <1>3, RunningProcess DEF SaveContext, IInv, TypeOK
<1>5. /\ user_page' = new /\ tss_esp0' = new /\ esp' = new
      /\ kstack' = [[kstack EXCEPT ![old] = "context_switch"]
                        EXCEPT ![new] = "live"]
  <2>1. /\ user_page' = new /\ tss_esp0' = new /\ esp' = k_esp'[new].block
        /\ kstack' = [[kstack EXCEPT ![old] = "context_switch"]
                        EXCEPT ![k_esp'[new].block] = "live"]
    BY <1>1 DEF SwitchTo
  <2>2. k_esp'[new].block = new
    BY <1>3, <1>4
  <2> QED BY <2>1, <2>2
<1>6. /\ available_pids' = available_pids /\ child_procs' = child_procs
      /\ num_procs' = num_procs /\ curr_terminal' = curr_terminal
      /\ parent' = parent /\ retval' = retval
  BY <1>1 DEF tables
<1> HIDE DEF old, new
<1>7. TypeOK'
  <2>1. k_esp' \in [Pids -> [block : Pids, frame : SavedIn]]
    BY <1>4, RunningProcess DEF IInv, TypeOK, SavedIn, old
  <2>2. kstack' \in [Pids -> (SavedIn \ {"fresh"}) \cup {"live", "dead"}]
    BY <1>5 DEF IInv, TypeOK, SavedIn
  <2> QED BY <2>1, <2>2, <1>1, <1>3, <1>5, <1>6 DEF IInv, TypeOK
<1>8. TablesAgree' /\ ParentChain' /\ ActiveHasProc' /\ NoStaleException'
  BY <1>6 DEF IInv, TablesAgree, ParentChain, ActiveHasProc, NoStaleException
<1>9. CpuRunsTop'
  BY <1>1, <1>2, <1>5, <1>6 DEF CpuRunsTop, Top, new
<1>10. SavedContexts'
  <2> SUFFICES ASSUME NEW u \in Terminals, NEW i \in Slots, i < num_procs[u],
                      NEW p, p = child_procs[u][i]
               PROVE  Settled(u, i, p)'
    BY <1>1, <1>6 DEF SavedContexts, Settled
  <2>0. p \in Pids /\ p # NULL /\ i \in Nat /\ num_procs[u] \in Nat
    BY UsedSlots, ProcessesAssumption DEF IInv, TypeOK, Slots
  <2>1. CASE p = new
    <3>1. u = t /\ i = num_procs[t] - 1
      <4>1. /\ child_procs[u][i] = child_procs[t][num_procs[t] - 1]
            /\ child_procs[u][i] # NULL
        BY <2>0, <2>1, <1>2
      <4>2. t \in Terminals /\ num_procs[t] - 1 \in Slots
        BY <1>2
      <4> QED BY <4>1, <4>2, OneSlot
    <3>2. kstack'[p] = "live"
      BY <2>1, <1>3, <1>5 DEF IInv, TypeOK
    <3> QED BY <3>1, <3>2, <1>1, <1>6 DEF Settled
  <2>2. CASE p = old
    <3>1. u = exec_term /\ i = num_procs[u] - 1
      BY <2>2, RunningProcess DEF old
    <3>2. /\ k_esp'[p] = [block |-> p, frame |-> "context_switch"]
          /\ kstack'[p] = "context_switch"
      BY <2>0, <2>2, <1>3, <1>4, <1>5 DEF IInv, TypeOK
    <3> QED BY <3>1, <3>2, <1>1, <1>6 DEF Settled
  <2>3. CASE p # new /\ p # old
    <3>1. k_esp'[p] = k_esp[p] /\ kstack'[p] = kstack[p]
      BY <2>0, <2>3, <1>3, <1>4, <1>5 DEF IInv, TypeOK
    <3>2. ~(u = t /\ i = num_procs[u] - 1)
      BY <2>3, <1>2
    <3>3. ~(u = exec_term /\ i = num_procs[u] - 1)
      BY <2>3, RunningProcess DEF old
    <3>4. Settled(u, i, p)
      BY SettledSlots DEF IInv
    <3> QED BY <3>1, <3>2, <3>3, <3>4, <1>1, <1>6 DEF Settled
  <2> QED BY <2>1, <2>2, <2>3
<1> QED BY <1>7, <1>8, <1>9, <1>10 DEF IInv

\* A switch to a terminal with a process changes only the visible terminal.
LEMMA ShowPreserves == IInv /\ ShowTerminal => IInv'
BY DEF IInv, ShowTerminal, tables, pcbs, cpu, TypeOK, TablesAgree,
       ParentChain, CpuRunsTop, SavedContexts, ActiveHasProc,
       NoStaleException, Top

-----------------------------------------------------------------------------
(* execute(), for each of its callers.  The tables, contexts and kernel    *)
(* stacks at the call are the premises; every process below the new one    *)
(* must wait in execute() and every other terminal must be settled.        *)

WaitsForChild(ctx, frames, r) ==
    ctx[r] = [block |-> r, frame |-> "execute"] /\ frames[r] = "execute"

WaitsForCpu(ctx, frames, r) ==
    /\ ctx[r] = [block |-> r, frame |-> frames[r]]
    /\ frames[r] \in {"context_switch", "switch_active_terminal"}

\* What execute() leaves behind, for any caller whose tables are right before
\* it and whose other processes are all settled.
LEMMA LaunchGives ==
    ASSUME NEW t \in Terminals, NEW p \in Pids, NEW q \in Pids,
           NEW pids, NEW kids, NEW n, NEW ctx, NEW marks, NEW frames,
           Launch(t, p, q, pids, kids, n, ctx, marks, frames),
           exec_term' = t, curr_terminal' \in Terminals,
           Tables(pids, kids, n), Chain(parent, kids, n),
           parent \in [Pids -> Pids \cup {NULL}],
           n[t] < MAX_PROCESSES, n[t] > 0 => p = kids[t][n[t] - 1],
           ctx \in [Pids -> [block : Pids, frame : SavedIn]],
           marks \in [Pids -> {0, RETURN_EXCEPTION}],
           frames \in [Pids -> (SavedIn \ {"fresh"}) \cup {"live", "dead"}],
           \A r \in Pids : pids[r] = 1 => marks[r] = 0,
           \A i \in Slots : i < n[t] => WaitsForChild(ctx, frames, kids[t][i]),
           \A u \in Terminals \ {t}, i \in Slots : i < n[u] =>
              IF i = n[u] - 1 THEN WaitsForCpu(ctx, frames, kids[u][i])
                              ELSE WaitsForChild(ctx, frames, kids[u][i]),
           n[curr_terminal'] > 0 \/ curr_terminal' = t
    PROVE  IInv'
<1>1. pids[q] = 0
  BY DEF Launch, LowestFree
<1>2. /\ available_pids' = MarkUsed(pids, q)
      /\ child_procs' = [kids EXCEPT ![t][n[t]] = q]
      /\ num_procs' = [n EXCEPT ![t] = @ + 1]
      /\ parent' = [parent EXCEPT ![q] = ParentOf(n[t], p)]
      /\ k_esp' = [ctx EXCEPT ![q] = [block |-> q, frame |-> "fresh"]]
      /\ retval' = ClearMark(marks, q)
      /\ kstack' = [frames EXCEPT ![q] = "live"]
      /\ esp' = q /\ tss_esp0' = q /\ user_page' = q
  BY DEF Launch
<1>3. Tables(available_pids', child_procs', num_procs')
  BY <1>1, <1>2, PushTables
<1>4. Chain(parent', child_procs', num_procs')
  BY <1>1, <1>2, PushChain
<1>5. TypeOK'
  <2>1. /\ available_pids' \in [Pids -> {0, 1}]
        /\ child_procs' \in [Terminals -> [Slots -> Pids \cup {NULL}]]
        /\ num_procs' \in [Terminals -> 0 .. MAX_PROCESSES]
    BY <1>3 DEF Tables
  <2>2. parent' \in [Pids -> Pids \cup {NULL}]
    BY <1>2 DEF ParentOf
  <2>3. k_esp' \in [Pids -> [block : Pids, frame : SavedIn]]
    BY <1>2 DEF SavedIn
  <2>4. retval' \in [Pids -> {0, RETURN_EXCEPTION}]
    BY <1>2 DEF ClearMark
  <2>5. kstack' \in [Pids -> (SavedIn \ {"fresh"}) \cup {"live", "dead"}]
    BY <1>2
  <2> QED BY <1>2, <2>1, <2>2, <2>3, <2>4, <2>5 DEF TypeOK
<1>6. TablesAgree' /\ ParentChain'
  BY <1>3, <1>4, <1>5 DEF TablesAgree, ParentChain, Tables, Chain
<1>7. /\ n[t] \in Slots /\ n[t] \in Nat
      /\ child_procs'[t][n[t]] = q /\ num_procs'[t] = n[t] + 1
      /\ \A u \in Terminals, i \in Slots :
            i < n[u] => kids[u][i] \in Pids /\ kids[u][i] # q
      /\ \A u \in Terminals : n[u] \in Nat
  BY <1>1, <1>2, ProcessesAssumption DEF Tables, Slots
<1>8. CpuRunsTop'
  BY <1>2, <1>7 DEF CpuRunsTop, Top
<1>9. SavedContexts'
  <2> SUFFICES ASSUME NEW u \in Terminals, NEW i \in Slots, i < num_procs'[u]
               PROVE  Settled(u, i, child_procs[u][i])'
    BY DEF SavedContexts, Settled
  <2>1. CASE u = t /\ i = n[t]
    BY <2>1, <1>2, <1>7 DEF Settled
  <2>2. CASE ~(u = t /\ i = n[t])
    <3> DEFINE r == kids[u][i]
    <3>1. i \in Nat /\ i < n[u] /\ child_procs'[u][i] = r
      BY <2>2, <1>2, <1>7 DEF Tables, Slots
    <3>2. r \in Pids /\ k_esp'[r] = ctx[r] /\ kstack'[r] = frames[r]
      BY <3>1, <1>2, <1>7
    <3>3. CASE u = t
      <4>1. WaitsForChild(ctx, frames, r) /\ i # num_procs'[u] - 1
        BY <3>1, <3>3, <1>7
      <4> QED BY <3>1, <3>2, <4>1 DEF Settled, WaitsForChild
    <3>4. CASE u # t
      <4>1. num_procs'[u] = n[u]
        BY <3>4, <1>2 DEF Tables
      <4>2. CASE i = n[u] - 1
        <5>1. WaitsForCpu(ctx, frames, r)
          BY <3>1, <3>4, <4>2
        <5> QED BY <3>1, <3>2, <3>4, <4>1, <4>2, <5>1
                DEF Settled, WaitsForCpu
      <4>3. CASE i # n[u] - 1
        <5>1. WaitsForChild(ctx, frames, r)
          BY <3>1, <3>4, <4>3
        <5> QED BY <3>1, <3>2, <4>1, <4>3, <5>1 DEF Settled, WaitsForChild
      <4> QED BY <4>2, <4>3
    <3> QED BY <3>3, <3>4
  <2> QED BY <2>1, <2>2
<1>10. ActiveHasProc'
  BY <1>2, <1>7 DEF ActiveHasProc, Tables
<1>11. NoStaleException'
  BY <1>2, <1>3 DEF NoStaleException, ClearMark, MarkUsed, Tables
<1> QED BY <1>5, <1>6, <1>8, <1>9, <1>10, <1>11 DEF IInv

\* The tables of a state that satisfies the invariant, as premises above.
LEMMA TablesNow ==
    ASSUME IInv
    PROVE  /\ Tables(available_pids, child_procs, num_procs)
           /\ Chain(parent, child_procs, num_procs)
           /\ parent \in [Pids -> Pids \cup {NULL}]
           /\ retval \in [Pids -> {0, RETURN_EXCEPTION}]
           /\ k_esp \in [Pids -> [block : Pids, frame : SavedIn]]
           /\ kstack \in [Pids -> (SavedIn \ {"fresh"}) \cup {"live", "dead"}]
           /\ \A r \in Pids : available_pids[r] = 1 => retval[r] = 0
           /\ \A t \in Terminals : num_procs[t] \in Nat
BY TablesOfState, ChainOfState DEF IInv, NoStaleException, TypeOK

\* Away from the running process, the frames saved and suspended are those
\* of a process waiting for its child or for the CPU.
LEMMA OthersWait ==
    ASSUME IInv, NEW t \in Terminals, NEW i \in Slots, i < num_procs[t],
           child_procs[t][i] # Top(exec_term)
    PROVE  /\ i # num_procs[t] - 1 =>
                    WaitsForChild(k_esp, kstack, child_procs[t][i])
           /\ i = num_procs[t] - 1 =>
                    /\ t # exec_term
                    /\ WaitsForCpu(k_esp, kstack, child_procs[t][i])
<1>1. Settled(t, i, child_procs[t][i])
  BY SettledSlots DEF IInv
<1>2. i = num_procs[t] - 1 => t # exec_term
  BY DEF Top
<1> QED BY <1>1, <1>2 DEF Settled, WaitsForChild, WaitsForCpu

\* execute() by a process.
LEMMA ExecutePreserves == IInv /\ Execute => IInv'
<1> SUFFICES ASSUME IInv, Execute PROVE IInv'
  OBVIOUS
<1> DEFINE x == exec_term
           p == Top(exec_term)
           ctx == [k_esp EXCEPT ![p] = [block |-> p, frame |-> "execute"]]
           frames == [kstack EXCEPT ![p] = "execute"]
<1>1. /\ x \in Terminals /\ num_procs[x] \in 1 .. MAX_PROCESSES
      /\ p \in Pids /\ p = child_procs[x][num_procs[x] - 1]
      /\ tss_esp0 = p
  BY RunningProcess
<1>2. PICK q \in Pids :
        /\ Launch(x, p, q, available_pids, child_procs, num_procs, ctx,
                  retval, frames)
        /\ UNCHANGED <<exec_term, curr_terminal>>
  BY <1>1 DEF Execute, SaveContext
<1>3. num_procs[x] < MAX_PROCESSES
  BY <1>1, <1>2, TablesNow, RoomForOne DEF Launch, LowestFree
<1>4. /\ ctx \in [Pids -> [block : Pids, frame : SavedIn]]
      /\ frames \in [Pids -> (SavedIn \ {"fresh"}) \cup {"live", "dead"}]
  BY <1>1, TablesNow DEF SavedIn
<1>5. ASSUME NEW t \in Terminals, NEW i \in Slots, i < num_procs[t]
      PROVE  /\ child_procs[t][i] # p =>
                    /\ ctx[child_procs[t][i]] = k_esp[child_procs[t][i]]
                    /\ frames[child_procs[t][i]] = kstack[child_procs[t][i]]
             /\ child_procs[t][i] = p =>
                    /\ t = x /\ i = num_procs[x] - 1
                    /\ WaitsForChild(ctx, frames, p)
  <2>1. child_procs[t][i] \in Pids
    BY <1>5, UsedSlots
  <2>2. child_procs[t][i] = p => t = x /\ i = num_procs[x] - 1
    BY RunningProcess
  <2> QED BY <2>1, <2>2, <1>1, TablesNow DEF WaitsForChild
<1>6. \A i \in Slots : i < num_procs[x] =>
            WaitsForChild(ctx, frames, child_procs[x][i])
  <2> HIDE DEF p, ctx, frames
  <2>1. ASSUME NEW i \in Slots, i < num_procs[x], child_procs[x][i] # p
        PROVE  WaitsForChild(k_esp, kstack, child_procs[x][i])
    BY <2>1, <1>1, OthersWait DEF p
  <2> QED BY <2>1, <1>1, <1>5 DEF WaitsForChild
<1>7. \A u \in Terminals \ {x}, i \in Slots : i < num_procs[u] =>
        IF i = num_procs[u] - 1
        THEN WaitsForCpu(ctx, frames, child_procs[u][i])
        ELSE WaitsForChild(ctx, frames, child_procs[u][i])
  <2> SUFFICES ASSUME NEW u \in Terminals \ {x}, NEW i \in Slots,
                      i < num_procs[u]
               PROVE  /\ i = num_procs[u] - 1 =>
                            WaitsForCpu(ctx, frames, child_procs[u][i])
                      /\ i # num_procs[u] - 1 =>
                            WaitsForChild(ctx, frames, child_procs[u][i])
    OBVIOUS
  <2>1. child_procs[u][i] # p
    BY RunningProcess
  <2>2. /\ ctx[child_procs[u][i]] = k_esp[child_procs[u][i]]
        /\ frames[child_procs[u][i]] = kstack[child_procs[u][i]]
    BY <2>1, <1>5
  <2> QED BY <2>1, <2>2, OthersWait DEF WaitsForChild, WaitsForCpu
<1>8. /\ exec_term' = x /\ curr_terminal' \in Terminals
      /\ num_procs[curr_terminal'] > 0
  BY <1>2 DEF IInv, TypeOK, ActiveHasProc
<1>9. Launch(x, p, q, available_pids, child_procs, num_procs, ctx, retval,
             frames)
  BY <1>2
<1>10. num_procs[x] > 0 => p = child_procs[x][num_procs[x] - 1]
  BY <1>1
<1>11. num_procs[curr_terminal'] > 0 \/ curr_terminal' = x
  BY <1>8
<1>12. x \in Terminals /\ p \in Pids /\ exec_term' = x
       /\ curr_terminal' \in Terminals
  BY <1>1, <1>8
<1> HIDE DEF x, p, ctx, frames
<1> QED BY <1>3, <1>4, <1>6, <1>7, <1>9, <1>10, <1>11, <1>12, TablesNow,
           LaunchGives

\* The first shell of a terminal, started in the keyboard interrupt.
LEMMA OpenPreserves == IInv /\ OpenTerminal => IInv'
<1> SUFFICES ASSUME IInv, OpenTerminal PROVE IInv'
  OBVIOUS
<1> DEFINE x == exec_term
           p == Top(exec_term)
           f == "switch_active_terminal"
           ctx == [k_esp EXCEPT ![p] = [block |-> p, frame |-> f]]
           frames == [kstack EXCEPT ![p] = f]
<1>1. x \in Terminals /\ num_procs[x] > 0 /\ p \in Pids /\ EntryStacks = {p}
  BY RunningProcess
<1>2. PICK t \in Terminals, q \in Pids :
        /\ num_procs[t] = 0
        /\ exec_term' = t /\ curr_terminal' = t
        /\ Launch(t, p, q, available_pids, child_procs, num_procs, ctx,
                  retval, frames)
  BY <1>1 DEF OpenTerminal, SaveContext
<1>3. num_procs[t] < MAX_PROCESSES /\ ~(num_procs[t] > 0)
  BY <1>2, ProcessesAssumption
<1>4. /\ ctx \in [Pids -> [block : Pids, frame : SavedIn]]
      /\ frames \in [Pids -> (SavedIn \ {"fresh"}) \cup {"live", "dead"}]
  BY <1>1, TablesNow DEF SavedIn
<1>5. \A i \in Slots : i < num_procs[t] =>
            WaitsForChild(ctx, frames, child_procs[t][i])
  BY <1>2, ProcessesAssumption DEF Slots
<1>6. ASSUME NEW u \in Terminals \ {t}, NEW i \in Slots, i < num_procs[u]
      PROVE  /\ i = num_procs[u] - 1 =>
                    WaitsForCpu(ctx, frames, child_procs[u][i])
             /\ i # num_procs[u] - 1 =>
                    WaitsForChild(ctx, frames, child_procs[u][i])
  <2>1. child_procs[u][i] \in Pids
    BY <1>6, UsedSlots
  <2>2. CASE child_procs[u][i] = p
    <3>1. i = num_procs[u] - 1
      BY <2>2, RunningProcess
    <3>2. ctx[p] = [block |-> p, frame |-> f] /\ frames[p] = f
      BY <1>1, TablesNow
    <3> QED BY <2>2, <3>1, <3>2 DEF WaitsForCpu
  <2>3. CASE child_procs[u][i] # p
    <3>1. /\ ctx[child_procs[u][i]] = k_esp[child_procs[u][i]]
          /\ frames[child_procs[u][i]] = kstack[child_procs[u][i]]
      BY <2>1, <2>3, TablesNow
    <3> QED BY <2>3, <3>1, <1>6, OthersWait DEF WaitsForChild, WaitsForCpu
  <2> QED BY <2>2, <2>3
<1>7. \A u \in Terminals \ {t}, i \in Slots : i < num_procs[u] =>
        IF i = num_procs[u] - 1
        THEN WaitsForCpu(ctx, frames, child_procs[u][i])
        ELSE WaitsForChild(ctx, frames, child_procs[u][i])
  BY <1>6
<1>8. exec_term' = t /\ curr_terminal' \in Terminals /\ curr_terminal' = t
  BY <1>2
<1> HIDE DEF x, p, f, ctx, frames
<1> QED BY <1>1, <1>2, <1>3, <1>4, <1>5, <1>7, <1>8, TablesNow, LaunchGives

\* What halt() finds: the depth of the terminal's stack tells it whether the
\* process has a parent, and which.
LEMMA RunningParent ==
    ASSUME IInv
    PROVE  LET n == num_procs[exec_term]
               up == parent[Top(exec_term)]
           IN  /\ n = 1 <=> up = NULL
               /\ n > 1 => /\ n - 2 \in Slots
                           /\ up = child_procs[exec_term][n - 2]
                           /\ up \in Pids /\ up # Top(exec_term)
                           /\ k_esp[up] = [block |-> up, frame |-> "execute"]
<1> DEFINE n == num_procs[exec_term]
           up == parent[Top(exec_term)]
<1>1. /\ exec_term \in Terminals /\ n \in 1 .. MAX_PROCESSES /\ n - 1 \in Slots
      /\ Top(exec_term) = child_procs[exec_term][n - 1]
      /\ MAX_PROCESSES \in Nat
  BY RunningProcess, ProcessesAssumption
<1>2. up = IF n - 1 = 0 THEN NULL ELSE child_procs[exec_term][(n - 1) - 1]
  BY <1>1 DEF IInv, ParentChain
<1>3. ASSUME n > 1
      PROVE  /\ n - 2 \in Slots /\ n - 2 < n /\ n - 2 # n - 1
             /\ up = child_procs[exec_term][n - 2]
  BY <1>1, <1>2, <1>3 DEF Slots
<1>4. ASSUME n > 1
      PROVE  /\ up \in Pids /\ up # NULL /\ up # Top(exec_term)
             /\ k_esp[up] = [block |-> up, frame |-> "execute"]
  <2>1. up \in Pids /\ up # NULL
    BY <1>1, <1>3, <1>4, UsedSlots
  <2>2. up # Top(exec_term)
    BY <1>3, <1>4, RunningProcess
  <2>3. WaitsForChild(k_esp, kstack, up)
    BY <2>2, <1>1, <1>3, <1>4, OthersWait
  <2> QED BY <2>1, <2>2, <2>3 DEF WaitsForChild
<1> QED BY <1>1, <1>2, <1>3, <1>4

\* An exception marks only the PCB of the process it ends.
LEMMA HaltMarksType ==
    ASSUME IInv, NEW marks \in HaltMarks(Top(exec_term))
    PROVE  /\ marks \in [Pids -> {0, RETURN_EXCEPTION}]
           /\ \A r \in Pids \ {Top(exec_term)} : marks[r] = retval[r]
BY RunningProcess, TablesNow DEF HaltMarks

\* halt() that returns to the parent.
LEMMA HaltChildPreserves == IInv /\ HaltChild => IInv'
<1> SUFFICES ASSUME IInv, HaltChild PROVE IInv'
  OBVIOUS
<1> DEFINE x == exec_term
           p == Top(exec_term)
           n == num_procs[exec_term]
           up == parent[Top(exec_term)]
<1>1. /\ x \in Terminals /\ n \in 1 .. MAX_PROCESSES /\ n - 1 \in Slots
      /\ p \in Pids /\ p = child_procs[x][n - 1] /\ EntryStacks = {p}
  BY RunningProcess
<1>2. /\ up # NULL
      /\ available_pids' = FreePid(available_pids, child_procs[x][n - 1])
      /\ child_procs' = [child_procs EXCEPT ![x][n - 1] = NULL]
      /\ num_procs' = [num_procs EXCEPT ![x] = @ - 1]
      /\ retval' \in HaltMarks(p)
      /\ SwitchTo(up, k_esp, [kstack EXCEPT ![p] = "dead"])
      /\ UNCHANGED <<exec_term, curr_terminal, parent, k_esp>>
  BY <1>1 DEF HaltChild, PopTop
<1>3. /\ n > 1 /\ n - 2 \in Slots /\ up = child_procs[x][n - 2]
      /\ up \in Pids /\ up # p
      /\ k_esp[up] = [block |-> up, frame |-> "execute"]
  BY <1>1, <1>2, RunningParent
<1>4. /\ user_page' = up /\ tss_esp0' = up /\ esp' = up
      /\ kstack' = [[kstack EXCEPT ![p] = "dead"] EXCEPT ![up] = "live"]
  <2>1. k_esp[up].block = up
    BY <1>3
  <2> QED BY <2>1, <1>2 DEF SwitchTo
<1>5. /\ Tables(available_pids', child_procs', num_procs')
      /\ Chain(parent', child_procs', num_procs')
  <2>1. num_procs[x] > 0 /\ parent' = parent
    BY <1>1, <1>2
  <2>2. Tables(available_pids', child_procs', num_procs')
    BY <2>1, <1>1, <1>2, TablesNow, PopTables
  <2>3. Chain(parent, child_procs', num_procs')
    BY <2>1, <1>1, <1>2, TablesNow, PopChain
  <2> QED BY <2>1, <2>2, <2>3
<1>6. /\ \A u \in Terminals, i \in Slots : child_procs'[u][i] =
            IF u = x /\ i = n - 1 THEN NULL ELSE child_procs[u][i]
      /\ \A u \in Terminals :
            num_procs'[u] = IF u = x THEN n - 1 ELSE num_procs[u]
  BY <1>1, <1>2, TablesNow DEF Tables
<1>7. /\ retval' \in [Pids -> {0, RETURN_EXCEPTION}]
      /\ \A r \in Pids \ {p} : retval'[r] = retval[r]
  BY <1>2, HaltMarksType
<1>8. TypeOK'
  <2>1. /\ available_pids' \in [Pids -> {0, 1}]
        /\ child_procs' \in [Terminals -> [Slots -> Pids \cup {NULL}]]
        /\ num_procs' \in [Terminals -> 0 .. MAX_PROCESSES]
    BY <1>5 DEF Tables
  <2>2. kstack' \in [Pids -> (SavedIn \ {"fresh"}) \cup {"live", "dead"}]
    BY <1>4, TablesNow
  <2> QED BY <2>1, <2>2, <1>2, <1>3, <1>4, <1>7 DEF IInv, TypeOK
<1>9. TablesAgree' /\ ParentChain'
  BY <1>5, <1>8 DEF TablesAgree, ParentChain, Tables, Chain
<1>10. CpuRunsTop'
  <2>1. num_procs'[x] = n - 1 /\ num_procs'[x] > 0 /\ n - 1 - 1 = n - 2
    BY <1>1, <1>3, <1>6
  <2>2. child_procs'[x][n - 2] = up
    BY <1>1, <1>3, <1>6
  <2> QED BY <2>1, <2>2, <1>2, <1>4 DEF CpuRunsTop, Top
<1>11. SavedContexts'
  <2> SUFFICES ASSUME NEW u \in Terminals, NEW i \in Slots, i < num_procs'[u]
               PROVE  Settled(u, i, child_procs[u][i])'
    BY DEF SavedContexts, Settled
  <2> DEFINE r == child_procs[u][i]
  <2>0. i \in Nat /\ num_procs[u] \in Nat
    BY TablesNow, ProcessesAssumption DEF Slots
  <2>1. i < num_procs[u] /\ child_procs'[u][i] = r /\ ~(u = x /\ i = n - 1)
    BY <2>0, <1>1, <1>6
  <2>2. r \in Pids /\ r # p /\ r # NULL
    BY <2>1, UsedSlots, RunningProcess
  <2>3. CASE r = up
    <3>1. u = x /\ i = n - 2
      <4>1. child_procs[u][i] = child_procs[x][n - 2]
        BY <2>3, <1>3
      <4> QED BY <4>1, <2>2, <1>1, <1>3, OneSlot
    <3>2. i = num_procs'[u] - 1 /\ u = exec_term'
      BY <3>1, <1>1, <1>2, <1>6
    <3>3. kstack'[r] = "live"
      BY <2>3, <1>3, <1>4, TablesNow
    <3> QED BY <3>2, <3>3, <2>1 DEF Settled
  <2>4. CASE r # up
    <3>1. kstack'[r] = kstack[r] /\ k_esp'[r] = k_esp[r]
      BY <2>2, <2>4, <1>2, <1>4, TablesNow
    <3>2. u = x => i # n - 2
      BY <2>4, <1>3
    <3>3. /\ i = num_procs'[u] - 1 <=> i = num_procs[u] - 1
          /\ u = exec_term' <=> u = x
      BY <3>2, <2>0, <2>1, <1>1, <1>2, <1>6
    <3>4. Settled(u, i, r)
      BY <2>1, SettledSlots DEF IInv
    <3> QED BY <3>1, <3>3, <3>4, <2>1 DEF Settled
  <2> QED BY <2>3, <2>4
<1>12. ActiveHasProc'
  BY <1>1, <1>2, <1>3, <1>6 DEF IInv, TypeOK, ActiveHasProc
<1>13. NoStaleException'
  <2>1. \A r \in Pids :
            available_pids'[r] = IF r = p THEN 0 ELSE available_pids[r]
    BY <1>1, <1>2, TablesNow DEF FreePid, Tables
  <2> HIDE DEF p
  <2> QED BY <2>1, <1>7, TablesNow DEF NoStaleException
<1> QED BY <1>8, <1>9, <1>10, <1>11, <1>12, <1>13 DEF IInv

\* halt() of a terminal's first process: a process less, then one more.
LEMMA HaltRootPreserves == IInv /\ HaltRoot => IInv'
<1> SUFFICES ASSUME IInv, HaltRoot PROVE IInv'
  OBVIOUS
<1> DEFINE x == exec_term
           p == Top(exec_term)
           pids == FreePid(available_pids, child_procs[x][num_procs[x] - 1])
           kids == [child_procs EXCEPT ![x][num_procs[x] - 1] = NULL]
           n == [num_procs EXCEPT ![x] = @ - 1]
           frames == [kstack EXCEPT ![p] = "dead"]
<1>1. /\ x \in Terminals /\ num_procs[x] \in 1 .. MAX_PROCESSES
      /\ num_procs[x] - 1 \in Slots
      /\ p \in Pids /\ p = child_procs[x][num_procs[x] - 1]
      /\ EntryStacks = {p}
  BY RunningProcess
<1>2. PICK q \in Pids, marks \in HaltMarks(p) :
        /\ parent[p] = NULL
        /\ Launch(x, p, q, pids, kids, n, k_esp, marks, frames)
        /\ UNCHANGED <<exec_term, curr_terminal>>
  BY <1>1 DEF HaltRoot, PopTop
<1>3. num_procs[x] = 1
  BY <1>2, RunningParent
<1>4. Tables(pids, kids, n) /\ Chain(parent, kids, n)
  <2>1. num_procs[x] > 0
    BY <1>1
  <2>2. Tables(pids, kids, n)
    BY <2>1, <1>1, TablesNow, PopTables
  <2>3. Chain(parent, kids, n)
    BY <2>1, <1>1, TablesNow, PopChain
  <2> QED BY <2>2, <2>3
<1>5. /\ n[x] = 0 /\ n[x] < MAX_PROCESSES
      /\ \A u \in Terminals \ {x} : n[u] = num_procs[u]
      /\ \A u \in Terminals \ {x}, i \in Slots : kids[u][i] = child_procs[u][i]
  BY <1>1, <1>3, ProcessesAssumption, TablesNow DEF Tables
<1>6. /\ marks \in [Pids -> {0, RETURN_EXCEPTION}]
      /\ frames \in [Pids -> (SavedIn \ {"fresh"}) \cup {"live", "dead"}]
  BY <1>2, HaltMarksType, TablesNow
<1>7. \A r \in Pids : pids[r] = 1 => marks[r] = 0
  <2>1. \A r \in Pids : pids[r] = IF r = p THEN 0 ELSE available_pids[r]
    BY <1>1, TablesNow DEF FreePid, Tables
  <2>2. \A r \in Pids \ {p} : marks[r] = retval[r]
    BY <1>2, HaltMarksType
  <2> HIDE DEF pids, p
  <2> QED BY <2>1, <2>2, TablesNow
<1>8. \A i \in Slots : i < n[x] => WaitsForChild(k_esp, frames, kids[x][i])
  BY <1>5, ProcessesAssumption DEF Slots
<1>9. \A u \in Terminals \ {x}, i \in Slots : i < n[u] =>
        IF i = n[u] - 1 THEN WaitsForCpu(k_esp, frames, kids[u][i])
                        ELSE WaitsForChild(k_esp, frames, kids[u][i])
  <2> SUFFICES ASSUME NEW u \in Terminals \ {x}, NEW i \in Slots,
                      i < num_procs[u]
               PROVE  /\ i = num_procs[u] - 1 =>
                            WaitsForCpu(k_esp, frames, child_procs[u][i])
                      /\ i # num_procs[u] - 1 =>
                            WaitsForChild(k_esp, frames, child_procs[u][i])
    <3> HIDE DEF n, kids, frames
    <3> QED BY <1>5
  <2>1. child_procs[u][i] # p /\ child_procs[u][i] \in Pids
    BY RunningProcess, UsedSlots
  <2>2. frames[child_procs[u][i]] = kstack[child_procs[u][i]]
    BY <2>1, TablesNow
  <2> QED BY <2>1, <2>2, OthersWait DEF WaitsForChild, WaitsForCpu
<1>10. /\ exec_term' = x /\ curr_terminal' \in Terminals
       /\ n[curr_terminal'] > 0 \/ curr_terminal' = x
  <2>1. curr_terminal' = curr_terminal /\ curr_terminal \in Terminals
        /\ num_procs[curr_terminal] > 0
    BY <1>2 DEF IInv, TypeOK, ActiveHasProc
  <2> QED BY <2>1, <1>2, <1>5
<1>11. Launch(x, p, q, pids, kids, n, k_esp, marks, frames)
  BY <1>2
<1>12. ~(n[x] > 0)
  BY <1>5
<1> HIDE DEF x, p, pids, kids, n, frames
<1> QED BY <1>1, <1>4, <1>5, <1>6, <1>7, <1>8, <1>9, <1>10, <1>11, <1>12,
           TablesNow, LaunchGives

-----------------------------------------------------------------------------
(* The theorems.                                                           *)

\* Every step preserves the invariant.
LEMMA StepIInv == IInv /\ [Next]_vars => IInv'
<1> SUFFICES ASSUME IInv, [Next]_vars PROVE IInv'
  OBVIOUS
<1>1. CASE PitInterrupt   BY <1>1, PitPreserves
<1>2. CASE Execute        BY <1>2, ExecutePreserves
<1>3. CASE HaltChild      BY <1>3, HaltChildPreserves
<1>4. CASE HaltRoot       BY <1>4, HaltRootPreserves
<1>5. CASE ShowTerminal   BY <1>5, ShowPreserves
<1>6. CASE OpenTerminal   BY <1>6, OpenPreserves
<1>7. CASE UNCHANGED vars
  BY <1>7 DEF vars, tables, pcbs, cpu, IInv, TypeOK, TablesAgree, ParentChain,
              CpuRunsTop, SavedContexts, ActiveHasProc, NoStaleException, Top
<1> QED BY <1>1, <1>2, <1>3, <1>4, <1>5, <1>6, <1>7 DEF Next

\* The inductive invariant holds in every reachable state.
THEOREM Invariance == Spec => []IInv
BY InitIInv, StepIInv, PTL DEF Spec

\* Every variable of the process core keeps its type: no index leaves the
\* pid table or a child_procs array, no height exceeds MAX_PROCESSES.
THEOREM TypeCorrectness == Spec => []TypeOK
BY Invariance, PTL DEF IInv

\* The pid table and the terminals' stacks agree (TablesAgree): no pid leaks
\* and no process is in two places, for any number of pids and terminals.
THEOREM TablesAlwaysAgree == Spec => []TablesAgree
BY Invariance, PTL DEF IInv

\* halt() and the scheduler see the same parent at every depth.
THEOREM ParentsAreBelow == Spec => []ParentChain
BY Invariance, PTL DEF IInv

\* Stack, TSS and user page belong to the top of the executing terminal.
THEOREM CpuAlwaysRunsTop == Spec => []CpuRunsTop
BY Invariance, PTL DEF IInv

\* Every saved k_esp leads into the frame its reader can return through.
THEOREM ContextsAreSaved == Spec => []SavedContexts
BY Invariance, PTL DEF IInv

\* The terminal on the screen has a process.
THEOREM ActiveAlwaysHasProc == Spec => []ActiveHasProc
BY Invariance, PTL DEF IInv

\* No process starts with the exception mark of an earlier one.
THEOREM NeverStaleException == Spec => []NoStaleException
BY Invariance, PTL DEF IInv

\* An opened terminal never loses its last process (TerminalsNeverDie).
THEOREM OpenedForEver == Spec => TerminalsNeverDie
<1> DEFINE Kept == \A t \in Terminals : num_procs[t] > 0 => num_procs'[t] > 0
<1>1. ASSUME IInv, [Next]_vars PROVE [Kept]_vars
  <2> DEFINE x == exec_term
  <2>1. /\ x \in Terminals /\ num_procs[x] > 0
        /\ \A t \in Terminals : num_procs[t] \in Nat
        /\ num_procs \in [Terminals -> 0 .. MAX_PROCESSES]
    BY RunningProcess, <1>1, TablesNow DEF Tables
  <2>2. CASE PitInterrupt \/ ShowTerminal
    BY <2>2 DEF PitInterrupt, ShowTerminal, tables
  <2>3. CASE Execute
    BY <2>1, <2>3 DEF Execute, Launch
  <2>4. CASE OpenTerminal
    BY <2>1, <2>4 DEF OpenTerminal, Launch
  <2>5. CASE HaltChild
    <3>1. num_procs' = [num_procs EXCEPT ![x] = @ - 1] /\ num_procs[x] # 1
      BY <1>1, <2>5, RunningProcess, RunningParent DEF HaltChild
    <3> QED BY <2>1, <3>1
  <2>6. CASE HaltRoot
    <3>1. num_procs' = [[num_procs EXCEPT ![x] = @ - 1] EXCEPT ![x] = @ + 1]
      BY <2>6 DEF HaltRoot, Launch
    <3> QED BY <2>1, <3>1
  <2>7. CASE UNCHANGED vars
    BY <2>7
  <2> QED BY <1>1, <2>2, <2>3, <2>4, <2>5, <2>6, <2>7 DEF Next
<1> QED BY <1>1, Invariance, PTL DEF Spec, TerminalsNeverDie

-----------------------------------------------------------------------------
(* Round robin: what a step does to the terminals that wait.  Scheduled    *)
(* itself needs fairness and is left to TLC.                               *)

\* The C remainder of the search, with the terminals in a circle.
LEMMA Circle ==
    ASSUME NEW t \in Terminals, NEW e \in Terminals
    PROVE  (t - e) % MAX_TERMINALS = IF t >= e THEN t - e ELSE t - e + MAX_TERMINALS
<1>1. MAX_TERMINALS \in Nat \ {0}
  BY ProcessesAssumption
<1>2. CASE t >= e
  <2>1. t - e \in 0 .. MAX_TERMINALS - 1
    BY <1>1, <1>2 DEF Terminals
  <2> QED
    BY <1>1, <1>2, <2>1
<1>3. CASE t < e
  <2>1. t - e + MAX_TERMINALS \in 0 .. MAX_TERMINALS - 1
    BY <1>1, <1>3 DEF Terminals
  <2> QED
    BY <1>1, <1>3, <2>1 DEF Terminals
<1> QED
  BY <1>2, <1>3 DEF Terminals

\* From the nearest terminal n on, the way to any other one is shorter.
LEMMA Nearer ==
    ASSUME NEW e \in Terminals, NEW n \in Terminals \ {e},
           NEW u \in Terminals \ {e, n},
           (n - e) % MAX_TERMINALS <= (u - e) % MAX_TERMINALS
    PROVE  (u - n) % MAX_TERMINALS < (u - e) % MAX_TERMINALS
<1>1. MAX_TERMINALS \in Nat \ {0}
  BY ProcessesAssumption
<1>2. /\ (n - e) % MAX_TERMINALS = IF n >= e THEN n - e ELSE n - e + MAX_TERMINALS
      /\ (u - e) % MAX_TERMINALS = IF u >= e THEN u - e ELSE u - e + MAX_TERMINALS
      /\ (u - n) % MAX_TERMINALS = IF u >= n THEN u - n ELSE u - n + MAX_TERMINALS
  BY Circle
<1> QED
  BY <1>1, <1>2 DEF Terminals

\* The scheduler goes past no terminal that waits, and every tick that has a
\* terminal to go to comes nearer to the others.
THEOREM TurnsComeNearer == Spec => TurnComesNearer
<1>1. IInv /\ [Next]_vars =>
        [exec_term' # exec_term =>
          \/ \A t \in Terminals \ {exec_term, exec_term'} :
                num_procs[t] > 0 => Distance(t)' < Distance(t)
          \/ \E t \in Terminals : num_procs[t] = 0 /\ num_procs'[t] > 0]_vars
  <2> SUFFICES ASSUME IInv, Next, exec_term' # exec_term
               PROVE  \/ \A t \in Terminals \ {exec_term, exec_term'} :
                            num_procs[t] > 0 => Distance(t)' < Distance(t)
                      \/ \E t \in Terminals : num_procs[t] = 0 /\ num_procs'[t] > 0
    OBVIOUS
  <2>1. MAX_TERMINALS \in Nat /\ exec_term \in Terminals
    BY ProcessesAssumption DEF IInv, TypeOK
  <2>2. CASE PitInterrupt
    <3>1. /\ exec_term' \in Terminals /\ NextTerminal(exec_term')
          /\ num_procs' = num_procs
      BY <2>2 DEF PitInterrupt, tables
    <3>2. ASSUME NEW u \in Terminals \ {exec_term, exec_term'}, num_procs[u] > 0
          PROVE  Distance(u)' < Distance(u)
      <4>1. Distance(exec_term') <= Distance(u)
        BY <3>1, <3>2 DEF NextTerminal
      <4>2. /\ Distance(u)' = (u - exec_term') % MAX_TERMINALS
            /\ exec_term' # exec_term /\ u # exec_term /\ u # exec_term'
        BY <3>1, <3>2 DEF Distance, NextTerminal
      <4> QED
        BY <2>1, <3>1, <3>2, <4>1, <4>2, Nearer DEF Distance
    <3> QED
      BY <3>2
  <2>3. CASE OpenTerminal
    <3>1. PICK t \in Terminals :
              num_procs[t] = 0 /\ num_procs' = [num_procs EXCEPT ![t] = @ + 1]
      BY <2>3 DEF OpenTerminal, Launch
    <3>2. num_procs'[t] > 0
      BY <3>1 DEF IInv, TypeOK
    <3> QED
      BY <3>1, <3>2
  <2> QED
    BY <2>2, <2>3 DEF Next, Execute, HaltChild, HaltRoot, ShowTerminal
<1> QED
  BY <1>1, Invariance, PTL DEF Spec, TurnComesNearer

\* While a terminal waits, the handler's search ends at one that does.
LEMMA TickFindsOne ==
    ASSUME IInv, NEW u \in Terminals \ {exec_term}, num_procs[u] > 0
    PROVE  /\ \E t \in Terminals : NextTerminal(t)
           /\ \A s, t \in Terminals : NextTerminal(s) /\ NextTerminal(t) => s = t
<1>1. MAX_TERMINALS \in Nat /\ exec_term \in Terminals
  BY ProcessesAssumption DEF IInv, TypeOK
<1>2. \A t \in Terminals : /\ Distance(t) \in Nat
                           /\ Distance(t) = IF t >= exec_term THEN t - exec_term
                                            ELSE t - exec_term + MAX_TERMINALS
  BY <1>1, Circle DEF Distance, Terminals
<1> DEFINE Waiting == {t \in Terminals \ {exec_term} : num_procs[t] > 0}
           Distances == {Distance(t) : t \in Waiting}
<1>3. Distances \in SUBSET Nat /\ Distance(u) \in Distances
  BY <1>2
<1>4. PICK d \in Distances : \A k \in Distances : d <= k
  <2> HIDE DEF Distances
  <2> QED
    BY <1>3, Least
<1>5. PICK t \in Waiting : d = Distance(t)
  BY <1>4
<1>6. NextTerminal(t)
  BY <1>4, <1>5 DEF NextTerminal
<1>7. ASSUME NEW s \in Terminals, NEW v \in Terminals,
             NextTerminal(s), NextTerminal(v)
      PROVE  s = v
  <2>1. Distance(s) = Distance(v)
    BY <1>2, <1>7 DEF NextTerminal
  <2> QED
    BY <1>1, <1>2, <2>1 DEF Terminals
<1> QED
  BY <1>5, <1>6, <1>7

\* While a terminal waits, the handler's search ends at one that does, and
\* at one only: the next tick gives the CPU away, whatever the tables hold.
THEOREM TickFindsNext ==
    Spec => [](\A u \in Terminals \ {exec_term} : num_procs[u] > 0 =>
                  /\ \E t \in Terminals : NextTerminal(t)
                  /\ \A s, t \in Terminals :
                         NextTerminal(s) /\ NextTerminal(t) => s = t)
<1>1. IInv => \A u \in Terminals \ {exec_term} : num_procs[u] > 0 =>
                  /\ \E t \in Terminals : NextTerminal(t)
                  /\ \A s, t \in Terminals :
                         NextTerminal(s) /\ NextTerminal(t) => s = t
  BY TickFindsOne
<1> QED
  BY <1>1, Invariance, PTL

-----------------------------------------------------------------------------
(* Every terminal gets its turn, for the three terminals of the code.      *)
(*                                                                         *)
(* FairSpec's fairness of the tick speaks of ENABLED, which the provers do *)
(* not know; TickFair has in its place the condition under which the       *)
(* handler finds a terminal: the rest of PitInterrupt can always be done.  *)

CanTick == \E t \in Terminals : NextTerminal(t)

TickFair == []([]CanTick => <><<PitInterrupt>>_vars)

\* What a step does to the executing terminal and to the set of open ones:
\* nothing, a turn of the round robin, or Alt-Fn to an empty terminal.
LEMMA StepSchedules ==
    ASSUME IInv, [Next]_vars
    PROVE  /\ PitInterrupt => /\ exec_term' \in Terminals
                              /\ NextTerminal(exec_term')
                              /\ num_procs' = num_procs
           /\ \/ PitInterrupt
              \/ /\ exec_term' = exec_term
                 /\ \A u \in Terminals : num_procs'[u] > 0 <=> num_procs[u] > 0
              \/ /\ exec_term' \in Terminals /\ num_procs[exec_term'] = 0
                 /\ \A u \in Terminals : num_procs'[u] > 0
                        <=> num_procs[u] > 0 \/ u = exec_term'
<1> DEFINE x == exec_term
<1>1. /\ x \in Terminals /\ num_procs[x] > 0
      /\ num_procs \in [Terminals -> 0 .. MAX_PROCESSES]
      /\ \A u \in Terminals : num_procs[u] \in Nat
  BY RunningProcess, TablesNow DEF Tables
<1>2. PitInterrupt => /\ exec_term' \in Terminals
                      /\ NextTerminal(exec_term') /\ num_procs' = num_procs
  BY DEF PitInterrupt, tables
<1>3. CASE PitInterrupt
  BY <1>2, <1>3
<1>4. CASE ShowTerminal \/ UNCHANGED vars
  BY <1>2, <1>4 DEF ShowTerminal, tables, vars
<1>5. CASE Execute
  <2>1. exec_term' = x /\ num_procs' = [num_procs EXCEPT ![x] = @ + 1]
    BY <1>5 DEF Execute, Launch
  <2> QED
    BY <1>1, <1>2, <2>1
<1>6. CASE HaltChild
  <2>1. exec_term' = x /\ num_procs' = [num_procs EXCEPT ![x] = @ - 1]
        /\ num_procs[x] # 1
    BY <1>6, RunningProcess, RunningParent DEF HaltChild
  <2> QED
    BY <1>1, <1>2, <2>1
<1>7. CASE HaltRoot
  <2>1. exec_term' = x
        /\ num_procs' = [[num_procs EXCEPT ![x] = @ - 1] EXCEPT ![x] = @ + 1]
    BY <1>7 DEF HaltRoot, Launch
  <2> QED
    BY <1>1, <1>2, <2>1
<1>8. CASE OpenTerminal
  <2>1. PICK t \in Terminals : /\ num_procs[t] = 0 /\ exec_term' = t
                               /\ num_procs' = [num_procs EXCEPT ![t] = @ + 1]
    BY <1>8 DEF OpenTerminal, Launch
  <2> QED
    BY <1>1, <1>2, <2>1
<1> QED
  BY <1>3, <1>4, <1>5, <1>6, <1>7, <1>8 DEF Next

\* A terminal that waits: while the third one is empty, the next tick goes to
\* it; when all are open it is the next one or the one after that.
LEMMA TurnOfThree ==
    ASSUME MAX_TERMINALS = 3, NEW t \in Terminals
    PROVE  Spec /\ TickFair => (num_procs[t] > 0 ~> exec_term = t)
<1> DEFINE Got == exec_term = t
           Waits == IInv /\ num_procs[t] > 0 /\ exec_term # t
           AllOpen == \A u \in Terminals : num_procs[u] > 0
           Two == Waits /\ ~AllOpen
           Next1 == Waits /\ AllOpen /\ Distance(t) = 1
           Next2 == Waits /\ AllOpen /\ Distance(t) # 1
<1>1. Spec => []IInv
  BY Invariance
<1>2. IInv /\ [Next]_vars => IInv'
  BY StepIInv
<1>3. /\ Terminals = {0, 1, 2}
      /\ \A u \in Terminals, e \in Terminals :
            (u - e) % MAX_TERMINALS = IF u >= e THEN u - e ELSE u - e + 3
  <2>1. Terminals = {0, 1, 2}
    BY DEF Terminals
  <2> QED
    BY <2>1, Circle
<1>4. IInv => /\ exec_term \in Terminals /\ num_procs[exec_term] > 0
              /\ \A u \in Terminals : num_procs[u] \in Nat
  BY RunningProcess DEF IInv, TypeOK
<1>5. ASSUME Waits, PitInterrupt PROVE (AllOpen /\ Distance(t) # 1) \/ Got'
  <2>1. exec_term' \in Terminals /\ NextTerminal(exec_term')
    BY <1>5, StepSchedules DEF Next
  <2> QED
    BY <1>3, <1>4, <1>5, <2>1 DEF NextTerminal, Distance
<1>6. ASSUME Next2, PitInterrupt PROVE Next1' \/ Got'
  <2>1. IInv' /\ exec_term' \in Terminals /\ NextTerminal(exec_term')
        /\ num_procs' = num_procs
    BY <1>2, <1>6, StepSchedules DEF Next
  <2>2. (Waits' /\ AllOpen') \/ Got'
    BY <1>6, <2>1
  <2>3. (t - exec_term') % MAX_TERMINALS < Distance(t) \/ Got'
    BY <1>3, <1>4, <1>6, <2>1, Nearer DEF NextTerminal, Distance
  <2>4. Distance(t) = 2
    BY <1>3, <1>4, <1>6 DEF Distance
  <2>5. Distance(t)' = 1 \/ Got'
    BY <1>3, <2>1, <2>3, <2>4 DEF Distance
  <2> QED
    BY <2>2, <2>5
<1>7. ASSUME Waits, [Next]_vars, ~PitInterrupt
      PROVE  \/ exec_term' = exec_term /\ Waits' /\ (AllOpen' <=> AllOpen)
             \/ ~AllOpen /\ (Waits' \/ Got')
  BY <1>2, <1>3, <1>7, StepSchedules
<1>8. Two /\ [Next]_vars => Two' \/ Next1' \/ Next2' \/ Got'
  BY <1>5, <1>7
<1>9. Two /\ <<PitInterrupt>>_vars => Got'
  BY <1>5
<1>10. Next2 /\ [Next]_vars => Next2' \/ Next1' \/ Got'
  BY <1>6, <1>7
<1>11. Next2 /\ <<PitInterrupt>>_vars => Next1' \/ Got'
  BY <1>6
<1>12. Next1 /\ [Next]_vars => Next1' \/ Got'
  BY <1>5, <1>7 DEF Distance
<1>13. Next1 /\ <<PitInterrupt>>_vars => Got'
  BY <1>5
<1>14. Two \/ Next1 \/ Next2 => CanTick
  BY TickFindsOne DEF CanTick
<1>15. IInv /\ num_procs[t] > 0 => Two \/ Next1 \/ Next2 \/ Got
  OBVIOUS
<1> HIDE DEF Got, Two, Next1, Next2
<1>16. Spec /\ TickFair => (num_procs[t] > 0 ~> Got)
  BY <1>1, <1>8, <1>9, <1>10, <1>11, <1>12, <1>13, <1>14, <1>15, PTL
     DEF Spec, TickFair
<1> QED
  BY <1>16 DEF Got

\* Every process that waits for the CPU gets it, whatever the others do, on
\* the code's three terminals and with any number of processes.
THEOREM ThreeAreScheduled ==
    ASSUME MAX_TERMINALS = 3
    PROVE  Spec /\ TickFair => Scheduled
<1>1. ASSUME NEW t \in Terminals
      PROVE  Spec /\ TickFair => (num_procs[t] > 0 ~> exec_term = t)
  BY TurnOfThree
<1> QED
  BY <1>1 DEF Scheduled
=============================================================================
