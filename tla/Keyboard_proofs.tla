---------------------------- MODULE Keyboard_proofs ----------------------------
(***************************************************************************)
(* The line discipline for any number of terminals and any buffer of at    *)
(* least three bytes.  The invariant adds that a reader copies only after  *)
(* it has cleared read_ack: then a key that can lengthen or close a line   *)
(* finds read_ack set, or a line that was left behind by a fault.          *)
(***************************************************************************)
EXTENDS Keyboard, TLAPS

USE KeyboardAssumption
USE DEF Outside, Places

Disarmed == \A t \in Terminals : at[t] = "copy" => read_ack[t] = 0

KInv == KTypeOK /\ StartsEmpty /\ Disarmed

\* At the beginning every line is empty.
LEMMA KInitial == Init => KInv
  BY DEF Init, KInv, KTypeOK, StartsEmpty, Disarmed, Terminals

\* A key stores what is typed only while a line is read.
LEMMA PutFacts ==
    ASSUME KInv, NEW t \in Terminals, NEW n \in Nat
    PROVE  /\ Put(t, n) \in Nat
           /\ read_ack[t] # 1 => Put(t, n) = buffer_size[t]
  BY DEF KInv, KTypeOK, Put

\* The handler's end leaves an empty line empty when nothing was stored.
LEMMA FinishStep ==
    ASSUME KInv, NEW t \in Terminals, NEW size \in Nat,
           read_ack[t] # 1 => size = buffer_size[t], Finish(t, size)
    PROVE  KInv'
<1> DEFINE closed == IF Filled(size) THEN size + 1 ELSE size
<1>1. /\ closed \in 0 .. SizeLimit
      /\ buffer_size' = [buffer_size EXCEPT ![t] = closed]
      /\ ack' \in [Terminals -> {0, 1}]
      /\ UNCHANGED <<curr_terminal, open, read_ack, at, entered>>
  BY DEF Finish, Filled, Wake, KInv, KTypeOK
<1>2. at[t] = "away" => closed = 0
  BY DEF Filled, KInv, KTypeOK, StartsEmpty, Disarmed
<1> HIDE DEF closed
<1>3. KTypeOK'
  BY <1>1 DEF KInv, KTypeOK
<1>4. StartsEmpty' /\ Disarmed'
  BY <1>1, <1>2 DEF KInv, KTypeOK, StartsEmpty, Disarmed
<1> QED
  BY <1>3, <1>4 DEF KInv

\* No key breaks the invariant.
LEMMA KeyStep == KInv /\ Key => KInv'
<1> SUFFICES ASSUME KInv, Key PROVE KInv'
  OBVIOUS
<1> DEFINE t == curr_terminal
<1>1. t \in Terminals /\ buffer_size[t] \in Nat /\ read_ack[t] \in {0, 1}
  BY DEF KInv, KTypeOK
<1>2. CASE KeyChar
  BY <1>1, <1>2, PutFacts, FinishStep DEF KeyChar
<1>3. CASE KeyTab
  <2>1. PICK size \in {Put(t, 4), buffer_size[t]} : Finish(t, size)
    BY <1>3 DEF KeyTab
  <2>2. Put(t, 4) \in Nat /\ (read_ack[t] # 1 => Put(t, 4) = buffer_size[t])
    BY <1>1, PutFacts
  <2>3. size \in Nat /\ (read_ack[t] # 1 => size = buffer_size[t])
    BY <1>1, <2>2
  <2> QED
    BY <1>1, <2>1, <2>3, FinishStep
<1>4. CASE KeySilent
  BY <1>1, <1>4, FinishStep DEF KeySilent
<1>5. CASE KeyBackspace \/ KeyControl
  <2>1. KTypeOK'
    BY <1>1, <1>5 DEF KeyBackspace, KeyControl, Wake, KInv, KTypeOK
  <2>2. StartsEmpty' /\ Disarmed'
    BY <1>1, <1>5 DEF KeyBackspace, KeyControl, KInv, KTypeOK, StartsEmpty, Disarmed
  <2> QED
    BY <2>1, <2>2 DEF KInv
<1>6. CASE KeyEnter
  <2>1. /\ Put(t, 1) \in 0 .. SizeLimit
        /\ read_ack[t] # 1 => Put(t, 1) = buffer_size[t]
    BY <1>1, <1>6, PutFacts DEF KeyEnter
  <2>2. KTypeOK'
    BY <1>1, <1>6, <2>1 DEF KeyEnter, Wake, KInv, KTypeOK
  <2>3. StartsEmpty' /\ Disarmed'
    BY <1>1, <1>6, <2>1 DEF KeyEnter, KInv, KTypeOK, StartsEmpty, Disarmed
  <2> QED
    BY <2>2, <2>3 DEF KInv
<1>7. CASE KeySwitch \/ KeySwitchRefused
  BY <1>1, <1>7 DEF KeySwitch, KeySwitchRefused, Wake, KInv, KTypeOK, StartsEmpty, Disarmed
<1> QED
  BY <1>2, <1>3, <1>4, <1>5, <1>6, <1>7 DEF Key

\* Nor does keyboard_read().
LEMMA ReadStep ==
    ASSUME KInv, NEW t \in Terminals, ReadArm(t) \/ ReadOn(t)
    PROVE  KInv'
<1> USE DEF KInv, KTypeOK, StartsEmpty, Disarmed, Goto
<1>1. CASE ReadArm(t)
  BY <1>1 DEF ReadArm
<1>2. CASE ReadResetAck(t) \/ ReadWake(t) \/ ReadClearAck(t)
  BY <1>2 DEF ReadResetAck, ReadWake, ReadClearAck
<1>3. CASE ReadDisarm(t)
  BY <1>3 DEF ReadDisarm
<1>4. CASE ReadCopy(t)
  <2>1. KTypeOK'
    BY <1>4 DEF ReadCopy
  <2>2. StartsEmpty' /\ Disarmed'
    BY <1>4 DEF ReadCopy
  <2> QED
    BY <2>1, <2>2
<1>5. CASE ReadFault(t)
  <2>1. KTypeOK'
    BY <1>5 DEF ReadFault
  <2>2. StartsEmpty' /\ Disarmed'
    BY <1>5 DEF ReadFault
  <2> QED
    BY <2>1, <2>2
<1> QED
  BY <1>1, <1>2, <1>3, <1>4, <1>5 DEF ReadOn

\* No step does.
LEMMA KInvStep == KInv /\ [Next]_kvars => KInv'
<1>1. KInv /\ UNCHANGED kvars => KInv'
  BY DEF kvars, KInv, KTypeOK, StartsEmpty, Disarmed
<1> QED
  BY <1>1, KeyStep, ReadStep DEF Next

\* The invariant of the line discipline.
THEOREM KInvariance == Spec => []KInv
  BY KInitial, KInvStep, PTL DEF Spec

\* No line is longer than the bound that the keys respect, and the flags are
\* flags.
THEOREM KeyboardTypes == Spec => []KTypeOK
<1>1. KInv => KTypeOK
  BY DEF KInv
<1> QED
  BY <1>1, KInvariance, PTL

\* A read that follows one that returned starts with an empty line.
THEOREM LinesStartEmpty == Spec => []StartsEmpty
<1>1. KInv => StartsEmpty
  BY DEF KInv
<1> QED
  BY <1>1, KInvariance, PTL

-----------------------------------------------------------------------------
(* A reader that has news returns.                                         *)
(*                                                                         *)
(* FairSpec's fairness of ReadOn speaks of ENABLED, which the provers do   *)
(* not know; ReaderFair has in its place where keyboard_read() can go on:  *)
(* everywhere but in its loop without news.                                *)

CanReadOn(t) == \/ at[t] \in {"reset_ack", "clear_ack", "disarm", "copy"}
                \/ at[t] = "spin" /\ ack[t] = 1

ReaderFair == \A t \in Terminals : []([]CanReadOn(t) => <><<ReadOn(t)>>_kvars)

\* What a step of the keyboard or of a reader does to one reader: only its
\* own steps move it, and no key takes the news away from it.
LEMMA ReaderMoves ==
    ASSUME KInv, [Next]_kvars, NEW t \in Terminals
    PROVE  \/ ReadArm(t) \/ ReadOn(t)
           \/ at'[t] = at[t] /\ (ack[t] = 1 => ack'[t] = 1)
<1> USE DEF KInv, KTypeOK
<1>1. CASE Key
  BY <1>1 DEF Key, KeyChar, KeyTab, KeySilent, KeyBackspace, KeyEnter, KeyControl,
              KeySwitch, KeySwitchRefused, Finish, Wake
<1>2. ASSUME NEW u \in Terminals, ReadArm(u) \/ ReadOn(u), u # t
      PROVE  at'[t] = at[t] /\ ack'[t] = ack[t]
  BY <1>2 DEF ReadArm, ReadOn, ReadResetAck, ReadWake, ReadClearAck, ReadDisarm,
              ReadCopy, ReadFault, Goto
<1>3. CASE UNCHANGED kvars
  BY <1>3 DEF kvars
<1> QED
  BY <1>1, <1>2, <1>3 DEF Next

\* One reader: the loop, clear_ack, disarm, copy, outside.
LEMMA OneReaderReturns ==
    ASSUME NEW t \in Terminals
    PROVE  Spec /\ []([]CanReadOn(t) => <><<ReadOn(t)>>_kvars)
             => (at[t] = "spin" /\ ack[t] = 1 ~> at[t] \in Outside)
<1> DEFINE Told == KInv /\ at[t] = "spin" /\ ack[t] = 1
           Clears == KInv /\ at[t] = "clear_ack"
           Disarms == KInv /\ at[t] = "disarm"
           Copies == KInv /\ at[t] = "copy"
           Out == at[t] \in Outside
           News == at[t] = "spin" /\ ack[t] = 1
<1>1. Spec => []KInv
  BY KInvariance
<1>2. KInv /\ [Next]_kvars => KInv'
  BY KInvStep
<1>3. ASSUME KInv, ReadOn(t)
      PROVE  /\ at[t] = "spin" => at'[t] = "clear_ack"
             /\ at[t] = "clear_ack" => at'[t] = "disarm"
             /\ at[t] = "disarm" => at'[t] = "copy"
             /\ at[t] = "copy" => at'[t] \in Outside
  BY <1>3 DEF KInv, KTypeOK, ReadOn, ReadResetAck, ReadWake, ReadClearAck,
     ReadDisarm, ReadCopy, ReadFault, Goto
<1>4. ReadArm(t) => Out
  BY DEF ReadArm
<1>5. /\ Told /\ [Next]_kvars => Told' \/ Clears'
      /\ Clears /\ [Next]_kvars => Clears' \/ Disarms'
      /\ Disarms /\ [Next]_kvars => Disarms' \/ Copies'
      /\ Copies /\ [Next]_kvars => Copies' \/ Out'
  BY <1>2, <1>3, <1>4, ReaderMoves
<1>6. ASSUME KInv, <<ReadOn(t)>>_kvars PROVE KInv'
  BY <1>2, <1>6 DEF Next
<1>7. /\ Told /\ <<ReadOn(t)>>_kvars => Clears'
      /\ Clears /\ <<ReadOn(t)>>_kvars => Disarms'
      /\ Disarms /\ <<ReadOn(t)>>_kvars => Copies'
      /\ Copies /\ <<ReadOn(t)>>_kvars => Out'
  BY <1>3, <1>6
<1>8. Told \/ Clears \/ Disarms \/ Copies => CanReadOn(t)
  BY DEF CanReadOn
<1>9. KInv /\ News => Told
  OBVIOUS
<1> HIDE DEF Told, Clears, Disarms, Copies, Out, News
<1>10. Spec /\ []([]CanReadOn(t) => <><<ReadOn(t)>>_kvars) => (News ~> Out)
  BY <1>1, <1>5, <1>7, <1>8, <1>9, PTL DEF Spec
<1> QED
  BY <1>10 DEF News, Out

\* A reader that was told about its line returns, on any number of terminals.
THEOREM AckedReadsReturn == Spec /\ ReaderFair => AckedReadReturns
<1>1. ASSUME NEW t \in Terminals
      PROVE  Spec /\ []([]CanReadOn(t) => <><<ReadOn(t)>>_kvars)
               => (at[t] = "spin" /\ ack[t] = 1 ~> at[t] \in Outside)
  BY OneReaderReturns
<1> QED
  BY <1>1 DEF ReaderFair, AckedReadReturns
=============================================================================
