------------------------------ MODULE Rtc_proofs ------------------------------
(***************************************************************************)
(* What holds of the clock and the interrupt controllers for any number of *)
(* processes.                                                              *)
(*                                                                         *)
(* One flag serves all readers.  The invariant is that the flag, while it  *)
(* is set, is news to every process that is waiting: each of them began    *)
(* to wait by clearing it, and only an interrupt sets it again.            *)
(***************************************************************************)
EXTENDS Rtc, Numbers

USE DEF Lines, PIC_MAX_PINS, CASCADE, KEYBOARD_IRQ, PIT_IRQ, RTC_IRQ, Irqs

-----------------------------------------------------------------------------
(* The divider that rtc_write() computes.                                  *)

\* Log2 is what its recursive equation says: halving stays within Freq, and
\* the equation has a solution.
LEMMA Log2Equation ==
    Log2 = [n \in Freq |-> IF n = 1 THEN 0 ELSE 1 + Log2[n \div 2]]
<1> DEFINE Eq(f) == [n \in Freq |-> IF n = 1 THEN 0 ELSE 1 + f[n \div 2]]
           log == [n \in Freq |->
                     IF n < 2 THEN 0 ELSE IF n < 4 THEN 1 ELSE
                     IF n < 8 THEN 2 ELSE IF n < 16 THEN 3 ELSE
                     IF n < 32 THEN 4 ELSE IF n < 64 THEN 5 ELSE
                     IF n < 128 THEN 6 ELSE IF n < 256 THEN 7 ELSE
                     IF n < 512 THEN 8 ELSE IF n < 1024 THEN 9 ELSE 10]
<1>1. log = Eq(log)
  <2>1. ASSUME NEW n \in Freq, n # 1 PROVE log[n] = 1 + log[n \div 2]
    <3>1. n \div 2 \in Freq
      BY <2>1 DEF Freq, RTC_MAX_FREQ
    <3> QED
      BY <2>1, <3>1 DEF Freq, RTC_MAX_FREQ
  <2> QED
    BY <2>1
<1>2. Log2 = CHOOSE f : f = Eq(f)
  BY DEF Log2
<1> HIDE DEF log
<1> QED
  BY <1>1, <1>2

Powers == {1, 2, 4, 8, 16, 32, 64, 128, 256, 512, 1024}

\* IsPower is what its recursive equation says, for the same reason.
LEMMA IsPowerEquation ==
    IsPower = [n \in Freq |-> n = 1 \/ (n % 2 = 0 /\ IsPower[n \div 2])]
<1> DEFINE Eq(f) == [n \in Freq |-> n = 1 \/ (n % 2 = 0 /\ f[n \div 2])]
           power == [n \in Freq |-> n \in Powers]
<1>1. power = Eq(power)
  <2>1. ASSUME NEW n \in Freq
        PROVE  (n \in Powers) <=> n = 1 \/ (n % 2 = 0 /\ n \div 2 \in Powers)
    BY DEF Powers, Freq, RTC_MAX_FREQ
  <2>2. ASSUME NEW n \in Freq
        PROVE  (n \in Powers) = (n = 1 \/ (n % 2 = 0 /\ power[n \div 2]))
    <3>1. CASE n = 1
      BY <3>1 DEF Powers
    <3>2. CASE n # 1
      <4>1. n \div 2 \in Freq
        BY <3>2 DEF Freq, RTC_MAX_FREQ
      <4>2. power[n \div 2] = (n \div 2 \in Powers)
        BY <4>1
      <4>3. (n \in Powers) <=> (n = 1 \/ (n % 2 = 0 /\ power[n \div 2]))
        BY <2>1, <4>2
      <4> QED
        BY <4>3
    <3> QED
      BY <3>1, <3>2
  <2> QED
    BY <2>2, Zenon
<1>2. IsPower = CHOOSE f : f = Eq(f)
  BY DEF IsPower
<1> HIDE DEF power
<1> QED
  BY <1>1, <1>2

\* The loop of rtc_write() reaches 1 for the powers of two only.
LEMMA PowersPass == \A n \in Freq : IsPower[n] <=> n \in Powers
<1> SUFFICES ASSUME {n \in Freq : ~(IsPower[n] <=> n \in Powers)} # {}
             PROVE  FALSE
  OBVIOUS
<1> DEFINE Wrong == {n \in Freq : ~(IsPower[n] <=> n \in Powers)}
<1>1. PICK x \in Wrong : \A y \in Wrong : x <= y
  <2>1. Wrong \in SUBSET Nat
    BY DEF Freq
  <2> HIDE DEF Wrong
  <2> QED
    BY <2>1, Least DEF Wrong
<1>2. x \in Freq /\ ~(IsPower[x] <=> x \in Powers)
  OBVIOUS
<1>3. IsPower[x] <=> x = 1 \/ (x % 2 = 0 /\ IsPower[x \div 2])
  BY <1>2, IsPowerEquation
<1>4. CASE x = 1
  BY <1>2, <1>3, <1>4 DEF Powers
<1>5. CASE x # 1
  <2>1. x \div 2 \in Freq /\ x \div 2 < x
    BY <1>2, <1>5 DEF Freq, RTC_MAX_FREQ
  <2>2. IsPower[x \div 2] <=> x \div 2 \in Powers
    BY <1>1, <2>1 DEF Freq
  <2>3. x \in Powers <=> x % 2 = 0 /\ x \div 2 \in Powers
    BY <1>2, <1>5 DEF Powers, Freq, RTC_MAX_FREQ
  <2> QED
    BY <1>2, <1>3, <1>5, <2>2, <2>3
<1> QED
  BY <1>4, <1>5

\* The frequencies of the clock, from the divider 15 down to 6.
Frequencies == <<2, 4, 8, 16, 32, 64, 128, 256, 512, 1024>>

\* rtc_write() accepts the frequencies that the clock has and no others, and
\* computes the divider of each: 15 for 2 Hz, and one less each time that the
\* frequency doubles, down to 6 for 1024 Hz.
THEOREM DividersAreRight ==
    /\ \A k \in 1 .. 10 : Divider(Frequencies[k]) = DIVIDER_SETTING_CEIL - k
    /\ \A freq \in Nat : (\A k \in 1 .. 10 : freq # Frequencies[k])
                              => Divider(freq) = 0
<1> USE DEF RTC_MIN_FREQ, RTC_MAX_FREQ, DIVIDER_SETTING_CEIL
<1>1. \A k \in 1 .. 10 : /\ Frequencies[k] \in Freq
                          /\ Frequencies[k] \in Powers
                          /\ Frequencies[k] >= 2
  BY DEF Frequencies, Freq, Powers
<1>2. \A n \in Freq : n # 1 => Log2[n] = 1 + Log2[n \div 2]
  BY Log2Equation
<1>3. Log2[1] = 0
  BY Log2Equation DEF Freq
<1>4. ASSUME NEW k \in 1 .. 10 PROVE Log2[Frequencies[k]] = k
  <2>1. Log2[2] = 1 /\ Log2[4] = 2 /\ Log2[8] = 3
    BY <1>2, <1>3 DEF Freq
  <2>2. Log2[16] = 4 /\ Log2[32] = 5 /\ Log2[64] = 6
    BY <1>2, <2>1 DEF Freq
  <2>3. Log2[128] = 7 /\ Log2[256] = 8 /\ Log2[512] = 9 /\ Log2[1024] = 10
    BY <1>2, <2>2 DEF Freq
  <2> QED
    BY <2>1, <2>2, <2>3 DEF Frequencies
<1>5. ASSUME NEW k \in 1 .. 10
      PROVE  Divider(Frequencies[k]) = DIVIDER_SETTING_CEIL - k
  <2> DEFINE f == Frequencies[k]
  <2>1. f \in Freq /\ f \in Powers /\ f >= 2
    BY <1>1
  <2>2. IsPower[f] /\ Log2[f] = k
    BY <1>4, <2>1, PowersPass
  <2> HIDE DEF f
  <2>3. Divider(f) = DIVIDER_SETTING_CEIL - k
    BY <2>1, <2>2 DEF Divider, Freq
  <2> QED
    BY <2>3 DEF f
<1>6. ASSUME NEW freq \in Nat, \A k \in 1 .. 10 : freq # Frequencies[k]
      PROVE  Divider(freq) = 0
  <2>1. freq \notin Powers \/ freq = 1
    BY <1>6 DEF Powers, Frequencies
  <2> QED
    BY <2>1, PowersPass DEF Divider, Freq
<1> QED
  BY <1>5, <1>6

\* The divider fits into the lower half of register A.
LEMMA DividerRange ==
    ASSUME NEW freq \in Nat
    PROVE  Divider(freq) \in 0 .. DIVIDER_SETTING
<1>1. CASE \E k \in 1 .. 10 : freq = Frequencies[k]
  BY <1>1, DividersAreRight DEF DIVIDER_SETTING, DIVIDER_SETTING_CEIL
<1>2. CASE ~\E k \in 1 .. 10 : freq = Frequencies[k]
  BY <1>2, DividersAreRight DEF DIVIDER_SETTING
<1> QED
  BY <1>1, <1>2

-----------------------------------------------------------------------------
(* rtc_read().                                                             *)

FlagIsNews ==
    /\ at = [p \in Procs |-> at[p]]
    /\ ticked = [p \in Procs |-> ticked[p]]
    /\ \A p \in Procs :
          /\ at[p] = "spin" /\ rtc_interrupt_occurred = 1 => ticked[p]
          /\ at[p] = "reset" => ticked[p]

\* Steps that leave the flag, or clear it, and put nobody into rtc_read().
LEMMA OutsideRead ==
    ASSUME FlagIsNews, ticked' = ticked,
           rtc_interrupt_occurred' \in {rtc_interrupt_occurred, 0},
           NEW p \in Procs, NEW to,
           at' = [at EXCEPT ![p] = to], to \notin {"spin", "reset"}
    PROVE  FlagIsNews'
  BY DEF FlagIsNews

\* Steps that move nobody.
LEMMA NobodyMoves ==
    ASSUME FlagIsNews, ticked' = ticked, at' = at,
           rtc_interrupt_occurred' \in {rtc_interrupt_occurred, 0}
    PROVE  FlagIsNews'
  BY DEF FlagIsNews

\* rtc_init() and rtc_write().
LEMMA SetterStep ==
    ASSUME FlagIsNews, NEW p \in Procs,
           OpenOrClose(p) \/ WriteStart(p) \/ RtcInit(p) \/ SetRate(p)
    PROVE  FlagIsNews'
<1>1. CASE OpenOrClose(p)
  BY <1>1, OutsideRead DEF OpenOrClose, Begin, Goto
<1>2. CASE WriteStart(p)
  BY <1>2, OutsideRead DEF WriteStart, Begin, Goto
<1>3. ASSUME NEW from, NEW i, NEW to, Select(p, from, i, to),
             to \notin {"spin", "reset"}
      PROVE  FlagIsNews'
  BY <1>3, OutsideRead DEF Select, Only, Goto
<1>4. ASSUME NEW from, NEW to, Save(p, from, to), to \notin {"spin", "reset"}
      PROVE  FlagIsNews'
  BY <1>4, OutsideRead DEF Save, Goto
<1>5. CASE WriteB(p) \/ WriteA(p)
  BY <1>5, OutsideRead DEF WriteB, WriteA, Goto
<1>6. CASE SaveA(p)
  <2>1. CASE Save(p, "read_A", "select_A_again")
    BY <1>4, <2>1
  <2>2. CASE ~Save(p, "read_A", "select_A_again")
    BY <1>6, <2>2, OutsideRead DEF SaveA, Goto
  <2> QED
    BY <2>1, <2>2
<1> QED
  BY <1>1, <1>2, <1>3, <1>4, <1>5, <1>6 DEF RtcInit, SetRate

\* Every step keeps the flag from being older than a reader's call.
LEMMA FlagStep == FlagIsNews /\ [RtcNext]_rvars => FlagIsNews'
<1> SUFFICES ASSUME FlagIsNews, [RtcNext]_rvars PROVE FlagIsNews'
  OBVIOUS
<1>1. CASE Periodic
  BY <1>1, NobodyMoves DEF Periodic, driver
<1>2. CASE RtcInterrupt
  BY <1>2 DEF RtcInterrupt, driver, FlagIsNews
<1>3. CASE Timer \/ Keyboard
  BY <1>3, NobodyMoves DEF Timer, Keyboard, rtc, driver
<1>4. ASSUME NEW p \in Procs, ReadStart(p) PROVE FlagIsNews'
  <2>1. /\ at' = [at EXCEPT ![p] = "spin"]
        /\ ticked' = [ticked EXCEPT ![p] = FALSE]
        /\ rtc_interrupt_occurred' = 0
    BY <1>4 DEF ReadStart, Only, Goto
  <2>2. /\ at' = [q \in Procs |-> at'[q]]
        /\ ticked' = [q \in Procs |-> ticked'[q]]
    BY <2>1 DEF FlagIsNews
  <2>3. ASSUME NEW q \in Procs, at'[q] = "reset" PROVE ticked'[q]
    <3>1. q # p /\ at[q] = "reset"
      BY <2>1, <2>3 DEF FlagIsNews
    <3>2. ticked[q]
      BY <3>1 DEF FlagIsNews
    <3>3. ticked'[q] = ticked[q]
      BY <2>1, <3>1 DEF FlagIsNews
    <3> QED
      BY <3>2, <3>3, Zenon
  <2> QED
    BY <2>1, <2>2, <2>3 DEF FlagIsNews
<1>5. ASSUME NEW p \in Procs, ReadWake(p) \/ ReadReset(p) PROVE FlagIsNews'
  BY <1>5 DEF ReadWake, ReadReset, Only, Goto, FlagIsNews
<1>6. ASSUME NEW p \in Procs, HaltClose(p) PROVE FlagIsNews'
  BY <1>6, NobodyMoves DEF HaltClose, driver
<1>7. CASE UNCHANGED rvars
  BY <1>7, NobodyMoves DEF rvars, rtc, driver
<1> QED
  BY <1>1, <1>2, <1>3, <1>4, <1>5, <1>6, <1>7, SetterStep
     DEF RtcNext, InDriver, Procs

\* rtc_read() returns only after an interrupt of its own time, with any
\* number of readers that clear the flag under each other.
THEOREM ReadsWaitForTick == RtcSpec => []ReadAfterTick
<1>1. RtcBoot => FlagIsNews
  BY DEF RtcBoot, FlagIsNews
<1>2. FlagIsNews => ReadAfterTick
  BY DEF FlagIsNews, ReadAfterTick
<1> QED
  BY <1>1, <1>2, FlagStep, PTL DEF RtcSpec

-----------------------------------------------------------------------------
(* Types, and what the interrupt controllers hold back.                    *)

\* No handler leaves its line in service, and no line that matters to the
\* clock is masked.  A process that is about to write register A has a
\* divider.
RtcInv ==
    /\ RtcTypeOK
    /\ isr = {}
    /\ imr \subseteq Devices \ {RTC_IRQ}
    /\ event => RTC_IRQ \in irr
    /\ \A p \in Procs : at[p] \in {"select_A_again", "write_A"} => rate[p] # 0

\* The part about the controllers, which the driver does not touch.
PicInv ==
    /\ PicTypeOK
    /\ isr = {}
    /\ imr \subseteq Devices \ {RTC_IRQ}

\* A line in service has been acknowledged when its handler leaves.
LEMMA PicStep ==
    ASSUME PicInv,
           \/ \E l \in Lines : Raise(l) \/ Handle(l)
           \/ KeyboardSwitch \/ KeyboardReturn \/ UNCHANGED pic
    PROVE  PicInv'
<1> USE PicAssumption
<1>1. ASSUME NEW l \in Lines, Raise(l) PROVE PicInv'
  BY <1>1 DEF Raise, PicInv, PicTypeOK
<1>2. ASSUME NEW l \in Lines, Handle(l) PROVE PicInv'
  BY <1>2 DEF Handle, SendEoi, PicInv, PicTypeOK
<1>3. CASE KeyboardSwitch
  BY <1>3 DEF KeyboardSwitch, SendEoi, PicInv, PicTypeOK
<1>4. CASE KeyboardReturn
  BY <1>4 DEF KeyboardReturn, SendEoi, PicInv, PicTypeOK
<1>5. CASE UNCHANGED pic
  BY <1>5 DEF pic, PicInv, PicTypeOK
<1> QED
  BY <1>1, <1>2, <1>3, <1>4, <1>5

\* The part about the clock, and the part about the processes.
Clock ==
    /\ index \in {"A", "B", "C"}
    /\ reg \in [{"A", "B"} -> Byte]
    /\ event \in BOOLEAN
    /\ rtc_interrupt_occurred \in {0, 1}
    /\ asked \in 1 .. DIVIDER_SETTING
    /\ ticked \in [Procs -> BOOLEAN]

Driver ==
    /\ at \in [Procs -> Places]
    /\ rate \in [Procs -> 0 .. DIVIDER_SETTING]
    /\ prev_saved \in [Procs -> Byte]
    /\ \A p \in Procs : at[p] \in {"select_A_again", "write_A"} => rate[p] # 0

\* What one process does to its own variables.
LEMMA OwnStep ==
    ASSUME Driver, NEW p \in Procs, NEW to \in Places, at' = [at EXCEPT ![p] = to],
           NEW r \in 0 .. DIVIDER_SETTING,
           rate' = [rate EXCEPT ![p] = r] \/ (rate' = rate /\ r = rate[p]),
           NEW b \in Byte,
           \/ prev_saved' = [prev_saved EXCEPT ![p] = b]
           \/ prev_saved' = prev_saved /\ b = prev_saved[p],
           to \in {"select_A_again", "write_A"} => r # 0
    PROVE  Driver'
  BY DEF Driver

\* The bytes that go through the data port.
LEMMA DataPort ==
    ASSUME Clock
    PROVE  /\ Data \in Byte /\ Zero \in Byte
           /\ \A byte \in Byte : Write(byte) => reg' \in [{"A", "B"} -> Byte]
           /\ \A byte \in Byte : WithPIE(byte) \in Byte
           /\ \A byte \in Byte, r \in 0 .. DIVIDER_SETTING :
                  WithRate(byte, r) \in Byte
<1> USE DEF Byte, Nibbles
<1>1. Data \in Byte /\ Zero \in Byte
  BY DEF Clock, Data, Zero
<1>2. ASSUME NEW byte \in Byte, Write(byte)
      PROVE  reg' \in [{"A", "B"} -> Byte]
  <2>1. [byte EXCEPT !.hi = @ % 8] \in Byte
    OBVIOUS
  <2> QED
    BY <1>2, <2>1 DEF Clock, Write
<1>3. ASSUME NEW byte \in Byte PROVE WithPIE(byte) \in Byte
  BY DEF WithPIE, HasPIE, PIE
<1>4. ASSUME NEW byte \in Byte, NEW r \in 0 .. DIVIDER_SETTING
      PROVE  WithRate(byte, r) \in Byte
  BY DEF WithRate, DIVIDER_SETTING
<1> QED
  BY <1>1, <1>2, <1>3, <1>4

\* rtc_read().
LEMMA ReaderTypes ==
    ASSUME Clock, Driver, NEW p \in Procs,
           ReadStart(p) \/ ReadWake(p) \/ ReadReset(p)
    PROVE  Clock' /\ Driver' /\ UNCHANGED <<pic, event>>
<1>1. CASE ReadStart(p)
  BY <1>1 DEF ReadStart, Only, Goto, Clock, Driver, Places
<1>2. CASE ReadWake(p)
  BY <1>2 DEF ReadWake, Only, Goto, Clock, Driver, Places
<1>3. CASE ReadReset(p)
  BY <1>3 DEF ReadReset, Only, Goto, Clock, Driver, Places
<1> QED
  BY <1>1, <1>2, <1>3

\* rtc_init() and rtc_write().
LEMMA SetterTypes ==
    ASSUME Clock, Driver, NEW p \in Procs,
           OpenOrClose(p) \/ WriteStart(p) \/ RtcInit(p) \/ SetRate(p)
    PROVE  Clock' /\ Driver' /\ pic' = pic /\ (event' => event)
<1>1. rate[p] \in 0 .. DIVIDER_SETTING /\ prev_saved[p] \in Byte
  BY DEF Driver
<1>2. ASSUME NEW to \in {"select_A", "select_B"}, NEW r \in 0 .. DIVIDER_SETTING,
             Begin(p, to, r), rtc_interrupt_occurred' \in {0, 1}
      PROVE  Clock' /\ Driver' /\ pic' = pic /\ (event' => event)
  <2>1. Driver'
    BY <1>1, <1>2, OwnStep DEF Begin, Goto, Places
  <2> QED
    BY <1>2, <2>1 DEF Begin, Clock
<1>3. CASE OpenOrClose(p)
  BY <1>2, <1>3 DEF OpenOrClose, DIVIDER_SETTING
<1>4. CASE WriteStart(p)
  <2>1. PICK freq \in Freqs : Begin(p, "select_A", Divider(freq))
    BY <1>4 DEF WriteStart
  <2>2. Divider(freq) \in 0 .. DIVIDER_SETTING
    BY RtcAssumption, DividerRange
  <2> QED
    BY <1>2, <1>4, <2>1, <2>2 DEF WriteStart, Clock
<1>5. ASSUME NEW from, NEW i \in {"A", "B"}, NEW to \in Places,
             Select(p, from, i, to), to # "select_A_again",
             to = "write_A" => from = "select_A_again"
      PROVE  Clock' /\ Driver' /\ pic' = pic /\ (event' => event)
  <2>1. to = "write_A" => rate[p] # 0
    BY <1>5 DEF Select, Only, Goto, Driver
  <2>2. Driver'
    BY <1>1, <1>5, <2>1, OwnStep DEF Select, Only, Goto
  <2> QED
    BY <1>5, <2>2 DEF Select, Clock
<1>6. ASSUME NEW from, NEW to \in Places, Save(p, from, to), to # "write_A",
             to = "select_A_again" => rate[p] # 0
      PROVE  Clock' /\ Driver' /\ pic' = pic /\ (event' => event)
  <2>1. Data \in Byte
    BY DataPort
  <2>2. Driver'
    BY <1>1, <1>6, <2>1, OwnStep DEF Save, Goto
  <2> QED
    BY <1>6, <2>2 DEF Save, Read, Clock
<1>7. CASE SaveA(p)
  <2>1. CASE rate[p] # 0 /\ Save(p, "read_A", "select_A_again")
    BY <1>6, <2>1 DEF Places
  <2>2. CASE ~(rate[p] # 0 /\ Save(p, "read_A", "select_A_again"))
    <3>1. Goto(p, "read_A", "away") /\ Read
          /\ UNCHANGED <<pic, index, reg, rtc_interrupt_occurred, rate, prev_saved,
                         asked, ticked>>
      BY <1>7, <2>2 DEF SaveA
    <3>2. Driver'
      BY <1>1, <3>1, OwnStep DEF Goto, Places
    <3> QED
      BY <3>1, <3>2 DEF Read, Clock
  <2> QED
    BY <2>1, <2>2
<1>8. CASE WriteB(p)
  <2>1. WithPIE(prev_saved[p]) \in Byte /\ Zero \in Byte
    BY <1>1, DataPort
  <2>2. reg' \in [{"A", "B"} -> Byte]
    BY <1>8, <2>1, DataPort DEF WriteB
  <2>3. Driver'
    BY <1>1, <1>8, <2>1, OwnStep DEF WriteB, Goto, Places
  <2> QED
    BY <1>8, <2>2, <2>3 DEF WriteB, Clock
<1>9. CASE WriteA(p)
  <2>1. WithRate(prev_saved[p], rate[p]) \in Byte /\ Zero \in Byte
    BY <1>1, DataPort
  <2>2. reg' \in [{"A", "B"} -> Byte]
    BY <1>9, <2>1, DataPort DEF WriteA
  <2>3. rate[p] # 0
    BY <1>9 DEF WriteA, Goto, Driver
  <2>4. 0 \in 0 .. DIVIDER_SETTING
    BY DEF DIVIDER_SETTING
  <2>5. Driver'
    BY <1>9, <2>1, <2>4, OwnStep DEF WriteA, Goto, Places
  <2> QED
    BY <1>1, <1>9, <2>2, <2>3, <2>5 DEF WriteA, Clock
<1>10. CASE RtcInit(p)
  BY <1>3, <1>5, <1>6, <1>8, <1>10 DEF RtcInit, Places
<1>11. CASE SetRate(p)
  BY <1>5, <1>7, <1>9, <1>11 DEF SetRate, Places
<1> QED
  BY <1>3, <1>4, <1>10, <1>11

\* Every step keeps the invariant.
LEMMA RtcInvStep == RtcInv /\ [RtcNext]_rvars => RtcInv'
<1> SUFFICES ASSUME RtcInv, [RtcNext]_rvars PROVE RtcInv'
  OBVIOUS
<1> DEFINE Pended == event => RTC_IRQ \in irr
<1>1. Clock /\ Driver /\ PicInv /\ Pended
  BY DEF RtcInv, RtcTypeOK, Clock, Driver, PicInv
<1>2. Clock' /\ Driver' /\ PicInv' /\ Pended' => RtcInv'
  BY DEF RtcInv, RtcTypeOK, Clock, Driver, PicInv
<1>3. CASE Periodic
  <2>1. PicInv' /\ Pended'
    BY <1>1, <1>3, PicStep DEF Periodic, Raise
  <2>2. Clock' /\ Driver'
    BY <1>1, <1>3 DEF Periodic, driver, Clock, Driver
  <2> QED
    BY <1>2, <2>1, <2>2
<1>4. CASE RtcInterrupt
  <2>1. PicInv' /\ Pended'
    BY <1>1, <1>4, PicStep DEF RtcInterrupt
  <2>2. Clock' /\ Driver'
    BY <1>1, <1>4 DEF RtcInterrupt, driver, Clock, Driver
  <2> QED
    BY <1>2, <2>1, <2>2
<1>5. CASE Timer \/ Keyboard
  <2>1. PicInv'
    BY <1>1, <1>5, PicStep DEF Timer, Keyboard
  <2>2. RTC_IRQ \in irr => RTC_IRQ \in irr'
    BY <1>5 DEF Timer, Keyboard, Raise, Handle, KeyboardSwitch, KeyboardReturn
  <2>3. Clock' /\ Driver' /\ event' = event
    BY <1>1, <1>5 DEF Timer, Keyboard, rtc, driver, Clock, Driver
  <2> QED
    BY <1>1, <1>2, <2>1, <2>2, <2>3
<1>6. ASSUME Clock', Driver', pic' = pic, event' => event PROVE RtcInv'
  <2>1. PicInv'
    BY <1>1, <1>6, PicStep
  <2>2. Pended'
    BY <1>1, <1>6 DEF pic
  <2> QED
    BY <1>2, <1>6, <2>1, <2>2
<1>7. ASSUME NEW p \in Procs, ReadStart(p) \/ ReadWake(p) \/ ReadReset(p)
      PROVE  RtcInv'
  BY <1>1, <1>6, <1>7, ReaderTypes
<1>8. ASSUME NEW p \in Procs,
             OpenOrClose(p) \/ WriteStart(p) \/ RtcInit(p) \/ SetRate(p)
      PROVE  RtcInv'
  BY <1>1, <1>6, <1>8, SetterTypes
<1>9. ASSUME NEW p \in Procs, HaltClose(p) PROVE RtcInv'
  <2>1. DIVIDER_SETTING \in 0 .. DIVIDER_SETTING /\ DIVIDER_SETTING # 0
    BY DEF DIVIDER_SETTING
  <2>2. reg["A"] \in Byte /\ reg["B"] \in Byte
    BY <1>1 DEF Clock
  <2>3. /\ WithRate(reg["A"], DIVIDER_SETTING) \in Byte
        /\ WithPIE(reg["B"]) \in Byte
    BY <1>1, <2>1, <2>2, DataPort
  <2>4. Clock'
    BY <1>1, <1>9, <2>1, <2>3 DEF HaltClose, Clock
  <2>5. Driver' /\ pic' = pic /\ (event' => event)
    BY <1>1, <1>9 DEF HaltClose, driver, Driver
  <2> QED
    BY <1>6, <2>4, <2>5
<1>10. CASE UNCHANGED rvars
  <2>1. Clock' /\ Driver' /\ pic' = pic /\ (event' => event)
    BY <1>1, <1>10 DEF rvars, rtc, driver, Clock, Driver
  <2> QED
    BY <1>6, <2>1
<1> HIDE DEF Pended
<1> QED
  BY <1>3, <1>4, <1>5, <1>7, <1>8, <1>9, <1>10 DEF RtcNext, InDriver, Procs

\* The invariant of the clock, its driver and the interrupt controllers.
THEOREM RtcInvariance == RtcSpec => []RtcInv
<1>1. RtcBoot => RtcInv
  <2> SUFFICES ASSUME RtcBoot PROVE RtcInv
    OBVIOUS
  <2>1. PicTypeOK /\ isr = {} /\ imr \subseteq Devices \ {RTC_IRQ}
    BY PicAssumption DEF RtcBoot, PicInit, PicTypeOK
  <2>2. /\ index \in {"A", "B", "C"} /\ event = FALSE
        /\ rtc_interrupt_occurred \in {0, 1}
        /\ asked \in 1 .. DIVIDER_SETTING
        /\ reg \in [{"A", "B"} -> Byte]
    BY DEF RtcBoot, Byte, Nibbles, TIME_BASE, DIVIDER_SETTING, PIE
  <2>3. /\ at \in [Procs -> Places] /\ ticked \in [Procs -> BOOLEAN]
        /\ \A p \in Procs : at[p] = "away"
        /\ rate \in [Procs -> 0 .. DIVIDER_SETTING]
        /\ prev_saved \in [Procs -> Byte]
    BY DEF RtcBoot, Byte, Nibbles, Zero, Places, DIVIDER_SETTING
  <2> QED
    BY <2>1, <2>2, <2>3 DEF RtcInv, RtcTypeOK
<1> QED
  BY <1>1, RtcInvStep, PTL DEF RtcSpec

\* Types, among them that a divider and a nibble fit their four bits.
THEOREM RtcTypeCorrect == RtcSpec => []RtcTypeOK
<1>1. RtcInv => RtcTypeOK
  BY DEF RtcInv
<1> QED
  BY <1>1, RtcInvariance, PTL

\* Whenever no handler runs, every pending request that is not masked can be
\* accepted: none of them leaves a line in service, not even the keyboard's,
\* which leaves its handler through a switch and acknowledges twice.  That
\* an accepted request is handled is then a matter of fairness alone.
THEOREM NothingHeldBack == RtcSpec => [](\A l \in irr \ imr : Acceptable(l))
<1>1. RtcInv => \A l \in irr \ imr : Acceptable(l)
  BY PicAssumption DEF RtcInv, Acceptable, Served
<1> QED
  BY <1>1, RtcInvariance, PTL

\* A clock that is silent has its interrupt pending.
THEOREM EventsAreHandled == RtcSpec => []EventHandled
<1>1. RtcInv => EventHandled
  BY PicAssumption DEF RtcInv, EventHandled, Acceptable, Served
<1> QED
  BY <1>1, RtcInvariance, PTL

-----------------------------------------------------------------------------
(* enable_irq() and disable_irq().                                         *)

\* Only lines with a device are ever pending.
Pending == irr \subseteq Devices

\* Every step keeps the pending lines among the devices.
LEMMA PendingStep == Pending /\ [RtcNext]_rvars => Pending'
<1> SUFFICES ASSUME Pending, [RtcNext]_rvars PROVE Pending'
  OBVIOUS
<1>1. ASSUME NEW l, Raise(l) \/ Handle(l) PROVE Pending'
  BY <1>1 DEF Raise, Handle, Pending
<1>2. CASE KeyboardSwitch \/ KeyboardReturn
  BY <1>2 DEF KeyboardSwitch, KeyboardReturn, Pending
<1>3. CASE UNCHANGED pic
  BY <1>3 DEF pic, Pending
<1>4. Periodic \/ RtcInterrupt \/ Timer \/ Keyboard \/ UNCHANGED rvars =>
          \/ \E l \in Lines : Raise(l) \/ Handle(l)
          \/ KeyboardSwitch \/ KeyboardReturn \/ UNCHANGED pic
  BY DEF Periodic, RtcInterrupt, Timer, Keyboard, rvars
<1>5. ASSUME NEW p, \/ ReadStart(p) \/ OpenOrClose(p) \/ WriteStart(p)
                    \/ HaltClose(p) \/ InDriver(p)
      PROVE  UNCHANGED pic
  BY <1>5 DEF ReadStart, OpenOrClose, WriteStart, Begin, HaltClose, InDriver,
     ReadWake, ReadReset, RtcInit, SetRate, Select, Save, SaveA, WriteA, WriteB
<1> QED
  BY <1>1, <1>2, <1>3, <1>4, <1>5 DEF RtcNext

\* With no devices but those the kernel names, what it writes to the command
\* ports is never a command.
THEOREM MaskWritesAreIgnored ==
    ASSUME Devices \subseteq Irqs
    PROVE  RtcSpec => []MaskWritesIgnored
<1>1. Pending => MaskWritesIgnored
  <2> SUFFICES ASSUME Pending, NEW l \in Irqs
               PROVE  /\ Command(EnableByte(l)) = "nothing"
                      /\ Command(DisableByte(l)) = "nothing"
    BY DEF MaskWritesIgnored
  <2>1. \A k \in Irqs : Pin(k) \in {0, 1}
    BY DEF Pin
  <2>2. CommandPort(l) \subseteq {0, 1, CASCADE}
    BY <2>1 DEF Pending, CommandPort
  <2>3. /\ EnableByte(l) \subseteq {0, 1, CASCADE}
        /\ DisableByte(l) \subseteq {0, 1, CASCADE}
    BY <2>1, <2>2 DEF EnableByte, DisableByte
  <2>4. ASSUME NEW byte, byte \subseteq {0, 1, CASCADE}
        PROVE  Command(byte) = "nothing"
    BY <2>4 DEF Command
  <2> QED
    BY <2>3, <2>4
<1>2. RtcBoot => Pending
  BY DEF RtcBoot, PicInit, Pending
<1> QED
  BY <1>1, <1>2, PendingStep, PTL DEF RtcSpec

-----------------------------------------------------------------------------
(* What must happen in the end.                                            *)
(*                                                                         *)
(* RtcFairSpec's fairness speaks of ENABLED, which the provers do not      *)
(* know; RtcFair has in its place the conditions of the four actions: an   *)
(* interrupt is handled when it is acceptable, the clock that runs makes   *)
(* an event when the last one is done with, and a process goes on in the   *)
(* driver unless it spins without news.                                    *)

Handled(l) == IF l = RTC_IRQ THEN RtcInterrupt ELSE Handle(l) /\ UNCHANGED rtc

CanPeriodic == ClockRuns /\ ~event /\ RTC_IRQ \notin irr

CanGoOn(p) == at[p] # "away" /\ (at[p] = "spin" => rtc_interrupt_occurred = 1)

HandlersFair == \A l \in Irqs : []([]Acceptable(l) => <><<Handled(l)>>_rvars)

RtcFair ==
    /\ HandlersFair
    /\ []([]CanPeriodic => <><<Periodic>>_rvars)
    /\ \A p \in Procs : []([]CanGoOn(p) => <><<InDriver(p)>>_rvars)

\* No step masks a line, and only its handler takes a request away.
LEMMA RequestStays ==
    ASSUME [RtcNext]_rvars
    PROVE  /\ imr' = imr
           /\ RTC_IRQ \in irr => RTC_IRQ \in irr' \/ RtcInterrupt
<1>1. ASSUME NEW p, \/ ReadStart(p) \/ OpenOrClose(p) \/ WriteStart(p)
                    \/ HaltClose(p) \/ InDriver(p)
      PROVE  UNCHANGED pic
  BY <1>1 DEF ReadStart, OpenOrClose, WriteStart, Begin, HaltClose, InDriver,
     ReadWake, ReadReset, RtcInit, SetRate, Select, Save, SaveA, WriteA, WriteB
<1>2. CASE UNCHANGED pic
  BY <1>2 DEF pic
<1>3. CASE Periodic \/ RtcInterrupt \/ Timer \/ Keyboard
  BY <1>3 DEF Periodic, RtcInterrupt, Timer, Keyboard, Raise, Handle,
     KeyboardSwitch, KeyboardReturn
<1> QED
  BY <1>1, <1>2, <1>3 DEF RtcNext, rvars

\* One line: nothing holds its request back until it is handled.
LEMMA OneRequestAccepted ==
    ASSUME NEW l \in Devices \cap Irqs
    PROVE  RtcSpec /\ []([]Acceptable(l) => <><<Handled(l)>>_rvars)
             => (l \in irr /\ l \notin imr ~> l \notin irr)
<1> DEFINE Waits == l \in irr /\ l \notin imr
           Ready == RtcInv /\ Waits
           Done == l \notin irr
<1>1. RtcSpec => []RtcInv
  BY RtcInvariance
<1>2. Ready /\ [RtcNext]_rvars => Ready' \/ Done'
  BY RtcInvStep, RequestStays
<1>3. Ready /\ <<Handled(l)>>_rvars => Done'
  BY DEF Handled, RtcInterrupt, Handle
<1>4. Ready => Acceptable(l)
  BY PicAssumption DEF RtcInv, Acceptable, Served
<1>5. RtcInv /\ Waits => Ready
  OBVIOUS
<1> HIDE DEF Waits, Ready, Done
<1>6. RtcSpec /\ []([]Acceptable(l) => <><<Handled(l)>>_rvars) => (Waits ~> Done)
  BY <1>1, <1>2, <1>3, <1>4, <1>5, PTL DEF RtcSpec
<1> QED
  BY <1>6 DEF Waits, Done

\* Every request that is not masked is accepted, with any number of
\* processes and of handlers left behind in a switch.
THEOREM AllRequestsAccepted == RtcSpec /\ HandlersFair => RequestsAccepted
<1>1. ASSUME NEW l \in Devices \cap Irqs
      PROVE  RtcSpec /\ []([]Acceptable(l) => <><<Handled(l)>>_rvars)
               => (l \in irr /\ l \notin imr ~> l \notin irr)
  BY OneRequestAccepted
<1> QED
  BY <1>1 DEF HandlersFair, RequestsAccepted

\* While a process spins and all others are away, the flag that an interrupt
\* has set is taken by nobody else.
LEMMA FlagStays ==
    ASSUME RtcInv, [RtcNext]_rvars, [\A q \in Setters : ~HaltClose(q)]_rvars,
           NEW p \in Procs, at[p] = "spin", rtc_interrupt_occurred = 1,
           \A q \in Procs \ {p} : at[q] = "away",
           \A q \in Procs \ {p} : at'[q] = "away"
    PROVE  at'[p] # "spin" \/ rtc_interrupt_occurred' = 1
<1>1. at \in [Procs -> Places]
  BY DEF RtcInv, RtcTypeOK
<1>2. ASSUME NEW q \in Procs, ReadStart(q) \/ OpenOrClose(q) \/ WriteStart(q)
      PROVE  FALSE
  <2>1. at[q] = "away" /\ at'[q] # "away"
    BY <1>1, <1>2 DEF ReadStart, OpenOrClose, WriteStart, Begin, Only, Goto
  <2> QED
    BY <2>1
<1>3. ASSUME NEW q \in Procs, InDriver(q) PROVE at'[p] # "spin"
  <2>1. at[q] # "away"
    BY <1>3 DEF InDriver, ReadWake, ReadReset, SetRate, Select, SaveA, Save,
       WriteA, Only, Goto
  <2>2. q = p
    BY <2>1
  <2> QED
    BY <1>1, <1>3, <2>2 DEF InDriver, ReadWake, ReadReset, RtcInit, SetRate,
       OpenOrClose, Begin, Select, SaveA, Save, WriteA, WriteB, Only, Goto
<1>4. CASE Periodic \/ RtcInterrupt \/ Timer \/ Keyboard \/ UNCHANGED rvars
  BY <1>4 DEF Periodic, RtcInterrupt, Timer, Keyboard, rtc, rvars
<1> QED
  BY <1>2, <1>3, <1>4 DEF RtcNext, Procs

\* One process that is in the end alone with a clock that runs.
LEMMA OneReadReturns ==
    ASSUME NEW l \in Irqs, l = RTC_IRQ, NEW p \in Readers
    PROVE  /\ RtcSpec
           /\ []([]Acceptable(l) => <><<Handled(l)>>_rvars)
           /\ []([]CanPeriodic => <><<Periodic>>_rvars)
           /\ []([]CanGoOn(p) => <><<InDriver(p)>>_rvars)
           => ((/\ <>[](ClockRuns /\ \A q \in Procs \ {p} : at[q] = "away")
                /\ <>[][\A q \in Setters : ~HaltClose(q)]_rvars)
                 => []<>(at[p] # "spin"))
<1> DEFINE Alone == ClockRuns /\ \A q \in Procs \ {p} : at[q] = "away"
           NoHalt == \A q \in Setters : ~HaltClose(q)
           Free == at[p] # "spin"
           Silent == RtcInv /\ Alone /\ ~Free /\ RTC_IRQ \notin irr
           Asked == RtcInv /\ Alone /\ ~Free /\ RTC_IRQ \in irr
           News == RtcInv /\ Alone /\ ~Free /\ rtc_interrupt_occurred = 1
<1>0. p \in Procs
  BY DEF Procs
<1>1. RtcSpec => []RtcInv
  BY RtcInvariance
<1>2. RtcInv /\ [RtcNext]_rvars => RtcInv'
  BY RtcInvStep
<1>3. Silent => CanPeriodic
  BY DEF RtcInv, CanPeriodic
<1>4. Silent /\ [RtcNext]_rvars /\ <<Periodic>>_rvars /\ Alone' /\ ~Free' => Asked'
  BY <1>2 DEF Periodic, Raise
<1>5. Asked => Acceptable(l)
  BY PicAssumption, RtcAssumption DEF RtcInv, Acceptable, Served
<1>6. Asked /\ [RtcNext]_rvars /\ Alone' /\ ~Free' => Asked' \/ News'
  BY <1>2, RequestStays DEF RtcInterrupt
<1>7. Asked /\ [RtcNext]_rvars /\ <<Handled(l)>>_rvars /\ Alone' /\ ~Free'
        => News'
  BY <1>2 DEF Handled, RtcInterrupt
<1>8. News => CanGoOn(p)
  BY DEF CanGoOn
<1>9. News /\ [RtcNext]_rvars /\ [NoHalt]_rvars /\ Alone' /\ ~Free' => News'
  BY <1>0, <1>2, FlagStays
<1>10. ~Free /\ RtcInv /\ <<InDriver(p)>>_rvars => Free'
  BY <1>0 DEF RtcInv, RtcTypeOK, InDriver, ReadWake, ReadReset, RtcInit, SetRate,
     OpenOrClose, Begin, Select, SaveA, Save, WriteA, WriteB, Only, Goto
<1>11. RtcInv /\ Alone /\ ~Free => Silent \/ Asked
  OBVIOUS
<1>12. Silent \/ Asked \/ News => RtcInv /\ Alone /\ ~Free
  OBVIOUS
<1> HIDE DEF Alone, NoHalt, Free, Silent, Asked, News
<1>13. /\ RtcSpec
       /\ []([]Acceptable(l) => <><<Handled(l)>>_rvars)
       /\ []([]CanPeriodic => <><<Periodic>>_rvars)
       /\ []([]CanGoOn(p) => <><<InDriver(p)>>_rvars)
       => (<>[]Alone /\ <>[][NoHalt]_rvars => []<>Free)
  BY <1>1, <1>3, <1>4, <1>5, <1>6, <1>7, <1>8, <1>9, <1>10, <1>11, <1>12, PTL
     DEF RtcSpec
<1> QED
  BY <1>13 DEF Alone, NoHalt, Free

\* rtc_read() returns to a process that is in the end the only one to use a
\* clock that runs, whatever the others did before.
THEOREM AllReadsReturn == RtcSpec /\ RtcFair => ReadReturns
<1>1. PICK l \in Irqs : l = RTC_IRQ
  BY DEF Irqs
<1>2. RtcFair => /\ []([]Acceptable(l) => <><<Handled(l)>>_rvars)
                 /\ []([]CanPeriodic => <><<Periodic>>_rvars)
  BY <1>1 DEF RtcFair, HandlersFair
<1>3. ASSUME NEW p \in Readers
      PROVE  RtcSpec /\ RtcFair =>
               ((/\ <>[](ClockRuns /\ \A q \in Procs \ {p} : at[q] = "away")
                 /\ <>[][\A q \in Setters : ~HaltClose(q)]_rvars)
                  => []<>(at[p] # "spin"))
  <2>1. p \in Procs
    BY DEF Procs
  <2>2. RtcFair => []([]CanGoOn(p) => <><<InDriver(p)>>_rvars)
    BY <2>1 DEF RtcFair
  <2>3. /\ RtcSpec
        /\ []([]Acceptable(l) => <><<Handled(l)>>_rvars)
        /\ []([]CanPeriodic => <><<Periodic>>_rvars)
        /\ []([]CanGoOn(p) => <><<InDriver(p)>>_rvars)
        => ((/\ <>[](ClockRuns /\ \A q \in Procs \ {p} : at[q] = "away")
             /\ <>[][\A q \in Setters : ~HaltClose(q)]_rvars)
              => []<>(at[p] # "spin"))
    BY <1>1, OneReadReturns, Zenon
  <2> QED
    BY <1>2, <2>2, <2>3
<1> QED
  BY <1>3 DEF ReadReturns
=============================================================================
