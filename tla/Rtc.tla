-------------------------------- MODULE Rtc --------------------------------
(***************************************************************************)
(* The real time clock and its driver (src/drivers/rtc.c).  The clock has  *)
(* one index port and one data port; the driver uses them in system calls  *)
(* with interrupts on, so the clock's own handler, or another process, can *)
(* come between any two accesses.  Every port access and every access to   *)
(* rtc_interrupt_occurred is a step.                                       *)
(*                                                                         *)
(* A register's byte is a record of its upper and lower four bits.         *)
(***************************************************************************)
EXTENDS Pic8259

CONSTANTS Readers,  \* processes that call rtc_read()
          Setters,  \* processes that open, write, close or halt with the clock
          Freqs     \* the frequencies they ask for

Procs == Readers \cup Setters

RTC_MIN_FREQ == 2
RTC_MAX_FREQ == 1024
DIVIDER_SETTING == 15
DIVIDER_SETTING_CEIL == 16
PIE == 4            \* MASK_PIE, bit 6, in the upper half
TIME_BASE == 2      \* upper half of register A for the 32768 Hz crystal

ASSUME RtcAssumption == RTC_IRQ \in Devices /\ Freqs \subseteq Nat

Nibbles == 0 .. 15
Byte == [hi : Nibbles, lo : Nibbles]
Zero == [hi |-> 0, lo |-> 0]

VARIABLES
    index,      \* the register that the data port leads to: A, B or C
    reg,        \* reg[i]: the bytes of registers A and B
    event,      \* register C: a periodic event that nobody has read
    rtc_interrupt_occurred,
    at,         \* at[p]: what p does next in the driver, "away" outside
    rate,       \* rate[p]: the divider it is going to set, 0 if none is valid
    prev_saved, \* prev_saved[p]: the byte it has read
    asked,      \* the last rate a call succeeded in setting (history)
    ticked      \* ticked[p]: an interrupt came since p began to read (history)

driver == <<at, rate, prev_saved>>
rtc    == <<index, reg, event, rtc_interrupt_occurred, driver, asked, ticked>>
rvars  == <<pic, rtc>>

\* The divider for a frequency: rtc_write() looks at the range first, then
\* halves the frequency until it is 1, counts, and gives up at an odd one.
Freq == 1 .. RTC_MAX_FREQ
Log2[n \in Freq] == IF n = 1 THEN 0 ELSE 1 + Log2[n \div 2]
IsPower[n \in Freq] == n = 1 \/ (n % 2 = 0 /\ IsPower[n \div 2])

Divider(freq) ==
    IF freq < RTC_MIN_FREQ \/ freq > RTC_MAX_FREQ \/ ~IsPower[freq] THEN 0
    ELSE DIVIDER_SETTING_CEIL - Log2[freq]

-----------------------------------------------------------------------------
(* The clock's ports.                                                      *)

\* What inb() of the data port returns; register C's flags are its upper half.
Data == IF index = "C" THEN [hi |-> IF event THEN 12 ELSE 0, lo |-> 0]
        ELSE reg[index]

\* Reading register C clears it; writing it does nothing.
Read == event' = (event /\ index # "C")
\* Bit 7 of register A cannot be written.
Write(byte) ==
    reg' = CASE index = "C" -> reg
             [] index = "B" -> [reg EXCEPT !["B"] = byte]
             [] index = "A" -> [reg EXCEPT !["A"] = [byte EXCEPT !.hi = @ % 8]]

HasPIE(byte) == (byte.hi \div PIE) % 2 = 1
\* Fault: the bit is added, not or-ed.
WithPIE_Adds(byte) == [byte EXCEPT !.hi = @ + PIE]
WithPIE(byte) == IF HasPIE(byte) THEN byte ELSE [byte EXCEPT !.hi = @ + PIE]
WithRate(byte, r) == [byte EXCEPT !.lo = r]

\* The clock makes periodic interrupts.
ClockRuns ==
    HasPIE(reg["B"]) /\ reg["A"].hi = TIME_BASE /\ reg["A"].lo # 0

\* The time for a periodic event has come.  It makes an interrupt unless the
\* last one has not been read from register C.
Periodic ==
    /\ ClockRuns
    /\ ~event
    /\ Raise(RTC_IRQ)
    /\ event' = TRUE
    /\ UNCHANGED <<index, reg, rtc_interrupt_occurred, driver, asked, ticked>>

-----------------------------------------------------------------------------
(* The interrupt handler.                                                  *)

\* Fault: register C is not read.
RtcInterrupt_NoAck ==
    /\ Handle(RTC_IRQ)
    /\ rtc_interrupt_occurred' = 1
    /\ ticked' = [p \in Procs |-> TRUE]
    /\ UNCHANGED <<index, reg, event, driver, asked>>

RtcInterrupt ==
    /\ Handle(RTC_IRQ)
    /\ rtc_interrupt_occurred' = 1
    /\ index' = "C"
    /\ event' = FALSE
    /\ ticked' = [p \in Procs |-> TRUE]
    /\ UNCHANGED <<reg, driver, asked>>

-----------------------------------------------------------------------------
(* rtc_read().                                                             *)

Goto(p, from, to) == at[p] = from /\ at' = [at EXCEPT ![p] = to]
Only(p, from, to) == Goto(p, from, to) /\ UNCHANGED <<rate, prev_saved>>

\* Fault: the call does not forget the interrupt that came before it.
ReadStart_KeepsFlag(p) ==
    /\ Only(p, "away", "spin")
    /\ ticked' = [ticked EXCEPT ![p] = FALSE]
    /\ UNCHANGED <<pic, index, reg, event, rtc_interrupt_occurred, asked>>

ReadStart(p) ==
    /\ Only(p, "away", "spin")
    /\ rtc_interrupt_occurred' = 0
    /\ ticked' = [ticked EXCEPT ![p] = FALSE]
    /\ UNCHANGED <<pic, index, reg, event, asked>>

ReadWake(p) ==
    /\ Only(p, "spin", "reset")
    /\ rtc_interrupt_occurred = 1
    /\ UNCHANGED <<pic, index, reg, event, rtc_interrupt_occurred, asked,
                   ticked>>

ReadReset(p) ==
    /\ Only(p, "reset", "away")
    /\ rtc_interrupt_occurred' = 0
    /\ UNCHANGED <<pic, index, reg, event, asked, ticked>>

-----------------------------------------------------------------------------
(* rtc_init(), for rtc_open() and rtc_close(), and rtc_write().            *)

\* The begin of a call that goes to register i first and sets rate r.
Begin(p, to, r) ==
    /\ Goto(p, "away", to)
    /\ rate' = [rate EXCEPT ![p] = r]
    /\ UNCHANGED <<pic, index, reg, event, prev_saved, asked, ticked>>

\* rtc_close()'s disable_irq() does nothing that lasts (MaskWritesIgnored).
OpenOrClose(p) == /\ Begin(p, "select_B", DIVIDER_SETTING)
                  /\ rtc_interrupt_occurred' = 0

WriteStart(p) == /\ \E freq \in Freqs :
                        Begin(p, "select_A", Divider(freq))
                 /\ UNCHANGED rtc_interrupt_occurred

Select(p, from, i, to) ==
    /\ Only(p, from, to)
    /\ index' = i
    /\ UNCHANGED <<pic, reg, event, rtc_interrupt_occurred, asked, ticked>>

Save(p, from, to) ==
    /\ Goto(p, from, to)
    /\ prev_saved' = [prev_saved EXCEPT ![p] = Data]
    /\ Read
    /\ UNCHANGED <<pic, index, reg, rtc_interrupt_occurred, rate, asked,
                   ticked>>

\* rtc_write() looks at the frequency only after it has read register A.
SaveA(p) ==
    \/ rate[p] # 0 /\ Save(p, "read_A", "select_A_again")
    \/ /\ rate[p] = 0
       /\ Goto(p, "read_A", "away")
       /\ Read
       /\ UNCHANGED <<pic, index, reg, rtc_interrupt_occurred, rate,
                      prev_saved, asked, ticked>>

WriteB(p) ==
    /\ Goto(p, "write_B", "select_A")
    /\ Write(WithPIE(prev_saved[p]))
    /\ prev_saved' = [prev_saved EXCEPT ![p] = Zero]
    /\ UNCHANGED <<pic, index, event, rtc_interrupt_occurred, rate,
                   asked, ticked>>

\* The last access of rtc_init() and rtc_write().
WriteA(p) ==
    /\ Goto(p, "write_A", "away")
    /\ Write(WithRate(prev_saved[p], rate[p]))
    /\ asked' = rate[p]
    /\ prev_saved' = [prev_saved EXCEPT ![p] = Zero]
    /\ rate' = [rate EXCEPT ![p] = 0]
    /\ UNCHANGED <<pic, index, event, rtc_interrupt_occurred, ticked>>

RtcInit(p) == \/ OpenOrClose(p)
              \/ Select(p, "select_B", "B", "read_B")
              \/ Save(p, "read_B", "select_B_again")
              \/ Select(p, "select_B_again", "B", "write_B")
              \/ WriteB(p)

\* What rtc_init() and rtc_write() have in common.
SetRate(p) == \/ Select(p, "select_A", "A", "read_A")
              \/ SaveA(p)
              \/ Select(p, "select_A_again", "A", "write_A")
              \/ WriteA(p)

\* halt() closes the clock with interrupts off: rtc_init() as one step.
HaltClose(p) ==
    /\ at[p] = "away"
    /\ rtc_interrupt_occurred' = 0
    /\ index' = "A"
    /\ reg' = [A |-> WithRate(reg["A"], DIVIDER_SETTING),
               B |-> WithPIE(reg["B"])]
    /\ asked' = DIVIDER_SETTING
    /\ UNCHANGED <<pic, event, driver, ticked>>

-----------------------------------------------------------------------------

\* The other devices' interrupts, in any context.  The timer's handler
\* acknowledges first; that it leaves for another process is no step here.
Timer == (Raise(PIT_IRQ) \/ Handle(PIT_IRQ)) /\ UNCHANGED rtc

Keyboard == /\ \/ Raise(KEYBOARD_IRQ)
               \/ Handle(KEYBOARD_IRQ)
               \/ KeyboardSwitch
               \/ KeyboardReturn
            /\ UNCHANGED rtc

\* As entry() leaves it: the clock's registers from the BIOS, rtc_init() done.
RtcBoot ==
    /\ PicInit
    /\ index = "A"
    /\ reg = [A |-> [hi |-> TIME_BASE, lo |-> DIVIDER_SETTING],
              B |-> [hi |-> PIE, lo |-> 2]]
    /\ event = FALSE
    /\ rtc_interrupt_occurred = 0
    /\ at = [p \in Procs |-> "away"]
    /\ rate = [p \in Procs |-> 0]
    /\ prev_saved = [p \in Procs |-> Zero]
    /\ asked = DIVIDER_SETTING
    /\ ticked = [p \in Procs |-> FALSE]

\* The steps of p inside the driver, once it has called it.
InDriver(p) == \/ ReadWake(p) \/ ReadReset(p)
               \/ at[p] # "away" /\ RtcInit(p)
               \/ SetRate(p)

RtcNext ==
    \/ Periodic \/ RtcInterrupt \/ Timer \/ Keyboard
    \/ \E p \in Readers : ReadStart(p)
    \/ \E p \in Setters : OpenOrClose(p) \/ WriteStart(p) \/ HaltClose(p)
    \/ \E p \in Procs : InDriver(p)

RtcSpec == RtcBoot /\ [][RtcNext]_rvars

\* The crystal swings, an accepted interrupt is handled, and the scheduler
\* gives every process its turn.
RtcFairSpec ==
    /\ RtcSpec
    /\ WF_rvars(Periodic) /\ WF_rvars(RtcInterrupt)
    /\ \A l \in {PIT_IRQ, KEYBOARD_IRQ} : WF_rvars(Handle(l) /\ UNCHANGED rtc)
    /\ \A p \in Procs : WF_rvars(InDriver(p))

-----------------------------------------------------------------------------
(* Properties.                                                             *)

Places == {"away", "spin", "reset", "select_B", "read_B", "select_B_again",
           "write_B", "select_A", "read_A", "select_A_again", "write_A"}

RtcTypeOK ==
    /\ PicTypeOK
    /\ index \in {"A", "B", "C"}
    /\ reg \in [{"A", "B"} -> Byte]
    /\ event \in BOOLEAN
    /\ rtc_interrupt_occurred \in {0, 1}
    /\ at \in [Procs -> Places]
    /\ rate \in [Procs -> 0 .. DIVIDER_SETTING]
    /\ prev_saved \in [Procs -> Byte]
    /\ asked \in 1 .. DIVIDER_SETTING
    /\ ticked \in [Procs -> BOOLEAN]

\* rtc_read() returns only after an interrupt that came since it was called,
\* whoever else reads, opens or closes the clock meanwhile: the flag that one
\* reader sees is never left over from before its call.
ReadAfterTick == \A p \in Procs : at[p] = "reset" => ticked[p]

\* The clock is silent until somebody reads register C.  As long as nobody
\* has, the interrupt that will is pending, and no mask or line in service
\* holds it back, whatever the drivers have read from the clock's data port
\* and whichever handlers have been left in a switch.
EventHandled == event => Acceptable(RTC_IRQ)

\* A process that is in the end the only one to use a clock that runs never
\* waits for ever in rtc_read(), whatever happened before: the interrupt
\* handler reads register C each time, so the events go on.
ReadReturns ==
    \A p \in Readers :
        (/\ <>[](ClockRuns /\ \A q \in Procs \ {p} : at[q] = "away")
         /\ <>[][\A q \in Setters : ~HaltClose(q)]_rvars)
            => []<>(at[p] # "spin")

\* Once nobody is in the driver, the clock has the rate of the last call that
\* set one and returned success: "Updates the frequency of the RTC interrupts
\* according to the given input" (rtc_write).
RateSet ==
    (\A p \in Procs : at[p] = "away")
        => reg["A"] = [hi |-> TIME_BASE, lo |-> asked]
=============================================================================
