------------------------------ MODULE Pic8259 ------------------------------
(***************************************************************************)
(* The pair of 8259 interrupt controllers and what the kernel writes to    *)
(* them (src/x86/i8259.c), with the keyboard as the device whose handler   *)
(* acknowledges twice (src/drivers/keyboard.c).  Line n >= PIC_MAX_PINS is *)
(* pin n - PIC_MAX_PINS of the slave, which asks through pin CASCADE of    *)
(* the master.  A byte is the set of its bits that are 1.                  *)
(*                                                                         *)
(* A handler runs with interrupts off from the moment the CPU accepts its  *)
(* line until it returns, or enables interrupts, or starts a process: that *)
(* is one action.  Which of several pending lines is accepted first is     *)
(* left open.                                                              *)
(***************************************************************************)
EXTENDS Integers

CONSTANTS Devices,      \* the lines on which there is a device
          MaxSwitches   \* bound: keyboard handlers left behind in a switch

PIC_MAX_PINS == 8
CASCADE == 2
KEYBOARD_IRQ == 1
PIT_IRQ == 0
RTC_IRQ == 8
Lines == 0 .. 15
Irqs == {PIT_IRQ, KEYBOARD_IRQ, RTC_IRQ}    \* the lines the kernel names

ASSUME PicAssumption == /\ Devices \subseteq Lines \ {CASCADE}
                        /\ MaxSwitches \in Nat

VARIABLES irr,      \* lines that wait to be accepted
          isr,      \* lines in service, CASCADE with those of the slave
          imr,      \* masked lines
          switched  \* keyboard handlers that are inside a terminal switch

pic == <<irr, isr, imr, switched>>

-----------------------------------------------------------------------------
(* The chips.                                                              *)

Chip(l) == IF l < PIC_MAX_PINS THEN 0 .. 7 ELSE 8 .. 15
Pin(l) == l % PIC_MAX_PINS
Served(l) == IF l < PIC_MAX_PINS THEN {l} ELSE {l, CASCADE}

\* A line is held back by its mask and by a line of the same chip in service
\* that has the same or a higher priority, on the master and on the slave.
Acceptable(l) ==
    /\ l \in irr
    /\ \A k \in Served(l) : /\ k \notin imr
                            /\ \A s \in isr \cap Chip(k) : s > k

\* A device's request is latched until it is accepted.
Raise(l) ==
    /\ l \in Devices \ irr
    /\ irr' = irr \cup {l}
    /\ UNCHANGED <<isr, imr, switched>>

\* What a byte written to a command port means to an 8259.
Command(byte) ==
    IF 4 \in byte THEN "initialize"
    ELSE IF 3 \in byte THEN "select_register"
    ELSE IF 5 \in byte THEN "end_of_interrupt"
    ELSE IF 7 \in byte THEN "rotate_priorities"
    ELSE "nothing"

-----------------------------------------------------------------------------
(* The kernel's functions.                                                 *)

\* i8259_init() saves what it reads from the command ports, which are the
\* pending requests, and writes it to the mask registers; the initialization
\* in between forgets the requests.  The clock makes none before rtc_init().
PicInit ==
    /\ irr = {}
    /\ imr \in SUBSET (Devices \ {RTC_IRQ})
    /\ isr = {}
    /\ switched = 0

\* inb() of line l's command port: the requests of its chip; those of the
\* slave are one of the master.
CommandPort(l) ==
    {Pin(k) : k \in irr \cap Chip(l)}
        \cup {k \in {CASCADE} : k \in Chip(l) /\ irr \cap Chip(RTC_IRQ) # {}}

\* Fault: the port is not read first.
EnableByte_Blind(l) == (0 .. 7) \ {Pin(l)}

\* The bytes that enable_irq() and disable_irq() write to the command port.
EnableByte(l) == CommandPort(l) \ {Pin(l)}
DisableByte(l) == CommandPort(l) \cup {Pin(l)}

\* Fault: the master is not told about a line of the slave.
SendEoi_SlaveOnly(s, l) == s \ {l}

\* send_eoi(): the lines in service out of s that are left.
SendEoi(s, l) == s \ Served(l)

\* A handler for line l that acknowledges and returns, or, as the PIT's,
\* acknowledges before it switches to another process.
Handle(l) ==
    /\ Acceptable(l)
    /\ irr' = irr \ {l}
    /\ isr' = SendEoi(isr \cup Served(l), l)
    /\ UNCHANGED <<imr, switched>>

\* Fault: the switch is made before the keyboard is acknowledged.
KeyboardSwitch_LateEoi ==
    /\ Acceptable(KEYBOARD_IRQ)
    /\ switched < MaxSwitches
    /\ irr' = irr \ {KEYBOARD_IRQ}
    /\ isr' = isr \cup Served(KEYBOARD_IRQ)
    /\ switched' = switched + 1
    /\ UNCHANGED imr

\* Alt-Fn: check_function_keys() acknowledges, then switches the terminal,
\* from where the handler comes back with interrupts on, perhaps much later.
KeyboardSwitch ==
    /\ Acceptable(KEYBOARD_IRQ)
    /\ switched < MaxSwitches
    /\ irr' = irr \ {KEYBOARD_IRQ}
    /\ isr' = SendEoi(isr \cup Served(KEYBOARD_IRQ), KEYBOARD_IRQ)
    /\ switched' = switched + 1
    /\ UNCHANGED imr

\* ... and acknowledges once more.
KeyboardReturn ==
    /\ switched > 0
    /\ switched' = switched - 1
    /\ isr' = SendEoi(isr, KEYBOARD_IRQ)
    /\ UNCHANGED <<irr, imr>>

-----------------------------------------------------------------------------
(* Properties.                                                             *)

PicTypeOK ==
    /\ irr \subseteq Devices
    /\ isr \subseteq Lines
    /\ imr \subseteq Lines
    /\ switched \in 0 .. MaxSwitches

\* enable_irq() and disable_irq() write their byte to the command port, in
\* which other bits are whatever lines happen to be pending.  With the
\* devices of this machine the 8259 takes no such byte for a command: it is
\* not initialized again, and no line is acknowledged while its handler runs.
MaskWritesIgnored ==
    \A l \in Irqs : /\ Command(EnableByte(l)) = "nothing"
                    /\ Command(DisableByte(l)) = "nothing"

\* Every interrupt on a line that was not pending while i8259_init() ran is
\* accepted, although handlers leave through context switches and terminal
\* switches: each path has acknowledged its line before it leaves.
RequestsAccepted ==
    \A l \in Devices \cap Irqs : l \in irr /\ l \notin imr ~> l \notin irr
=============================================================================
