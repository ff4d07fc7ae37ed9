---------------------------- MODULE CommandLine ----------------------------
(***************************************************************************)
(* How execute() takes a command apart and what getargs() gives to the     *)
(* program (src/syscalls/syscalls.c).  A command is the sequence of its    *)
(* characters up to the null character.                                    *)
(***************************************************************************)
EXTENDS Integers, Sequences

CONSTANTS FILENAME_SIZE, ARGS_LENGTH

ASSUME CommandAssumption == /\ FILENAME_SIZE \in Nat \ {0}
                            /\ ARGS_LENGTH \in Nat \ {0}

SP == " "
NL == "NL"
NUL == "NUL"

\* command[i], counted from 0.
Char(command, i) == IF i < Len(command) THEN command[i + 1] ELSE NUL

\* Where a loop that runs through the indices stops: at the first of these.
First(stops) == CHOOSE j \in stops : \A k \in stops : j <= k

\* "get the filename"
NameEnd(command) ==
    First({i \in 0 .. Len(command) :
             Char(command, i) \in {SP, NL, NUL} \/ i = FILENAME_SIZE})

Filename(command) == SubSeq(command, 1, NameEnd(command))

\* "remove leading spaces"
ArgsStart(command) ==
    First({i \in NameEnd(command) .. Len(command) : Char(command, i) # SP})

\* Fault: the size of args is not looked at.
ArgsStop_NoLimit(command) ==
    First({i \in ArgsStart(command) .. Len(command) :
             Char(command, i) \in {NL, NUL}})

\* "get the args"
ArgsStop(command) ==
    LET start == ArgsStart(command)
    IN  First({i \in start .. Len(command) :
                 Char(command, i) \in {NL, NUL} \/ i - start = ARGS_LENGTH})

\* Fault: the character at which the arguments stopped is looked at first.
ArgsLength_FromStop(command) ==
    LET start == ArgsStart(command)
        stop == ArgsStop(command)
    IN  IF stop = start THEN 0
        ELSE CHOOSE n \in 0 .. stop - start :
                /\ Char(command, start + n) # SP
                /\ \A k \in start + n + 1 .. stop : Char(command, k) = SP

\* "strip the trailing spaces", if there is anything.
ArgsLength(command) ==
    LET start == ArgsStart(command)
        stop == ArgsStop(command)
    IN  IF stop = start THEN 0
        ELSE CHOOSE n \in 1 .. stop - start :
                /\ Char(command, start + n - 1) # SP
                /\ \A k \in start + n .. stop - 1 : Char(command, k) = SP

\* The args of the PCB, zeroes behind the arguments, and the byte that
\* follows them there, which belongs to args_length.
ArgsMemory(command) ==
    [k \in 0 .. ARGS_LENGTH |->
        IF k = ARGS_LENGTH THEN "args_length"
        ELSE IF k < ArgsLength(command)
             THEN Char(command, ArgsStart(command) + k)
        ELSE NUL]

-----------------------------------------------------------------------------
(* What a user expects.                                                    *)

Line(command) ==
    SubSeq(command, 1, First({i \in 0 .. Len(command) :
                                Char(command, i) \in {NL, NUL}}))

\* The arguments of a line: from the first character behind the file name
\* that is not blank to the last such character.
Arguments(command) ==
    LET line == Line(command)
        rest == {i \in DOMAIN line : i > Len(Filename(command)) /\ line[i] # SP}
    IN  IF rest = {} THEN <<>>
        ELSE SubSeq(line, CHOOSE i \in rest : \A j \in rest : i <= j,
                          CHOOSE i \in rest : \A j \in rest : i >= j)
=============================================================================
