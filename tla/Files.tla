------------------------------- MODULE Files -------------------------------
(***************************************************************************)
(* A process and its files: the descriptor table in its PCB, the system    *)
(* calls open, read, close and getargs, what execute() and halt() do to    *)
(* them (src/syscalls/syscalls.c), and the file system functions they call *)
(* (src/filesystem.c), reading being read_data() of ReadData.  A process   *)
(* touches only its own PCB, and the image never changes, so one process   *)
(* stands for all.  Calls that change nothing here, as reading the         *)
(* keyboard or the clock and every write, are left out.                    *)
(***************************************************************************)
EXTENDS ReadData, CommandLine

CONSTANTS
    MAX_OPEN_FILES,
    dentries,       \* the directory: filename, filetype and inode of each file
    Programs,       \* the inodes that begin with the ELF header
    LOAD_SIZE,      \* how much execute() loads at a time
    Commands, Names, Lengths    \* what programs ask for

RTC_FILE_TYPE == 0
DIR_FILE_TYPE == 1
NORMAL_FILE_TYPE == 2
STDIN == 0
STDOUT == 1

Fds == 0 .. MAX_OPEN_FILES - 1
NULL == -1

ASSUME FilesAssumption ==
    /\ MAX_OPEN_FILES \in Nat /\ MAX_OPEN_FILES > 2
    /\ LOAD_SIZE \in Nat \ {0}
    /\ \A k \in DOMAIN dentries :
          /\ dentries[k].filetype \in {RTC_FILE_TYPE, DIR_FILE_TYPE, NORMAL_FILE_TYPE}
          /\ dentries[k].inode \in Nat
    /\ Lengths \subseteq Nat

\* A command is the sequence of the characters before its null character.
ASSUME CommandsAssumption ==
    \A command \in Commands :
        command \in Seq(STRING) /\ \A k \in DOMAIN command : command[k] # NUL

\* The programs are whole: execute() does not look for read_data()'s -1.
ASSUME ProgramsAssumption ==
    /\ Programs \subseteq Inodes
    /\ \A i \in Programs : \A b \in 0 .. (file_length[i] \div BLOCK_SIZE) :
          data_blocks[i][b] <= num_data_blocks

VARIABLES
    phase,          \* "none", "loading" or "running": the process
    program,        \* the inode it is loaded from
    loaded,         \* bytes_read of execute(): what is in memory
    fds,            \* fds[d]: file_ops, inode, pos, type and in_use of its flags
    reading,        \* the descriptor that is being read, or NULL
    args,           \* args of the PCB, from index 0
    args_length,
    wanted,         \* the arguments of the command (history)
    got             \* got[d]: all that was read since d was opened (history)

process == <<phase, program, loaded, fds, reading, args, args_length>>
fvars   == <<readdata, process, wanted, got>>

Closed == [file_ops |-> "NULL", inode |-> NULL, pos |-> 0, type |-> 0,
           in_use |-> FALSE]
Terminal(ops) == [file_ops |-> ops, inode |-> NULL, pos |-> 0, type |-> 0,
                  in_use |-> TRUE]

-----------------------------------------------------------------------------
(* The directory.                                                          *)

\* strncmp() of at most FILENAME_SIZE characters.
SameName(name, filename) ==
    SubSeq(name, 1, IF Len(name) < FILENAME_SIZE THEN Len(name)
                    ELSE FILENAME_SIZE) = filename

Matches(name) == {k \in DOMAIN dentries : SameName(name, dentries[k].filename)}

\* read_dentry_by_name(): the first match; there may be none.
DentriesByName(name) ==
    {dentries[k] : k \in {k \in Matches(name) : \A j \in Matches(name) : k <= j}}

-----------------------------------------------------------------------------
(* execute() and halt().                                                   *)

\* The command line, the file and its header are checked, and the PCB is
\* made; the program is loaded by the steps below.  With ARGS_LENGTH bytes of
\* arguments the byte behind the local array is zeroed too.
Execute ==
    /\ phase = "none"
    /\ \E command \in Commands : \E d \in DentriesByName(Filename(command)) :
          /\ d.inode \in Programs
          /\ program' = d.inode
          /\ args' = ArgsMemory(command)
          /\ args_length' = ArgsLength(command)
          /\ wanted' = Arguments(command)
          /\ Call(d.inode, 0, LOAD_SIZE)
    /\ phase' = "loading"
    /\ loaded' = 0
    /\ UNCHANGED <<fds, reading, got>>

\* Fault: a full chunk is counted although the file ended before.
LoadNext_WholeChunk ==
    /\ phase = "loading" /\ pc = "returned" /\ ret # 0
    /\ loaded' = loaded + LOAD_SIZE
    /\ Call(program, loaded', LOAD_SIZE)
    /\ UNCHANGED <<phase, program, fds, reading, args, args_length, wanted, got>>

LoadNext ==
    /\ phase = "loading" /\ pc = "returned" /\ ret # 0
    /\ loaded' = loaded + ret
    /\ Call(program, loaded', LOAD_SIZE)
    /\ UNCHANGED <<phase, program, fds, reading, args, args_length, wanted, got>>

\* read_data() returns 0: the descriptors are set and the program starts.
LoadEnd ==
    /\ phase = "loading" /\ pc = "returned" /\ ret = 0
    /\ phase' = "running"
    /\ Forget
    /\ fds' = [d \in Fds |-> IF d = STDIN THEN Terminal("stdin_ops")
                             ELSE IF d = STDOUT THEN Terminal("stdout_ops")
                             ELSE Closed]
    /\ got' = [d \in Fds |-> <<>>]
    /\ UNCHANGED <<program, loaded, reading, args, args_length, wanted>>

\* halt() closes every descriptor in use through its file_ops; none of the
\* functions changes the table, which dies with the PCB.
Halt ==
    /\ phase = "running" /\ reading = NULL
    /\ \A d \in Fds : fds[d].in_use => fds[d].file_ops # "NULL"
    /\ phase' = "none"
    /\ fds' = [d \in Fds |-> Closed]
    /\ got' = [d \in Fds |-> <<>>]
    /\ program' = 0 /\ loaded' = 0
    /\ args' = ArgsMemory(<<>>) /\ args_length' = 0 /\ wanted' = <<>>
    /\ UNCHANGED <<readdata, reading>>

-----------------------------------------------------------------------------
(* open() and close().                                                     *)

Calling == phase = "running" /\ reading = NULL

\* "find available fd"
FreeFd(d) == /\ d \in 2 .. MAX_OPEN_FILES - 1
             /\ ~fds[d].in_use
             /\ \A k \in 2 .. d - 1 : fds[k].in_use

\* Fault: pos is left as the descriptor's last user had it.
Opened_KeepsPos(d, dentry) ==
    [file_ops |-> IF dentry.filetype = RTC_FILE_TYPE THEN "rtc_ops" ELSE "fs_ops",
     inode    |-> IF dentry.filetype = NORMAL_FILE_TYPE THEN dentry.inode ELSE NULL,
     pos      |-> fds[d].pos, type |-> dentry.filetype, in_use |-> TRUE]

Opened(d, dentry) ==
    [file_ops |-> IF dentry.filetype = RTC_FILE_TYPE THEN "rtc_ops" ELSE "fs_ops",
     inode    |-> IF dentry.filetype = NORMAL_FILE_TYPE THEN dentry.inode ELSE NULL,
     pos      |-> 0, type |-> dentry.filetype, in_use |-> TRUE]

\* It fails when no file has the name or no descriptor is free.
Open ==
    /\ Calling
    /\ \E name \in Names, d \in Fds : \E dentry \in DentriesByName(name) :
          /\ FreeFd(d)
          /\ fds' = [fds EXCEPT ![d] = Opened(d, dentry)]
          /\ got' = [got EXCEPT ![d] = <<>>]
    /\ UNCHANGED <<readdata, phase, program, loaded, reading, args, args_length,
                   wanted>>

\* Fault: the functions are forgotten, the flag is not.
Released_InUse(d) == [fds[d] EXCEPT !.file_ops = "NULL"]

\* close() leaves inode and pos as they are.
Released(d) == [file_ops |-> "NULL", inode |-> fds[d].inode, pos |-> fds[d].pos,
                type |-> 0, in_use |-> FALSE]

Close ==
    /\ Calling
    /\ \E d \in Fds \ {STDIN, STDOUT} :
          /\ fds[d].in_use
          /\ fds' = [fds EXCEPT ![d] = Released(d)]
          /\ got' = [got EXCEPT ![d] = <<>>]
    /\ UNCHANGED <<readdata, phase, program, loaded, reading, args, args_length,
                   wanted>>

-----------------------------------------------------------------------------
(* read(), for the descriptors whose file_ops lead to fs_read().           *)

Reads(d, type) ==
    fds[d].in_use /\ fds[d].file_ops = "fs_ops" /\ fds[d].type = type

\* read_dentry_by_index() of the next entry, cut to the length asked for.
ReadDirectory ==
    /\ Calling
    /\ \E d \in Fds :
          /\ Reads(d, DIR_FILE_TYPE)
          /\ fds[d].pos < Len(dentries)
          /\ fds' = [fds EXCEPT ![d].pos = @ + 1]
          /\ got' = [got EXCEPT ![d] =
                        Append(@, dentries[fds[d].pos + 1].filename)]
    /\ UNCHANGED <<readdata, phase, program, loaded, reading, args, args_length,
                   wanted>>

ReadFile ==
    /\ Calling
    /\ \E d \in Fds, n \in Lengths :
          /\ Reads(d, NORMAL_FILE_TYPE)
          /\ reading' = d
          /\ Call(fds[d].inode, fds[d].pos, n)
    /\ UNCHANGED <<phase, program, loaded, fds, args, args_length, wanted, got>>

\* -1 is returned as 0, as at the end of the file.
Advance(pos) == IF ret = -1 THEN pos ELSE pos + ret

ReadFileDone ==
    /\ reading # NULL /\ pc = "returned"
    /\ fds' = [fds EXCEPT ![reading].pos = Advance(@)]
    /\ got' = [got EXCEPT ![reading] =
                  IF ret = -1 THEN @ ELSE @ \o [k \in 1 .. ret |-> buf[k - 1]]]
    /\ reading' = NULL
    /\ Forget
    /\ UNCHANGED <<phase, program, loaded, args, args_length, wanted>>

-----------------------------------------------------------------------------

FInit ==
    /\ RInit
    /\ phase = "none"
    /\ program = 0 /\ loaded = 0
    /\ fds = [d \in Fds |-> Closed]
    /\ got = [d \in Fds |-> <<>>]
    /\ reading = NULL
    /\ args = ArgsMemory(<<>>) /\ args_length = 0 /\ wanted = <<>>

FNext ==
    \/ Execute \/ LoadNext \/ LoadEnd \/ Halt
    \/ Open \/ Close
    \/ ReadDirectory \/ ReadFile \/ ReadFileDone
    \/ Copying /\ UNCHANGED <<process, wanted, got>>

FSpec == FInit /\ [][FNext]_fvars

-----------------------------------------------------------------------------
(* Properties.                                                             *)

FTypeOK ==
    /\ ReadTypeOK
    /\ phase \in {"none", "loading", "running"}
    /\ program \in Nat /\ (phase # "none" => program \in Programs)
    /\ loaded \in Nat
    /\ fds \in [Fds -> [file_ops : {"NULL", "stdin_ops", "stdout_ops", "rtc_ops",
                                    "fs_ops"},
                        inode : Nat \cup {NULL}, pos : Nat, type : 0 .. 2,
                        in_use : BOOLEAN]]
    /\ reading \in Fds \cup {NULL}
    /\ args_length \in 0 .. ARGS_LENGTH

\* What a descriptor is open on, from its first item.
Contents(f, n) ==
    IF f.type = DIR_FILE_TYPE THEN [k \in 1 .. n |-> dentries[k].filename]
    ELSE [k \in 1 .. n |-> FileByte(f.inode, k - 1)]

\* What was read through a descriptor since it was opened is its file from
\* the beginning to its position, with no item twice and none left out,
\* however the reads were cut and whatever was read through other
\* descriptors, of the same file or of one that used the number before.
ReadsContinue ==
    \A d \in Fds :
        fds[d].in_use /\ fds[d].file_ops = "fs_ops"
            => got[d] = Contents(fds[d], fds[d].pos)

\* A descriptor in use has functions, through which halt() and read() jump
\* without a test, and a file of its own if it is of that type.
InUseHasOps ==
    \A d \in Fds : fds[d].in_use =>
        /\ fds[d].file_ops # "NULL"
        /\ fds[d].type = NORMAL_FILE_TYPE => fds[d].inode # NULL

\* A program starts only when all of its file is in memory and nothing else
\* was copied there.
LoadsWholeFile ==
    phase = "running" => loaded = file_length[program]

\* What getargs() copies for a program that asks for n bytes, or -1.
GetArgs(n) == IF n < args_length + 1 THEN <<-1>>
              ELSE [k \in 1 .. args_length + 1 |-> args[k - 1]]

\* getargs() gives the arguments of the command without the blanks around
\* them and with a terminator, or fails if they do not fit: if there are fewer
\* than ARGS_LENGTH characters.
ArgsDelivered ==
    phase = "running" /\ Len(wanted) < ARGS_LENGTH =>
        \A n \in 0 .. ARGS_LENGTH + 1 :
            GetArgs(n) = IF Len(wanted) < n THEN Append(wanted, NUL) ELSE <<-1>>
=============================================================================
