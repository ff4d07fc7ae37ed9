------------------------------ MODULE ReadData ------------------------------
(***************************************************************************)
(* read_data() of the read-only file system (src/filesystem.c): one call   *)
(* at a time, one step for each block it copies from.  The image is given  *)
(* by constants and never changes.                                         *)
(*                                                                         *)
(* A byte is named by its place in the image, <<data block, offset>>.      *)
(***************************************************************************)
EXTENDS Integers

CONSTANTS
    BLOCK_SIZE,
    num_inodes, num_data_blocks,    \* the metadata of the image
    file_length,                    \* file_length[i]: bytes of inode i
    data_blocks                     \* data_blocks[i]: its blocks, from 0

Inodes == 0 .. num_inodes - 1

\* read_data() copies length / BLOCK_SIZE + 1 block numbers out of the inode.
ASSUME ImageAssumption ==
    /\ BLOCK_SIZE \in Nat \ {0}
    /\ num_inodes \in Nat
    /\ num_data_blocks \in Nat
    /\ file_length \in [Inodes -> Nat]
    /\ \A i \in Inodes :
          data_blocks[i] \in [0 .. (file_length[i] \div BLOCK_SIZE) -> Nat]

VARIABLES
    pc,                 \* "idle", "first", "loop" or "returned"
    request,            \* the arguments inode, offset and length
    length,             \* what is left of the length at the end of the file
    buf,                \* buf[k]: byte k of the caller's buffer
    bytes_read,
    curr_data_block,
    ret                 \* the value returned

readdata == <<pc, request, length, buf, bytes_read, curr_data_block, ret>>

Empty == [k \in {} |-> <<0, 0>>]

-----------------------------------------------------------------------------

\* memcpy() of n bytes from a place in a block to the end of what was read.
Copy(block, from, n) ==
    buf' = [k \in 0 .. bytes_read + n - 1 |->
               IF k < bytes_read THEN buf[k]
               ELSE <<block, from + (k - bytes_read)>>]

Block == data_blocks[request.inode][curr_data_block]

\* Fault: the inodes in front of the data blocks are counted on one side.
Beyond_CountsInodes(block) == block + num_inodes + 1 > num_data_blocks

\* The block lies behind the end of the image; so does num_data_blocks, which
\* the comparison lets pass.
Beyond(block) == block > num_data_blocks

Return(r) ==
    /\ pc' = "returned"
    /\ ret' = r

\* "curb read length if we are being asked to read past the end of file"
Curb(size, offset, n) == IF n > size - offset THEN size - offset ELSE n

\* The call with what it finds out before it looks at a block.  A block
\* number behind the file's last one is tested for too, which cannot be.
Call(inode, offset, n) ==
    /\ request' = [inode |-> inode, offset |-> offset, length |-> n]
    /\ buf' = Empty
    /\ bytes_read' = 0
    /\ \/ /\ inode >= num_inodes
          /\ Return(-1)
          /\ UNCHANGED <<length, curr_data_block>>
       \/ /\ inode < num_inodes
          /\ file_length[inode] <= offset
          /\ Return(0)
          /\ UNCHANGED <<length, curr_data_block>>
       \/ /\ inode < num_inodes
          /\ offset < file_length[inode]
          /\ pc' = "first"
          /\ length' = Curb(file_length[inode], offset, n)
          /\ curr_data_block' = offset \div BLOCK_SIZE
          /\ UNCHANGED ret

Fail(at) ==
    /\ pc = at
    /\ Beyond(Block)
    /\ Return(-1)
    /\ UNCHANGED <<request, length, buf, bytes_read, curr_data_block>>

\* What is left of the first block.
RemBytes == BLOCK_SIZE - (request.offset % BLOCK_SIZE)

FirstBlockOnly ==
    /\ pc = "first"
    /\ ~Beyond(Block)
    /\ length < RemBytes
    /\ Copy(Block, request.offset % BLOCK_SIZE, length)
    /\ Return(length)
    /\ UNCHANGED <<request, length, bytes_read, curr_data_block>>

FirstBlock ==
    /\ pc = "first"
    /\ ~Beyond(Block)
    /\ length >= RemBytes
    /\ Copy(Block, request.offset % BLOCK_SIZE, RemBytes)
    /\ pc' = "loop"
    /\ bytes_read' = RemBytes
    /\ curr_data_block' = curr_data_block + 1
    /\ UNCHANGED <<request, length, ret>>

\* Fault: the block is not counted.
WholeBlock_SameBlock ==
    /\ pc = "loop"
    /\ bytes_read < length
    /\ ~Beyond(Block)
    /\ length - bytes_read >= BLOCK_SIZE
    /\ Copy(Block, 0, BLOCK_SIZE)
    /\ bytes_read' = bytes_read + BLOCK_SIZE
    /\ UNCHANGED <<pc, request, length, curr_data_block, ret>>

WholeBlock ==
    /\ pc = "loop"
    /\ bytes_read < length
    /\ ~Beyond(Block)
    /\ length - bytes_read >= BLOCK_SIZE
    /\ Copy(Block, 0, BLOCK_SIZE)
    /\ bytes_read' = bytes_read + BLOCK_SIZE
    /\ curr_data_block' = curr_data_block + 1
    /\ UNCHANGED <<pc, request, length, ret>>

LastBlock ==
    /\ pc = "loop"
    /\ bytes_read < length
    /\ ~Beyond(Block)
    /\ length - bytes_read < BLOCK_SIZE
    /\ Copy(Block, 0, length - bytes_read)
    /\ bytes_read' = length
    /\ Return(length)
    /\ UNCHANGED <<request, length, curr_data_block>>

LoopEnd ==
    /\ pc = "loop"
    /\ bytes_read >= length
    /\ Return(bytes_read)
    /\ UNCHANGED <<request, length, buf, bytes_read, curr_data_block>>

Copying == \/ Fail("first") \/ FirstBlockOnly \/ FirstBlock
           \/ bytes_read < length /\ Fail("loop")
           \/ WholeBlock \/ LastBlock \/ LoopEnd

NoRequest == [inode |-> 0, offset |-> 0, length |-> 0]

\* The caller is done with the result, and the locals are gone.
Forget ==
    /\ pc' = "idle"
    /\ request' = NoRequest
    /\ length' = 0
    /\ buf' = Empty
    /\ bytes_read' = 0
    /\ curr_data_block' = 0
    /\ ret' = 0

RInit ==
    /\ pc = "idle"
    /\ request = NoRequest
    /\ length = 0
    /\ buf = Empty
    /\ bytes_read = 0
    /\ curr_data_block = 0
    /\ ret = 0

RNext == \/ pc \in {"idle", "returned"} /\ \E i, o, n \in Nat : Call(i, o, n)
         \/ Copying
         \/ pc = "returned" /\ Forget
RSpec == RInit /\ [][RNext]_readdata

-----------------------------------------------------------------------------
(* What a call promises.                                                   *)

\* Byte n of inode i.
FileByte(i, n) == <<data_blocks[i][n \div BLOCK_SIZE], n % BLOCK_SIZE>>

\* How many bytes the file has from the offset on, at most n.
Available(i, offset, n) ==
    IF file_length[i] <= offset THEN 0
    ELSE IF n <= file_length[i] - offset THEN n
    ELSE file_length[i] - offset

ReadTypeOK ==
    /\ pc \in {"idle", "first", "loop", "returned"}
    /\ request \in [inode : Nat, offset : Nat, length : Nat]
    /\ length \in Nat
    /\ bytes_read \in Nat
    /\ curr_data_block \in Nat
    /\ ret \in Nat \cup {-1}

\* A call that does not fail returns the number of bytes there are up to the
\* end of the file or the length asked for, and has put exactly these bytes
\* of the file into the buffer: for every offset within a block, across block
\* boundaries, and when the read ends with a block or with the file.
ReadCorrect ==
    pc = "returned" /\ ret # -1 =>
        LET i == request.inode
            n == Available(i, request.offset, request.length)
        IN  /\ ret = n
            /\ n > 0 => buf = [k \in 0 .. n - 1 |->
                                  FileByte(i, request.offset + k)]

\* It fails only for an inode that does not exist or a block number that is
\* wrong: never in an image in order.
FailsOnlyIfDamaged ==
    pc = "returned" /\ ret = -1 /\ request.inode < num_inodes =>
        \E b \in 0 .. (file_length[request.inode] \div BLOCK_SIZE) :
            data_blocks[request.inode][b] > num_data_blocks
=============================================================================
