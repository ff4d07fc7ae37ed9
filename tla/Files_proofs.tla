----------------------------- MODULE Files_proofs -----------------------------
(***************************************************************************)
(* A process reads its files as they are, for every image and directory.   *)
(*                                                                         *)
(* First read_data(), for every image, offset and length: the loop's       *)
(* invariant is that the bytes read so far end where the block that is     *)
(* next begins.  The rest is division with remainder.                      *)
(*                                                                         *)
(* Then the process: every call of read_data() that execute() and read()   *)
(* make is one that ReadData allows, so what it promises holds of them.    *)
(* The invariant relates the call in progress to the loader's count or to  *)
(* the position of the descriptor that is read.                            *)
(***************************************************************************)
EXTENDS Files, Numbers, SequenceTheorems

USE DEF Inodes

-----------------------------------------------------------------------------
(* The invariant of read_data().                                           *)

\* A call that has not found out yet that there is nothing to read.
InFile ==
    pc \in {"first", "loop"} =>
        /\ request.inode < num_inodes
        /\ request.offset < file_length[request.inode]
        /\ length = Available(request.inode, request.offset, request.length)

AtFirst ==
    pc = "first" => /\ bytes_read = 0
                    /\ curr_data_block = request.offset \div BLOCK_SIZE

\* The first n bytes of the buffer are those of the file from the offset on.
Holds(n) == buf = [k \in 0 .. n - 1 |->
                      FileByte(request.inode, request.offset + k)]

InLoop ==
    pc = "loop" => /\ request.offset + bytes_read = BLOCK_SIZE * curr_data_block
                   /\ bytes_read > 0
                   /\ bytes_read <= length
                   /\ Holds(bytes_read)

ReadInv == /\ ReadTypeOK /\ InFile /\ AtFirst /\ InLoop
           /\ ReadCorrect /\ FailsOnlyIfDamaged

\* What there is to read from an offset within the file.
LEMMA AvailableFacts ==
    ASSUME NEW i \in Inodes, NEW o \in Nat, NEW n \in Nat, o < file_length[i]
    PROVE  /\ Available(i, o, n) \in Nat
           /\ o + Available(i, o, n) <= file_length[i]
           /\ Curb(file_length[i], o, n) = Available(i, o, n)
  BY ImageAssumption DEF Available, Curb

\* A block that begins before the end of the file is one of its blocks.
LEMMA BlockInFile ==
    ASSUME ReadInv, pc = "first" \/ (pc = "loop" /\ bytes_read < length)
    PROVE  curr_data_block \in
               0 .. (file_length[request.inode] \div BLOCK_SIZE)
<1> DEFINE i == request.inode
           o == request.offset
<1>1. /\ i \in Inodes /\ o \in Nat /\ request.length \in Nat
      /\ file_length[i] \in Nat /\ o < file_length[i]
      /\ length = Available(i, o, request.length)
      /\ BLOCK_SIZE \in Nat \ {0} /\ curr_data_block \in Nat
      /\ bytes_read \in Nat
  BY ImageAssumption DEF ReadInv, InFile, ReadTypeOK
<1>2. o + length <= file_length[i]
  BY <1>1, AvailableFacts
<1>3. CASE pc = "first"
  <2>1. curr_data_block = o \div BLOCK_SIZE
    BY <1>3 DEF ReadInv, AtFirst
  <2>2. o = BLOCK_SIZE * curr_data_block + (o % BLOCK_SIZE)
        /\ o % BLOCK_SIZE \in 0 .. BLOCK_SIZE - 1
    BY <1>1, <2>1, Division
  <2>3. BLOCK_SIZE * curr_data_block + (o % BLOCK_SIZE) <= file_length[i]
    BY <1>1, <2>2
  <2>4. curr_data_block <= file_length[i] \div BLOCK_SIZE
    BY <1>1, <2>2, <2>3, DivisionMonotone
  <2> QED
    BY <1>1, <2>4, Division
<1>4. CASE pc = "loop" /\ bytes_read < length
  <2>1. o + bytes_read = BLOCK_SIZE * curr_data_block
    BY <1>4 DEF ReadInv, InLoop
  <2>2. BLOCK_SIZE * curr_data_block + 0 <= file_length[i]
    BY <1>1, <1>2, <1>4, <2>1, AvailableFacts
  <2>3. 0 \in 0 .. BLOCK_SIZE - 1
    BY <1>1
  <2>4. curr_data_block <= file_length[i] \div BLOCK_SIZE
    BY <1>1, <2>2, <2>3, DivisionMonotone
  <2> QED
    BY <1>1, <2>4, Division
<1> QED
  BY <1>3, <1>4

\* memcpy() from the current block extends what the buffer holds, if the
\* bytes read so far end at the place it copies from, and it does not copy
\* beyond the block.
LEMMA CopyExtends ==
    ASSUME NEW from \in Nat, NEW n \in Nat,
           BLOCK_SIZE \in Nat \ {0},
           request.offset \in Nat, bytes_read \in Nat, curr_data_block \in Nat,
           bytes_read > 0 => Holds(bytes_read),
           from + n <= BLOCK_SIZE,
           request.offset + bytes_read = BLOCK_SIZE * curr_data_block + from,
           Copy(Block, from, n)
    PROVE  buf' = [k \in 0 .. (bytes_read + n) - 1 |->
                      FileByte(request.inode, request.offset + k)]
<1>1. ASSUME NEW k \in 0 .. (bytes_read + n) - 1, ~(k < bytes_read)
      PROVE  <<Block, from + (k - bytes_read)>>
                = FileByte(request.inode, request.offset + k)
  <2> DEFINE r == from + (k - bytes_read)
  <2>1. r \in 0 .. BLOCK_SIZE - 1 /\ k \in Nat
    BY <1>1
  <2>2. request.offset + k = BLOCK_SIZE * curr_data_block + r
    BY <1>1
  <2>3. /\ (request.offset + k) \div BLOCK_SIZE = curr_data_block
        /\ (request.offset + k) % BLOCK_SIZE = r
    <3> HIDE DEF r
    <3> QED
      BY <2>1, <2>2, DivisionUnique
  <2> QED
    BY <2>3 DEF FileByte, Block
<1>2. ASSUME NEW k \in 0 .. (bytes_read + n) - 1, k < bytes_read
      PROVE  buf[k] = FileByte(request.inode, request.offset + k)
  <2>1. k \in 0 .. bytes_read - 1 /\ bytes_read > 0
    BY <1>2
  <2> QED
    BY <2>1 DEF Holds
<1> DEFINE D == 0 .. (bytes_read + n) - 1
           copied(k) == IF k < bytes_read THEN buf[k]
                        ELSE <<Block, from + (k - bytes_read)>>
           theByte(k) == FileByte(request.inode, request.offset + k)
<1>3. \A k \in D : copied(k) = theByte(k)
  BY <1>1, <1>2
<1>4. buf' = [k \in D |-> copied(k)]
  BY DEF Copy
<1>5. [k \in D |-> copied(k)] = [k \in D |-> theByte(k)]
  <2> HIDE DEF D, copied, theByte
  <2> QED
    BY <1>3
<1> QED
  BY <1>4, <1>5

-----------------------------------------------------------------------------
(* Each step preserves the invariant.                                      *)

\* The invariant holds before the first call.
LEMMA ReadInitial == RInit => ReadInv
  BY ImageAssumption
     DEF RInit, ReadInv, ReadTypeOK, NoRequest, InFile, AtFirst, InLoop,
         ReadCorrect, FailsOnlyIfDamaged

\* What every step but a call leaves alone, in a call that is going on.
LEMMA Ongoing ==
    ASSUME ReadInv, pc \in {"first", "loop"}
    PROVE  /\ request.inode \in Inodes
           /\ request.offset \in Nat /\ request.length \in Nat
           /\ length \in Nat /\ bytes_read \in Nat /\ curr_data_block \in Nat
           /\ BLOCK_SIZE \in Nat \ {0}
           /\ length = Available(request.inode, request.offset, request.length)
  BY ImageAssumption DEF ReadInv, ReadTypeOK, InFile

\* The tests and the curbing at the head of read_data().
LEMMA CallStep ==
    ASSUME ReadInv, NEW i \in Nat, NEW o \in Nat, NEW n \in Nat, Call(i, o, n)
    PROVE  ReadInv'
<1>1. /\ request' = [inode |-> i, offset |-> o, length |-> n]
      /\ request'.inode = i /\ request'.offset = o /\ request'.length = n
      /\ bytes_read' = 0 /\ length \in Nat /\ curr_data_block \in Nat
      /\ ret \in Nat \cup {-1}
  BY DEF Call, ReadInv, ReadTypeOK
<1>2. CASE i >= num_inodes /\ Return(-1) /\ UNCHANGED <<length, curr_data_block>>
  BY <1>1, <1>2, ImageAssumption
     DEF Return, ReadInv, ReadTypeOK, InFile, AtFirst, InLoop, ReadCorrect,
         FailsOnlyIfDamaged
<1>3. CASE /\ i < num_inodes /\ file_length[i] <= o
           /\ Return(0) /\ UNCHANGED <<length, curr_data_block>>
  <2>1. Available(i, o, n) = 0
    BY <1>3 DEF Available
  <2> QED
    BY <1>1, <1>3, <2>1, ImageAssumption
       DEF Return, ReadInv, ReadTypeOK, InFile, AtFirst, InLoop, ReadCorrect,
           FailsOnlyIfDamaged
<1>4. CASE /\ i < num_inodes /\ o < file_length[i]
           /\ pc' = "first"
           /\ length' = Curb(file_length[i], o, n)
           /\ curr_data_block' = o \div BLOCK_SIZE
           /\ UNCHANGED ret
  <2>1. i \in Inodes
    BY <1>4, ImageAssumption
  <2>2. length' = Available(i, o, n) /\ length' \in Nat
    BY <1>4, <2>1, AvailableFacts
  <2>3. curr_data_block' \in Nat
    BY <1>4, ImageAssumption, Division
  <2> QED
    BY <1>1, <1>4, <2>2, <2>3
       DEF ReadInv, ReadTypeOK, InFile, AtFirst, InLoop, ReadCorrect,
           FailsOnlyIfDamaged, Available
<1> QED
  BY <1>2, <1>3, <1>4 DEF Call

\* A wrong block number makes the call return -1.
LEMMA FailStep ==
    ASSUME ReadInv, NEW at, Fail(at),
           at = "first" \/ (at = "loop" /\ bytes_read < length)
    PROVE  ReadInv'
<1>1. curr_data_block \in 0 .. (file_length[request.inode] \div BLOCK_SIZE)
  BY BlockInFile DEF Fail
<1>2. data_blocks[request.inode][curr_data_block] > num_data_blocks
  BY DEF Fail, Beyond, Block
<1> QED
  BY <1>1, <1>2
     DEF Fail, Return, ReadInv, ReadTypeOK, InFile, AtFirst, InLoop,
         ReadCorrect, FailsOnlyIfDamaged

\* A call that ends after length bytes with all of them in the buffer.
LEMMA Finished ==
    ASSUME ReadInv, pc \in {"first", "loop"},
           pc' = "returned", ret' = length, request' = request,
           UNCHANGED <<length, curr_data_block>>, bytes_read' \in Nat,
           buf' = [k \in 0 .. length - 1 |->
                      FileByte(request.inode, request.offset + k)]
    PROVE  ReadInv'
<1>1. length \in Nat
      /\ length = Available(request.inode, request.offset, request.length)
  BY Ongoing
<1>2. ReadCorrect'
  BY <1>1 DEF ReadCorrect, Available, FileByte
<1>3. FailsOnlyIfDamaged'
  BY <1>1 DEF FailsOnlyIfDamaged
<1>4. ReadTypeOK'
  BY <1>1 DEF ReadInv, ReadTypeOK
<1> QED
  BY <1>2, <1>3, <1>4 DEF ReadInv, InFile, AtFirst, InLoop

\* A call that goes on in the loop with more bytes in the buffer.
LEMMA GoesOn ==
    ASSUME ReadInv, pc \in {"first", "loop"},
           pc' = "loop", UNCHANGED <<request, length, ret>>,
           bytes_read' \in Nat, curr_data_block' \in Nat,
           request.offset + bytes_read' = BLOCK_SIZE * curr_data_block',
           bytes_read' > 0, bytes_read' <= length,
           buf' = [k \in 0 .. bytes_read' - 1 |->
                      FileByte(request.inode, request.offset + k)]
    PROVE  ReadInv'
<1>1. ReadTypeOK'
  BY DEF ReadInv, ReadTypeOK
<1>2. InFile'
  BY DEF ReadInv, InFile, Available
<1>3. InLoop'
  BY DEF InLoop, Holds, FileByte
<1> QED
  BY <1>1, <1>2, <1>3 DEF ReadInv, AtFirst, ReadCorrect, FailsOnlyIfDamaged

\* The offset of the first byte in its block.
LEMMA FirstPlace ==
    ASSUME ReadInv, pc = "first"
    PROVE  /\ bytes_read = 0
           /\ request.offset % BLOCK_SIZE \in 0 .. BLOCK_SIZE - 1
           /\ request.offset = BLOCK_SIZE * curr_data_block
                                  + (request.offset % BLOCK_SIZE)
  BY Ongoing, Division DEF ReadInv, AtFirst

\* A read that ends within its first block.
LEMMA FirstBlockOnlyStep == ASSUME ReadInv, FirstBlockOnly PROVE ReadInv'
<1> DEFINE from == request.offset % BLOCK_SIZE
<1>1. pc = "first" /\ pc \in {"first", "loop"}
  BY DEF FirstBlockOnly
<1>2. from \in Nat /\ from + length <= BLOCK_SIZE
  BY <1>1, FirstPlace, Ongoing DEF FirstBlockOnly, RemBytes
<1>3. request.offset + bytes_read = BLOCK_SIZE * curr_data_block + from
  BY <1>1, FirstPlace, Ongoing
<1>4. buf' = [k \in 0 .. (bytes_read + length) - 1 |->
                 FileByte(request.inode, request.offset + k)]
  <2>1. Copy(Block, from, length) /\ bytes_read = 0
    BY <1>1, FirstPlace DEF FirstBlockOnly
  <2> HIDE DEF from
  <2> QED
    BY <1>1, <1>2, <1>3, <2>1, Ongoing, CopyExtends
<1>5. bytes_read + length = length
  BY <1>1, FirstPlace, Ongoing
<1> QED
  BY <1>1, <1>4, <1>5, Finished, Ongoing DEF FirstBlockOnly, Return

\* The rest of the first block is copied.
LEMMA FirstBlockStep == ASSUME ReadInv, FirstBlock PROVE ReadInv'
<1> DEFINE from == request.offset % BLOCK_SIZE
<1>1. pc = "first" /\ pc \in {"first", "loop"}
  BY DEF FirstBlock
<1>2. /\ from \in Nat /\ from + RemBytes <= BLOCK_SIZE
      /\ RemBytes \in Nat /\ RemBytes > 0
  BY <1>1, FirstPlace, Ongoing DEF RemBytes
<1>3. request.offset + bytes_read = BLOCK_SIZE * curr_data_block + from
  BY <1>1, FirstPlace, Ongoing
<1>4. buf' = [k \in 0 .. (bytes_read + RemBytes) - 1 |->
                 FileByte(request.inode, request.offset + k)]
  <2>1. Copy(Block, from, RemBytes) /\ bytes_read = 0
    BY <1>1, FirstPlace DEF FirstBlock
  <2> HIDE DEF from
  <2> QED
    BY <1>1, <1>2, <1>3, <2>1, Ongoing, CopyExtends
<1>5. bytes_read' = RemBytes /\ bytes_read + RemBytes = bytes_read'
  BY <1>1, <1>2, FirstPlace, Ongoing DEF FirstBlock
<1>6. request.offset + bytes_read' = BLOCK_SIZE * curr_data_block'
  <2>1. curr_data_block' = curr_data_block + 1
    BY DEF FirstBlock
  <2>2. BLOCK_SIZE * (curr_data_block + 1) = BLOCK_SIZE * curr_data_block + BLOCK_SIZE
    BY <1>1, Ongoing
  <2> QED
    BY <1>1, <1>5, <2>1, <2>2, FirstPlace, Ongoing DEF RemBytes
<1>7. /\ curr_data_block' \in Nat /\ bytes_read' <= length
      /\ pc' = "loop" /\ UNCHANGED <<request, length, ret>>
  BY <1>1, <1>5, Ongoing DEF FirstBlock
<1> QED
  BY <1>1, <1>2, <1>4, <1>5, <1>6, <1>7, GoesOn

\* One whole block is copied.
LEMMA WholeBlockStep == ASSUME ReadInv, WholeBlock PROVE ReadInv'
<1>1. pc = "loop" /\ pc \in {"first", "loop"}
  BY DEF WholeBlock
<1>2. /\ request.offset + bytes_read = BLOCK_SIZE * curr_data_block
      /\ Holds(bytes_read)
  BY <1>1 DEF ReadInv, InLoop
<1>3. buf' = [k \in 0 .. (bytes_read + BLOCK_SIZE) - 1 |->
                 FileByte(request.inode, request.offset + k)]
  <2>1. Copy(Block, 0, BLOCK_SIZE) /\ 0 + BLOCK_SIZE <= BLOCK_SIZE
        /\ request.offset + bytes_read = BLOCK_SIZE * curr_data_block + 0
    BY <1>1, <1>2, Ongoing DEF WholeBlock
  <2> QED
    BY <1>1, <1>2, <2>1, Ongoing, CopyExtends
<1>4. /\ bytes_read' = bytes_read + BLOCK_SIZE
      /\ curr_data_block' = curr_data_block + 1
      /\ pc' = "loop" /\ UNCHANGED <<request, length, ret>>
  BY <1>1 DEF WholeBlock
<1>5. BLOCK_SIZE * (curr_data_block + 1) = BLOCK_SIZE * curr_data_block + BLOCK_SIZE
  BY <1>1, Ongoing
<1>6. /\ bytes_read' \in Nat /\ curr_data_block' \in Nat
      /\ request.offset + bytes_read' = BLOCK_SIZE * curr_data_block'
      /\ bytes_read' > 0 /\ bytes_read' <= length
  BY <1>1, <1>2, <1>4, <1>5, Ongoing DEF WholeBlock
<1> QED
  BY <1>1, <1>3, <1>4, <1>6, GoesOn

\* The read ends within a later block.
LEMMA LastBlockStep == ASSUME ReadInv, LastBlock PROVE ReadInv'
<1>1. pc = "loop" /\ pc \in {"first", "loop"}
  BY DEF LastBlock
<1>2. /\ request.offset + bytes_read = BLOCK_SIZE * curr_data_block
      /\ Holds(bytes_read)
  BY <1>1 DEF ReadInv, InLoop
<1>3. buf' = [k \in 0 .. (bytes_read + (length - bytes_read)) - 1 |->
                 FileByte(request.inode, request.offset + k)]
  <2>1. /\ Copy(Block, 0, length - bytes_read)
        /\ length - bytes_read \in Nat /\ 0 + (length - bytes_read) <= BLOCK_SIZE
        /\ request.offset + bytes_read = BLOCK_SIZE * curr_data_block + 0
    BY <1>1, <1>2, Ongoing DEF LastBlock
  <2> QED
    BY <1>1, <1>2, <2>1, Ongoing, CopyExtends
<1>4. bytes_read + (length - bytes_read) = length
  BY <1>1, Ongoing
<1> QED
  BY <1>1, <1>3, <1>4, Finished, Ongoing DEF LastBlock, Return

\* The read ends with a block.
LEMMA LoopEndStep == ASSUME ReadInv, LoopEnd PROVE ReadInv'
<1>1. pc = "loop" /\ pc \in {"first", "loop"}
  BY DEF LoopEnd
<1>2. bytes_read = length /\ Holds(bytes_read)
  BY <1>1, Ongoing DEF LoopEnd, ReadInv, InLoop
<1> QED
  BY <1>1, <1>2, Finished, Ongoing DEF LoopEnd, Return, Holds

\* Without a call there is nothing to say.
LEMMA ForgetStep == Forget => ReadInv'
  BY ImageAssumption
     DEF Forget, ReadInv, ReadTypeOK, NoRequest, InFile, AtFirst, InLoop,
         ReadCorrect, FailsOnlyIfDamaged

\* Every call and every step of the copying keeps the invariant.
LEMMA ReadStep == ReadInv /\ [RNext]_readdata => ReadInv'
<1> SUFFICES ASSUME ReadInv, [RNext]_readdata PROVE ReadInv'
  OBVIOUS
<1>1. CASE \E i, o, n \in Nat : Call(i, o, n)
  BY <1>1, CallStep
<1>2. CASE Copying
  <2>1. CASE Fail("first")
    BY <2>1, FailStep
  <2>2. CASE bytes_read < length /\ Fail("loop")
    BY <2>2, FailStep
  <2>3. CASE FirstBlockOnly
    BY <2>3, FirstBlockOnlyStep
  <2>4. CASE FirstBlock
    BY <2>4, FirstBlockStep
  <2>5. CASE WholeBlock
    BY <2>5, WholeBlockStep
  <2>6. CASE LastBlock
    BY <2>6, LastBlockStep
  <2>7. CASE LoopEnd
    BY <2>7, LoopEndStep
  <2> QED
    BY <1>2, <2>1, <2>2, <2>3, <2>4, <2>5, <2>6, <2>7 DEF Copying
<1>3. CASE Forget
  BY <1>3, ForgetStep
<1>4. CASE UNCHANGED readdata
  BY <1>4 DEF readdata, ReadInv, ReadTypeOK, InFile, AtFirst, InLoop, Holds,
              ReadCorrect, FailsOnlyIfDamaged, Available, FileByte
<1> QED
  BY <1>1, <1>2, <1>3, <1>4 DEF RNext

\* The invariant of read_data(), for any image and any sequence of calls.
THEOREM ReadInvariance == RSpec => []ReadInv
  BY ReadInitial, ReadStep, PTL DEF RSpec

\* read_data() returns exactly the bytes of the file there are: for every
\* block size, image, offset and length.
THEOREM ReadsAreCorrect == RSpec => []ReadCorrect
<1>1. ReadInv => ReadCorrect
  BY DEF ReadInv
<1> QED
  BY <1>1, ReadInvariance, PTL

\* read_data() does not fail on an inode of an image in order.
THEOREM ReadsFailOnlyIfDamaged == RSpec => []FailsOnlyIfDamaged
<1>1. ReadInv => FailsOnlyIfDamaged
  BY DEF ReadInv
<1> QED
  BY <1>1, ReadInvariance, PTL

-----------------------------------------------------------------------------
USE FilesAssumption, ProgramsAssumption, ImageAssumption
USE DEF NULL

-----------------------------------------------------------------------------
(* Sequences.                                                              *)

Beginning(i, n) == [k \in 1 .. n |-> FileByte(i, k - 1)]
Piece(i, p, n) == [k \in 1 .. n |-> FileByte(i, p + (k - 1))]

\* Two pieces of a file, one after the other.
LEMMA PiecesOfFile ==
    ASSUME NEW i \in Nat, NEW p \in Nat, NEW n \in Nat
    PROVE  Beginning(i, p) \o Piece(i, p, n) = Beginning(i, p + n)
<1> DEFINE S == {FileByte(i, m) : m \in Nat}
           s == [k \in 1 .. p |-> FileByte(i, k - 1)]
           u == [k \in 1 .. n |-> FileByte(i, p + (k - 1))]
           w == [k \in 1 .. p + n |-> FileByte(i, k - 1)]
<1>1. s \in Seq(S) /\ Len(s) = p
  OBVIOUS
<1>2. u \in Seq(S) /\ Len(u) = n
  <2>1. \A k \in 1 .. n : p + (k - 1) \in Nat
    OBVIOUS
  <2> QED
    BY <2>1
<1>3. w \in Seq(S) /\ Len(w) = p + n
  <2>1. p + n \in Nat /\ \A k \in 1 .. p + n : k - 1 \in Nat
    OBVIOUS
  <2> QED
    BY <2>1
<1>4. ASSUME NEW k \in 1 .. p + n PROVE (s \o u)[k] = w[k]
  <2>1. (s \o u)[k] = IF k <= p THEN s[k] ELSE u[k - p]
    <3> HIDE DEF s, u
    <3> QED
      BY <1>1, <1>2, ConcatProperties
  <2>2. CASE k <= p
    BY <2>1, <2>2
  <2>3. CASE k > p
    <3>1. k - p \in 1 .. n /\ p + ((k - p) - 1) = k - 1
      BY <2>3
    <3>2. u[k - p] = FileByte(i, p + ((k - p) - 1))
      BY <3>1
    <3> QED
      BY <2>1, <2>3, <3>1, <3>2
  <2> QED
    BY <2>2, <2>3
<1>5. s \o u \in Seq(S) /\ Len(s \o u) = p + n
  <2> HIDE DEF s, u
  <2> QED
    BY <1>1, <1>2, ConcatProperties
<1> HIDE DEF s, u, w
<1>6. s \o u = w
  BY <1>3, <1>4, <1>5, SeqEqual
<1> QED
  BY <1>6 DEF s, u, w, Beginning, Piece

\* One more name of the directory.
LEMMA NextName ==
    ASSUME NEW p \in Nat
    PROVE  Append([k \in 1 .. p |-> dentries[k].filename], dentries[p + 1].filename)
           = [k \in 1 .. p + 1 |-> dentries[k].filename]
<1> DEFINE S == {dentries[k].filename : k \in Nat}
           s == [k \in 1 .. p |-> dentries[k].filename]
           w == [k \in 1 .. p + 1 |-> dentries[k].filename]
           e == dentries[p + 1].filename
<1>1. s \in Seq(S) /\ Len(s) = p /\ e \in S
  OBVIOUS
<1>2. w \in Seq(S) /\ Len(w) = p + 1
  OBVIOUS
<1>3. /\ Append(s, e) \in Seq(S) /\ Len(Append(s, e)) = p + 1
      /\ \A k \in 1 .. p : Append(s, e)[k] = s[k]
      /\ Append(s, e)[p + 1] = e
  <2> HIDE DEF s, e
  <2> QED
    BY <1>1, AppendProperties
<1>4. ASSUME NEW k \in 1 .. p + 1 PROVE Append(s, e)[k] = w[k]
  BY <1>3
<1> HIDE DEF s, w, e
<1>5. Append(s, e) = w
  BY <1>2, <1>3, <1>4, SeqEqual
<1> QED
  BY <1>5 DEF s, w, e

-----------------------------------------------------------------------------
(* The command line.                                                       *)

\* A loop over the indices stops at the first place where it may.
LEMMA FirstStop ==
    ASSUME NEW S \in SUBSET Nat, S # {}
    PROVE  First(S) \in S /\ \A k \in S : First(S) <= k
  BY Least DEF First

Text(command) ==
    command \in Seq(STRING) /\ \A k \in DOMAIN command : command[k] # NUL

\* The end of the line.
LineEnd(command) == First({i \in 0 .. Len(command) : Char(command, i) \in {NL, NUL}})

\* Where the scan of a command comes past: the end of the file name, then,
\* behind blanks only, the start of the arguments, and no later the line's end.
LEMMA ScanFacts ==
    ASSUME NEW command, Text(command)
    PROVE  LET e == NameEnd(command)
               s == ArgsStart(command)
               l == LineEnd(command)
           IN  /\ Len(command) \in Nat
               /\ e \in 0 .. s /\ s \in 0 .. l /\ l \in 0 .. Len(command)
               /\ \A i \in e .. s - 1 : Char(command, i) = SP
               /\ Char(command, s) # SP
               /\ Char(command, l) \in {NL, NUL}
               /\ \A i \in 0 .. Len(command) :
                      Char(command, i) \in {NL, NUL} => l <= i
<1> DEFINE L == Len(command)
           c(i) == Char(command, i)
           e == NameEnd(command)
           s == ArgsStart(command)
           l == LineEnd(command)
           E == {i \in 0 .. L : c(i) \in {SP, NL, NUL} \/ i = FILENAME_SIZE}
           A == {i \in e .. L : c(i) # SP}
           N == {i \in 0 .. L : c(i) \in {NL, NUL}}
<1>1. L \in Nat /\ c(L) = NUL
  BY DEF Text, Char
<1>2. NUL # SP /\ NL # SP
  BY DEF NUL, NL, SP
<1> HIDE DEF L, c
<1>3. e \in E /\ \A i \in E : e <= i
  <2>1. E \in SUBSET Nat /\ L \in E
    BY <1>1
  <2>2. e = First(E)
    BY DEF NameEnd, c, L
  <2> HIDE DEF E, e
  <2> QED
    BY <2>1, <2>2, FirstStop
<1>4. e \in 0 .. L
  BY <1>3
<1>5. s \in A /\ \A i \in A : s <= i
  <2>1. A \in SUBSET Nat /\ L \in A
    BY <1>1, <1>2, <1>4
  <2>2. s = First(A)
    BY DEF ArgsStart, c, L
  <2> HIDE DEF A, s
  <2> QED
    BY <2>1, <2>2, FirstStop
<1>6. l \in N /\ \A i \in N : l <= i
  <2>1. N \in SUBSET Nat /\ L \in N
    BY <1>1
  <2>2. l = First(N)
    BY DEF LineEnd, c, L
  <2> HIDE DEF N, l
  <2> QED
    BY <2>1, <2>2, FirstStop
<1> HIDE DEF e, s, l
<1>7. s \in e .. L /\ l \in 0 .. L
  BY <1>5, <1>6
<1>8. \A i \in e .. s - 1 : c(i) = SP
  <2> TAKE i \in e .. s - 1
  <2>1. i \in e .. L /\ i < s
    BY <1>1, <1>4, <1>7
  <2> QED
    BY <1>1, <1>4, <1>5, <1>7, <2>1
<1>9. l >= e
  <2> SUFFICES ASSUME l < e PROVE FALSE
    BY <1>1, <1>4, <1>7
  <2> QED
    BY <1>1, <1>3, <1>4, <1>6, <1>7
<1>10. l >= s
  <2> SUFFICES ASSUME l < s PROVE FALSE
    BY <1>1, <1>4, <1>7
  <2>1. l \in e .. s - 1
    BY <1>1, <1>4, <1>7, <1>9
  <2> QED
    BY <1>2, <1>6, <1>8, <2>1
<1>11. /\ L \in Nat /\ e \in 0 .. s /\ s \in 0 .. l /\ l \in 0 .. L
  BY <1>1, <1>4, <1>7, <1>9, <1>10
<1> QED
  BY <1>5, <1>6, <1>8, <1>11 DEF L, c, e, s, l

\* The copy of the arguments stops at the end of the line or when args is full.
LEMMA StopFacts ==
    ASSUME NEW command, Text(command)
    PROVE  LET s == ArgsStart(command)
               l == LineEnd(command)
               t == ArgsStop(command)
           IN  /\ s \in Nat /\ l \in Nat /\ t \in s .. l /\ t - s <= ARGS_LENGTH
               /\ t = l \/ t = s + ARGS_LENGTH
<1> DEFINE L == Len(command)
           c(i) == Char(command, i)
           s == ArgsStart(command)
           l == LineEnd(command)
           t == ArgsStop(command)
           T == {i \in s .. L : c(i) \in {NL, NUL} \/ i - s = ARGS_LENGTH}
<1>1. /\ L \in Nat /\ s \in 0 .. l /\ l \in 0 .. L /\ c(l) \in {NL, NUL}
      /\ \A i \in 0 .. L : c(i) \in {NL, NUL} => l <= i
      /\ ARGS_LENGTH \in Nat
  BY ScanFacts, CommandAssumption
<1>2. t = First(T)
  BY DEF ArgsStop
<1> HIDE DEF L, c, s, l, t
<1>3. T \in SUBSET Nat /\ l \in T
  BY <1>1
<1>4. t \in T /\ \A i \in T : t <= i
  <2> HIDE DEF T
  <2> QED
    BY <1>2, <1>3, FirstStop
<1>5. t \in s .. l
  BY <1>1, <1>3, <1>4
<1>6. t - s <= ARGS_LENGTH
  <2> SUFFICES ASSUME t > s + ARGS_LENGTH PROVE FALSE
    BY <1>1, <1>5
  <2>1. s + ARGS_LENGTH \in T
    BY <1>1, <1>5
  <2> QED
    BY <1>1, <1>4, <1>5, <2>1
<1>7. t = l \/ t = s + ARGS_LENGTH
  <2>1. t \in 0 .. L /\ (c(t) \in {NL, NUL} \/ t - s = ARGS_LENGTH)
    BY <1>1, <1>4, <1>5
  <2> QED
    BY <1>1, <1>5, <2>1
<1> QED
  BY <1>1, <1>5, <1>6, <1>7 DEF s, l, t

\* What is left of the arguments without the blanks behind them.
LEMMA LengthFacts ==
    ASSUME NEW command, Text(command)
    PROVE  LET s == ArgsStart(command)
               t == ArgsStop(command)
               n == ArgsLength(command)
           IN  /\ n \in 0 .. t - s
               /\ n > 0 => Char(command, s + n - 1) # SP
               /\ \A k \in s + n .. t - 1 : Char(command, k) = SP
<1> DEFINE c(i) == Char(command, i)
           s == ArgsStart(command)
           t == ArgsStop(command)
           n == ArgsLength(command)
           M == {k \in 1 .. t - s : c(s + k - 1) # SP}
<1>1. s \in Nat /\ t \in Nat /\ s <= t /\ c(s) # SP
  BY StopFacts, ScanFacts
<1>2. n = IF t = s THEN 0
          ELSE CHOOSE k \in 1 .. t - s :
                  /\ c(s + k - 1) # SP
                  /\ \A i \in s + k .. t - 1 : c(i) = SP
  BY DEF ArgsLength
<1> HIDE DEF c, s, t, n
<1>3. CASE t = s
  <2>1. n = 0
    BY <1>2, <1>3
  <2> QED
    BY <1>1, <1>3, <2>1 DEF c, s, t, n
<1>4. CASE t > s
  <2>1. s + 1 - 1 = s /\ 1 \in 1 .. t - s
    BY <1>1, <1>4
  <2>2. M \in SUBSET Nat /\ 1 \in M /\ t - s \in Nat /\ \A k \in M : k <= t - s
    BY <1>1, <1>4, <2>1
  <2>3. PICK m \in M : \A k \in M : m >= k
    <3> HIDE DEF M
    <3> QED
      BY <2>2, Greatest
  <2>4. ASSUME NEW i \in s + m .. t - 1 PROVE c(i) = SP
    <3> SUFFICES ASSUME c(i) # SP PROVE FALSE
      OBVIOUS
    <3>1. (i - s) + 1 \in 1 .. t - s /\ s + ((i - s) + 1) - 1 = i
      BY <1>1, <2>2, <2>3
    <3>2. (i - s) + 1 \in M
      BY <3>1
    <3>3. m \in Nat /\ m >= (i - s) + 1
      <4> HIDE DEF M
      <4> QED
        BY <2>2, <2>3, <3>2
    <3> HIDE DEF M
    <3> QED
      BY <1>1, <3>3
  <2>5. /\ n \in 1 .. t - s /\ c(s + n - 1) # SP
        /\ \A i \in s + n .. t - 1 : c(i) = SP
    <3> DEFINE P(k) == /\ c(s + k - 1) # SP
                       /\ \A i \in s + k .. t - 1 : c(i) = SP
    <3>1. m \in 1 .. t - s /\ P(m)
      BY <2>3, <2>4
    <3>2. n = CHOOSE k \in 1 .. t - s : P(k)
      BY <1>1, <1>2, <1>4
    <3> HIDE DEF P
    <3>3. n \in 1 .. t - s /\ P(n)
      BY <3>1, <3>2
    <3> QED
      BY <3>3 DEF P
  <2> QED
    BY <1>1, <1>4, <2>5 DEF c, s, t, n
<1> QED
  BY <1>1, <1>3, <1>4

\* What a user expects, in terms of the places in the command: the characters
\* from the start of the arguments to the last that is not blank.
LEMMA ArgumentsFacts ==
    ASSUME NEW command, Text(command)
    PROVE  LET s == ArgsStart(command)
               l == LineEnd(command)
               w == Arguments(command)
           IN  \E m \in s .. l :
                  /\ w \in Seq(STRING) /\ Len(w) = m - s
                  /\ \A k \in 1 .. m - s : w[k] = Char(command, s + k - 1)
                  /\ m > s => Char(command, m - 1) # SP
                  /\ \A i \in m .. l - 1 : Char(command, i) = SP
<1> DEFINE L == Len(command)
           c(i) == Char(command, i)
           e == NameEnd(command)
           s == ArgsStart(command)
           l == LineEnd(command)
           w == Arguments(command)
           line == Line(command)
           R == {i \in DOMAIN line : i > e /\ line[i] # SP}
           first == CHOOSE i \in R : \A j \in R : i <= j
           last == CHOOSE i \in R : \A j \in R : i >= j
<1>1. /\ L \in Nat /\ e \in 0 .. s /\ s \in 0 .. l /\ l \in 0 .. L
      /\ \A i \in e .. s - 1 : c(i) = SP
      /\ c(s) # SP
      /\ command \in Seq(STRING)
  BY ScanFacts DEF Text
<1>2. /\ line \in Seq(STRING) /\ Len(line) = l
      /\ \A i \in 1 .. l : line[i] = c(i - 1)
  <2>1. line = SubSeq(command, 1, l)
    BY DEF Line, LineEnd
  <2>2. \A i \in 1 .. l : c(i - 1) = command[i]
    BY <1>1 DEF Char
  <2> HIDE DEF line, l, c
  <2> QED
    BY <1>1, <2>1, <2>2, SubSeqProperties
<1>3. Len(Filename(command)) = e
  <2> HIDE DEF e
  <2>1. Filename(command) = SubSeq(command, 1, e)
    BY DEF Filename, e
  <2> QED
    BY <1>1, <2>1, SubSeqProperties
<1>4. w = IF R = {} THEN <<>> ELSE SubSeq(line, first, last)
  <2> HIDE DEF e
  <2> QED
    BY <1>3 DEF Arguments
<1> HIDE DEF L, c, e, s, l, w, line
<1>5. R = {i \in e + 1 .. l : c(i - 1) # SP}
  <2>1. DOMAIN line = 1 .. l
    BY <1>1, <1>2
  <2> QED
    BY <1>1, <1>2, <2>1
<1>6. \A i \in R : i \in s + 1 .. l
  <2> SUFFICES ASSUME NEW i \in R, i <= s PROVE FALSE
    BY <1>1, <1>5
  <2>1. i - 1 \in e .. s - 1 /\ c(i - 1) # SP
    BY <1>1, <1>5
  <2> QED
    BY <1>1, <2>1
<1> HIDE DEF first, last
<1>7. CASE s = l
  <2>1. R = {}
    BY <1>1, <1>6, <1>7
  <2>2. w = <<>>
    BY <1>4, <2>1
  <2>3. s \in s .. l /\ w \in Seq(STRING) /\ Len(w) = s - s
    BY <1>1, <1>7, <2>2
  <2> QED
    BY <1>1, <1>7, <2>3 DEF c, s, l, w
<1>8. CASE s < l
  <2>1. s + 1 \in R
    <3>1. s + 1 \in e + 1 .. l /\ (s + 1) - 1 = s
      BY <1>1, <1>8
    <3> QED
      BY <1>1, <1>5, <3>1
  <2>2. R \in SUBSET Nat /\ \A i \in R : i <= l
    BY <1>1, <1>6
  <2> HIDE DEF R
  <2>3. first = s + 1
    <3>1. first \in R /\ \A j \in R : first <= j
      BY <2>1, <2>2, Least DEF first
    <3> QED
      BY <1>1, <1>6, <2>1, <3>1
  <2>4. last \in R /\ \A j \in R : last >= j
    <3>1. l \in Nat
      BY <1>1
    <3>2. \E i \in R : \A j \in R : i >= j
      BY <2>1, <2>2, <3>1, Greatest
    <3> QED
      BY <3>2 DEF last
  <2>5. last \in s + 1 .. l /\ c(last - 1) # SP
    <3>1. last \in s + 1 .. l
      BY <1>6, <2>4
    <3> QED
      BY <1>5, <2>4, <3>1
  <2>6. \A i \in last .. l - 1 : c(i) = SP
    <3> SUFFICES ASSUME NEW i \in last .. l - 1, c(i) # SP PROVE FALSE
      OBVIOUS
    <3>1. i + 1 \in e + 1 .. l /\ (i + 1) - 1 = i /\ i \in Int
      BY <1>1, <2>5
    <3>2. i + 1 \in R
      BY <1>5, <3>1
    <3> QED
      BY <1>1, <2>4, <2>5, <3>1, <3>2
  <2>7. w = SubSeq(line, s + 1, last)
    BY <1>4, <2>1, <2>3
  <2>8. /\ w \in Seq(STRING) /\ Len(w) = last - s
        /\ \A k \in 1 .. last - s : w[k] = line[s + k]
    <3>1. s + 1 \in 1 .. l + 1 /\ last \in s .. l /\ last - (s + 1) + 1 = last - s
      BY <1>1, <2>5
    <3>2. \A k \in 1 .. last - s : (s + 1) + k - 1 = s + k
      BY <1>1
    <3> QED
      BY <1>1, <1>2, <2>5, <2>7, <3>1, <3>2, SubSeqProperties
  <2>9. \A k \in 1 .. last - s : w[k] = c(s + k - 1)
    <3> TAKE k \in 1 .. last - s
    <3>1. s + k \in 1 .. l
      BY <1>1, <2>5
    <3>2. w[k] = line[s + k]
      BY <2>8
    <3>3. line[s + k] = c(s + k - 1)
      <4>1. PICK j \in 1 .. l : j = s + k
        BY <3>1
      <4>2. line[j] = c(j - 1)
        BY <1>2
      <4>3. j - 1 = s + k - 1
        BY <1>1, <4>1
      <4> QED
        BY <4>1, <4>2, <4>3
    <3> QED
      BY <3>2, <3>3
  <2>10. last \in s .. l
    BY <1>1, <2>5
  <2> QED
    BY <2>5, <2>6, <2>8, <2>9, <2>10 DEF c, s, l, w
<1> QED
  BY <1>1, <1>7, <1>8

\* Arguments that are shorter than args are there as they are.
LEMMA ShortArguments ==
    ASSUME NEW command, Text(command), Len(Arguments(command)) < ARGS_LENGTH
    PROVE  LET s == ArgsStart(command)
               n == ArgsLength(command)
               w == Arguments(command)
           IN  /\ s \in Nat /\ w \in Seq(STRING) /\ n = Len(w)
               /\ \A k \in 1 .. n : w[k] = Char(command, s + k - 1)
<1> DEFINE c(i) == Char(command, i)
           s == ArgsStart(command)
           l == LineEnd(command)
           t == ArgsStop(command)
           n == ArgsLength(command)
           w == Arguments(command)
<1>1. PICK m \in s .. l :
          /\ w \in Seq(STRING) /\ Len(w) = m - s
          /\ \A k \in 1 .. m - s : w[k] = c(s + k - 1)
          /\ m > s => c(m - 1) # SP
          /\ \A i \in m .. l - 1 : c(i) = SP
  BY ArgumentsFacts
<1>2. /\ s \in Nat /\ l \in Nat /\ t \in s .. l
      /\ t = l \/ t = s + ARGS_LENGTH
  BY StopFacts
<1>3. /\ n \in 0 .. t - s
      /\ n > 0 => c(s + n - 1) # SP
      /\ \A k \in s + n .. t - 1 : c(k) = SP
  BY LengthFacts
<1>4. Len(w) < ARGS_LENGTH /\ ARGS_LENGTH \in Nat
  BY CommandAssumption
<1> HIDE DEF c, s, l, t, n, w
<1>5. m <= t
  BY <1>1, <1>2, <1>4
<1>6. ~(n > m - s)
  <2> SUFFICES ASSUME n > m - s PROVE FALSE
    OBVIOUS
  <2>1. n > 0 /\ s + n - 1 \in m .. l - 1
    BY <1>1, <1>2, <1>3
  <2> QED
    BY <1>1, <1>3, <2>1
<1>7. ~(n < m - s)
  <2> SUFFICES ASSUME n < m - s PROVE FALSE
    OBVIOUS
  <2>1. m > s /\ m - 1 \in s + n .. t - 1
    BY <1>1, <1>2, <1>3, <1>5
  <2> QED
    BY <1>1, <1>3, <2>1
<1>8. n = m - s
  BY <1>1, <1>2, <1>3, <1>6, <1>7
<1> QED
  BY <1>1, <1>2, <1>8 DEF c, s, n, w

-----------------------------------------------------------------------------
(* The invariant of a process.                                             *)

Descriptor == [file_ops : {"NULL", "stdin_ops", "stdout_ops", "rtc_ops", "fs_ops"},
               inode : Nat \cup {NULL}, pos : Nat, type : 0 .. 2,
               in_use : BOOLEAN]

Shapes ==
    /\ program \in Nat /\ loaded \in Nat
    /\ fds \in [Fds -> Descriptor]
    /\ got = [d \in Fds |-> got[d]]
    /\ reading \in Fds \cup {NULL}

\* Whose call of read_data() it is.
WhoCalls ==
    /\ phase = "none" => pc = "idle" /\ reading = NULL
    /\ phase = "loading" =>
          /\ program \in Programs /\ reading = NULL /\ pc # "idle"
          /\ request = [inode |-> program, offset |-> loaded, length |-> LOAD_SIZE]
          /\ loaded <= file_length[program]
    /\ phase = "running" =>
          program \in Programs /\ (reading = NULL <=> pc = "idle")
    /\ phase \in {"none", "loading", "running"}

\* The descriptor that is read.
TheOneRead ==
    reading # NULL =>
        /\ Reads(reading, NORMAL_FILE_TYPE)
        /\ request.inode = fds[reading].inode
        /\ request.offset = fds[reading].pos

FInv == /\ ReadInv /\ Shapes /\ WhoCalls /\ TheOneRead
        /\ InUseHasOps /\ ReadsContinue /\ LoadsWholeFile

\* No process, no call: the invariant holds at boot.
LEMMA FInitial == FInit => FInv
<1> SUFFICES ASSUME FInit PROVE FInv
  OBVIOUS
<1>1. ReadInv
  BY ReadInitial DEF FInit
<1>2. Shapes
  BY DEF FInit, Shapes, Closed, Descriptor, Fds
<1>3. WhoCalls /\ TheOneRead /\ LoadsWholeFile
  BY DEF FInit, RInit, WhoCalls, TheOneRead, LoadsWholeFile
<1>4. InUseHasOps /\ ReadsContinue
  BY DEF FInit, Closed, InUseHasOps, ReadsContinue, Fds
<1> QED
  BY <1>1, <1>2, <1>3, <1>4 DEF FInv

\* What the loader gets.
LEMMA LoaderReads ==
    ASSUME FInv, phase = "loading", pc = "returned"
    PROVE  /\ program \in Inodes /\ ret \in Nat /\ loaded + ret \in Nat
           /\ loaded + ret <= file_length[program]
           /\ ret = 0 => loaded = file_length[program]
<1>1. /\ program \in Programs /\ program \in Inodes /\ loaded \in Nat
      /\ request.inode = program /\ request.offset = loaded
      /\ request.length = LOAD_SIZE /\ loaded <= file_length[program]
      /\ LOAD_SIZE \in Nat \ {0} /\ file_length[program] \in Nat
      /\ ret \in Nat \cup {-1}
  BY DEF FInv, WhoCalls, Shapes, ReadInv, ReadTypeOK
<1>2. ret # -1
  <2>1. SUFFICES ASSUME ret = -1 PROVE FALSE
    OBVIOUS
  <2>2. program < num_inodes
    BY <1>1
  <2>3. PICK b \in 0 .. (file_length[program] \div BLOCK_SIZE) :
            data_blocks[program][b] > num_data_blocks
    BY <1>1, <2>1, <2>2 DEF FInv, ReadInv, FailsOnlyIfDamaged
  <2>4. data_blocks[program][b] \in Nat /\ data_blocks[program][b] <= num_data_blocks
    BY <1>1
  <2> QED
    BY <2>3, <2>4
<1>3. ret = Available(program, loaded, LOAD_SIZE)
  BY <1>1, <1>2 DEF FInv, ReadInv, ReadCorrect
<1> QED
  BY <1>1, <1>3 DEF Available

\* What read() asks for.
LEMMA ReaderAsks ==
    ASSUME FInv, NEW d \in Fds, Reads(d, NORMAL_FILE_TYPE)
    PROVE  /\ fds[d] \in Descriptor
           /\ fds[d].inode \in Nat /\ fds[d].pos \in Nat
           /\ got[d] = [k \in 1 .. fds[d].pos |-> FileByte(fds[d].inode, k - 1)]
<1>1. fds[d] \in Descriptor /\ fds[d].inode # NULL
  BY DEF FInv, Shapes, InUseHasOps, Reads
<1>2. got[d] = Contents(fds[d], fds[d].pos)
  BY DEF FInv, ReadsContinue, Reads
<1>3. Contents(fds[d], fds[d].pos)
          = [k \in 1 .. fds[d].pos |-> FileByte(fds[d].inode, k - 1)]
  BY DEF Contents, Reads, NORMAL_FILE_TYPE, DIR_FILE_TYPE
<1> QED
  BY <1>1, <1>2, <1>3 DEF Descriptor

\* Every step does to read_data() what ReadData allows.
LEMMA StepReads == FInv /\ [FNext]_fvars => [RNext]_readdata
<1> SUFFICES ASSUME FInv, [FNext]_fvars PROVE [RNext]_readdata
  OBVIOUS
<1>1. CASE Execute
  <2>1. PICK i \in Programs : Call(i, 0, LOAD_SIZE)
    BY <1>1 DEF Execute
  <2>2. i \in Nat /\ LOAD_SIZE \in Nat /\ 0 \in Nat /\ pc = "idle"
    BY <1>1 DEF Execute, FInv, WhoCalls
  <2> QED
    BY <2>1, <2>2 DEF RNext
<1>2. CASE LoadNext
  <2>1. program \in Nat /\ LOAD_SIZE \in Nat /\ loaded + ret \in Nat
    BY <1>2, LoaderReads DEF LoadNext
  <2> QED
    BY <1>2, <2>1 DEF RNext, LoadNext
<1>3. CASE LoadEnd \/ ReadFileDone
  BY <1>3 DEF LoadEnd, ReadFileDone, RNext
<1>4. CASE Halt \/ Open \/ Close \/ ReadDirectory
  BY <1>4 DEF Halt, Open, Close, ReadDirectory
<1>5. CASE ReadFile
  <2>1. PICK d \in Fds, n \in Lengths :
            Reads(d, NORMAL_FILE_TYPE) /\ Call(fds[d].inode, fds[d].pos, n)
    BY <1>5 DEF ReadFile
  <2>2. fds[d].inode \in Nat /\ fds[d].pos \in Nat /\ n \in Nat
    BY <2>1, ReaderAsks
  <2>3. pc = "idle"
    BY <1>5 DEF ReadFile, Calling, FInv, WhoCalls
  <2> QED
    BY <2>1, <2>2, <2>3 DEF RNext
<1>6. CASE Copying
  BY <1>6 DEF RNext
<1>7. CASE UNCHANGED fvars
  BY <1>7 DEF fvars
<1> QED
  BY <1>1, <1>2, <1>3, <1>4, <1>5, <1>6, <1>7 DEF FNext

-----------------------------------------------------------------------------
(* The steps.  That they keep ReadInv follows from StepReads.              *)

\* What read_data() promises is kept.
LEMMA KeepsReadInv == FInv /\ [FNext]_fvars => ReadInv'
  BY StepReads, ReadStep DEF FInv

Rest == Shapes /\ WhoCalls /\ TheOneRead /\ InUseHasOps /\ ReadsContinue
            /\ LoadsWholeFile

\* execute() starts to load, and loads on.
LEMMA ExecuteStep == FInv /\ Execute => Rest'
<1> SUFFICES ASSUME FInv, Execute PROVE Rest'
  OBVIOUS
<1>1. PICK i \in Programs : program' = i /\ Call(i, 0, LOAD_SIZE)
  BY DEF Execute
<1>2. /\ i \in Inodes /\ i \in Nat /\ file_length[i] \in Nat
      /\ request' = [inode |-> i, offset |-> 0, length |-> LOAD_SIZE]
      /\ pc' # "idle"
  BY <1>1 DEF Call, Return
<1>3. /\ phase = "none" /\ phase' = "loading" /\ loaded' = 0
      /\ fds' = fds /\ reading' = reading /\ got' = got
  BY DEF Execute
<1>4. Shapes' /\ reading = NULL
  BY <1>1, <1>2, <1>3 DEF FInv, Shapes, WhoCalls
<1>5. WhoCalls' /\ TheOneRead' /\ LoadsWholeFile'
  BY <1>1, <1>2, <1>3, <1>4 DEF WhoCalls, TheOneRead, LoadsWholeFile
<1>6. InUseHasOps' /\ ReadsContinue'
  BY <1>3 DEF FInv, InUseHasOps, ReadsContinue, Contents, FileByte
<1> QED
  BY <1>4, <1>5, <1>6 DEF Rest

\* A chunk more is loaded.
LEMMA LoadNextStep == FInv /\ LoadNext => Rest'
<1> SUFFICES ASSUME FInv, LoadNext PROVE Rest'
  OBVIOUS
<1>1. /\ phase = "loading" /\ phase' = "loading" /\ loaded' = loaded + ret
      /\ fds' = fds /\ reading' = reading /\ got' = got /\ program' = program
      /\ Call(program, loaded + ret, LOAD_SIZE)
  BY DEF LoadNext
<1>2. /\ program \in Inodes /\ loaded + ret \in Nat
      /\ loaded + ret <= file_length[program]
  BY LoaderReads DEF LoadNext
<1>3. /\ request' = [inode |-> program, offset |-> loaded + ret,
                     length |-> LOAD_SIZE]
      /\ pc' # "idle"
  BY <1>1, <1>2 DEF Call, Return
<1>4. Shapes' /\ reading = NULL /\ program \in Programs
  BY <1>1, <1>2 DEF FInv, Shapes, WhoCalls
<1>5. WhoCalls' /\ TheOneRead' /\ LoadsWholeFile'
  BY <1>1, <1>2, <1>3, <1>4 DEF WhoCalls, TheOneRead, LoadsWholeFile
<1>6. InUseHasOps' /\ ReadsContinue'
  BY <1>1 DEF FInv, InUseHasOps, ReadsContinue, Contents, FileByte
<1> QED
  BY <1>4, <1>5, <1>6 DEF Rest

\* The loader meets the end of the file; the descriptor table is made.
LEMMA LoadEndStep == FInv /\ LoadEnd => Rest'
<1> SUFFICES ASSUME FInv, LoadEnd PROVE Rest'
  OBVIOUS
<1>1. /\ phase = "loading" /\ phase' = "running" /\ loaded' = loaded
      /\ reading' = reading /\ program' = program /\ pc' = "idle"
      /\ fds' = [d \in Fds |-> IF d = STDIN THEN Terminal("stdin_ops")
                               ELSE IF d = STDOUT THEN Terminal("stdout_ops")
                               ELSE Closed]
      /\ got' = [d \in Fds |-> <<>>]
  BY DEF LoadEnd, Forget
<1>2. loaded = file_length[program]
  BY LoaderReads DEF LoadEnd
<1>3. Shapes' /\ reading = NULL
  <2>1. /\ Closed \in Descriptor
        /\ Terminal("stdin_ops") \in Descriptor
        /\ Terminal("stdout_ops") \in Descriptor
    BY DEF Terminal, Closed, Descriptor
  <2>2. fds' \in [Fds -> Descriptor]
    BY <1>1, <2>1
  <2> QED
    BY <1>1, <2>2 DEF FInv, Shapes, WhoCalls
<1>4. WhoCalls' /\ TheOneRead' /\ LoadsWholeFile'
  BY <1>1, <1>2, <1>3 DEF FInv, WhoCalls, TheOneRead, LoadsWholeFile
<1>5. InUseHasOps' /\ ReadsContinue'
  BY <1>1 DEF InUseHasOps, ReadsContinue, Terminal, Closed, NORMAL_FILE_TYPE
<1> QED
  BY <1>3, <1>4, <1>5 DEF Rest

\* halt() leaves a closed table.
LEMMA HaltStep == FInv /\ Halt => Rest'
<1> SUFFICES ASSUME FInv, Halt PROVE Rest'
  OBVIOUS
<1>1. /\ phase = "running" /\ phase' = "none" /\ reading = NULL
      /\ reading' = reading /\ pc' = pc /\ program' = 0 /\ loaded' = 0
      /\ fds' = [d \in Fds |-> Closed] /\ got' = [d \in Fds |-> <<>>]
  BY DEF Halt, readdata
<1>2. Shapes'
  BY <1>1 DEF Shapes, Closed, Descriptor
<1>3. WhoCalls' /\ TheOneRead' /\ LoadsWholeFile'
  BY <1>1 DEF FInv, WhoCalls, TheOneRead, LoadsWholeFile
<1>4. InUseHasOps' /\ ReadsContinue'
  BY <1>1 DEF InUseHasOps, ReadsContinue, Closed
<1> QED
  BY <1>2, <1>3, <1>4 DEF Rest

\* A step that changes one descriptor nobody reads.
LEMMA OneDescriptor ==
    ASSUME FInv, Calling, NEW d \in Fds, NEW f \in Descriptor, NEW s,
           fds' = [fds EXCEPT ![d] = f], got' = [got EXCEPT ![d] = s],
           UNCHANGED <<readdata, phase, program, loaded, reading>>,
           f.in_use => /\ f.file_ops # "NULL"
                       /\ f.type = NORMAL_FILE_TYPE => f.inode # NULL,
           f.in_use /\ f.file_ops = "fs_ops" => s = Contents(f, f.pos)
    PROVE  Rest'
<1>1. Shapes'
  BY DEF FInv, Shapes
<1>2. WhoCalls' /\ TheOneRead' /\ LoadsWholeFile'
  BY DEF FInv, WhoCalls, TheOneRead, LoadsWholeFile, Calling, readdata
<1>3. InUseHasOps'
  BY DEF FInv, Shapes, InUseHasOps
<1>4. ReadsContinue'
  <2> SUFFICES ASSUME NEW e \in Fds, fds'[e].in_use, fds'[e].file_ops = "fs_ops"
               PROVE  got'[e] = Contents(fds'[e], fds'[e].pos)
    BY DEF ReadsContinue, Contents, FileByte
  <2>1. CASE e = d
    BY <2>1 DEF FInv, Shapes
  <2>2. CASE e # d
    BY <2>2 DEF FInv, Shapes, ReadsContinue
  <2> QED
    BY <2>1, <2>2
<1> QED
  BY <1>1, <1>2, <1>3, <1>4 DEF Rest

\* The dentries of a name are entries of the directory.
LEMMA OpenedDescriptor ==
    ASSUME NEW name, NEW dentry \in DentriesByName(name), NEW d \in Fds
    PROVE  /\ Opened(d, dentry) \in Descriptor
           /\ Opened(d, dentry).file_ops # "NULL"
           /\ Opened(d, dentry).pos = 0
           /\ Opened(d, dentry).type = NORMAL_FILE_TYPE
                  => Opened(d, dentry).inode # NULL
<1>1. /\ dentry.filetype \in {RTC_FILE_TYPE, DIR_FILE_TYPE, NORMAL_FILE_TYPE}
      /\ dentry.inode \in Nat
  BY DEF DentriesByName, Matches
<1> QED
  BY <1>1 DEF Opened, Descriptor, RTC_FILE_TYPE, DIR_FILE_TYPE, NORMAL_FILE_TYPE

\* open() puts a fresh descriptor at a free number.
LEMMA OpenStep == FInv /\ Open => Rest'
<1> SUFFICES ASSUME FInv, Open PROVE Rest'
  OBVIOUS
<1>1. PICK name \in Names, d \in Fds : \E dentry \in DentriesByName(name) :
          /\ fds' = [fds EXCEPT ![d] = Opened(d, dentry)]
          /\ got' = [got EXCEPT ![d] = <<>>]
  BY DEF Open
<1>2. PICK dentry \in DentriesByName(name) :
          /\ fds' = [fds EXCEPT ![d] = Opened(d, dentry)]
          /\ got' = [got EXCEPT ![d] = <<>>]
  BY <1>1
<1> DEFINE f == Opened(d, dentry)
<1>3. /\ f \in Descriptor /\ f.file_ops # "NULL" /\ f.pos = 0
      /\ f.type = NORMAL_FILE_TYPE => f.inode # NULL
  BY OpenedDescriptor
<1>4. <<>> = Contents(f, f.pos)
  <2> HIDE DEF f
  <2> QED
    BY <1>3 DEF Contents
<1>5. Calling /\ UNCHANGED <<readdata, phase, program, loaded, reading>>
  BY DEF Open
<1> HIDE DEF f
<1> QED
  BY <1>2, <1>3, <1>4, <1>5, OneDescriptor DEF f

\* close() takes one descriptor out of use.
LEMMA CloseStep == FInv /\ Close => Rest'
<1> SUFFICES ASSUME FInv, Close PROVE Rest'
  OBVIOUS
<1>1. PICK d \in Fds : /\ fds' = [fds EXCEPT ![d] = Released(d)]
                       /\ got' = [got EXCEPT ![d] = <<>>]
  BY DEF Close
<1>2. Released(d) \in Descriptor /\ ~Released(d).in_use
  <2>1. fds[d] \in Descriptor
    BY DEF FInv, Shapes
  <2> QED
    BY <2>1 DEF Descriptor, Released
<1>3. Calling /\ UNCHANGED <<readdata, phase, program, loaded, reading>>
  BY DEF Close
<1> QED
  BY <1>1, <1>2, <1>3, OneDescriptor

\* A directory entry is read and the position moved to the next.
LEMMA ReadDirectoryStep == FInv /\ ReadDirectory => Rest'
<1> SUFFICES ASSUME FInv, ReadDirectory PROVE Rest'
  OBVIOUS
<1>1. PICK d \in Fds :
          /\ Reads(d, DIR_FILE_TYPE)
          /\ fds' = [fds EXCEPT ![d].pos = @ + 1]
          /\ got' = [got EXCEPT ![d] =
                        Append(@, dentries[fds[d].pos + 1].filename)]
  BY DEF ReadDirectory
<1> DEFINE p == fds[d].pos
           f == [fds[d] EXCEPT !.pos = @ + 1]
           s == Append(got[d], dentries[p + 1].filename)
<1>2. fds[d] \in Descriptor
  BY DEF FInv, Shapes
<1>3. /\ f \in Descriptor /\ p \in Nat /\ f.pos = p + 1
      /\ f.file_ops # "NULL" /\ f.type = DIR_FILE_TYPE
  <2>1. p \in Nat /\ p + 1 \in Nat
    BY <1>2 DEF Descriptor
  <2>2. fds[d].file_ops = "fs_ops" /\ fds[d].type = DIR_FILE_TYPE
    BY <1>1 DEF Reads
  <2> QED
    BY <1>2, <2>1, <2>2 DEF Descriptor
<1>4. got[d] = [k \in 1 .. p |-> dentries[k].filename]
  BY <1>1 DEF FInv, ReadsContinue, Reads, Contents
<1>5. s = Contents(f, f.pos)
  <2>1. s = [k \in 1 .. p + 1 |-> dentries[k].filename]
    BY <1>3, <1>4, NextName
  <2> HIDE DEF f, s
  <2> QED
    BY <1>3, <2>1 DEF Contents
<1>6. /\ fds' = [fds EXCEPT ![d] = f] /\ got' = [got EXCEPT ![d] = s]
      /\ Calling /\ UNCHANGED <<readdata, phase, program, loaded, reading>>
  BY <1>1 DEF ReadDirectory, FInv, Shapes
<1> HIDE DEF f, s
<1>7. f.type # NORMAL_FILE_TYPE
  BY <1>3 DEF NORMAL_FILE_TYPE, DIR_FILE_TYPE
<1> QED
  BY <1>3, <1>5, <1>6, <1>7, OneDescriptor

\* fs_read() calls read_data() with the inode and position of its descriptor.
LEMMA ReadFileStep == FInv /\ ReadFile => Rest'
<1> SUFFICES ASSUME FInv, ReadFile PROVE Rest'
  OBVIOUS
<1>1. PICK d \in Fds, n \in Lengths :
          /\ Reads(d, NORMAL_FILE_TYPE) /\ reading' = d
          /\ Call(fds[d].inode, fds[d].pos, n)
  BY DEF ReadFile
<1>2. /\ phase = "running" /\ phase' = phase /\ program' = program
      /\ loaded' = loaded /\ fds' = fds /\ got' = got
  BY DEF ReadFile, Calling
<1>3. /\ pc' # "idle" /\ d # NULL
      /\ request'.inode = fds[d].inode /\ request'.offset = fds[d].pos
  BY <1>1 DEF Call, Return, Fds
<1>4. Shapes' /\ LoadsWholeFile' /\ InUseHasOps' /\ ReadsContinue'
  BY <1>1, <1>2 DEF FInv, Shapes, LoadsWholeFile, InUseHasOps, ReadsContinue,
                    Contents, FileByte
<1>5. WhoCalls'
  BY <1>1, <1>2, <1>3 DEF FInv, WhoCalls
<1>6. TheOneRead'
  BY <1>1, <1>2, <1>3 DEF TheOneRead, Reads
<1> QED
  BY <1>4, <1>5, <1>6 DEF Rest

\* What was read is appended, and the position follows.
LEMMA ReadFileDoneStep == FInv /\ ReadFileDone => Rest'
<1> SUFFICES ASSUME FInv, ReadFileDone PROVE Rest'
  OBVIOUS
<1> DEFINE d == reading
           i == fds[d].inode
           p == fds[d].pos
           f == [fds[d] EXCEPT !.pos = Advance(@)]
           r == [k \in 1 .. ret |-> buf[k - 1]]
           s == IF ret = -1 THEN got[d] ELSE got[d] \o r
<1>1. /\ d \in Fds /\ d # NULL /\ pc = "returned" /\ Reads(d, NORMAL_FILE_TYPE)
      /\ request.inode = i /\ request.offset = p
      /\ request.length \in Nat /\ ret \in Nat \cup {-1}
  BY DEF ReadFileDone, FInv, Shapes, TheOneRead, ReadInv, ReadTypeOK
<1>2. /\ fds[d] \in Descriptor /\ i \in Nat /\ p \in Nat
      /\ got[d] = [k \in 1 .. p |-> FileByte(i, k - 1)]
  BY <1>1, ReaderAsks
<1>3. /\ f \in Descriptor /\ f.inode = i /\ f.pos = Advance(p)
      /\ f.file_ops = "fs_ops" /\ f.type = NORMAL_FILE_TYPE
  BY <1>1, <1>2 DEF Descriptor, Advance, Reads
<1>4. s = Beginning(i, Advance(p))
  <2>1. CASE ret = -1
    BY <1>2, <2>1 DEF Advance, Beginning
  <2>2. CASE ret \in Nat
    <3>1. r = Piece(i, p, ret)
      <4>1. \A k \in 1 .. ret : k - 1 \in 0 .. ret - 1
        BY <2>2
      <4>2. ret > 0 => buf = [k \in 0 .. ret - 1 |-> FileByte(i, p + k)]
        BY <1>1, <2>2 DEF FInv, ReadInv, ReadCorrect
      <4>3. \A k \in 1 .. ret : buf[k - 1] = FileByte(i, p + (k - 1))
        BY <2>2, <4>1, <4>2
      <4> QED
        BY <4>3 DEF Piece
    <3>2. got[d] = Beginning(i, p)
      BY <1>2 DEF Beginning
    <3>3. s = got[d] \o r /\ Advance(p) = p + ret
      BY <2>2 DEF Advance
    <3>4. Beginning(i, p) \o Piece(i, p, ret) = Beginning(i, p + ret)
      BY <1>2, <2>2, PiecesOfFile
    <3> HIDE DEF s, r, p, i, d
    <3> QED
      BY <3>1, <3>2, <3>3, <3>4
  <2> QED
    BY <1>1, <2>1, <2>2
<1>5. s = Contents(f, f.pos)
  <2> HIDE DEF f, s
  <2> QED
    BY <1>3, <1>4 DEF Contents, Beginning, NORMAL_FILE_TYPE, DIR_FILE_TYPE
<1>6. /\ fds' = [fds EXCEPT ![d] = f] /\ got' = [got EXCEPT ![d] = s]
      /\ reading' = NULL /\ pc' = "idle"
      /\ phase' = phase /\ program' = program /\ loaded' = loaded
  BY <1>1 DEF ReadFileDone, FInv, Shapes, Forget
<1> HIDE DEF f, s
<1>7. phase = "running"
  BY <1>1 DEF FInv, WhoCalls
<1>8. Shapes'
  BY <1>3, <1>6 DEF FInv, Shapes
<1>9. WhoCalls' /\ TheOneRead' /\ LoadsWholeFile'
  BY <1>6, <1>7 DEF FInv, WhoCalls, TheOneRead, LoadsWholeFile
<1>10. InUseHasOps'
  BY <1>1, <1>2, <1>3, <1>6 DEF FInv, Shapes, InUseHasOps
<1>11. ReadsContinue'
  <2> SUFFICES ASSUME NEW e \in Fds, fds'[e].in_use, fds'[e].file_ops = "fs_ops"
               PROVE  got'[e] = Contents(fds'[e], fds'[e].pos)
    BY DEF ReadsContinue, Contents, FileByte
  <2>1. CASE e = d
    BY <1>5, <1>6, <2>1 DEF FInv, Shapes
  <2>2. CASE e # d
    BY <1>6, <2>2 DEF FInv, Shapes, ReadsContinue
  <2> QED
    BY <2>1, <2>2
<1> QED
  BY <1>8, <1>9, <1>10, <1>11 DEF Rest

\* The steps within read_data() touch nothing else.
LEMMA CopyingStep ==
    ASSUME FInv, UNCHANGED <<process, got>>,
           Copying \/ UNCHANGED readdata
    PROVE  Rest'
<1>1. request' = request /\ (pc' = "idle" <=> pc = "idle")
  BY DEF Copying, Fail, FirstBlockOnly, FirstBlock, WholeBlock, LastBlock, LoopEnd,
         Return, readdata
<1>2. Shapes' /\ LoadsWholeFile' /\ InUseHasOps' /\ ReadsContinue'
  BY DEF FInv, process, Shapes, LoadsWholeFile, InUseHasOps, ReadsContinue,
         Contents, FileByte
<1>3. WhoCalls' /\ TheOneRead'
  BY <1>1 DEF FInv, process, WhoCalls, TheOneRead, Reads
<1> QED
  BY <1>2, <1>3 DEF Rest

\* The invariant is inductive: one lemma for each action of Next above.
LEMMA FInvStep == FInv /\ [FNext]_fvars => FInv'
<1> SUFFICES ASSUME FInv, [FNext]_fvars PROVE FInv'
  OBVIOUS
<1>1. ReadInv'
  BY KeepsReadInv
<1>2. Rest'
  <2>1. CASE Copying /\ UNCHANGED <<process, wanted, got>>
    BY <2>1, CopyingStep
  <2>2. CASE UNCHANGED fvars
    BY <2>2, CopyingStep DEF fvars
  <2> QED
    BY <2>1, <2>2, ExecuteStep, LoadNextStep, LoadEndStep, HaltStep, OpenStep,
       CloseStep, ReadDirectoryStep, ReadFileStep, ReadFileDoneStep DEF FNext
<1> QED
  BY <1>1, <1>2 DEF FInv, Rest

-----------------------------------------------------------------------------
(* The arguments of the process.                                           *)

\* The PCB holds the arguments of the command that it was made for.
ArgsInv ==
    /\ args_length \in 0 .. ARGS_LENGTH
    /\ phase # "none" =>
          \E command \in Commands : /\ args = ArgsMemory(command)
                                    /\ args_length = ArgsLength(command)
                                    /\ wanted = Arguments(command)

\* Only execute() writes them.
LEMMA ArgsStep == ArgsInv /\ [FNext]_fvars => ArgsInv'
<1> SUFFICES ASSUME ArgsInv, [FNext]_fvars PROVE ArgsInv'
  OBVIOUS
<1>1. CASE Execute
  <2>1. PICK command \in Commands : /\ args' = ArgsMemory(command)
                                    /\ args_length' = ArgsLength(command)
                                    /\ wanted' = Arguments(command)
    BY <1>1 DEF Execute
  <2>2. Text(command)
    BY CommandsAssumption DEF Text
  <2>3. ArgsLength(command) \in 0 .. ARGS_LENGTH
    <3>1. ARGS_LENGTH \in Nat
      BY CommandAssumption
    <3> QED
      BY <2>2, <3>1, StopFacts, LengthFacts
  <2> QED
    BY <2>1, <2>3 DEF ArgsInv
<1>2. CASE Halt
  BY <1>2, CommandAssumption DEF Halt, ArgsInv
<1>3. CASE /\ phase' # "none" => phase # "none"
           /\ UNCHANGED <<args, args_length, wanted>>
  BY <1>3 DEF ArgsInv
<1> QED
  BY <1>1, <1>2, <1>3 DEF FNext, LoadNext, LoadEnd, Open, Close, ReadDirectory,
     ReadFile, ReadFileDone, Calling, process, fvars

\* The invariant of the arguments, for every set of commands.
THEOREM ArgsInvariance == FSpec => []ArgsInv
<1>1. FInit => ArgsInv
  BY CommandAssumption DEF FInit, ArgsInv
<1> QED
  BY <1>1, ArgsStep, PTL DEF FSpec

-----------------------------------------------------------------------------
(* The theorems about a process.                                           *)

\* The inductive invariant of a process and its files, for every image, size
\* of a block and of the descriptor table.
THEOREM FilesInvariance == FSpec => []FInv
  BY FInitial, FInvStep, PTL DEF FSpec

\* execute() and read() use read_data() only in the way that ReadData allows,
\* so whatever holds of it holds of their calls.
THEOREM FilesUseReadData == FSpec => RSpec
<1>1. FInit => RInit
  BY DEF FInit
<1> QED
  BY <1>1, StepReads, FilesInvariance, PTL DEF FSpec, RSpec

\* Every call of read_data() made for a process returns the bytes there are.
THEOREM CallsAreCorrect == FSpec => []ReadCorrect
  BY FilesUseReadData, ReadsAreCorrect, PTL

\* A call made for a process fails only on a wrong inode or block number.
THEOREM CallsFailOnlyIfDamaged == FSpec => []FailsOnlyIfDamaged
  BY FilesUseReadData, ReadsFailOnlyIfDamaged, PTL

\* What a process has read through a descriptor is the file's beginning.
THEOREM FilesReadsContinue == FSpec => []ReadsContinue
<1>1. FInv => ReadsContinue
  BY DEF FInv
<1> QED
  BY <1>1, FilesInvariance, PTL

\* halt(), read() and close() never jump through an empty file_ops.
THEOREM FilesInUseHasOps == FSpec => []InUseHasOps
<1>1. FInv => InUseHasOps
  BY DEF FInv
<1> QED
  BY <1>1, FilesInvariance, PTL

\* The loader's loop ends with the whole program in memory.
THEOREM FilesLoadsWholeFile == FSpec => []LoadsWholeFile
<1>1. FInv => LoadsWholeFile
  BY DEF FInv
<1> QED
  BY <1>1, FilesInvariance, PTL

\* Types: among them that the length of the arguments is one that getargs()
\* can copy, and that what runs was loaded from a program.
THEOREM FilesTypeCorrect == FSpec => []FTypeOK
<1>1. FInv /\ ArgsInv => FTypeOK
  BY DEF FInv, ReadInv, Shapes, Descriptor, WhoCalls, ArgsInv, FTypeOK
<1> QED
  BY <1>1, FilesInvariance, ArgsInvariance, PTL

\* getargs() delivers the arguments of every command: with any blanks in
\* front, within and behind, whatever else the line holds, if they are shorter
\* than args.
THEOREM FilesArgsDelivered == FSpec => []ArgsDelivered
<1>1. ArgsInv => ArgsDelivered
  <2> SUFFICES ASSUME ArgsInv, phase = "running", Len(wanted) < ARGS_LENGTH,
                      NEW n \in 0 .. ARGS_LENGTH + 1
               PROVE  GetArgs(n) = IF Len(wanted) < n THEN Append(wanted, NUL)
                                   ELSE <<-1>>
    BY DEF ArgsDelivered
  <2>1. PICK command \in Commands : /\ args = ArgsMemory(command)
                                    /\ args_length = ArgsLength(command)
                                    /\ wanted = Arguments(command)
    BY DEF ArgsInv
  <2> DEFINE s == ArgsStart(command)
  <2>2. /\ s \in Nat /\ wanted \in Seq(STRING) /\ args_length = Len(wanted)
        /\ \A k \in 1 .. args_length : wanted[k] = Char(command, s + k - 1)
    BY <2>1, CommandsAssumption, ShortArguments DEF Text
  <2>3. \A k \in 0 .. args_length :
            args[k] = IF k < args_length THEN Char(command, s + k) ELSE NUL
    BY <2>1, <2>2, CommandAssumption DEF ArgsMemory
  <2> HIDE DEF s
  <2>4. CASE n < args_length + 1
    BY <2>2, <2>4 DEF GetArgs
  <2>5. CASE n >= args_length + 1
    <3> DEFINE given == [k \in 1 .. args_length + 1 |-> args[k - 1]]
    <3>1. /\ args_length \in Nat
          /\ \A k \in 1 .. args_length : args[k - 1] = wanted[k]
          /\ args[args_length] = NUL
      <4>1. args_length \in Nat
        BY <2>2
      <4>2. args[args_length] = NUL
        BY <2>3, <4>1
      <4>3. ASSUME NEW k \in 1 .. args_length PROVE args[k - 1] = wanted[k]
        <5>1. k - 1 \in 0 .. args_length /\ k - 1 < args_length
              /\ s + (k - 1) = s + k - 1
          BY <2>2, <4>1
        <5> QED
          BY <2>2, <2>3, <5>1
      <4> QED
        BY <4>1, <4>2, <4>3
    <3>2. Append(wanted, NUL) = given
      <4> DEFINE S == STRING \cup {NUL}
      <4>1. wanted \in Seq(S) /\ NUL \in S
        BY <2>2, SeqMonotonic
      <4> HIDE DEF S
      <4>2. /\ Append(wanted, NUL) \in Seq(S)
            /\ Len(Append(wanted, NUL)) = args_length + 1
            /\ \A k \in 1 .. args_length : Append(wanted, NUL)[k] = wanted[k]
            /\ Append(wanted, NUL)[args_length + 1] = NUL
        BY <2>2, <4>1, AppendProperties
      <4>3. ASSUME NEW k \in 1 .. args_length + 1
            PROVE  given[k] = Append(wanted, NUL)[k] /\ given[k] \in S
        <5>1. Append(wanted, NUL)[k] \in S
          BY <3>1, <4>2, ElementOfSeq
        <5>2. CASE k = args_length + 1
          BY <3>1, <4>2, <5>1, <5>2
        <5>3. CASE k # args_length + 1
          BY <3>1, <4>2, <5>1, <5>3
        <5> QED
          BY <5>2, <5>3
      <4>4. given \in [1 .. args_length + 1 -> S] /\ args_length + 1 \in Nat
        BY <3>1, <4>3
      <4> HIDE DEF given
      <4>5. given \in Seq(S) /\ Len(given) = args_length + 1
        <5>1. PICK n1 \in Nat : n1 = args_length + 1
          BY <4>4
        <5>2. given \in [1 .. n1 -> S]
          BY <4>4, <5>1
        <5> QED
          BY <5>1, <5>2
      <4> QED
        BY <4>2, <4>3, <4>5, SeqEqual
    <3> QED
      BY <2>2, <2>5, <3>1, <3>2 DEF GetArgs
  <2> QED
    BY <2>2, <2>4, <2>5
<1> QED
  BY <1>1, ArgsInvariance, PTL

-----------------------------------------------------------------------------
(* Nothing goes round in circles.                                          *)

\* Each round of read_data()'s loop brings the end of the length nearer, and
\* no step goes back to the first block: the loop comes to its end.
ReadAdvances ==
    [][Copying => \/ pc' = "returned"
                  \/ /\ pc' = "loop" /\ length' = length
                     /\ bytes_read < bytes_read'
                     /\ bytes_read' <= length]_readdata

\* Each round of execute()'s loop brings the end of the program's file
\* nearer: the loop comes to its end.
LoaderAdvances ==
    [][LoadNext => loaded < loaded' /\ loaded' <= file_length[program]]_fvars

\* The loop of read_data() comes to its end for every offset and length.
THEOREM ReadsAdvance == RSpec => ReadAdvances
<1>1. ReadInv /\ Copying =>
        \/ pc' = "returned"
        \/ /\ pc' = "loop" /\ length' = length
           /\ bytes_read < bytes_read'
           /\ bytes_read' <= length
  <2> SUFFICES ASSUME ReadInv, Copying
               PROVE  \/ pc' = "returned"
                      \/ /\ pc' = "loop" /\ length' = length
                         /\ bytes_read < bytes_read'
                         /\ bytes_read' <= length
    OBVIOUS
  <2>1. CASE Fail("first") \/ Fail("loop") \/ FirstBlockOnly \/ LastBlock \/ LoopEnd
    BY <2>1 DEF Fail, FirstBlockOnly, LastBlock, LoopEnd, Return
  <2>2. CASE FirstBlock
    BY <2>2, FirstPlace, Ongoing DEF FirstBlock, RemBytes
  <2>3. CASE WholeBlock
    <3>1. pc \in {"first", "loop"}
      BY <2>3 DEF WholeBlock
    <3> QED
      BY <2>3, <3>1, Ongoing DEF WholeBlock
  <2> QED
    BY <2>1, <2>2, <2>3 DEF Copying
<1> QED
  BY <1>1, ReadInvariance, PTL DEF ReadAdvances

\* The loop of execute() comes to its end for every program that is whole.
THEOREM LoadsAdvance == FSpec => LoaderAdvances
<1>1. FInv /\ LoadNext => loaded < loaded' /\ loaded' <= file_length[program]
  <2> SUFFICES ASSUME FInv, LoadNext
               PROVE  loaded < loaded' /\ loaded' <= file_length[program]
    OBVIOUS
  <2>1. /\ phase = "loading" /\ pc = "returned" /\ ret # 0
        /\ loaded' = loaded + ret /\ loaded \in Nat
    BY DEF LoadNext, FInv, Shapes
  <2> QED
    BY <2>1, LoaderReads
<1> QED
  BY <1>1, FilesInvariance, PTL DEF LoaderAdvances
=============================================================================
