------------------------------ MODULE ReadData ------------------------------
(***************************************************************************)
(* read_data of fs/ece391_fs.c: copy part of a file into a buffer, block   *)
(* by block.  One step is the entry of a call, one iteration of its loop   *)
(* or its end; calls follow one another with any arguments.                *)
(*                                                                         *)
(* A byte is named by its place, <<data block, offset in the block>>.  The *)
(* file system image is read-only; FsAssumption says what a well-formed    *)
(* image is, except that the numbers in data_blocks may be wrong, which    *)
(* the code checks.                                                        *)
(***************************************************************************)
EXTENDS Integers, Sequences

CONSTANTS
  FS_BLOCK_SIZE,    \* 4096
  MAX_DATA_BLOCKS,  \* 1023, the length of an inode's data_blocks
  UINT,             \* 2^32, where unsigned arithmetic wraps
  num_inodes, num_data_blocks,  \* of the boot block
  file_length, data_blocks,     \* of each inode
  Inodes, Offsets, Lengths      \* the arguments of the calls

ASSUME FsAssumption ==
  /\ FS_BLOCK_SIZE \in Nat \ {0}
  /\ MAX_DATA_BLOCKS \in Nat
  /\ UINT \in Nat /\ FS_BLOCK_SIZE * MAX_DATA_BLOCKS < UINT
  /\ num_inodes \in Nat /\ num_data_blocks \in Nat
  /\ file_length \in [0 .. num_inodes - 1 -> 0 .. UINT - 1]
  /\ data_blocks \in [0 .. num_inodes - 1 -> [0 .. MAX_DATA_BLOCKS - 1 -> Nat]]
  /\ \A i \in 0 .. num_inodes - 1 :
       file_length[i] <= FS_BLOCK_SIZE * MAX_DATA_BLOCKS
  /\ Inodes \subseteq 0 .. UINT - 1
  /\ Offsets \subseteq 0 .. UINT - 1
  /\ Lengths \subseteq 0 .. UINT - 1

VARIABLES
  inode, offset, asked,  \* the arguments of the call, as they were passed
  length,                \* the argument length, once capped
  block_num, file_pos, block_pos, bytes_written,  \* the loop's variables
  buf,                   \* what has been copied to the buffer
  pc,                    \* "idle": between calls; "loop": in the loop
  ret                    \* what the last call returned

args == <<inode, offset, asked>>
vars == <<inode, offset, asked, length, block_num, file_pos, block_pos,
          bytes_written, buf, pc, ret>>

Smaller(m, n) == IF m < n THEN m ELSE n

Init ==
  /\ inode = 0 /\ offset = 0 /\ asked = 0 /\ length = 0
  /\ block_num = 0 /\ file_pos = 0 /\ block_pos = 0 /\ bytes_written = 0
  /\ buf = <<>> /\ pc = "idle" /\ ret = 0

(* A call that returns at once: a bad inode, or an offset at or past EOF.  *)
read_data_returns(i, o, n) ==
  /\ \/ i >= num_inodes /\ ret' = -1
     \/ i < num_inodes /\ o >= file_length[i] /\ ret' = 0
  /\ length' = n
  /\ UNCHANGED <<pc, block_num, file_pos, block_pos, bytes_written>>

capped_bug(i, o, n) ==  \* capped at the file's length, whatever the offset
  IF n > file_length[i] THEN file_length[i] ELSE n

(* "Cap # of bytes to copy so it doesn't go past EOF", with the sum of two *)
(* 32-bit numbers in 32 bits.                                              *)
Capped(i, o, n) ==
  IF (n + o) % UINT > file_length[i] THEN file_length[i] - o ELSE n

read_data_starts(i, o, n) ==
  /\ i < num_inodes /\ o < file_length[i]
  /\ length' = Capped(i, o, n)
  /\ block_num' = o \div FS_BLOCK_SIZE
  /\ block_pos' = o % FS_BLOCK_SIZE
  /\ file_pos' = o
  /\ bytes_written' = 0
  /\ pc' = "loop"
  /\ UNCHANGED ret

read_data(i, o, n) ==
  /\ pc = "idle"
  /\ inode' = i /\ offset' = o /\ asked' = n /\ buf' = <<>>
  /\ read_data_returns(i, o, n) \/ read_data_starts(i, o, n)

loop_bug == bytes_written <= length /\ file_pos < file_length[inode]

LoopCondition == bytes_written < length /\ file_pos < file_length[inode]

(* The rest of the block, or of the request if that is less.               *)
NumBytesToCopy == Smaller(FS_BLOCK_SIZE - block_pos, length - bytes_written)

(* The n bytes of a data block from offset pos on.                         *)
BlockBytes(b, pos, n) == [k \in 1 .. n |-> <<b, pos + k - 1>>]

same_block_bug(res) ==  \* at its end, starts the same block again
  /\ block_num' = block_num
  /\ block_pos' = (block_pos + res) % FS_BLOCK_SIZE

(* Go to the next block at the end of this one.                            *)
Advance(res) ==
  IF block_pos + res >= FS_BLOCK_SIZE
    THEN block_num' = block_num + 1 /\ block_pos' = block_pos + res - FS_BLOCK_SIZE
    ELSE block_num' = block_num /\ block_pos' = block_pos + res

(* The checks of read_block: a block number that is on the disk, and an    *)
(* offset inside the block.                                                *)
BlockReadable ==
  data_blocks[inode][block_num] < num_data_blocks /\ block_pos < FS_BLOCK_SIZE

(* One iteration.  read_block would shorten a copy that goes past the end  *)
(* of the block; NumBytesToCopy never does.                                *)
read_block ==
  LET block_index == data_blocks[inode][block_num]
      res == Smaller(NumBytesToCopy, FS_BLOCK_SIZE - block_pos)
  IN
  /\ pc = "loop" /\ LoopCondition
  /\ BlockReadable
  /\ buf' = buf \o BlockBytes(block_index, block_pos, res)
  /\ bytes_written' = bytes_written + res
  /\ file_pos' = (file_pos + res) % UINT
  /\ Advance(res)
  /\ UNCHANGED <<args, length, pc, ret>>

read_block_fails ==
  /\ pc = "loop" /\ LoopCondition /\ ~BlockReadable
  /\ ret' = -1 /\ pc' = "idle"
  /\ UNCHANGED <<args, length, block_num, file_pos, block_pos, bytes_written, buf>>

read_data_done ==
  /\ pc = "loop" /\ ~LoopCondition
  /\ ret' = bytes_written /\ pc' = "idle"
  /\ UNCHANGED <<args, length, block_num, file_pos, block_pos, bytes_written, buf>>

Next ==
  \/ \E i \in Inodes, o \in Offsets, n \in Lengths : read_data(i, o, n)
  \/ read_block
  \/ read_block_fails
  \/ read_data_done

Spec == Init /\ [][Next]_vars

(* Nothing in the loop waits: a call that has begun goes on.               *)
FairSpec == Spec /\ WF_vars(read_block \/ read_block_fails \/ read_data_done)
-----------------------------------------------------------------------------
Places == Nat \X (0 .. FS_BLOCK_SIZE - 1)

(* The loop's variables are in range: block_pos inside a block, so that no *)
(* copy leaves a data block, and block_num inside the inode's array while  *)
(* the loop goes on.                                                       *)
TypeOK ==
  /\ inode \in Nat /\ offset \in 0 .. UINT - 1 /\ asked \in 0 .. UINT - 1
  /\ length \in 0 .. UINT - 1
  /\ block_num \in 0 .. MAX_DATA_BLOCKS /\ block_pos \in 0 .. FS_BLOCK_SIZE - 1
  /\ file_pos \in Nat /\ bytes_written \in Nat
  /\ buf \in Seq(Places)
  /\ pc \in {"idle", "loop"}
  /\ ret \in Int
  /\ pc = "loop" => inode < num_inodes
  /\ pc = "loop" /\ LoopCondition => block_num < MAX_DATA_BLOCKS

(* The byte b is the one at position pos of file i.                        *)
IsFileByte(i, pos, b) ==
  \E n \in 0 .. MAX_DATA_BLOCKS - 1, p \in 0 .. FS_BLOCK_SIZE - 1 :
    pos = n * FS_BLOCK_SIZE + p /\ b = <<data_blocks[i][n], p>>

(* The buffer holds the bytes of the file from the offset on, in order,    *)
(* none skipped or copied twice, after every iteration and whatever the    *)
(* offset and the length are in relation to the blocks.                    *)
CopiesTheFile ==
  \A k \in 1 .. Len(buf) : IsFileByte(inode, offset + k - 1, buf[k])

(* No call stores more bytes than its caller asked for.                    *)
BufferNotOverrun == Len(buf) <= asked

(* A call returns the number of bytes it stored, which is all that was     *)
(* asked for or all that the file has left, unless it returns -1; and the  *)
(* bytes end with the file (the sum of offset and length does not wrap).   *)
ReturnsWhatIsLeft ==
  /\ pc = "idle" /\ ret >= 0 => ret = Len(buf)
  /\ inode < num_inodes /\ offset < file_length[inode] /\ offset + asked < UINT =>
       /\ offset + Len(buf) <= file_length[inode]
       /\ pc = "idle" /\ ret >= 0 =>
            Len(buf) = Smaller(asked, file_length[inode] - offset)

(* A call ends.                                                            *)
CallReturns == pc = "loop" ~> pc = "idle"
=============================================================================
