--------------------------- MODULE ReadingProofs ---------------------------
(***************************************************************************)
(* Files and their readers.  read_data, for any file system image, block   *)
(* size, word size and arguments, copies the right bytes, never more than  *)
(* were asked for, and returns their number; grep, for any buffer size,    *)
(* texts and patterns, prints the lines that hold the pattern.             *)
(***************************************************************************)
EXTENDS ReadData, Grep, SequenceTheorems, WellFoundedInduction, TLAPS


LEMMA DivMod ==
  ASSUME NEW n \in Nat, NEW b \in Nat, b > 0
  PROVE  n = b * (n \div b) + (n % b)
OBVIOUS

(* The sum of two words, reduced to a word.                                *)
LEMMA WordSum ==
  ASSUME NEW m \in 0 .. UINT - 1, NEW n \in 0 .. UINT - 1
  PROVE  (m + n) % UINT = IF m + n < UINT THEN m + n ELSE m + n - UINT
<1>1. UINT \in Nat /\ UINT > 0
  BY FsAssumption
<1>2. CASE m + n < UINT
  BY <1>1, <1>2
<1>3. CASE m + n >= UINT
  BY <1>1, <1>3
<1> QED BY <1>1, <1>2, <1>3

LEMMA SmallWord ==
  ASSUME NEW n \in Nat, NEW u \in Nat, n < u
  PROVE  n % u = n
OBVIOUS

(* The buffer after part of a block has been appended to it.               *)
LEMMA AppendedBytes ==
  ASSUME NEW s \in Seq(Places), NEW b \in Nat, FS_BLOCK_SIZE \in Nat,
         NEW pos \in 0 .. FS_BLOCK_SIZE - 1,
         NEW n \in 1 .. FS_BLOCK_SIZE - pos
  PROVE  LET t == s \o BlockBytes(b, pos, n) IN
         /\ t \in Seq(Places) /\ Len(t) = Len(s) + n
         /\ \A k \in 1 .. Len(s) : t[k] = s[k]
         /\ \A k \in Len(s) + 1 .. Len(s) + n :
              t[k] = <<b, pos + (k - Len(s)) - 1>>
<1>1. /\ BlockBytes(b, pos, n) \in Seq(Places)
      /\ Len(BlockBytes(b, pos, n)) = n
  BY DEF BlockBytes, Places
<1>2. \A j \in 1 .. n : BlockBytes(b, pos, n)[j] = <<b, pos + j - 1>>
  BY DEF BlockBytes
<1> HIDE DEF BlockBytes
<1> DEFINE u == BlockBytes(b, pos, n)
           t == s \o u
<1>3. t = s \o u /\ u \in Seq(Places) /\ Len(u) = n
  BY <1>1
<1> HIDE DEF u, t
<1>4. /\ t \in Seq(Places) /\ Len(t) = Len(s) + n
      /\ \A k \in 1 .. Len(s) + n :
           t[k] = IF k <= Len(s) THEN s[k] ELSE u[k - Len(s)]
  <2>1. /\ s \o u \in Seq(Places)
        /\ Len(s \o u) = Len(s) + Len(u)
        /\ \A k \in 1 .. Len(s) + Len(u) :
             (s \o u)[k] = IF k <= Len(s) THEN s[k] ELSE u[k - Len(s)]
    BY <1>3, ConcatProperties, Zenon
  <2> QED BY <1>3, <2>1, Zenon
<1>6. \A k \in 1 .. Len(s) : t[k] = s[k]
  BY <1>4
<1>5. ASSUME NEW k \in Len(s) + 1 .. Len(s) + n
      PROVE  t[k] = <<b, pos + (k - Len(s)) - 1>>
  <2>1. t[k] = u[k - Len(s)]
    BY <1>4
  <2>2. k - Len(s) \in 1 .. n
    OBVIOUS
  <2> QED BY <1>2, <2>1, <2>2 DEF u
<1> QED BY <1>4, <1>5, <1>6, Zenon DEF t, u

(* The cap never makes a request longer, wrapped sum or not, and makes it  *)
(* end with the file when the sum does not wrap.                           *)
LEMMA CappedFacts ==
  ASSUME NEW i \in 0 .. num_inodes - 1, NEW o \in 0 .. UINT - 1,
         NEW n \in 0 .. UINT - 1, o < file_length[i]
  PROVE  /\ Capped(i, o, n) \in 0 .. n
         /\ n + o < UINT => Capped(i, o, n) = Smaller(n, file_length[i] - o)
<1>1. file_length[i] \in 0 .. UINT - 1 /\ UINT \in Nat
  BY FsAssumption
<1>2. CASE n + o < UINT
  <2>1. (n + o) % UINT = n + o
    BY <1>2, WordSum
  <2> QED BY <1>1, <1>2, <2>1 DEF Capped, Smaller
<1>3. CASE ~(n + o < UINT)
  <2>1. (n + o) % UINT = n + o - UINT
    BY <1>3, WordSum
  <2> QED BY <1>1, <1>3, <2>1 DEF Capped
<1> QED BY <1>2, <1>3
-----------------------------------------------------------------------------
(* What holds at the head of the loop.                                     *)
LoopInv ==
  pc = "loop" =>
    /\ inode \in 0 .. num_inodes - 1
    /\ offset < file_length[inode]
    /\ length = Capped(inode, offset, asked)
    /\ bytes_written = Len(buf)
    /\ bytes_written <= length
    /\ file_pos = offset + bytes_written
    /\ file_pos = block_num * FS_BLOCK_SIZE + block_pos

(* TypeOK without what follows from LoopInv.                               *)
Types ==
  /\ inode \in Nat /\ offset \in 0 .. UINT - 1 /\ asked \in 0 .. UINT - 1
  /\ length \in 0 .. UINT - 1
  /\ block_num \in 0 .. MAX_DATA_BLOCKS /\ block_pos \in 0 .. FS_BLOCK_SIZE - 1
  /\ file_pos \in Nat /\ bytes_written \in Nat
  /\ buf \in Seq(Places)
  /\ pc \in {"idle", "loop"}
  /\ ret \in Int

ReadInv ==
  /\ Types
  /\ LoopInv
  /\ BufferNotOverrun
  /\ CopiesTheFile
  /\ ReturnsWhatIsLeft

(* While the loop goes on, block_num is an index of data_blocks.           *)
LEMMA BlockNumInRange ==
  ASSUME Types, LoopInv, pc = "loop", LoopCondition
  PROVE  block_num \in 0 .. MAX_DATA_BLOCKS - 1
<1> DEFINE B == FS_BLOCK_SIZE
           M == MAX_DATA_BLOCKS
<1>1. B \in Nat /\ B > 0 /\ M \in Nat
  BY FsAssumption
<1>2. block_num \in 0 .. M /\ block_pos \in Nat
  BY <1>1 DEF Types
<1>3. block_num * B + block_pos < B * M
  <2>1. inode \in 0 .. num_inodes - 1 /\ file_pos = block_num * B + block_pos
    BY DEF LoopInv
  <2>2. file_pos < file_length[inode] /\ file_pos \in Nat
    BY DEF LoopCondition, Types
  <2>3. file_length[inode] \in Nat /\ file_length[inode] <= B * M
    BY <2>1, FsAssumption
  <2>4. B * M \in Int
    BY <1>1
  <2>5. file_pos < B * M
    <3> DEFINE P == B * M
    <3> HIDE DEF P
    <3>1. file_length[inode] <= P /\ P \in Int
      BY <2>3, <2>4 DEF P
    <3>2. file_pos < P
      BY <2>2, <2>3, <3>1
    <3> QED BY <3>2 DEF P
  <2> QED BY <2>1, <2>5, Zenon
<1>4. CASE block_num = M
  <2>1. M * B = B * M
    BY <1>1
  <2> QED BY <1>1, <1>2, <1>3, <1>4, <2>1
<1> QED BY <1>1, <1>2, <1>4

LEMMA TypesImply == Types /\ LoopInv => TypeOK
<1> SUFFICES ASSUME Types, LoopInv PROVE TypeOK
  OBVIOUS
<1>1. ASSUME pc = "loop", LoopCondition PROVE block_num < MAX_DATA_BLOCKS
  <2>1. block_num \in 0 .. MAX_DATA_BLOCKS - 1
    BY <1>1, BlockNumInRange
  <2> QED BY <2>1, FsAssumption
<1>2. ASSUME pc = "loop" PROVE inode < num_inodes
  BY <1>2, FsAssumption DEF LoopInv
<1> QED BY <1>1, <1>2 DEF Types, TypeOK

LEMMA InitInv == Init => ReadInv
<1> SUFFICES ASSUME Init PROVE ReadInv
  OBVIOUS
<1> USE DEF Init
<1>0. FS_BLOCK_SIZE \in Nat \ {0} /\ MAX_DATA_BLOCKS \in Nat /\ UINT \in Nat /\ UINT > 0
  <2>1. FS_BLOCK_SIZE * MAX_DATA_BLOCKS >= 0
    BY FsAssumption
  <2> QED BY <2>1, FsAssumption
<1>1. Types
  BY <1>0 DEF Types
<1>2. LoopInv
  BY DEF LoopInv
<1>3. BufferNotOverrun /\ CopiesTheFile
  BY DEF BufferNotOverrun, CopiesTheFile
<1>4. ReturnsWhatIsLeft
  BY <1>0, FsAssumption DEF ReturnsWhatIsLeft, Smaller
<1> QED BY <1>1, <1>2, <1>3, <1>4 DEF ReadInv

LEMMA CallInv ==
  ASSUME ReadInv, NEW i \in Inodes, NEW o \in Offsets, NEW n \in Lengths,
         read_data(i, o, n)
  PROVE  ReadInv'
<1> DEFINE B == FS_BLOCK_SIZE
           M == MAX_DATA_BLOCKS
<1>0. /\ B \in Nat /\ B > 0 /\ M \in Nat /\ UINT \in Nat /\ num_inodes \in Nat
      /\ i \in 0 .. UINT - 1 /\ o \in 0 .. UINT - 1 /\ n \in 0 .. UINT - 1
  BY FsAssumption
<1>1. /\ inode' = i /\ offset' = o /\ asked' = n /\ buf' = <<>>
      /\ Len(buf') = 0
  BY DEF read_data
<1>2. BufferNotOverrun' /\ CopiesTheFile'
  BY <1>0, <1>1 DEF BufferNotOverrun, CopiesTheFile
<1>3. CASE read_data_returns(i, o, n)
  <2>1. pc' = "idle"
    BY <1>3 DEF read_data, read_data_returns
  <2>2. Types'
    BY <1>0, <1>1, <1>3 DEF ReadInv, Types, read_data_returns
  <2>3. LoopInv'
    BY <2>1 DEF LoopInv
  <2>4. ReturnsWhatIsLeft'
    BY <1>0, <1>1, <1>3, <2>1, FsAssumption
      DEF ReturnsWhatIsLeft, read_data_returns, Smaller
  <2> QED BY <1>2, <2>2, <2>3, <2>4 DEF ReadInv
<1>4. CASE read_data_starts(i, o, n)
  <2>1. i \in 0 .. num_inodes - 1 /\ o < file_length[i]
    BY <1>0, <1>4 DEF read_data_starts
  <2>2. file_length[i] \in Nat /\ file_length[i] <= B * M
    BY <2>1, FsAssumption
  <2>3. Capped(i, o, n) \in 0 .. n
    BY <1>0, <2>1, CappedFacts
  <2> DEFINE q == o \div B
             r == o % B
  <2>4. o = B * q + r /\ q \in Nat /\ r \in 0 .. B - 1
    <3>1. o \in Nat
      BY <1>0
    <3> QED BY <1>0, <3>1, DivMod
  <2>5. q \in 0 .. M
    <3> HIDE DEF q, r
    <3>1. B * q < B * M
      BY <1>0, <2>1, <2>2, <2>4
    <3>2. CASE q >= M
      <4>1. (q - M) * B >= 0
        <5>1. q - M \in Nat
          BY <1>0, <2>4, <3>2
        <5> QED BY <5>1, <1>0
      <4>2. (q - M) * B = B * q - B * M
        BY <1>0, <2>4
      <4> QED BY <3>1, <4>1, <4>2, <1>0, <2>4
    <3> QED BY <1>0, <2>4, <3>2
  <2>6. Types'
    BY <1>0, <1>1, <1>4, <2>3, <2>4, <2>5 DEF ReadInv, Types, read_data_starts
  <2>7. LoopInv'
    <3>1. o = q * B + r
      <4> HIDE DEF q, r
      <4> QED BY <2>4, <1>0
    <3> QED BY <1>0, <1>1, <1>4, <2>1, <2>3, <3>1 DEF LoopInv, read_data_starts
  <2>8. ReturnsWhatIsLeft'
    BY <1>0, <1>1, <1>4, <2>1, <2>2 DEF ReturnsWhatIsLeft, read_data_starts
  <2> QED BY <1>2, <2>6, <2>7, <2>8 DEF ReadInv
<1> QED BY <1>3, <1>4 DEF read_data

(* A request that does not wrap has been capped to what the file has left. *)
LEMMA CappedLength ==
  ASSUME Types, LoopInv, pc = "loop", offset + asked < UINT
  PROVE  length = Smaller(asked, file_length[inode] - offset)
<1>1. /\ inode \in 0 .. num_inodes - 1 /\ offset \in 0 .. UINT - 1
      /\ asked \in 0 .. UINT - 1 /\ offset < file_length[inode]
      /\ UINT \in Nat
  BY FsAssumption DEF Types, LoopInv
<1>2. asked + offset < UINT
  BY <1>1
<1> QED BY <1>1, <1>2, CappedFacts DEF LoopInv

LEMMA BlockInv == ReadInv /\ read_block => ReadInv'
<1> SUFFICES ASSUME ReadInv, read_block PROVE ReadInv'
  OBVIOUS
<1> DEFINE B == FS_BLOCK_SIZE
           M == MAX_DATA_BLOCKS
           b == data_blocks[inode][block_num]
           res == Smaller(NumBytesToCopy, B - block_pos)
<1>0. /\ B \in Nat /\ B > 0 /\ M \in Nat /\ UINT \in Nat
      /\ B * M < UINT
      /\ inode \in 0 .. num_inodes - 1 /\ file_length[inode] \in Nat
      /\ length \in Nat /\ bytes_written \in Nat /\ file_pos \in Nat
      /\ block_num \in Nat /\ block_pos \in 0 .. B - 1
      /\ offset \in Nat /\ asked \in Nat
      /\ pc = "loop" /\ LoopCondition
  BY FsAssumption DEF ReadInv, Types, LoopInv, read_block
<1>1. block_num \in 0 .. M - 1
  BY <1>0, BlockNumInRange DEF ReadInv
<1>2. b \in Nat
  BY <1>0, <1>1, FsAssumption
<1>3. res \in 1 .. B - block_pos /\ bytes_written + res <= length
  BY <1>0 DEF LoopCondition, NumBytesToCopy, Smaller
<1>4. /\ buf \in Seq(Places) /\ bytes_written = Len(buf)
      /\ file_pos = offset + bytes_written
      /\ file_pos = block_num * B + block_pos
      /\ length = Capped(inode, offset, asked)
      /\ offset < file_length[inode]
  BY <1>0 DEF ReadInv, Types, LoopInv
<1>5. block_num * B + B <= B * M
  <2>1. M - 1 - block_num \in Nat
    BY <1>0, <1>1
  <2>2. (M - 1 - block_num) * B >= 0
    BY <2>1, <1>0
  <2>3. (M - 1 - block_num) * B = B * M - B - block_num * B
    BY <1>0
  <2>4. block_num * B \in Int /\ B * M \in Int
    BY <1>0
  <2> QED BY <1>0, <2>2, <2>3, <2>4
<1> HIDE DEF res, b
<1>6. /\ buf' = buf \o BlockBytes(b, block_pos, res)
      /\ bytes_written' = bytes_written + res
      /\ Advance(res)
      /\ UNCHANGED <<inode, offset, asked, length, pc, ret>>
  BY DEF read_block, args, b, res
<1>7. file_pos' = file_pos + res
  <2>1. file_pos + res \in Nat /\ file_pos + res < UINT
    <3> DEFINE P == block_num * B
               Q == B * M
    <3>1. P \in Int /\ Q \in Int /\ P + B <= Q /\ Q < UINT
          /\ file_pos = P + block_pos
      <4>1. P \in Int /\ Q \in Int
        BY <1>0
      <4> QED BY <1>0, <1>4, <1>5, <4>1, Zenon
    <3>2. file_pos \in Nat /\ res \in 1 .. B - block_pos
          /\ B \in Nat /\ block_pos \in Nat /\ UINT \in Nat
      BY <1>0, <1>3
    <3> HIDE DEF P, Q, B
    <3> QED BY <3>1, <3>2
  <2>2. (file_pos + res) % UINT = file_pos + res
    BY <1>0, <2>1, SmallWord
  <2>3. file_pos' = (file_pos + res) % UINT
    BY DEF read_block, res
  <2> QED BY <2>2, <2>3
<1>9. /\ buf' \in Seq(Places) /\ Len(buf') = Len(buf) + res
      /\ \A k \in 1 .. Len(buf) : buf'[k] = buf[k]
      /\ \A k \in Len(buf) + 1 .. Len(buf) + res :
           buf'[k] = <<b, block_pos + (k - Len(buf)) - 1>>
  <2>1. buf' = buf \o BlockBytes(b, block_pos, res)
    BY <1>6
  <2>2. res \in 1 .. FS_BLOCK_SIZE - block_pos
    BY <1>3
  <2>3. /\ buf \in Seq(Places) /\ b \in Nat /\ FS_BLOCK_SIZE \in Nat
        /\ block_pos \in 0 .. FS_BLOCK_SIZE - 1
    BY <1>0, <1>2, <1>4
  <2>4. LET t == buf \o BlockBytes(b, block_pos, res) IN
        /\ t \in Seq(Places) /\ Len(t) = Len(buf) + res
        /\ \A k \in 1 .. Len(buf) : t[k] = buf[k]
        /\ \A k \in Len(buf) + 1 .. Len(buf) + res :
             t[k] = <<b, block_pos + (k - Len(buf)) - 1>>
    BY <2>2, <2>3, AppendedBytes, Zenon
  <2> QED BY <2>1, <2>4, Zenon
<1>10. /\ block_num' \in 0 .. M
       /\ block_pos' \in 0 .. B - 1
       /\ file_pos' = block_num' * B + block_pos'
  <2>1. CASE block_pos + res >= B
    <3>1. block_num' = block_num + 1 /\ block_pos' = 0
      BY <1>0, <1>3, <1>6, <2>1 DEF Advance
    <3>2. (block_num + 1) * B = block_num * B + B
      BY <1>0
    <3> QED BY <1>0, <1>1, <1>3, <1>4, <1>7, <2>1, <3>1, <3>2
  <2>2. CASE block_pos + res < B
    <3>1. block_num' = block_num /\ block_pos' = block_pos + res
      BY <1>0, <1>3, <1>6, <2>2 DEF Advance
    <3>2. block_num * B \in Int
      BY <1>0
    <3> QED BY <1>0, <1>1, <1>3, <1>4, <1>7, <2>2, <3>1, <3>2
  <2> QED BY <1>0, <1>3, <2>1, <2>2
<1>11. Types'
  <2>1. Types
    BY Zenon DEF ReadInv
  <2>2. file_pos' \in Nat /\ bytes_written' \in Nat
    BY <1>0, <1>3, <1>6, <1>7
  <2>3. UNCHANGED <<inode, offset, asked, length, pc, ret>>
    BY <1>6, Zenon
  <2>4. buf' \in Seq(Places)
    BY <1>9, Zenon
  <2> QED BY <1>10, <2>1, <2>2, <2>3, <2>4, Zenon DEF Types
<1>12. LoopInv'
  <2>1. Capped(inode, offset, asked)' = Capped(inode, offset, asked)
    BY <1>6 DEF Capped
  <2>2. bytes_written' = Len(buf')
    BY <1>4, <1>6, <1>9
  <2>3. file_pos' = offset' + bytes_written'
    <3>1. bytes_written' = bytes_written + res /\ offset' = offset
      BY <1>6
    <3>2. offset \in Nat /\ bytes_written \in Nat /\ res \in Int
      BY <1>0, <1>3
    <3>3. file_pos' = file_pos + res /\ file_pos = offset + bytes_written
      BY <1>4, <1>7
    <3> QED BY <3>1, <3>2, <3>3
  <2> QED BY <1>0, <1>3, <1>4, <1>6, <1>10, <2>1, <2>2, <2>3, Zenon DEF LoopInv
<1>13. BufferNotOverrun'
  <2>1. length <= asked
    <3>1. offset \in 0 .. UINT - 1 /\ asked \in 0 .. UINT - 1
      BY DEF ReadInv, Types
    <3>2. Capped(inode, offset, asked) \in 0 .. asked
      BY <1>0, <1>4, <3>1, CappedFacts
    <3> QED BY <1>0, <1>4, <3>2
  <2>2. /\ asked' = asked /\ Len(buf') = bytes_written + res
        /\ bytes_written + res <= length
    BY <1>3, <1>4, <1>6, <1>9
  <2>3. length \in Nat /\ asked \in Nat /\ bytes_written + res \in Int
    BY <1>0, <1>3
  <2> QED BY <2>1, <2>2, <2>3 DEF BufferNotOverrun
<1>14. CopiesTheFile'
  <2> SUFFICES ASSUME NEW k \in 1 .. Len(buf) + res
               PROVE  IsFileByte(inode, offset + k - 1, buf'[k])
    BY <1>6, <1>9, Zenon DEF CopiesTheFile, IsFileByte
  <2>1. CASE k <= Len(buf)
    <3>1. buf'[k] = buf[k] /\ k \in 1 .. Len(buf)
      BY <1>9, <2>1
    <3> QED BY <3>1 DEF ReadInv, CopiesTheFile
  <2>2. CASE k > Len(buf)
    <3> DEFINE p == block_pos + (k - Len(buf)) - 1
    <3>1. buf'[k] = <<b, p>>
      <4>1. Len(buf) \in Nat
        BY <1>4
      <4>2. k \in Len(buf) + 1 .. Len(buf) + res
        BY <1>3, <2>2, <4>1
      <4> QED BY <1>9, <4>2, Zenon
    <3>2. p \in 0 .. B - 1
      <4>1. /\ B \in Nat /\ block_pos \in Nat /\ res \in 1 .. B - block_pos
            /\ Len(buf) \in Nat
        BY <1>0, <1>3, <1>4
      <4> HIDE DEF B
      <4> QED BY <2>2, <4>1
    <3>3. offset + k - 1 = block_num * B + p
      <4> DEFINE P == block_num * B
      <4>1. P \in Int /\ offset + Len(buf) = P + block_pos
        <5>1. P \in Int
          BY <1>0
        <5> QED BY <1>4, <5>1, Zenon
      <4>2. offset \in Nat /\ Len(buf) \in Nat /\ block_pos \in Nat
        BY <1>0, <1>4
      <4> HIDE DEF P
      <4>3. offset + k - 1 = P + p
        BY <4>1, <4>2
      <4> QED BY <4>3 DEF P
    <3> QED BY <1>1, <3>1, <3>2, <3>3 DEF IsFileByte, b
  <2> QED BY <1>3, <1>4, <2>1, <2>2
<1>15. ReturnsWhatIsLeft'
  <2>1. ASSUME offset + asked < UINT
        PROVE  length = Smaller(asked, file_length[inode] - offset)
    BY <1>0, <2>1, CappedLength DEF ReadInv
  <2>2. pc' # "idle" /\ Len(buf') <= length
    BY <1>0, <1>3, <1>4, <1>6, <1>9
  <2>3. Len(buf') \in Nat
    BY <1>9
  <2>4. ASSUME offset + asked < UINT
        PROVE  offset + Len(buf') <= file_length[inode]
    <3>1. length <= file_length[inode] - offset
      <4>1. /\ asked \in Nat /\ file_length[inode] - offset \in Int
            /\ length = Smaller(asked, file_length[inode] - offset)
        BY <1>0, <2>1, <2>4
      <4> QED BY <4>1 DEF Smaller
    <3>2. /\ offset \in Nat /\ length \in Nat /\ Len(buf') \in Nat
          /\ file_length[inode] \in Nat /\ Len(buf') <= length
      BY <1>0, <2>2, <2>3
    <3> QED BY <3>1, <3>2
  <2>5. inode' = inode /\ offset' = offset /\ asked' = asked
    BY <1>6
  <2> QED BY <2>2, <2>4, <2>5, Zenon DEF ReturnsWhatIsLeft
<1> QED BY <1>11, <1>12, <1>13, <1>14, <1>15 DEF ReadInv

LEMMA EndInv == ReadInv /\ (read_block_fails \/ read_data_done) => ReadInv'
<1> SUFFICES ASSUME ReadInv, read_block_fails \/ read_data_done PROVE ReadInv'
  OBVIOUS
<1> USE DEF args
<1>1. /\ pc = "loop" /\ pc' = "idle"
      /\ UNCHANGED <<inode, offset, asked, length, block_num, file_pos,
                     block_pos, bytes_written, buf>>
      /\ \/ ret' = -1
         \/ ret' = bytes_written /\ ~LoopCondition
  BY DEF read_block_fails, read_data_done
<1>2. Types' /\ LoopInv'
  BY <1>1 DEF ReadInv, Types, LoopInv
<1>3. BufferNotOverrun' /\ CopiesTheFile'
  BY <1>1, Zenon DEF ReadInv, BufferNotOverrun, CopiesTheFile, IsFileByte
<1>4. ReturnsWhatIsLeft'
  <2>1. ASSUME offset + asked < UINT
        PROVE  length = Smaller(asked, file_length[inode] - offset)
    BY <1>1, <2>1, CappedLength DEF ReadInv
  <2>2. /\ inode \in 0 .. num_inodes - 1 /\ file_length[inode] \in Nat
        /\ bytes_written = Len(buf) /\ bytes_written <= length
        /\ file_pos = offset + bytes_written
        /\ offset \in Nat /\ asked \in Nat /\ length \in Nat
        /\ bytes_written \in Nat
    BY <1>1, FsAssumption DEF ReadInv, Types, LoopInv
  <2>5. ASSUME offset + asked < UINT
        PROVE  offset + Len(buf) <= file_length[inode]
    <3>1. length <= file_length[inode] - offset
      BY <2>1, <2>2, <2>5 DEF Smaller
    <3> QED BY <2>2, <3>1
  <2>6. inode' = inode /\ offset' = offset /\ asked' = asked /\ buf' = buf
    BY <1>1
  <2>3. CASE ret' = -1
    <3>1. ~(ret' >= 0)
      BY <2>3
    <3> QED BY <2>5, <2>6, <3>1, Zenon DEF ReturnsWhatIsLeft
  <2>4. CASE ret' = bytes_written /\ ~LoopCondition
    <3>1. ret' = Len(buf)
      BY <2>2, <2>4
    <3>2. bytes_written >= length \/ offset + bytes_written >= file_length[inode]
      BY <2>2, <2>4 DEF LoopCondition
    <3>3. ASSUME offset + asked < UINT
          PROVE  Len(buf) = Smaller(asked, file_length[inode] - offset)
      <4>1. length = Smaller(asked, file_length[inode] - offset)
        BY <2>1, <3>3
      <4>2. length <= file_length[inode] - offset
        BY <2>2, <4>1 DEF Smaller
      <4>3. bytes_written = length
        BY <2>2, <3>2, <4>2
      <4> QED BY <2>2, <4>1, <4>3, Zenon
    <3> QED BY <2>5, <2>6, <3>1, <3>3, Zenon DEF ReturnsWhatIsLeft
  <2> QED BY <1>1, <2>3, <2>4
<1> QED BY <1>2, <1>3, <1>4 DEF ReadInv

(* The invariant the theorems below rest on: at the head of the loop, the  *)
(* position in the file, the number of bytes stored and the pair of block  *)
(* number and offset in the block agree.                                   *)
THEOREM Invariance == Spec => []ReadInv
<1>1. ReadInv /\ [Next]_vars => ReadInv'
  <2> SUFFICES ASSUME ReadInv, [Next]_vars PROVE ReadInv'
    OBVIOUS
  <2>1. CASE UNCHANGED vars
    <3>1. UNCHANGED <<inode, offset, asked, length, block_num, file_pos,
                      block_pos, bytes_written, buf, pc, ret>>
      BY <2>1 DEF vars
    <3>2. Types' /\ LoopInv'
      BY <3>1 DEF ReadInv, Types, LoopInv
    <3>3. BufferNotOverrun' /\ CopiesTheFile' /\ ReturnsWhatIsLeft'
      BY <3>1, SMTT(30) DEF ReadInv, BufferNotOverrun, CopiesTheFile, IsFileByte,
                  ReturnsWhatIsLeft
    <3> QED BY <3>2, <3>3 DEF ReadInv
  <2>2. CASE Next
    BY <2>2, CallInv, BlockInv, EndInv DEF Next
  <2> QED BY <2>1, <2>2
<1> QED BY InitInv, <1>1, PTL DEF Spec

(* No copy leaves a data block, and block_num is an index of the inode's   *)
(* array whenever the loop uses it.                                        *)
THEOREM TypeCorrect == Spec => []TypeOK
<1>1. ReadInv => TypeOK
  BY TypesImply DEF ReadInv
<1> QED BY <1>1, Invariance, PTL

(* read_data stores the bytes of the file from the offset on, in order, at *)
(* most as many as were asked for.                                         *)
THEOREM CopiesRightBytes == Spec => [](CopiesTheFile /\ BufferNotOverrun)
<1>1. ReadInv => CopiesTheFile /\ BufferNotOverrun
  BY DEF ReadInv
<1> QED BY <1>1, Invariance, PTL

(* read_data returns what it stored: all that was asked for, or all that   *)
(* the file has left.                                                      *)
THEOREM ReturnValue == Spec => []ReturnsWhatIsLeft
<1>1. ReadInv => ReturnsWhatIsLeft
  BY DEF ReadInv
<1> QED BY <1>1, Invariance, PTL
-----------------------------------------------------------------------------
(* grep.                                                                   *)

(* The characters, with those the program itself writes.                   *)
Chars == STRING \cup {"NUL", "nl", "?", "g", "r", "e", "p", "sp"}

(* The lines printed, pr, are those of lines whose places are in marked    *)
(* and before q; at has their places.                                      *)
PlacesOf(at, marked, lines, pr, q) ==
  /\ at \in [1 .. Len(pr) -> marked]
  /\ \A i, j \in 1 .. Len(pr) : i < j => at[i] < at[j]
  /\ \A p \in marked : p < q => \E i \in 1 .. Len(pr) : at[i] = p
  /\ \A i \in 1 .. Len(pr) : at[i] < q /\ pr[i] = lines[at[i]]
Listed(marked, lines, pr, q) == \E at : PlacesOf(at, marked, lines, pr, q)

Lines == [p \in Starts |-> Line(p)]

Hypothesis == clean /\ pattern # <<>> /\ ShortLines

(* The number of bytes of the file that lie before the buffer.             *)
Base == fd_pos - last

GrepTypes ==
  /\ text \in Seq(Chars) /\ \A k \in 1 .. Len(text) : text[k] # "NUL"
  /\ pattern \in Seq(Chars) /\ \A k \in 1 .. Len(pattern) : pattern[k] # "NUL"
  /\ search = pattern
  /\ dir_pos \in 0 .. 3 /\ fd_pos \in Nat /\ last \in 0 .. BUFSIZE
  /\ line_start \in Nat /\ read_cnt \in Nat
  /\ data \in [0 .. BUFSIZE -> Chars] /\ printed \in Seq(Seq(Chars))
  /\ gpc \in {"read", "line"} =>
       dir_pos \in {2, 3} /\ last <= fd_pos /\ fd_pos <= Len(Contents)
  /\ gpc = "read" => last < BUFSIZE
  /\ gpc = "line" => line_start < last \/ line_start = 0

(* The clock, which is empty, is searched before the file.                 *)
ClockSearched ==
  /\ dir_pos = 2 /\ last = 0 /\ fd_pos = 0 /\ printed = <<>>
  /\ gpc = "line" => line_start = 0 /\ read_cnt = 0

(* All before the buffer is searched; it holds the start of a line.        *)
BetweenReads ==
  /\ Base + 1 \in Starts \/ (last = 0 /\ fd_pos = Len(text))
  /\ \A k \in 0 .. last - 1 : data[k] = text[Base + k + 1] /\ data[k] # "nl"
  /\ data[BUFSIZE] # "nl"
  /\ Listed(Matching, Lines, printed, Base + 1)

(* All before line_start is searched; the buffer holds the text from there *)
(* on, all of it unless it is full.                                        *)
BetweenLines ==
  /\ Base + line_start + 1 \in Starts \/ (last = 0 /\ fd_pos = Len(text))
  /\ \A k \in line_start .. last - 1 : data[k] = text[Base + k + 1]
  /\ read_cnt = 0 \/ last < BUFSIZE => fd_pos = Len(text)
  /\ data[BUFSIZE] # "nl"
  /\ Listed(Matching, Lines, printed, Base + line_start + 1)

GrepInv ==
  /\ GrepTypes
  /\ gpc = "main" => \/ dir_pos <= 2 /\ printed = <<>>
                     \/ /\ dir_pos = 3
                        /\ Hypothesis => Listed(Matching, Lines, printed, Len(text) + 1)
  /\ gpc = "done" /\ Hypothesis => Listed(Matching, Lines, printed, Len(text) + 1)
  /\ gpc = "read" => ClockSearched \/ (dir_pos = 3 /\ (Hypothesis => BetweenReads))
  /\ gpc = "line" => ClockSearched \/ (dir_pos = 3 /\ (Hypothesis => BetweenLines))
-----------------------------------------------------------------------------
(* Sequences over a set are sequences over a larger one.                   *)
LEMMA LargerSeq ==
  ASSUME NEW S, NEW T, S \subseteq T
  PROVE  Seq(S) \subseteq Seq(T)
  OBVIOUS

(* What the texts and the patterns are made of.                            *)
LEMMA CharsAre ==
  /\ {"NUL", "nl", "?", "g", "r", "e", "p", "sp"} \subseteq Chars
  /\ Garbage \subseteq Chars
  /\ \A s \in Patterns \cup Texts :
       s \in Seq(Chars) /\ \A k \in 1 .. Len(s) : s[k] # "NUL"
<1>1. /\ {"NUL", "nl", "?", "g", "r", "e", "p", "sp"} \subseteq Chars
      /\ Garbage \subseteq Chars
  BY Zenon DEF Chars, Garbage
<1>2. \A s \in Seq(STRING) : s \in Seq(Chars)
  <2>1. STRING \subseteq Chars
    BY Zenon DEF Chars
  <2> QED BY <2>1, LargerSeq, Zenon
<1> QED BY <1>1, <1>2, GrepAssumption, Zenon

LEMMA HasLeast ==
  ASSUME NEW S, S \subseteq Nat, S # {}
  PROVE  \E m \in S : \A n \in S : m <= n
<1> DEFINE R == {ss \in Nat \X Nat : ss[1] < ss[2]}
<1>1. IsWellFoundedOn(R, Nat)
  BY NatLessThanWellFounded, Zenon DEF OpToRel
<1> HIDE DEF R
<1>2. PICK m \in S : \A n \in S : ~(<<n, m>> \in R)
  BY <1>1, WFMin, Zenon
<1>3. ASSUME NEW n \in S PROVE m <= n
  <2>1. ~(<<n, m>> \in R) /\ n \in Nat /\ m \in Nat
    BY <1>2, Zenon
  <2>2. ~(n < m)
    BY <2>1, Zenon DEF R
  <2> QED BY <2>1, <2>2
<1> QED BY <1>3, Zenon

(* The search for the first place from a on that has a property, given as  *)
(* the set of places that have it.                                         *)
LEMMA FirstPlace ==
  ASSUME NEW a \in Nat, NEW b \in Nat, NEW S, b \in S, a <= b
  PROVE  \E k \in a .. b : k \in S /\ \A j \in a .. k - 1 : j \notin S
<1> DEFINE H == {k \in a .. b : k \in S}
<1>1. H \subseteq Nat /\ H # {}
  OBVIOUS
<1>2. PICK m \in H : \A n \in H : m <= n
  BY <1>1, HasLeast, Zenon
<1>3. ASSUME NEW j \in a .. m - 1 PROVE j \notin S
  BY <1>2
<1> QED BY <1>2, <1>3, Zenon
-----------------------------------------------------------------------------
(* The string functions.                                                   *)
LEMMA StringLength ==
  ASSUME NEW d, NEW a \in Nat, NEW b \in a .. BUFSIZE,
         d[b] = "NUL", \A j \in a .. b - 1 : d[j] # "NUL"
  PROVE  ece391_strlen(d, a) = b - a
<1> DEFINE P(k) == d[k] = "NUL" /\ \A j \in a .. k - 1 : d[j] # "NUL"
           c == CHOOSE k \in a .. BUFSIZE : P(k)
<1>1. P(b)
  BY Zenon
<1>2. c \in a .. BUFSIZE /\ P(c)
  BY <1>1, Zenon
<1>3. c = b
  <2> HIDE DEF c
  <2> QED BY <1>2, GrepAssumption
<1> QED BY <1>3, Zenon DEF ece391_strlen

LEMMA StringLengthBound ==
  ASSUME NEW d, NEW a \in Nat, NEW b \in a .. BUFSIZE, d[b] = "NUL"
  PROVE  ece391_strlen(d, a) \in 0 .. b - a
<1> DEFINE S == {k \in Nat : d[k] = "NUL"}
<1>0. a \in Nat /\ b \in Nat /\ b \in S /\ a <= b
  BY GrepAssumption
<1>1. PICK k \in a .. b : k \in S /\ \A j \in a .. k - 1 : j \notin S
  BY <1>0, FirstPlace, ZenonT(30)
<1>2. k \in a .. BUFSIZE /\ d[k] = "NUL" /\ \A j \in a .. k - 1 : d[j] # "NUL"
  BY <1>1, GrepAssumption
<1>3. ece391_strlen(d, a) = k - a
  BY <1>2, StringLength, Zenon
<1> QED BY <1>1, <1>3

LEMMA Stored ==
  ASSUME NEW d \in [0 .. BUFSIZE -> Chars], NEW k \in 0 .. BUFSIZE
  PROVE  /\ [d EXCEPT ![k] = "NUL"] \in [0 .. BUFSIZE -> Chars]
         /\ [d EXCEPT ![k] = "NUL"][k] = "NUL"
         /\ \A j \in 0 .. BUFSIZE : j # k => [d EXCEPT ![k] = "NUL"][j] = d[j]
  BY CharsAre, Zenon

(* The copy of a string of the buffer down to its start.                   *)
LEMMA StringCopy ==
  ASSUME NEW d \in [0 .. BUFSIZE -> Chars], NEW a \in Nat, NEW b \in a .. BUFSIZE,
         d[b] = "NUL"
  PROVE  /\ ece391_strcpy(d, 0, a) \in [0 .. BUFSIZE -> Chars]
         /\ (\A j \in a .. b - 1 : d[j] # "NUL") =>
              /\ \A k \in 0 .. b - a : ece391_strcpy(d, 0, a)[k] = d[a + k]
              /\ \A k \in b - a + 1 .. BUFSIZE : ece391_strcpy(d, 0, a)[k] = d[k]
<1> DEFINE n == ece391_strlen(d, a)
<1>1. n \in 0 .. b - a
  BY StringLengthBound, Zenon
<1>2. ece391_strcpy(d, 0, a)
        = [k \in 0 .. BUFSIZE |-> IF k \in 0 .. 0 + n THEN d[a + k - 0] ELSE d[k]]
  BY Zenon DEF ece391_strcpy
<1>3. (\A j \in a .. b - 1 : d[j] # "NUL") => n = b - a
  BY StringLength, Zenon
<1> HIDE DEF n
<1>4. ASSUME NEW k \in 0 .. BUFSIZE, k \in 0 .. 0 + n PROVE d[a + k - 0] \in Chars
  BY <1>1, <1>4, GrepAssumption
<1>5. ece391_strcpy(d, 0, a) \in [0 .. BUFSIZE -> Chars]
  BY <1>2, <1>4, Zenon
<1>6. ASSUME \A j \in a .. b - 1 : d[j] # "NUL", NEW k \in 0 .. BUFSIZE
      PROVE  ece391_strcpy(d, 0, a)[k] = IF k <= b - a THEN d[a + k] ELSE d[k]
  BY <1>2, <1>3, <1>6, GrepAssumption
<1> QED BY <1>5, <1>6, GrepAssumption
-----------------------------------------------------------------------------
(* The loop over a line stops at its newline or at the end of the data.    *)
LEMMA LineEnd ==
  ASSUME GrepTypes, gpc = "line"
  PROVE  /\ line_start \in 0 .. last /\ line_end \in line_start .. last
         /\ line_end = last \/ data[line_end] = "nl"
         /\ \A j \in line_start .. line_end - 1 : data[j] # "nl"
<1> DEFINE S == {k \in Nat : k >= last \/ data[k] = "nl"}
           P(k) == /\ k >= last \/ data[k] = "nl"
                   /\ \A j \in line_start .. k - 1 : j < last /\ data[j] # "nl"
<1>1. /\ line_start \in Nat /\ last \in Nat /\ last \in S /\ line_start <= last
      /\ last <= BUFSIZE /\ BUFSIZE \in Nat
  BY GrepAssumption DEF GrepTypes
<1>2. PICK k \in line_start .. last : k \in S /\ \A j \in line_start .. k - 1 : j \notin S
  BY <1>1, FirstPlace, Zenon
<1>3. k \in line_start .. BUFSIZE /\ P(k)
  BY <1>1, <1>2
<1>4. line_end \in line_start .. BUFSIZE /\ P(line_end)
  BY <1>3, Zenon DEF line_end
<1> QED BY <1>1, <1>4

(* The end of a line of the text is its newline or the end of the text.    *)
LEMMA EndFound ==
  ASSUME text \in Seq(Chars), NEW p \in 1 .. Len(text) + 1
  PROVE  /\ End(p) \in p .. Len(text) + 1
         /\ End(p) = Len(text) + 1 \/ text[End(p)] = "nl"
         /\ \A j \in p .. End(p) - 1 : text[j] # "nl"
<1> DEFINE S == {k \in Nat : k = Len(text) + 1 \/ text[k] = "nl"}
           P(e) == /\ e = Len(text) + 1 \/ text[e] = "nl"
                   /\ \A j \in p .. e - 1 : text[j] # "nl"
<1>1. p \in Nat /\ Len(text) + 1 \in Nat /\ Len(text) + 1 \in S /\ p <= Len(text) + 1
  BY LenProperties
<1>2. PICK k \in p .. Len(text) + 1 : k \in S /\ \A j \in p .. k - 1 : j \notin S
  BY <1>1, FirstPlace, Zenon
<1>3. k \in p .. Len(text) + 1 /\ P(k)
  BY <1>1, <1>2
<1>4. End(p) \in p .. Len(text) + 1 /\ P(End(p))
  BY <1>3, Zenon DEF End
<1> QED BY <1>4, Zenon

LEMMA EndIs ==
  ASSUME text \in Seq(Chars), NEW p \in 1 .. Len(text) + 1, NEW e \in p .. Len(text) + 1,
         e = Len(text) + 1 \/ text[e] = "nl",
         \A j \in p .. e - 1 : text[j] # "nl"
  PROVE  End(p) = e
<1>1. /\ End(p) \in p .. Len(text) + 1
      /\ End(p) = Len(text) + 1 \/ text[End(p)] = "nl"
      /\ \A j \in p .. End(p) - 1 : text[j] # "nl"
  BY EndFound, Zenon
<1>2. Len(text) \in Nat
  BY LenProperties, Zenon
<1> QED BY <1>1, <1>2

(* No line starts inside another one.                                      *)
LEMMA NextStart ==
  ASSUME text \in Seq(Chars), NEW q \in 1 .. Len(text) + 1, NEW p \in Starts, q < p
  PROVE  End(q) < p
<1>1. /\ End(q) \in q .. Len(text) + 1
      /\ \A j \in q .. End(q) - 1 : text[j] # "nl"
  BY EndFound, Zenon
<1>2. p \in 1 .. Len(text) + 1 /\ (p = 1 \/ text[p - 1] = "nl") /\ Len(text) \in Nat
  BY LenProperties, Zenon DEF Starts
<1> QED BY <1>1, <1>2

LEMMA LineIs ==
  ASSUME text \in Seq(Chars), NEW p \in 1 .. Len(text) + 1
  PROVE  /\ Line(p) \in Seq(Chars) /\ Len(Line(p)) = End(p) - p
         /\ \A i \in 1 .. End(p) - p : Line(p)[i] = text[p + i - 1]
<1>1. End(p) \in p .. Len(text) + 1 /\ Len(text) \in Nat
  BY EndFound, LenProperties, Zenon
<1> DEFINE n == End(p) - 1
<1>2. n \in p - 1 .. Len(text)
  BY <1>1
<1>3. /\ SubSeq(text, p, n) \in Seq(Chars)
      /\ Len(SubSeq(text, p, n)) = n - p + 1
      /\ \A i \in 1 .. n - p + 1 : SubSeq(text, p, n)[i] = text[p + i - 1]
  BY <1>2, SubSeqProperties
<1>4. n - p + 1 = End(p) - p
  BY <1>1
<1> QED BY <1>3, <1>4, Zenon DEF Line
-----------------------------------------------------------------------------
(* What is printed.                                                        *)
LEMMA ListedNone ==
  ASSUME NEW M, NEW F, NEW q, \A p \in M : ~(p < q)
  PROVE  Listed(M, F, <<>>, q)
<1> DEFINE at == [i \in 1 .. 0 |-> 1]
<1>1. Len(<<>>) = 0 /\ 1 .. 0 = {} /\ at \in [1 .. 0 -> M]
  OBVIOUS
<1> HIDE DEF at
<1>2. PlacesOf(at, M, F, <<>>, q)
  BY <1>1, Zenon DEF PlacesOf
<1> QED BY <1>2, Zenon DEF Listed

LEMMA ListedSkip ==
  ASSUME NEW M, M \subseteq Nat, NEW F, NEW pr, NEW q \in Nat, NEW r \in Nat,
         Listed(M, F, pr, q), q <= r, \A p \in M : q <= p => r <= p
  PROVE  Listed(M, F, pr, r)
<1>1. PICK at : PlacesOf(at, M, F, pr, q)
  BY Zenon DEF Listed
<1>2. \A p \in M : p < r => p < q
  OBVIOUS
<1>3. ASSUME NEW i \in 1 .. Len(pr) PROVE at[i] < r
  <2>1. at[i] \in M /\ at[i] < q
    BY <1>1, Zenon DEF PlacesOf
  <2>2. at[i] \in Nat
    BY <2>1, Zenon
  <2> QED BY <2>1, <2>2
<1>4. PlacesOf(at, M, F, pr, r)
  BY <1>1, <1>2, <1>3, Zenon DEF PlacesOf
<1> QED BY <1>4, Zenon DEF Listed

LEMMA ListedAdd ==
  ASSUME NEW M, M \subseteq Nat, NEW F, NEW S, NEW pr \in Seq(S), NEW q \in M,
         NEW r \in Nat, Listed(M, F, pr, q), q < r, \A p \in M : q < p => r <= p,
         F[q] \in S
  PROVE  Listed(M, F, Append(pr, F[q]), r)
<1>1. PICK at : PlacesOf(at, M, F, pr, q)
  BY Zenon DEF Listed
<1> DEFINE n == Len(pr)
           new == Append(pr, F[q])
           nat == [i \in 1 .. n + 1 |-> IF i = n + 1 THEN q ELSE at[i]]
<1>2. /\ n \in Nat /\ Len(new) = n + 1 /\ new[n + 1] = F[q]
      /\ \A i \in 1 .. n : new[i] = pr[i]
  BY AppendProperties, LenProperties
<1>a. /\ at \in [1 .. n -> M] /\ \A i, j \in 1 .. n : i < j => at[i] < at[j]
      /\ \A p \in M : p < q => \E i \in 1 .. n : at[i] = p
      /\ \A i \in 1 .. n : at[i] < q /\ pr[i] = F[at[i]]
  BY <1>1, Zenon DEF PlacesOf
<1> HIDE DEF new, n
<1>3. nat \in [1 .. n + 1 -> M]
  BY <1>2, <1>a
<1>4. nat[n + 1] = q /\ \A i \in 1 .. n : nat[i] = at[i]
  BY <1>2
<1> HIDE DEF nat
<1>b. \A i \in 1 .. n + 1 : i = n + 1 \/ i \in 1 .. n
  BY <1>2
<1>c. n + 1 \in 1 .. n + 1 /\ \A i \in 1 .. n : i \in 1 .. n + 1
  BY <1>2
<1>5. ASSUME NEW i \in 1 .. n + 1, NEW j \in 1 .. n + 1, i < j PROVE nat[i] < nat[j]
  <2>1. i \in 1 .. n
    BY <1>2, <1>5
  <2>2. nat[i] = at[i] /\ at[i] < q
    BY <1>4, <1>a, <2>1, Zenon
  <2>3. CASE j = n + 1
    BY <1>4, <2>2, <2>3, Zenon
  <2>4. CASE j \in 1 .. n
    BY <1>4, <1>5, <1>a, <2>1, <2>4, Zenon
  <2> QED BY <1>b, <2>3, <2>4, Zenon
<1>6. ASSUME NEW p \in M, p < r PROVE \E i \in 1 .. n + 1 : nat[i] = p
  <2>1. p = q \/ p < q
    BY <1>6
  <2>2. CASE p = q
    BY <1>4, <1>c, <2>2, Zenon
  <2>3. CASE p < q
    BY <1>4, <1>a, <1>c, <2>3, Zenon
  <2> QED BY <2>1, <2>2, <2>3, Zenon
<1>7. ASSUME NEW i \in 1 .. n + 1 PROVE nat[i] < r /\ new[i] = F[nat[i]]
  <2>1. CASE i = n + 1
    BY <1>2, <1>4, <2>1, Zenon
  <2>2. CASE i \in 1 .. n
    <3>1. at[i] \in M /\ at[i] < q /\ pr[i] = F[at[i]]
      BY <1>a, <2>2, Zenon
    <3>2. at[i] < r
      <4>1. at[i] \in Nat /\ q \in Nat
        BY <3>1, Zenon
      <4> QED BY <3>1, <4>1
    <3> QED BY <1>2, <1>4, <2>2, <3>1, <3>2, Zenon
  <2> QED BY <1>b, <2>1, <2>2, Zenon
<1>8. PlacesOf(nat, M, F, new, r)
  BY <1>2, <1>3, <1>5, <1>6, <1>7, Zenon DEF PlacesOf
<1> QED BY <1>8, Zenon DEF Listed, new
-----------------------------------------------------------------------------
(* The search of a line that lies in the buffer from s to e, where the text *)
(* has it b places further on.                                             *)
LEMMA SearchFinds ==
  ASSUME GrepTypes, pattern # <<>>, NEW d, NEW b \in Nat, NEW s \in Nat,
         NEW e \in s .. BUFSIZE, d[e] = "NUL", b + e <= Len(text),
         \A k \in s .. e - 1 : d[k] = text[b + k + 1], End(b + s + 1) = b + e + 1
  PROVE  Holds(Line(b + s + 1)) <=>
           \E check \in s .. e - 1 : /\ search # <<>> /\ search[1] = d[check]
                                     /\ ece391_strncmp_equal(d, check, search)
<1> DEFINE m == Len(pattern)
           n == Len(text)
           line == Line(b + s + 1)
<1>1. /\ m \in Nat /\ m # 0 /\ n \in Nat /\ BUFSIZE \in Nat
      /\ text \in Seq(Chars) /\ search = pattern
      /\ \A k \in 1 .. m : pattern[k] # "NUL"
  BY LenProperties, EmptySeq, GrepAssumption, Zenon DEF GrepTypes
<1>2. b + s + 1 \in 1 .. Len(text) + 1
  BY <1>1
<1>3. Len(line) = e - s /\ \A i \in 1 .. e - s : line[i] = text[b + s + i]
  <2>1. /\ Len(line) = End(b + s + 1) - (b + s + 1)
        /\ \A i \in 1 .. End(b + s + 1) - (b + s + 1) : line[i] = text[b + s + 1 + i - 1]
    BY <1>1, <1>2, LineIs, Zenon
  <2>2. End(b + s + 1) - (b + s + 1) = e - s
    BY <1>1
  <2> HIDE DEF line
  <2> QED BY <2>1, <2>2
<1> HIDE DEF line, m, n
<1>4. ASSUME NEW i \in 1 .. e - s PROVE line[i] = d[s + i - 1]
  BY <1>1, <1>3, <1>4
<1>5. ASSUME NEW check \in s .. e - 1, ece391_strncmp_equal(d, check, pattern)
      PROVE  Holds(line)
  <2>1. \A k \in 1 .. m : d[check + k - 1] = pattern[k]
    BY <1>5, Zenon DEF ece391_strncmp_equal, m
  <2>2. check + m <= e
    <3> SUFFICES ASSUME check + m > e PROVE FALSE
      BY <1>1
    <3> DEFINE i == e - check + 1
    <3>1. i \in 1 .. m /\ check + i - 1 = e
      BY <1>1
    <3> HIDE DEF i
    <3> QED BY <1>1, <2>1, <3>1, Zenon
  <2> DEFINE k == check - s
  <2>3. k \in 0 .. Len(line) - m
    BY <1>1, <1>3, <2>2
  <2>4. ASSUME NEW j \in 1 .. m PROVE line[k + j] = pattern[j]
    <3>1. k + j \in 1 .. e - s /\ s + (k + j) - 1 = check + j - 1
      BY <1>1, <2>2
    <3> HIDE DEF k
    <3> QED BY <1>4, <2>1, <3>1, Zenon
  <2> HIDE DEF k
  <2> QED BY <2>3, <2>4, Zenon DEF Holds, m
<1>6. ASSUME Holds(line)
      PROVE  \E check \in s .. e - 1 : /\ pattern[1] = d[check]
                                       /\ ece391_strncmp_equal(d, check, pattern)
  <2>1. PICK k \in 0 .. Len(line) - m : \A j \in 1 .. m : line[k + j] = pattern[j]
    BY <1>6, Zenon DEF Holds, m
  <2> DEFINE check == s + k
  <2>2. k \in Nat /\ k + m <= e - s /\ check \in s .. e - 1
    BY <1>1, <1>3, <2>1
  <2>3. ASSUME NEW j \in 1 .. m PROVE check + j - 1 <= BUFSIZE /\ d[check + j - 1] = pattern[j]
    <3>1. k + j \in 1 .. e - s /\ s + (k + j) - 1 = check + j - 1
      BY <1>1, <2>2
    <3>2. line[k + j] = d[s + (k + j) - 1]
      BY <1>4, <3>1, Zenon
    <3>3. check + j - 1 <= BUFSIZE
      BY <1>1, <2>2
    <3> QED BY <2>1, <3>1, <3>2, <3>3, Zenon
  <2>4. pattern[1] = d[check]
    <3>1. 1 \in 1 .. m /\ check + 1 - 1 = check
      BY <1>1, <2>2
    <3> HIDE DEF check
    <3> QED BY <2>3, <3>1, Zenon
  <2> HIDE DEF check
  <2> QED BY <2>2, <2>3, <2>4, Zenon DEF ece391_strncmp_equal, m
<1> QED BY <1>1, <1>5, <1>6, Zenon DEF line

LEMMA SearchPrints ==
  ASSUME GrepTypes, NEW d, NEW b \in Nat, NEW s \in Nat,
         NEW e \in s .. BUFSIZE, d[e] = "NUL", b + e <= Len(text),
         \A k \in s .. e - 1 : d[k] = text[b + k + 1], End(b + s + 1) = b + e + 1
  PROVE  StringAt(d, s) = Line(b + s + 1)
<1> DEFINE line == Line(b + s + 1)
<1>1. /\ Len(text) \in Nat /\ BUFSIZE \in Nat /\ text \in Seq(Chars)
      /\ \A k \in 1 .. Len(text) : text[k] # "NUL"
  BY LenProperties, GrepAssumption, Zenon DEF GrepTypes
<1>2. b + s + 1 \in 1 .. Len(text) + 1
  BY <1>1
<1>3. ASSUME NEW k \in s .. e - 1 PROVE d[k] # "NUL"
  BY <1>1
<1>4. ece391_strlen(d, s) = e - s
  BY <1>3, StringLength
<1>5. /\ line \in Seq(Chars) /\ Len(line) = End(b + s + 1) - (b + s + 1)
      /\ \A i \in 1 .. End(b + s + 1) - (b + s + 1) : line[i] = text[b + s + 1 + i - 1]
  BY <1>1, <1>2, LineIs, Zenon
<1>6. End(b + s + 1) - (b + s + 1) = e - s
  BY <1>1
<1> HIDE DEF line
<1>7. ASSUME NEW i \in 1 .. e - s PROVE line[i] = d[s + i - 1]
  BY <1>1, <1>5, <1>6
<1>8. line = [i \in 1 .. e - s |-> line[i]]
  BY <1>5, <1>6
<1>9. StringAt(d, s) = [i \in 1 .. e - s |-> d[s + i - 1]]
  BY <1>4, Zenon DEF StringAt
<1> QED BY <1>7, <1>8, <1>9, Zenon DEF line
-----------------------------------------------------------------------------
LEMMA DirectoryIs ==
  /\ Len(directory) = 3
  /\ directory[1] = "." /\ directory[2] = "rtc" /\ directory[3] = "file"
  BY Zenon DEF directory

LEMMA ContentsIs ==
  /\ dir_pos = 2 => Contents = <<>> /\ Len(Contents) = 0
  /\ dir_pos = 3 => Contents = text
  BY DirectoryIs DEF Contents

(* The lines of the text and the pattern stay what they are.               *)
LEMMA SameLines ==
  ASSUME UNCHANGED <<text, pattern>>
  PROVE  UNCHANGED <<Starts, Matching, Lines, ShortLines>>
<1>1. Starts' = Starts
  BY Zenon DEF Starts
<1>2. \A p : End(p)' = End(p)
  BY Zenon DEF End
<1>3. \A p : Line(p)' = Line(p)
  BY <1>2, Zenon DEF Line
<1>4. ShortLines' = ShortLines
  BY <1>1, <1>2 DEF ShortLines
<1>5. Matching' = Matching
  <2>1. \A p : Holds(Line(p))' <=> Holds(Line(p))
    BY <1>3, ZenonT(30) DEF Holds
  <2> QED BY <1>1, <2>1, Zenon DEF Matching
<1>6. Lines' = Lines
  BY <1>1, <1>3, Zenon DEF Lines
<1> QED BY <1>1, <1>4, <1>5, <1>6, Zenon

LEMMA MainKeeps == GrepInv /\ main => GrepInv'
<1> SUFFICES ASSUME GrepInv, main PROVE GrepInv'
  BY Zenon
<1>1. /\ gpc = "main" /\ GrepTypes
      /\ UNCHANGED <<search, pattern, text, line_start, read_cnt, printed>>
      /\ \/ dir_pos <= 2 /\ printed = <<>>
         \/ dir_pos = 3 /\ (Hypothesis => Listed(Matching, Lines, printed, Len(text) + 1))
  BY Zenon DEF main, GrepInv
<1>2. dir_pos \in 0 .. 3 /\ BUFSIZE \in Nat \ {0} /\ text \in Seq(Chars) /\ Len(text) \in Nat
  BY <1>1, GrepAssumption, LenProperties, Zenon DEF GrepTypes
<1>s. UNCHANGED <<Starts, Matching, Lines, ShortLines>>
  BY <1>1, SameLines, Zenon
<1>3. CASE dir_pos = 3
  <2>1. gpc' = "done" /\ UNCHANGED <<dir_pos, fd_pos, data, last, clean>>
    BY <1>3, DirectoryIs, Zenon DEF main
  <2>2. GrepTypes'
    BY <1>1, <2>1, Zenon DEF GrepTypes
  <2>3. Hypothesis' => Listed(Matching, Lines, printed, Len(text) + 1)'
    BY <1>1, <1>3, <1>s, <2>1, SMTT(30) DEF Hypothesis
  <2> QED BY <2>1, <2>2, <2>3, Zenon DEF GrepInv
<1>4. CASE dir_pos = 0
  <2>1. dir_pos' = 1 /\ UNCHANGED <<gpc, fd_pos, data, last, clean>>
    BY <1>4, DirectoryIs DEF main
  <2>2. GrepTypes'
    BY <1>1, <2>1 DEF GrepTypes
  <2> QED BY <1>1, <1>4, <2>1, <2>2 DEF GrepInv
<1>5. CASE dir_pos \in {1, 2}
  <2>1. PICK g \in Garbage, h \in Garbage :
          /\ dir_pos' = dir_pos + 1 /\ gpc' = "read" /\ fd_pos' = 0 /\ last' = 0
          /\ data' = [k \in 0 .. BUFSIZE |-> IF k < BUFSIZE THEN g ELSE h]
          /\ clean' = (h # "nl")
    BY <1>5, DirectoryIs DEF main
  <2>2. /\ data' \in [0 .. BUFSIZE -> Chars] /\ data'[BUFSIZE] = h
    BY <1>2, <2>1, CharsAre
  <2>3. Len(Contents') \in Nat
    BY <1>1, <1>2, <1>5, <2>1, DirectoryIs, Zenon DEF Contents
  <2>4. GrepTypes'
    <3>1. /\ dir_pos' \in 0 .. 3 /\ dir_pos' \in {2, 3} /\ fd_pos' \in Nat
          /\ last' \in 0 .. BUFSIZE /\ last' < BUFSIZE /\ last' <= fd_pos'
          /\ fd_pos' <= Len(Contents') /\ gpc' = "read"
      BY <1>2, <1>5, <2>1, <2>3, SMTT(30)
    <3> QED BY <1>1, <2>2, <3>1, Zenon DEF GrepTypes
  <2>5. CASE dir_pos = 1
    BY <1>1, <2>1, <2>4, <2>5, SMTT(30) DEF GrepInv, ClockSearched
  <2>6. CASE dir_pos = 2
    <3>1. ASSUME Hypothesis' PROVE BetweenReads'
      <4>1. data'[BUFSIZE] # "nl"
        BY <2>1, <2>2, <3>1, Zenon DEF Hypothesis
      <4>2. Base' = 0
        BY <2>1 DEF Base
      <4>3. Base' + 1 \in Starts'
        BY <1>2, <1>s, <4>2 DEF Starts
      <4>4. \A p \in Matching : ~(p < 1)
        BY DEF Matching, Starts
      <4>5. Listed(Matching, Lines, printed, 1)
        BY <1>1, <2>6, <4>4, ListedNone
      <4>6. Listed(Matching, Lines, printed, 1)'
        BY <1>1, <1>s, <4>5, Zenon
      <4> QED BY <2>1, <4>1, <4>2, <4>3, <4>6 DEF BetweenReads
    <3> QED BY <2>1, <2>4, <2>6, <3>1 DEF GrepInv
  <2> QED BY <1>5, <2>5, <2>6, Zenon
<1> QED BY <1>2, <1>3, <1>4, <1>5

LEMMA ReadKeeps == GrepInv /\ read => GrepInv'
<1> SUFFICES ASSUME GrepInv, read PROVE GrepInv'
  OBVIOUS
<1> DEFINE n == Lesser(BUFSIZE - last, Len(Contents) - fd_pos)
<1>1. /\ gpc = "read" /\ gpc' = "line" /\ GrepTypes
      /\ UNCHANGED <<search, pattern, text, clean, dir_pos, printed>>
      /\ ClockSearched \/ (dir_pos = 3 /\ (Hypothesis => BetweenReads))
  BY Zenon DEF read, GrepInv
<1>2. /\ read_cnt' = n /\ last' = last + n /\ fd_pos' = fd_pos + n /\ line_start' = 0
      /\ data' = [k \in 0 .. BUFSIZE |-> IF k \in last .. last + n - 1
                    THEN Contents[fd_pos + k - last + 1] ELSE data[k]]
  BY Zenon DEF read
<1>3. /\ dir_pos \in {2, 3} /\ BUFSIZE \in Nat \ {0} /\ fd_pos \in Nat /\ last \in Nat
      /\ text \in Seq(Chars) /\ Len(text) \in Nat
      /\ last <= fd_pos /\ fd_pos <= Len(Contents) /\ last < BUFSIZE
      /\ data \in [0 .. BUFSIZE -> Chars]
  BY <1>1, GrepAssumption, LenProperties DEF GrepTypes
<1>4. Contents \in Seq(Chars) /\ Len(Contents) \in Nat /\ Contents' = Contents
  BY <1>1, <1>3, ContentsIs DEF Contents
<1>5. /\ n \in Nat /\ last + n <= BUFSIZE /\ fd_pos + n <= Len(Contents)
      /\ last + n < BUFSIZE \/ n = 0 => fd_pos + n = Len(Contents)
  BY <1>3, <1>4 DEF Lesser
<1> HIDE DEF n
<1>6. data' \in [0 .. BUFSIZE -> Chars]
  <2>1. ASSUME NEW k \in 0 .. BUFSIZE, k \in last .. last + n - 1
        PROVE  Contents[fd_pos + k - last + 1] \in Chars
    <3>1. fd_pos + k - last + 1 \in 1 .. Len(Contents)
      BY <1>3, <1>4, <1>5, <2>1
    <3> QED BY <1>4, <3>1, ElementOfSeq, Zenon
  <2> QED BY <1>2, <1>3, <2>1, Zenon
<1>7. GrepTypes'
  <2>1. /\ dir_pos' \in {2, 3} /\ last' <= fd_pos' /\ fd_pos' <= Len(Contents')
        /\ last' \in 0 .. BUFSIZE /\ fd_pos' \in Nat /\ line_start' = 0 /\ read_cnt' \in Nat
    BY <1>1, <1>2, <1>3, <1>4, <1>5
  <2> QED BY <1>1, <1>6, <2>1, Zenon DEF GrepTypes
<1>8. CASE ClockSearched
  <2>1. n = 0
    BY <1>3, <1>5, <1>8, ContentsIs, SMTT(30) DEF ClockSearched
  <2>2. ClockSearched'
    BY <1>1, <1>2, <1>8, <2>1 DEF ClockSearched
  <2> QED BY <1>1, <1>7, <2>2, Zenon DEF GrepInv
<1>9. CASE dir_pos = 3 /\ (Hypothesis => BetweenReads)
  <2>1. ASSUME Hypothesis' PROVE BetweenLines'
    <3>s. UNCHANGED <<Starts, Matching, Lines, ShortLines>>
      BY <1>1, SameLines, Zenon
    <3>1. BetweenReads
      BY <1>1, <1>9, <2>1, <3>s, Zenon DEF Hypothesis
    <3>2. Contents = text
      BY <1>9, ContentsIs, Zenon
    <3>3. Base' = Base /\ Base \in Nat
      BY <1>2, <1>3, <1>5 DEF Base
    <3>4. Base' + line_start' + 1 = Base + 1
      BY <1>2, <3>3
    <3>5. Base + 1 \in Starts \/ (last' = 0 /\ fd_pos' = Len(text))
      BY <1>2, <1>3, <1>5, <3>1, <3>2, SMTT(30) DEF BetweenReads
    <3>6. ASSUME NEW k \in 0 .. last' - 1 PROVE data'[k] = text[Base + k + 1]
      <4>1. k \in 0 .. BUFSIZE /\ k \in Nat
        BY <1>2, <1>3, <1>5, <3>6
      <4>2. CASE k \in last .. last + n - 1
        <5>1. fd_pos + k - last + 1 = Base + k + 1
          BY <1>3, <4>1, SMTT(30) DEF Base
        <5> QED BY <1>2, <3>2, <4>1, <4>2, <5>1, Zenon
      <4>3. CASE k \in 0 .. last - 1
        BY <1>2, <1>3, <3>1, <4>1, <4>3, SMTT(30) DEF BetweenReads
      <4> QED BY <1>2, <1>3, <1>5, <3>6, <4>2, <4>3, SMTT(30)
    <3>7. data'[BUFSIZE] # "nl"
      BY <1>2, <1>3, <1>5, <3>1 DEF BetweenReads
    <3>8. Listed(Matching, Lines, printed, Base + 1)'
      BY <1>1, <3>1, <3>3, <3>s, Zenon DEF BetweenReads
    <3>9. read_cnt' = 0 \/ last' < BUFSIZE => fd_pos' = Len(text')
      BY <1>1, <1>2, <1>5, <3>2, Zenon
    <3> QED BY <1>1, <1>2, <3>3, <3>4, <3>5, <3>6, <3>7, <3>8, <3>9, <3>s, ZenonT(30)
            DEF BetweenLines
  <2> QED BY <1>1, <1>7, <1>9, <2>1, Zenon DEF GrepInv
<1> QED BY <1>1, <1>8, <1>9, Zenon

LEMMA CarryKeeps == GrepInv /\ carry => GrepInv'
<1> SUFFICES ASSUME GrepInv, carry PROVE GrepInv'
  OBVIOUS
<1> DEFINE d == [data EXCEPT ![line_end] = "NUL"]
<1>1. /\ gpc = "line" /\ gpc' = "read" /\ GrepTypes /\ Partial
      /\ UNCHANGED <<search, pattern, text, clean, dir_pos, fd_pos, line_start>>
      /\ UNCHANGED <<read_cnt, printed>>
      /\ data' = ece391_strcpy(d, 0, line_start) /\ last' = last - line_start
      /\ ClockSearched \/ (dir_pos = 3 /\ (Hypothesis => BetweenLines))
  BY Zenon DEF carry, GrepInv
<1>2. /\ BUFSIZE \in Nat \ {0} /\ fd_pos \in Nat /\ last \in 0 .. BUFSIZE /\ line_start \in Nat
      /\ text \in Seq(Chars) /\ Len(text) \in Nat /\ read_cnt # 0
      /\ last <= fd_pos /\ fd_pos <= Len(Contents) /\ 0 < line_start /\ line_start < last
      /\ data \in [0 .. BUFSIZE -> Chars]
      /\ \A k \in 1 .. Len(text) : text[k] # "NUL"
  BY <1>1, GrepAssumption, LenProperties DEF GrepTypes, Partial
<1>3. line_end = last /\ \A j \in line_start .. last - 1 : data[j] # "nl"
  <2>1. /\ line_end = last \/ data[line_end] = "nl"
        /\ \A j \in line_start .. line_end - 1 : data[j] # "nl"
    BY <1>1, LineEnd, Zenon
  <2>2. line_end = last
    BY <1>1, <2>1, Zenon DEF Partial
  <2> QED BY <2>1, <2>2, Zenon
<1>4. /\ d \in [0 .. BUFSIZE -> Chars] /\ d[last] = "NUL"
      /\ \A k \in 0 .. BUFSIZE : k # last => d[k] = data[k]
  BY <1>2, <1>3, Stored, Zenon
<1> HIDE DEF d
<1>5. /\ data' \in [0 .. BUFSIZE -> Chars]
      /\ (\A j \in line_start .. last - 1 : d[j] # "NUL") =>
           /\ \A k \in 0 .. last - line_start : data'[k] = d[line_start + k]
           /\ \A k \in last - line_start + 1 .. BUFSIZE : data'[k] = d[k]
  <2>1. last \in line_start .. BUFSIZE
    BY <1>2
  <2> DEFINE c == ece391_strcpy(d, 0, line_start)
  <2>2. /\ c \in [0 .. BUFSIZE -> Chars]
        /\ (\A j \in line_start .. last - 1 : d[j] # "NUL") =>
             /\ \A k \in 0 .. last - line_start : c[k] = d[line_start + k]
             /\ \A k \in last - line_start + 1 .. BUFSIZE : c[k] = d[k]
    <3>1. line_start \in Nat
      BY <1>2, Zenon
    <3> QED BY <1>4, <2>1, <3>1, StringCopy, ZenonT(30)
  <2> QED BY <1>1, <2>2, Zenon
<1>6. dir_pos = 3 /\ (Hypothesis => BetweenLines)
  BY <1>1, <1>2, Zenon DEF ClockSearched
<1>7. Contents = text /\ Contents' = Contents
  BY <1>1, <1>6, ContentsIs, Zenon DEF Contents
<1>8. GrepTypes'
  <2>1. /\ last' \in 0 .. BUFSIZE /\ last' < BUFSIZE /\ last' <= fd_pos'
    BY <1>1, <1>2
  <2> QED BY <1>1, <1>2, <1>5, <1>6, <1>7, <2>1, ZenonT(30) DEF GrepTypes
<1>9. ASSUME Hypothesis' PROVE BetweenReads'
  <2>s. UNCHANGED <<Starts, Matching, Lines, ShortLines>>
    BY <1>1, SameLines, Zenon
  <2>1. BetweenLines
    BY <1>1, <1>6, <1>9, <2>s, Zenon DEF Hypothesis
  <2>2. Base' = Base + line_start /\ Base \in Nat
    BY <1>1, <1>2 DEF Base
  <2>3. Base + line_start + 1 \in Starts
    BY <1>2, <2>1 DEF BetweenLines
  <2>4. ASSUME NEW j \in line_start .. last - 1
        PROVE  d[j] = text[Base + j + 1] /\ d[j] # "NUL" /\ d[j] # "nl"
    <3>1. j \in 0 .. BUFSIZE /\ j # last /\ Base + j + 1 \in 1 .. Len(text)
      BY <1>2, <1>7, <2>2 DEF Base
    <3>2. d[j] = data[j] /\ data[j] = text[Base + j + 1]
      BY <1>4, <2>1, <3>1, Zenon DEF BetweenLines
    <3> QED BY <1>2, <1>3, <3>1, <3>2, Zenon
  <2>5. /\ \A k \in 0 .. last - line_start : data'[k] = d[line_start + k]
        /\ \A k \in last - line_start + 1 .. BUFSIZE : data'[k] = d[k]
    BY <1>5, <2>4, Zenon
  <2>6. ASSUME NEW k \in 0 .. last' - 1
        PROVE  data'[k] = text[Base' + k + 1] /\ data'[k] # "nl"
    <3> DEFINE j == line_start + k
    <3>1. /\ j \in line_start .. last - 1 /\ Base' + k + 1 = Base + j + 1
          /\ k \in 0 .. last - line_start
      BY <1>1, <1>2, <2>2
    <3>2. data'[k] = d[j]
      BY <2>5, <3>1, Zenon
    <3> HIDE DEF j
    <3> QED BY <2>4, <3>1, <3>2, Zenon
  <2>7. data'[BUFSIZE] # "nl"
    <3>1. data'[BUFSIZE] = d[BUFSIZE]
      BY <1>2, <2>5
    <3>2. d[BUFSIZE] = "NUL" \/ d[BUFSIZE] = data[BUFSIZE]
      BY <1>2, <1>4
    <3> QED BY <2>1, <3>1, <3>2, Zenon DEF BetweenLines
  <2>8. Listed(Matching, Lines, printed, Base + 1)'
    <3>1. Listed(Matching, Lines, printed, Base + line_start + 1)
      BY <2>1, Zenon DEF BetweenLines
    <3> QED BY <1>1, <2>2, <2>s, <3>1, Zenon
  <2>9. Base' + 1 \in Starts'
    BY <2>2, <2>3, <2>s, Zenon
  <2> QED BY <1>1, <2>6, <2>7, <2>8, <2>9, Zenon DEF BetweenReads
<1> QED BY <1>1, <1>6, <1>8, <1>9, Zenon DEF GrepInv

(* The search of one line, which the buffer holds to its end.              *)
LEMMA SearchOne ==
  ASSUME GrepTypes, search_line, dir_pos = 3, Hypothesis, BetweenLines, last # 0
  PROVE  /\ line_end < last => Base + line_end + 2 \in Starts
         /\ line_end = last => fd_pos = Len(text)
         /\ Listed(Matching, Lines, printed',
                   Base + line_end + 1 + IF line_end < last THEN 1 ELSE 0)
<1> DEFINE e == line_end
           q == Base + line_start + 1
           r == Base + e + 1 + IF e < last THEN 1 ELSE 0
           found == \E check \in line_start .. e - 1 :
                      /\ search # <<>> /\ search[1] = data'[check]
                      /\ ece391_strncmp_equal(data', check, search)
<1>1. /\ gpc = "line" /\ ~Partial /\ data' = [data EXCEPT ![e] = "NUL"]
      /\ printed' = IF found THEN Append(printed, StringAt(data', line_start)) ELSE printed
  BY Zenon DEF search_line
<1>2. /\ BUFSIZE \in Nat \ {0} /\ fd_pos \in Nat /\ last \in 0 .. BUFSIZE /\ line_start \in Nat
      /\ text \in Seq(Chars) /\ Len(text) \in Nat /\ pattern # <<>>
      /\ last <= fd_pos /\ fd_pos <= Len(text) /\ line_start < last
      /\ data \in [0 .. BUFSIZE -> Chars] /\ printed \in Seq(Seq(Chars))
  BY <1>1, GrepAssumption, LenProperties, ContentsIs DEF GrepTypes, Hypothesis
<1>3. /\ e \in line_start .. last
      /\ e = last \/ data[e] = "nl"
      /\ \A j \in line_start .. e - 1 : data[j] # "nl"
  BY <1>1, LineEnd, Zenon
<1> HIDE DEF e
<1>4. /\ q \in Starts /\ data[BUFSIZE] # "nl" /\ Listed(Matching, Lines, printed, q)
      /\ \A k \in line_start .. last - 1 : data[k] = text[Base + k + 1]
      /\ read_cnt = 0 \/ last < BUFSIZE => fd_pos = Len(text)
  BY <1>2, Zenon DEF BetweenLines
<1>5. Base \in Nat /\ Base + last = fd_pos /\ q \in 1 .. Len(text) + 1 /\ q \in Nat
  BY <1>2 DEF Base
<1>6. ASSUME NEW j \in q .. Base + e PROVE text[j] # "nl"
  <2> DEFINE k == j - Base - 1
  <2>1. k \in line_start .. e - 1 /\ k \in line_start .. last - 1 /\ Base + k + 1 = j
    BY <1>2, <1>3, <1>5
  <2> HIDE DEF k
  <2> QED BY <1>3, <1>4, <2>1, Zenon
<1>7. ASSUME e = last PROVE fd_pos = Len(text)
  <2> SUFFICES ASSUME fd_pos # Len(text) PROVE FALSE
    BY Zenon
  <2>1. last = BUFSIZE /\ read_cnt # 0
    BY <1>2, <1>4
  <2>2. line_start = 0
    BY <1>1, <1>4, <1>7, <2>1, Zenon DEF Partial, e
  <2>3. End(q) - q < BUFSIZE
    BY <1>4, Zenon DEF Hypothesis, ShortLines
  <2>4. End(q) \in q .. Len(text) + 1 /\ (End(q) = Len(text) + 1 \/ text[End(q)] = "nl")
    BY <1>2, <1>5, EndFound, ZenonT(30)
  <2>5. End(q) \in q .. Base + e /\ End(q) # Len(text) + 1
    BY <1>2, <1>5, <1>7, <2>1, <2>2, <2>3, <2>4, SMTT(30)
  <2> QED BY <1>6, <2>4, <2>5, Zenon
<1>8. /\ Base + e + 1 \in q .. Len(text) + 1
      /\ Base + e + 1 = Len(text) + 1 \/ text[Base + e + 1] = "nl"
  <2>1. CASE e = last
    <3>1. fd_pos = Len(text)
      BY <1>7, <2>1, Zenon
    <3> QED BY <1>2, <1>5, <2>1, <3>1
  <2>2. CASE e # last
    <3>1. e \in line_start .. last - 1
      BY <1>2, <1>3, <2>2
    <3>2. text[Base + e + 1] = "nl"
      BY <1>3, <1>4, <2>2, <3>1, Zenon
    <3> QED BY <1>2, <1>5, <3>1, <3>2, SMTT(30)
  <2> QED BY <2>1, <2>2, Zenon
<1>9. End(q) = Base + e + 1
  <2>1. \A j \in q .. (Base + e + 1) - 1 : text[j] # "nl"
    BY <1>2, <1>3, <1>5, <1>6
  <2> HIDE DEF q
  <2> QED BY <1>2, <1>5, <1>8, <2>1, EndIs, ZenonT(30)
<1>10. e < last => Base + e + 2 \in Starts
  <2> SUFFICES ASSUME e < last PROVE Base + e + 2 \in Starts
    BY Zenon
  <2>1. data[e] = "nl" /\ e \in line_start .. last - 1
    BY <1>2, <1>3
  <2>2. text[Base + e + 1] = "nl"
    BY <1>4, <2>1, Zenon
  <2>3. Base + e + 2 \in 1 .. Len(text) + 1 /\ (Base + e + 2) - 1 = Base + e + 1
    BY <1>2, <1>5, <2>1, SMTT(30)
  <2> QED BY <2>2, <2>3, Zenon DEF Starts
<1>11. r \in Nat /\ q < r /\ r <= End(q) + 1
  BY <1>2, <1>3, <1>5, <1>9
<1>12. ASSUME NEW p \in Matching, q < p PROVE r <= p
  <2>0. p \in Starts /\ p \in Nat
    BY <1>2 DEF Matching, Starts
  <2>1. End(q) < p
    <3> HIDE DEF q
    <3> QED BY <1>2, <1>5, <1>12, <2>0, NextStart, Zenon
  <2>2. End(q) \in Nat
    BY <1>2, <1>3, <1>5, <1>9, SMTT(30)
  <2> HIDE DEF q, r
  <2> QED BY <1>11, <2>0, <2>1, <2>2, SMTT(30)
<1>13. /\ data'[e] = "NUL" /\ e \in line_start .. BUFSIZE /\ Base + e <= Len(text)
       /\ \A k \in line_start .. e - 1 : data'[k] = text[Base + k + 1]
  BY <1>1, <1>2, <1>3, <1>4, <1>5
<1>14. found <=> Holds(Line(q))
  <2> DEFINE D == data'
  <2>1. D[e] = "NUL" /\ \A k \in line_start .. e - 1 : D[k] = text[Base + k + 1]
    BY <1>13, Zenon
  <2> HIDE DEF D
  <2>2. Holds(Line(Base + line_start + 1)) <=>
           \E check \in line_start .. e - 1 : /\ search # <<>> /\ search[1] = D[check]
                                     /\ ece391_strncmp_equal(D, check, search)
    BY <1>2, <1>5, <1>9, <1>13, <2>1, SearchFinds, ZenonT(30)
  <2> QED BY <2>2, Zenon DEF D
<1>15. StringAt(data', line_start) = Line(q)
  <2> DEFINE D == data'
  <2>1. D[e] = "NUL" /\ \A k \in line_start .. e - 1 : D[k] = text[Base + k + 1]
    BY <1>13
  <2> HIDE DEF D
  <2>2. StringAt(D, line_start) = Line(Base + line_start + 1)
    BY <1>2, <1>5, <1>9, <1>13, <2>1, SearchPrints, ZenonT(30)
  <2> QED BY <2>2, Zenon DEF D
<1> HIDE DEF q, r, found
<1>16. Listed(Matching, Lines, printed', r)
  <2>1. CASE found
    <3>1. q \in Matching /\ printed' = Append(printed, Lines[q])
      BY <1>1, <1>4, <1>14, <1>15, <2>1, Zenon DEF Matching, Lines
    <3>3. Lines[q] \in Seq(Chars) /\ Matching \subseteq Nat
      BY <1>2, <1>4, <1>5, LineIs, SMTT(30) DEF Lines, Matching, Starts
    <3>2. Listed(Matching, Lines, Append(printed, Lines[q]), r)
      BY <1>2, <1>4, <1>11, <1>12, <3>1, <3>3, ListedAdd, ZenonT(30)
    <3> QED BY <3>1, <3>2, Zenon
  <2>2. CASE ~found
    <3>1. q \notin Matching /\ printed' = printed
      BY <1>1, <1>14, <2>2, Zenon DEF Matching
    <3>2. ASSUME NEW p \in Matching, q <= p PROVE r <= p
      <4>1. p \in Nat /\ p # q
        BY <1>2, <3>1 DEF Matching, Starts
      <4> QED BY <1>5, <1>12, <3>2, <4>1, SMTT(30)
    <3>3. Listed(Matching, Lines, printed, r)
      <4>1. q <= r
        BY <1>5, <1>11
      <4>2. Matching \subseteq Nat
        BY <1>2 DEF Matching, Starts
      <4> QED BY <1>4, <1>5, <1>11, <3>2, <4>1, <4>2, ListedSkip, ZenonT(30)
    <3> QED BY <3>1, <3>3, Zenon
  <2> QED BY <2>1, <2>2, Zenon
<1> QED BY <1>7, <1>10, <1>16, Zenon DEF e, r

LEMMA SearchTypes ==
  ASSUME GrepTypes, search_line
  PROVE  /\ GrepTypes' /\ line_end \in line_start .. last /\ line_start' = line_end + 1
         /\ data' = [data EXCEPT ![line_end] = "NUL"]
         /\ UNCHANGED <<search, pattern, text, clean, dir_pos, fd_pos, read_cnt>>
         /\ \/ line_start' < last /\ gpc' = "line" /\ last' = last
            \/ /\ ~(line_start' < last) /\ last' = 0
               /\ gpc' = IF read_cnt = 0 THEN "main" ELSE "read"
<1> DEFINE e == line_end
<1>1. /\ gpc = "line" /\ data' = [data EXCEPT ![e] = "NUL"] /\ line_start' = e + 1
      /\ printed' = Append(printed, StringAt(data', line_start)) \/ printed' = printed
      /\ UNCHANGED <<search, pattern, text, clean, dir_pos, fd_pos, read_cnt>>
  BY Zenon DEF search_line
<1>2. \/ line_start' < last /\ gpc' = "line" /\ last' = last
      \/ ~(line_start' < last) /\ last' = 0 /\ gpc' = IF read_cnt = 0 THEN "main" ELSE "read"
  BY <1>1, Zenon DEF search_line
<1>3. e \in line_start .. last
  BY <1>1, LineEnd, Zenon
<1> HIDE DEF e
<1>4. /\ last \in 0 .. BUFSIZE /\ line_start \in Nat /\ BUFSIZE \in Nat \ {0}
      /\ data \in [0 .. BUFSIZE -> Chars] /\ printed \in Seq(Seq(Chars))
      /\ dir_pos \in {2, 3} /\ last <= fd_pos /\ fd_pos <= Len(Contents) /\ fd_pos \in Nat
  BY <1>1, GrepAssumption, Zenon DEF GrepTypes
<1>5. data' \in [0 .. BUFSIZE -> Chars] /\ data'[e] = "NUL"
  <2>1. e \in 0 .. BUFSIZE
    BY <1>3, <1>4
  <2> QED BY <1>1, <1>4, <2>1, Stored, Zenon
<1>6. StringAt(data', line_start) \in Seq(Chars)
  <2> DEFINE D == data'
             n == ece391_strlen(D, line_start)
  <2>0. D[e] = "NUL" /\ D \in [0 .. BUFSIZE -> Chars]
    BY <1>5, Zenon
  <2> HIDE DEF D
  <2>1. n \in 0 .. e - line_start
    <3>1. e \in line_start .. BUFSIZE
      BY <1>3, <1>4
    <3> QED BY <1>4, <2>0, <3>1, StringLengthBound, Zenon
  <2>2. StringAt(D, line_start) = [k \in 1 .. n |-> D[line_start + k - 1]]
    BY Zenon DEF StringAt
  <2> HIDE DEF n
  <2>3. ASSUME NEW k \in 1 .. n PROVE D[line_start + k - 1] \in Chars
    BY <1>3, <1>4, <2>0, <2>1
  <2>4. n \in Nat
    BY <2>1
  <2> QED BY <2>2, <2>3, <2>4 DEF D
<1>7. printed' \in Seq(Seq(Chars))
  <2> DEFINE w == StringAt(data', line_start)
  <2>1. w \in Seq(Chars) /\ (printed' = Append(printed, w) \/ printed' = printed)
    BY <1>1, <1>6, Zenon
  <2> HIDE DEF w
  <2>2. Append(printed, w) \in Seq(Seq(Chars))
    BY <1>4, <2>1, AppendProperties, Zenon
  <2> QED BY <1>4, <2>1, <2>2, Zenon
<1>8. Contents' = Contents
  BY <1>1, Zenon DEF Contents
<1>9. /\ last' \in 0 .. BUFSIZE /\ line_start' \in Nat /\ last' <= fd_pos'
      /\ gpc' = "read" => last' < BUFSIZE
      /\ gpc' = "line" => line_start' < last' \/ line_start' = 0
  BY <1>1, <1>2, <1>3, <1>4
<1>10. GrepTypes'
  BY <1>1, <1>4, <1>5, <1>7, <1>8, <1>9, Zenon DEF GrepTypes
<1> QED BY <1>1, <1>2, <1>3, <1>10, Zenon DEF e

LEMMA SearchKeeps == GrepInv /\ search_line => GrepInv'
<1> SUFFICES ASSUME GrepInv, search_line PROVE GrepInv'
  OBVIOUS
<1> DEFINE e == line_end
<1>1. /\ gpc = "line" /\ GrepTypes
      /\ ClockSearched \/ (dir_pos = 3 /\ (Hypothesis => BetweenLines))
  BY Zenon DEF search_line, GrepInv
<1>2. /\ GrepTypes' /\ e \in line_start .. last /\ line_start' = e + 1
      /\ data' = [data EXCEPT ![e] = "NUL"]
      /\ UNCHANGED <<search, pattern, text, clean, dir_pos, fd_pos, read_cnt>>
      /\ \/ line_start' < last /\ gpc' = "line" /\ last' = last
         \/ /\ ~(line_start' < last) /\ last' = 0
            /\ gpc' = IF read_cnt = 0 THEN "main" ELSE "read"
  BY <1>1, SearchTypes, Zenon
<1>3. /\ BUFSIZE \in Nat \ {0} /\ fd_pos \in Nat /\ last \in 0 .. BUFSIZE /\ line_start \in Nat
      /\ text \in Seq(Chars) /\ Len(text) \in Nat /\ read_cnt \in Nat
      /\ last <= fd_pos /\ fd_pos <= Len(Contents) /\ dir_pos \in {2, 3}
      /\ data \in [0 .. BUFSIZE -> Chars]
  BY <1>1, GrepAssumption, LenProperties, Zenon DEF GrepTypes
<1>4. last = 0 => e = 0 /\ line_start = 0 /\ printed' = printed
  <2> SUFFICES ASSUME last = 0 PROVE e = 0 /\ line_start = 0 /\ printed' = printed
    BY Zenon
  <2>1. e = 0 /\ line_start = 0
    BY <1>2, <1>3
  <2>2. line_start .. line_end - 1 = {}
    BY <2>1, SMTT(30)
  <2> QED BY <2>1, <2>2, Zenon DEF search_line
<1> HIDE DEF e
<1>5. CASE ClockSearched
  <2>1. gpc' = "main" /\ dir_pos' = 2 /\ printed' = <<>>
    BY <1>1, <1>2, <1>4, <1>5 DEF ClockSearched
  <2> QED BY <1>2, <2>1 DEF GrepInv
<1>6. CASE dir_pos = 3 /\ (Hypothesis => BetweenLines)
  <2>s. UNCHANGED <<Starts, Matching, Lines, ShortLines>>
    BY <1>2, SameLines, Zenon
  <2>0. Contents = text
    BY <1>6, ContentsIs
  <2>1. ASSUME Hypothesis'
        PROVE  /\ BetweenLines
               /\ e < last => Base + e + 2 \in Starts
               /\ e = last => fd_pos = Len(text)
               /\ Listed(Matching, Lines, printed', Base + e + 1 + IF e < last THEN 1 ELSE 0)
    <3>1. Hypothesis /\ BetweenLines
      BY <1>2, <1>6, <2>1, <2>s, Zenon DEF Hypothesis
    <3>2. CASE last = 0
      <4>1. Listed(Matching, Lines, printed', Base + 1) /\ fd_pos = Len(text) /\ Base \in Nat
        BY <1>3, <1>4, <3>1, <3>2 DEF BetweenLines, Base
      <4> QED BY <1>4, <3>1, <3>2, <4>1, SMTT(30)
    <3>3. CASE last # 0
      BY <1>1, <1>6, <3>1, <3>3, SearchOne, Zenon DEF e
    <3> QED BY <3>2, <3>3, Zenon
  <2>2. Base \in Nat /\ Base + last = fd_pos
    BY <1>3 DEF Base
  <2>3. ASSUME Hypothesis' PROVE data'[BUFSIZE] # "nl"
    <3>1. data[BUFSIZE] # "nl"
      BY <2>1, <2>3, Zenon DEF BetweenLines
    <3> QED BY <1>2, <1>3, <3>1
  <2>4. CASE line_start' < last /\ gpc' = "line" /\ last' = last
    <3>1. ASSUME Hypothesis' PROVE BetweenLines'
      <4>1. e < last /\ Base' = Base /\ Base + e + 2 = Base' + line_start' + 1
        BY <1>2, <1>3, <2>2, <2>4 DEF Base
      <4>2. Base' + line_start' + 1 \in Starts'
        BY <2>1, <2>s, <3>1, <4>1, Zenon
      <4>3. Listed(Matching, Lines, printed, Base + line_start + 1)'
        <5>1. Base + e + 1 + (IF e < last THEN 1 ELSE 0) = Base' + line_start' + 1
          BY <1>2, <1>3, <2>2, <4>1
        <5>2. Listed(Matching, Lines, printed', Base + e + 1 + IF e < last THEN 1 ELSE 0)
          BY <2>1, <3>1, Zenon
        <5> QED BY <2>s, <5>1, <5>2, Zenon
      <4>4. BetweenLines
        BY <2>1, <3>1, Zenon
      <4>5. ASSUME NEW k \in line_start' .. last' - 1 PROVE data'[k] = text[Base + k + 1]
        <5>1. k \in line_start .. last - 1 /\ k # e /\ k \in 0 .. BUFSIZE
          BY <1>2, <1>3, <2>4
        <5> QED BY <1>2, <1>3, <4>4, <5>1, ZenonT(30) DEF BetweenLines
      <4>6. read_cnt' = 0 \/ last' < BUFSIZE => fd_pos' = Len(text')
        BY <1>2, <2>4, <4>4, Zenon DEF BetweenLines
      <4>7. data'[BUFSIZE] # "nl"
        BY <2>3, <3>1, Zenon
      <4> QED BY <1>2, <4>1, <4>2, <4>3, <4>5, <4>6, <4>7, ZenonT(30) DEF BetweenLines
    <3> QED BY <1>2, <1>6, <2>4, <3>1, Zenon DEF GrepInv
  <2>5. CASE /\ ~(line_start' < last) /\ last' = 0
             /\ gpc' = IF read_cnt = 0 THEN "main" ELSE "read"
    <3>1. /\ e = last \/ (e < last /\ e + 1 = last)
          /\ Base + e + 1 + (IF e < last THEN 1 ELSE 0) = fd_pos + 1
          /\ Base' = fd_pos
      BY <1>2, <1>3, <2>2, <2>5 DEF Base
    <3>2. ASSUME Hypothesis' PROVE Listed(Matching, Lines, printed, fd_pos + 1)'
      <4>1. Listed(Matching, Lines, printed', Base + e + 1 + IF e < last THEN 1 ELSE 0)
        BY <2>1, <3>2
      <4>2. Listed(Matching, Lines, printed', fd_pos + 1)
        BY <3>1, <4>1, Zenon
      <4> QED BY <1>2, <2>s, <4>2, Zenon
    <3>3. ASSUME Hypothesis' PROVE Base' + 1 \in Starts' \/ fd_pos = Len(text)
      <4>1. CASE e = last
        BY <2>1, <3>3, <4>1, Zenon
      <4>2. CASE e < last /\ e + 1 = last
        <5>1. Base + e + 2 = Base' + 1
          BY <1>2, <1>3, <2>2, <3>1, <4>2
        <5> QED BY <2>1, <2>s, <3>3, <4>2, <5>1, ZenonT(30)
      <4> QED BY <3>1, <4>1, <4>2, Zenon
    <3>4. CASE read_cnt = 0
      <4>1. gpc' = "main"
        BY <2>5, <3>4, Zenon
      <4>2. ASSUME Hypothesis' PROVE Listed(Matching, Lines, printed, Len(text) + 1)'
        <5>1. fd_pos = Len(text)
          BY <2>1, <3>4, <4>2, Zenon DEF BetweenLines
        <5> QED BY <1>2, <3>2, <4>2, <5>1, Zenon
      <4> QED BY <1>2, <1>6, <4>1, <4>2, Zenon DEF GrepInv
    <3>5. CASE read_cnt # 0
      <4>1. gpc' = "read"
        BY <2>5, <3>5, Zenon
      <4>2. ASSUME Hypothesis' PROVE BetweenReads'
        <5>1. Listed(Matching, Lines, printed, Base + 1)'
          BY <1>2, <3>1, <3>2, <4>2, Zenon
        <5>2. data'[BUFSIZE] # "nl"
          BY <2>3, <4>2
        <5>3. Base' + 1 \in Starts' \/ (last' = 0 /\ fd_pos' = Len(text'))
          BY <1>2, <2>5, <3>3, <4>2, Zenon
        <5> QED BY <2>5, <5>1, <5>2, <5>3 DEF BetweenReads
      <4> QED BY <1>2, <1>6, <4>1, <4>2, Zenon DEF GrepInv
    <3> QED BY <3>4, <3>5, Zenon
  <2> QED BY <1>2, <2>4, <2>5, Zenon
<1> QED BY <1>1, <1>5, <1>6, Zenon
-----------------------------------------------------------------------------
(* The shell and parse_command hand the pattern over as it was typed.      *)
LEMMA TypedPattern ==
  ASSUME NEW a \in Seq(Chars)
  PROVE  parse_command(shell_command(<<"g", "r", "e", "p", "sp">> \o a \o <<"nl">>)).args = a
<1> DEFINE g == <<"g", "r", "e", "p", "sp">>
           n == <<"nl">>
           c == g \o a
           typed == c \o n
           spaces == {i \in 1 .. Len(c) : c[i] = "sp"}
           index == CHOOSE i \in spaces : \A j \in spaces : i <= j
<1>1. /\ g \in Seq(Chars) /\ Len(g) = 5
      /\ \A i \in 1 .. 4 : g[i] # "sp"
      /\ g[5] = "sp"
      /\ n \in Seq(Chars) /\ Len(n) = 1 /\ n[1] = "nl"
  <2>1. g \in Seq(Chars) /\ n \in Seq(Chars)
    BY CharsAre
  <2>2. /\ Len(g) = 5 /\ g[1] = "g" /\ g[2] = "r" /\ g[3] = "e" /\ g[4] = "p" /\ g[5] = "sp"
        /\ Len(n) = 1 /\ n[1] = "nl"
    BY Zenon
  <2> HIDE DEF g, n
  <2> QED BY <2>1, <2>2
<1> HIDE DEF g, n
<1>2. /\ c \in Seq(Chars) /\ Len(c) = 5 + Len(a) /\ Len(a) \in Nat
      /\ \A i \in 1 .. 5 + Len(a) : c[i] = IF i <= 5 THEN g[i] ELSE a[i - 5]
  <2>1. /\ c \in Seq(Chars) /\ Len(c) = Len(g) + Len(a)
        /\ \A i \in 1 .. Len(g) + Len(a) : c[i] = IF i <= Len(g) THEN g[i] ELSE a[i - Len(g)]
    BY <1>1, ConcatProperties, ZenonT(30)
  <2>2. Len(a) \in Nat
    BY LenProperties, Zenon
  <2> HIDE DEF c
  <2> QED BY <1>1, <2>1, <2>2, Zenon
<1> HIDE DEF c
<1>3. shell_command(typed) = c
  <2>1. /\ typed \in Seq(Chars) /\ Len(typed) = Len(c) + 1
        /\ \A i \in 1 .. Len(c) + 1 : typed[i] = IF i <= Len(c) THEN c[i] ELSE n[i - Len(c)]
    <3>1. /\ typed \in Seq(Chars) /\ Len(typed) = Len(c) + Len(n)
          /\ \A i \in 1 .. Len(c) + Len(n) :
               typed[i] = IF i <= Len(c) THEN c[i] ELSE n[i - Len(c)]
      BY <1>1, <1>2, ConcatProperties, ZenonT(30)
    <3> QED BY <1>1, <3>1, Zenon
  <2> HIDE DEF typed
  <2>2. /\ typed[Len(typed)] = "nl" /\ typed # <<>>
        /\ \A i \in 1 .. Len(c) : typed[i] = c[i]
    BY <1>1, <1>2, <2>1, SMTT(30)
  <2> DEFINE front == SubSeq(typed, 1, Len(typed) - 1)
  <2>3. Len(typed) - 1 = Len(c) /\ Len(c) \in 1 - 1 .. Len(typed) /\ 1 \in 1 .. Len(typed) + 1
    BY <1>2, <2>1, SMTT(30)
  <2>4. /\ front \in Seq(Chars) /\ Len(front) = Len(c)
        /\ \A i \in 1 .. Len(c) : front[i] = typed[i]
    BY <1>2, <2>1, <2>3, SubSeqProperties
  <2> HIDE DEF front
  <2>5. front = c
    BY <1>2, <2>2, <2>4, SeqEqual, Zenon
  <2> QED BY <2>2, <2>5, Zenon DEF shell_command, front
<1>4. spaces # {} /\ index = 5
  <2>1. 5 \in spaces /\ \A i \in spaces : i \in Nat /\ 5 <= i
    BY <1>1, <1>2, SMTT(30)
  <2> HIDE DEF spaces
  <2>2. index \in spaces /\ \A j \in spaces : index <= j
    BY <2>1, Zenon
  <2> HIDE DEF index
  <2> QED BY <2>1, <2>2
<1>5. parse_command(c).args = SubSeq(c, 6, Len(c))
  <2>1. parse_command(c) = [name |-> SubSeq(c, 1, index - 1),
                            args |-> SubSeq(c, index + 1, Len(c))]
    BY <1>4, Zenon DEF parse_command
  <2> HIDE DEF index, spaces
  <2>2. index + 1 = 6
    BY <1>4
  <2> QED BY <2>1, <2>2
<1>6. SubSeq(c, 6, Len(c)) = a
  <2> DEFINE rest == SubSeq(c, 6, Len(c))
  <2>1. /\ rest \in Seq(Chars) /\ Len(rest) = Len(a)
        /\ \A i \in 1 .. Len(a) : rest[i] = c[6 + i - 1]
    BY <1>2, SubSeqProperties
  <2> HIDE DEF rest
  <2>2. ASSUME NEW i \in 1 .. Len(a) PROVE rest[i] = a[i]
    BY <1>2, <2>1, SMTT(30)
  <2>3. rest = a
    BY <2>1, <2>2, SeqEqual, Zenon
  <2> QED BY <2>3, Zenon DEF rest
<1> QED BY <1>3, <1>5, <1>6, Zenon DEF typed, c, g, n

LEMMA GrepInitOK == GrepInit => GrepInv
<1> SUFFICES ASSUME GrepInit PROVE GrepInv
  BY Zenon
<1>1. pattern \in Patterns /\ text \in Texts
  BY Zenon DEF GrepInit
<1>2. /\ pattern \in Seq(Chars) /\ \A k \in 1 .. Len(pattern) : pattern[k] # "NUL"
      /\ text \in Seq(Chars) /\ \A k \in 1 .. Len(text) : text[k] # "NUL"
      /\ BUFSIZE \in Nat
  BY <1>1, CharsAre, GrepAssumption, Zenon
<1>3. search = pattern
  BY <1>2, TypedPattern, Zenon DEF GrepInit
<1>4. /\ gpc \in {"main", "failed"} /\ dir_pos = 0 /\ fd_pos = 0 /\ last = 0
      /\ line_start = 0 /\ read_cnt = 0 /\ printed = <<>>
      /\ data \in [0 .. BUFSIZE -> Chars]
  <2>1. "?" \in Chars
    BY CharsAre, Zenon
  <2>2. data \in [0 .. BUFSIZE -> Chars]
    BY <2>1, Zenon DEF GrepInit
  <2> QED BY <2>2, Zenon DEF GrepInit
<1>5. GrepTypes
  BY <1>2, <1>3, <1>4 DEF GrepTypes
<1> QED BY <1>4, <1>5 DEF GrepInv

(* What grep prints when it is done are the lines that hold the pattern,   *)
(* each once, whole and in order, for any size of the buffer, any texts    *)
(* and any patterns: FindsTheLines, of do_one_file and main.               *)
THEOREM LinesFound == GrepSpec => []FindsTheLines
<1>1. GrepInv /\ [GrepNext]_grepVars => GrepInv'
  <2> SUFFICES ASSUME GrepInv, [GrepNext]_grepVars PROVE GrepInv'
    BY ZenonT(30)
  <2>1. CASE UNCHANGED grepVars
    <3>1. /\ UNCHANGED <<gpc, search, pattern, text, clean, dir_pos, fd_pos, data, last>>
          /\ UNCHANGED <<line_start, read_cnt, printed>>
      BY <2>1, Zenon DEF grepVars
    <3>2. UNCHANGED <<Starts, Matching, Lines, ShortLines>>
      BY <3>1, SameLines, Zenon
    <3> QED BY <3>1, <3>2 DEF GrepInv, GrepTypes, Contents, ClockSearched, Hypothesis,
               BetweenReads, BetweenLines, Base
  <2> QED BY <2>1, MainKeeps, ReadKeeps, CarryKeeps, SearchKeeps, Zenon DEF GrepNext
<1>2. GrepInv => FindsTheLines
  <2> SUFFICES ASSUME GrepInv, gpc = "done", clean, pattern # <<>>, ShortLines
               PROVE  \E at \in [1 .. Len(printed) -> Matching] :
                        /\ \A i, j \in 1 .. Len(printed) : i < j => at[i] < at[j]
                        /\ \A p \in Matching : \E i \in 1 .. Len(printed) : at[i] = p
                        /\ \A i \in 1 .. Len(printed) : printed[i] = Line(at[i])
    BY Zenon DEF FindsTheLines
  <2>1. Listed(Matching, Lines, printed, Len(text) + 1)
    BY Zenon DEF GrepInv, Hypothesis
  <2>2. PICK at :
          /\ at \in [1 .. Len(printed) -> Matching]
          /\ \A i, j \in 1 .. Len(printed) : i < j => at[i] < at[j]
          /\ \A p \in Matching : p < Len(text) + 1 => \E i \in 1 .. Len(printed) : at[i] = p
          /\ \A i \in 1 .. Len(printed) : at[i] < Len(text) + 1 /\ printed[i] = Lines[at[i]]
    BY <2>1, Zenon DEF Listed, PlacesOf
  <2>3. text \in Seq(Chars) /\ Len(text) \in Nat /\ Len(pattern) \in Nat /\ Len(pattern) # 0
    BY LenProperties, EmptySeq, Zenon DEF GrepInv, GrepTypes
  <2>4. ASSUME NEW p \in Matching PROVE p < Len(text) + 1
    <3>1. p \in 1 .. Len(text) + 1 /\ Holds(Line(p))
      BY Zenon DEF Matching, Starts
    <3>2. Len(Line(p)) = End(p) - p /\ End(p) \in p .. Len(text) + 1
      BY <2>3, <3>1, LineIs, EndFound, Zenon
    <3>3. Len(Line(p)) - Len(pattern) >= 0
      BY <2>3, <3>1, <3>2 DEF Holds
    <3> QED BY <2>3, <3>1, <3>2, <3>3
  <2>5. \A i \in 1 .. Len(printed) : printed[i] = Line(at[i])
    BY <2>2, Zenon DEF Lines, Matching
  <2> QED BY <2>2, <2>4, <2>5, Zenon
<1> QED BY <1>1, <1>2, GrepInitOK, PTL DEF GrepSpec
=============================================================================
