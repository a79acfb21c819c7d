--------------------------- MODULE TerminalProofs ---------------------------
(***************************************************************************)
(* What Terminal says of the input buffer, for any size of it below 256,   *)
(* any keys, any sizes of reads, and any interleaving of the keyboard with *)
(* the reader.                                                             *)
(***************************************************************************)
EXTENDS Terminal, FiniteSetTheorems, SequenceTheorems, TLAPS

(* The inductive invariant: types, a read in progress that has room for a  *)
(* line as long as all is regular, and the properties themselves.          *)
BufferInv ==
  /\ input_buffer \in Seq(Char) /\ Len(input_buffer) <= KEYBOARD_BUFFER_SIZE
  /\ new_line_ready \in Nat /\ nbytes \in Nat /\ regular \in BOOLEAN
  /\ regular /\ pc # "user" => KEYBOARD_BUFFER_SIZE <= nbytes
  /\ RoomForEnter
  /\ ReadyCountsLines
-----------------------------------------------------------------------------
(* Sets of numbers have a least and, when bounded, a greatest element.     *)
LEMMA HasLeast ==
  ASSUME NEW S, S \subseteq Nat, S # {}
  PROVE  \E m \in S : \A n \in S : m <= n
<1> DEFINE R == {ss \in Nat \X Nat : ss[1] < ss[2]}
<1>1. IsWellFoundedOn(R, Nat)
  BY NatLessThanWellFounded, Zenon DEF OpToRel
<1> HIDE DEF R
<1>2. PICK m \in S : \A n \in S : ~(<<n, m>> \in R)
  BY <1>1, WFMin, Zenon
<1>3. ASSUME NEW n \in S PROVE m <= n
  <2>1. ~(<<n, m>> \in R) /\ n \in Nat /\ m \in Nat
    BY <1>2, Zenon
  <2>2. ~(n < m)
    BY <2>1, Zenon DEF R
  <2> QED BY <2>1, <2>2
<1> QED BY <1>3, Zenon

LEMMA HasGreatest ==
  ASSUME NEW S, NEW k \in Nat, S \subseteq 1 .. k, S # {}
  PROVE  \E m \in S : \A n \in S : n <= m
<1> DEFINE T == {k - n : n \in S}
<1>1. T \subseteq Nat /\ T # {}
  <2>1. \A n \in S : k - n \in Nat
    OBVIOUS
  <2> QED BY <2>1, Zenon
<1>2. PICK l \in T : \A n \in T : l <= n
  BY <1>1, HasLeast, Zenon
<1>3. PICK m \in S : l = k - m
  BY Zenon
<1>4. ASSUME NEW n \in S PROVE n <= m
  <2>1. k - m <= k - n
    BY <1>2, <1>3, Zenon
  <2> QED BY <2>1
<1> QED BY <1>4, Zenon

(* An interval from 1 has as many numbers as its last one says.            *)
LEMMA FromOne ==
  ASSUME NEW n \in Nat
  PROVE  IsFiniteSet(1 .. n) /\ Cardinality(1 .. n) = n
<1>1. n \in Int /\ 1 \in Int
  OBVIOUS
<1>2. /\ IsFiniteSet(1 .. n)
      /\ Cardinality(1 .. n) = IF 1 > n THEN 0 ELSE n - 1 + 1
  BY <1>1, FS_Interval, Zenon
<1>3. (IF 1 > n THEN 0 ELSE n - 1 + 1) = n
  OBVIOUS
<1> QED BY <1>2, <1>3

(* The newlines of a byte string.                                          *)
LEMMA NewlinesFinite ==
  ASSUME NEW b \in Seq(Char)
  PROVE  /\ IsFiniteSet(Newlines(b))
         /\ Cardinality(Newlines(b)) \in Nat
         /\ Cardinality(Newlines(b)) <= Len(b)
         /\ Cardinality(Newlines(b)) = 0 <=> Newlines(b) = {}
<1>1. Len(b) \in Nat
  BY LenProperties, Zenon
<1>2. IsFiniteSet(1 .. Len(b)) /\ Cardinality(1 .. Len(b)) = Len(b)
  BY <1>1, FromOne, Zenon
<1>3. Newlines(b) \in SUBSET (1 .. Len(b))
  BY Zenon DEF Newlines
<1>4. IsFiniteSet(Newlines(b)) /\ Cardinality(Newlines(b)) <= Len(b)
  BY <1>2, <1>3, FS_Subset
<1>5. Cardinality(Newlines(b)) \in Nat
  BY <1>4, FS_CardinalityType, Zenon
<1> QED BY <1>4, <1>5, FS_EmptySet, Zenon

LEMMA NewlinesAppend ==
  ASSUME NEW b \in Seq(Char), NEW c \in Char
  PROVE  Newlines(Append(b, c)) =
           IF c = NEWLINE THEN Newlines(b) \cup {Len(b) + 1} ELSE Newlines(b)
<1>1. /\ Len(Append(b, c)) = Len(b) + 1 /\ Len(b) \in Nat
      /\ \A i \in 1 .. Len(b) : Append(b, c)[i] = b[i]
      /\ Append(b, c)[Len(b) + 1] = c
  BY AppendProperties, LenProperties
<1>2. 1 .. Len(b) + 1 = (1 .. Len(b)) \cup {Len(b) + 1}
  BY <1>1
<1> QED BY <1>1, <1>2, Zenon DEF Newlines

LEMMA Prefix ==
  ASSUME NEW b \in Seq(Char), NEW n \in 0 .. Len(b)
  PROVE  LET f == SubSeq(b, 1, n) IN
         /\ f \in Seq(Char) /\ Len(f) = n
         /\ \A i \in 1 .. n : f[i] = b[i]
<1> DEFINE f == SubSeq(b, 1, n)
<1>1. n \in Nat /\ \A i \in 1 .. n : b[i] \in Char
  BY LenProperties, ElementOfSeq
<1>2. /\ f \in Seq(Char)
      /\ Len(f) = IF 1 <= n THEN n - 1 + 1 ELSE 0
      /\ \A i \in 1 .. n - 1 + 1 : f[i] = b[1 + i - 1]
  BY <1>1, SubSeqProperties
<1> HIDE DEF f
<1>3. n - 1 + 1 = n /\ \A i \in 1 .. n : 1 + i - 1 = i
  BY <1>1
<1>4. Len(f) = n
  BY <1>1, <1>2
<1>5. \A i \in 1 .. n : f[i] = b[i]
  BY <1>1, <1>2, <1>3, Zenon
<1> QED BY <1>2, <1>4, <1>5, Zenon DEF f

LEMMA NewlinesFront ==
  ASSUME NEW b \in Seq(Char), b # <<>>
  PROVE  /\ Erased(b) \in Seq(Char) /\ Len(Erased(b)) = Len(b) - 1
         /\ Len(b) \in Nat \ {0}
         /\ \A i \in 1 .. Len(b) - 1 : Erased(b)[i] = b[i]
         /\ LastByte(b) # NEWLINE => Newlines(Erased(b)) = Newlines(b)
<1>1. Len(b) \in Nat \ {0}
  BY EmptySeq, Zenon
<1>3. /\ Erased(b) \in Seq(Char) /\ Len(Erased(b)) = Len(b) - 1
      /\ \A i \in 1 .. Len(b) - 1 : Erased(b)[i] = b[i]
  <2>1. Len(b) - 1 \in 0 .. Len(b)
    BY <1>1
  <2> QED BY <2>1, Prefix, Zenon DEF Erased
<1>4. 1 .. Len(b) = (1 .. Len(b) - 1) \cup {Len(b)}
  BY <1>1
<1> QED BY <1>1, <1>3, <1>4, Zenon DEF Newlines, LastByte

LEMMA Suffix ==
  ASSUME NEW b \in Seq(Char), NEW r \in 0 .. Len(b)
  PROVE  LET t == SubSeq(b, r + 1, Len(b)) IN
         /\ t \in Seq(Char) /\ Len(t) = Len(b) - r
         /\ \A i \in 1 .. Len(b) - r : t[i] = b[i + r]
<1> DEFINE n == Len(b)
           m == r + 1
           t == SubSeq(b, m, n)
<1>1. n \in Nat /\ \A i \in 1 .. n : b[i] \in Char
  BY LenProperties, ElementOfSeq, Zenon
<1>2. m \in Int /\ \A i \in m .. n : b[i] \in Char
  BY <1>1
<1>3. r \in 0 .. n
  BY Zenon
<1> HIDE DEF n
<1>4. /\ t \in Seq(Char)
      /\ Len(t) = IF m <= n THEN n - m + 1 ELSE 0
      /\ \A i \in 1 .. n - m + 1 : t[i] = b[m + i - 1]
  BY <1>1, <1>2, SubSeqProperties
<1>5. n - m + 1 = n - r /\ \A i \in 1 .. n - r : m + i - 1 = i + r
  BY <1>1, <1>3
<1> HIDE DEF t
<1>6. Len(t) = n - r
  BY <1>1, <1>3, <1>4
<1>7. \A i \in 1 .. n - r : t[i] = b[i + r]
  BY <1>1, <1>3, <1>4, <1>5, Zenon
<1> QED BY <1>4, <1>6, <1>7, Zenon DEF t, n

(* Taking the first line away leaves one newline less.                     *)
LEMMA LineRemoved ==
  ASSUME NEW b \in Seq(Char), NEW l \in Newlines(b),
         \A j \in Newlines(b) : l <= j
  PROVE  Cardinality(Newlines(SubSeq(b, l + 1, Len(b)))) =
           Cardinality(Newlines(b)) - 1
<1> DEFINE n == Len(b)
           t == SubSeq(b, l + 1, n)
           f == [i \in Newlines(t) |-> i + l]
<1>1. n \in Nat /\ l \in 1 .. n /\ b[l] = NEWLINE
  BY LenProperties, Zenon DEF Newlines
<1>2. t \in Seq(Char) /\ Len(t) = n - l /\ \A i \in 1 .. n - l : t[i] = b[i + l]
  BY <1>1, Suffix
<1> HIDE DEF t
<1>3. \A i \in Newlines(t) : i \in 1 .. n - l /\ b[i + l] = NEWLINE
  BY <1>2, Zenon DEF Newlines
<1>4. \A i \in Newlines(t) : i + l \in Newlines(b) \ {l}
  BY <1>1, <1>3 DEF Newlines
<1>5. \A j \in Newlines(b) \ {l} : j - l \in Newlines(t) /\ (j - l) + l = j
  <2> TAKE j \in Newlines(b) \ {l}
  <2>1. j \in 1 .. n /\ b[j] = NEWLINE /\ l <= j /\ j # l
    BY Zenon DEF Newlines
  <2>2. j - l \in 1 .. n - l /\ (j - l) + l = j
    BY <1>1, <2>1
  <2>3. t[j - l] = b[(j - l) + l]
    BY <1>2, <2>2, Zenon
  <2> QED BY <1>2, <2>1, <2>2, <2>3, Zenon DEF Newlines
<1>6. f \in [Newlines(t) -> Newlines(b) \ {l}]
  BY <1>4, Zenon
<1>7. \A i, j \in Newlines(t) : f[i] = f[j] => i = j
  BY <1>1, <1>3
<1>8. \A j \in Newlines(b) \ {l} : \E i \in Newlines(t) : f[i] = j
  <2> TAKE j \in Newlines(b) \ {l}
  <2>1. j - l \in Newlines(t) /\ f[j - l] = j
    BY <1>5, Zenon
  <2> QED BY <2>1, Zenon
<1> HIDE DEF f
<1>9. f \in Bijection(Newlines(t), Newlines(b) \ {l})
  BY <1>6, <1>7, <1>8 DEF Bijection, Injection, Surjection, IsInjective
<1>10. ExistsBijection(Newlines(t), Newlines(b) \ {l})
  BY <1>9, Zenon DEF ExistsBijection
<1>11. IsFiniteSet(Newlines(t)) /\ IsFiniteSet(Newlines(b))
  BY <1>2, NewlinesFinite, Zenon
<1>12. Cardinality(Newlines(b) \ {l}) = Cardinality(Newlines(t))
  BY <1>10, <1>11, FS_Bijection, Zenon
<1>13. Cardinality(Newlines(b) \ {l}) = Cardinality(Newlines(b)) - 1
  BY <1>11, FS_RemoveElement, Zenon
<1> QED BY <1>12, <1>13, Zenon DEF t

(* What terminal_read takes.                                               *)
LEMMA LineLengthIsFirst ==
  ASSUME input_buffer \in Seq(Char)
  PROVE  /\ Newlines(input_buffer) = {} => LineLength = 0
         /\ Newlines(input_buffer) # {} =>
              /\ LineLength \in Newlines(input_buffer)
              /\ \A j \in Newlines(input_buffer) : LineLength <= j
         /\ LineLength \in 0 .. Len(input_buffer)
         /\ Len(input_buffer) \in Nat
<1>1. Len(input_buffer) \in Nat
  BY LenProperties, Zenon
<1>2. Newlines(input_buffer) \subseteq 1 .. Len(input_buffer)
  BY Zenon DEF Newlines
<1>3. CASE Newlines(input_buffer) = {}
  BY <1>1, <1>3 DEF LineLength
<1>4. CASE Newlines(input_buffer) # {}
  <2>1. \E i \in Newlines(input_buffer) : \A j \in Newlines(input_buffer) : i <= j
    BY <1>1, <1>2, <1>4, HasLeast
  <2>2. LineLength =
          CHOOSE i \in Newlines(input_buffer) : \A j \in Newlines(input_buffer) : i <= j
    BY <1>4, Zenon DEF LineLength
  <2>3. /\ LineLength \in Newlines(input_buffer)
        /\ \A j \in Newlines(input_buffer) : LineLength <= j
    BY <2>1, <2>2, Zenon
  <2> QED BY <1>1, <1>2, <1>4, <2>3
<1> QED BY <1>3, <1>4, Zenon

LEMMA ReadLengthInBuffer ==
  ASSUME input_buffer \in Seq(Char), nbytes \in Nat
  PROVE  ReadLength \in 0 .. Len(input_buffer) /\ ReadLength <= LineLength
BY LineLengthIsFirst DEF ReadLength
-----------------------------------------------------------------------------
LEMMA InitBufferInv == Init => BufferInv
<1> SUFFICES ASSUME Init PROVE BufferInv
  BY Zenon
<1>1. input_buffer \in Seq(Char) /\ Len(input_buffer) = 0
  BY DEF Init
<1>2. Newlines(input_buffer) = {}
  BY <1>1 DEF Newlines
<1>3. Lines = 0
  BY <1>2, FS_EmptySet, Zenon DEF Lines
<1> QED
  BY <1>1, <1>3, TerminalAssumption
  DEF Init, BufferInv, RoomForEnter, ReadyCountsLines

(* Steps that leave the lines alone and add no byte, and of the reader     *)
(* only end hlt.                                                           *)
LEMMA SameLinesKeep ==
  ASSUME BufferInv, input_buffer' \in Seq(Char),
         Newlines(input_buffer') = Newlines(input_buffer),
         Len(input_buffer') < KEYBOARD_BUFFER_SIZE
           \/ Len(input_buffer') <= Len(input_buffer),
         Interrupt, UNCHANGED <<new_line_ready, nbytes>>,
         regular' \in BOOLEAN, regular' => regular
  PROVE  BufferInv'
<1>1. /\ input_buffer \in Seq(Char) /\ Len(input_buffer) <= KEYBOARD_BUFFER_SIZE
      /\ Len(input_buffer) \in Nat /\ Len(input_buffer') \in Nat
      /\ KEYBOARD_BUFFER_SIZE \in Nat
  BY LenProperties, TerminalAssumption DEF BufferInv
<1>2. Len(input_buffer') <= KEYBOARD_BUFFER_SIZE
  BY <1>1
<1>3. Lines' = Lines
  BY Zenon DEF Lines
<1>4. RoomForEnter'
  BY <1>1, <1>3 DEF BufferInv, RoomForEnter
<1>5. (pc' = "got" <=> pc = "got") /\ (pc' # "user" => pc # "user")
  BY Zenon DEF Interrupt
<1>6. ReadyCountsLines'
  BY <1>3, <1>5, Zenon DEF BufferInv, ReadyCountsLines
<1> QED BY <1>2, <1>4, <1>5, <1>6, Zenon DEF BufferInv

LEMMA PutcKeeps ==
  ASSUME BufferInv, NEW ch \in Keys, keyboard_putc(ch)
  PROVE  BufferInv'
<1>1. /\ input_buffer \in Seq(Char) /\ Len(input_buffer) \in Nat /\ ch \in Char
      /\ Len(input_buffer) <= KEYBOARD_BUFFER_SIZE
      /\ KEYBOARD_BUFFER_SIZE \in 1 .. 255 /\ regular \in BOOLEAN
  BY LenProperties, TerminalAssumption DEF BufferInv
<1>2. CASE key_ignored(ch)
  <2>1. Interrupt /\ UNCHANGED <<input_buffer, new_line_ready, nbytes, regular>>
    BY <1>2, Zenon DEF key_ignored
  <2> QED BY <1>1, <2>1, SameLinesKeep
<1>3. CASE key_backspace
  <2>1. /\ input_buffer # <<>> /\ LastByte(input_buffer) # NEWLINE
        /\ input_buffer' = Erased(input_buffer)
        /\ Interrupt /\ UNCHANGED <<new_line_ready, nbytes, regular>>
    BY <1>3, Zenon DEF key_backspace, Erasable
  <2>2. /\ input_buffer' \in Seq(Char)
        /\ Len(input_buffer') = Len(input_buffer) - 1
        /\ Newlines(input_buffer') = Newlines(input_buffer)
    BY <1>1, <2>1, NewlinesFront
  <2>3. Len(input_buffer') <= Len(input_buffer)
    BY <1>1, <2>2
  <2> QED BY <1>1, <2>1, <2>2, <2>3, SameLinesKeep
<1>4. CASE ch \notin {BACKSPACE, NEWLINE} /\ key_printable(ch)
  <2>1. /\ Len(input_buffer) < KEYBOARD_BUFFER_SIZE - 1
        /\ input_buffer' = Append(input_buffer, ch)
        /\ Interrupt /\ UNCHANGED <<new_line_ready, nbytes>>
        /\ regular' = (regular /\ ch # TAB)
    BY <1>4, Zenon DEF key_printable, Irregular
  <2>2. /\ input_buffer' \in Seq(Char)
        /\ Len(input_buffer') = Len(input_buffer) + 1
        /\ Newlines(input_buffer') = Newlines(input_buffer)
    BY <1>1, <1>4, <2>1, AppendProperties, NewlinesAppend
  <2>3. Len(input_buffer') < KEYBOARD_BUFFER_SIZE
    BY <1>1, <2>1, <2>2
  <2>4. regular' \in BOOLEAN /\ (regular' => regular)
    BY <2>1, <1>1, Zenon
  <2> QED BY <2>1, <2>2, <2>3, <2>4, SameLinesKeep
<1>5. CASE ch = NEWLINE /\ key_newline
  <2>1. /\ Len(input_buffer) < KEYBOARD_BUFFER_SIZE
        /\ input_buffer' = Append(input_buffer, NEWLINE)
        /\ new_line_ready' = (new_line_ready + 1) % 256
        /\ Interrupt /\ UNCHANGED <<nbytes, regular>>
    BY <1>5, Zenon DEF key_newline
  <2>2. /\ input_buffer' \in Seq(Char)
        /\ Len(input_buffer') = Len(input_buffer) + 1
        /\ Newlines(input_buffer') = Newlines(input_buffer) \cup {Len(input_buffer) + 1}
    BY <1>1, <1>5, <2>1, AppendProperties, NewlinesAppend
  <2>3. Len(input_buffer) + 1 \notin Newlines(input_buffer)
    BY <1>1 DEF Newlines
  <2>4. /\ IsFiniteSet(Newlines(input_buffer)) /\ Lines \in Nat
        /\ Lines <= Len(input_buffer)
    BY <1>1, NewlinesFinite, Zenon DEF Lines
  <2>5. Lines' = Lines + 1
    BY <2>2, <2>3, <2>4, FS_AddElement, ZenonT(30) DEF Lines
  <2>6. RoomForEnter'
    BY <2>4, <2>5 DEF RoomForEnter
  <2>7. new_line_ready' \in Nat
    BY <2>1 DEF BufferInv
  <2>8. ReadyCountsLines'
    <3>1. ASSUME regular PROVE new_line_ready' = Lines + 1
      BY <1>1, <2>1, <2>4, <3>1 DEF BufferInv, ReadyCountsLines
    <3> QED BY <2>1, <2>4, <2>5, <3>1 DEF ReadyCountsLines
  <2>9. pc' # "user" => pc # "user"
    BY <2>1, Zenon DEF Interrupt
  <2>10. Len(input_buffer') <= KEYBOARD_BUFFER_SIZE
    BY <1>1, <2>1, <2>2
  <2> QED BY <2>1, <2>2, <2>6, <2>7, <2>8, <2>9, <2>10 DEF BufferInv
<1> QED BY <1>2, <1>3, <1>4, <1>5, Zenon DEF keyboard_putc

LEMMA ReadFinishKeeps ==
  ASSUME BufferInv, read_finish
  PROVE  BufferInv'
<1> DEFINE r == ReadLength
           n == Len(input_buffer)
<1>1. /\ input_buffer \in Seq(Char) /\ n <= KEYBOARD_BUFFER_SIZE /\ nbytes \in Nat
      /\ KEYBOARD_BUFFER_SIZE \in 1 .. 255
  BY TerminalAssumption DEF BufferInv
<1>2. r \in 0 .. n /\ r <= LineLength /\ n \in Nat /\ LineLength \in 0 .. n
  BY <1>1, ReadLengthInBuffer, LineLengthIsFirst, Zenon
<1>3. /\ pc = "got" /\ pc' = "user" /\ nbytes' = 0 /\ regular' = regular
      /\ input_buffer' = SubSeq(input_buffer, r + 1, n)
      /\ new_line_ready' = (new_line_ready - 1) % 256
  BY Zenon DEF read_finish
<1> HIDE DEF r
<1>4. input_buffer' \in Seq(Char) /\ Len(input_buffer') = n - r
  BY <1>1, <1>2, <1>3, Suffix, SMTT(30)
<1> HIDE DEF n
<1>5. RoomForEnter'
  <2>1. CASE r = 0
    <3>1. input_buffer' = input_buffer
      BY <1>1, <1>3, <2>1, SubSeqFull DEF n
    <3> QED BY <3>1, Zenon DEF BufferInv, RoomForEnter, Lines
  <2>2. CASE r > 0
    BY <1>1, <1>2, <1>4, <2>2 DEF RoomForEnter
  <2> QED BY <1>2, <2>1, <2>2
<1>6. ASSUME regular PROVE Lines' = Lines - 1 /\ new_line_ready = Lines /\ Lines \in 1 .. 255
  <2>1. new_line_ready = Lines /\ Lines > 0 /\ KEYBOARD_BUFFER_SIZE <= nbytes
    BY <1>3, <1>6, Zenon DEF BufferInv, ReadyCountsLines
  <2>2. /\ Lines \in Nat /\ Lines <= n
        /\ Newlines(input_buffer) # {}
    BY <1>1, <2>1, NewlinesFinite DEF Lines, n
  <2>3. r = LineLength
    BY <1>1, <1>2, <2>1 DEF ReadLength, r
  <2>4. Lines' = Lines - 1
    BY <1>1, <1>3, <2>2, <2>3, LineLengthIsFirst, LineRemoved, Zenon DEF Lines, n
  <2> QED BY <1>1, <1>2, <2>1, <2>2, <2>4
<1>7. ReadyCountsLines'
  <2>0. \A k \in 1 .. 255 : (k - 1) % 256 = k - 1
    OBVIOUS
  <2>1. ASSUME regular PROVE new_line_ready' = Lines'
    <3>1. Lines' = Lines - 1 /\ new_line_ready = Lines /\ Lines \in 1 .. 255
      BY <1>6, <2>1, Zenon
    <3>2. new_line_ready' = (Lines - 1) % 256
      BY <1>3, <3>1, Zenon
    <3> QED BY <2>0, <3>1, <3>2
  <2> QED BY <1>3, <2>1, Zenon DEF ReadyCountsLines
<1>8. new_line_ready' \in Nat /\ Len(input_buffer') <= KEYBOARD_BUFFER_SIZE
  BY <1>1, <1>2, <1>3, <1>4 DEF BufferInv
<1> QED BY <1>3, <1>4, <1>5, <1>7, <1>8 DEF BufferInv

LEMMA NextBufferInv == BufferInv /\ [Next]_vars => BufferInv'
<1> SUFFICES ASSUME BufferInv, [Next]_vars PROVE BufferInv'
  BY Zenon
<1>1. /\ input_buffer \in Seq(Char) /\ Len(input_buffer) \in Nat
      /\ regular \in BOOLEAN
  BY LenProperties, Zenon DEF BufferInv
<1>2. ASSUME input_buffer' = <<>>, regular' => new_line_ready' = 0,
             new_line_ready' \in Nat, nbytes' \in Nat, regular' \in BOOLEAN,
             regular' => pc' = "user"
      PROVE  BufferInv'
  <2>1. input_buffer' \in Seq(Char) /\ Len(input_buffer') = 0
    BY <1>2
  <2>2. Newlines(input_buffer') = {}
    BY <2>1 DEF Newlines
  <2>3. Lines' = 0
    BY <2>2, FS_EmptySet, Zenon DEF Lines
  <2> QED
    BY <1>2, <2>1, <2>3, TerminalAssumption
    DEF BufferInv, RoomForEnter, ReadyCountsLines
<1>3. CASE UNCHANGED vars
  BY <1>3, Zenon DEF vars, BufferInv, RoomForEnter, ReadyCountsLines, Lines
<1>4. CASE key_ctrl_l \/ other_interrupt
  <2>1. Interrupt /\ UNCHANGED <<input_buffer, new_line_ready, nbytes, regular>>
    BY <1>4, Zenon DEF key_ctrl_l, other_interrupt
  <2> QED BY <1>1, <2>1, SameLinesKeep
<1>5. CASE terminal_close
  BY <1>2, <1>5, Zenon DEF terminal_close, Irregular, BufferInv
<1>6. CASE reset_terminal
  BY <1>2, <1>6, Zenon DEF reset_terminal, BufferInv
<1>7. CASE \E bytes \in Outputs : terminal_write(bytes)
  BY <1>7
  DEF terminal_write, BufferInv, RoomForEnter, ReadyCountsLines, Lines
<1>8. ASSUME NEW n \in ReadSizes, read_enter(n) PROVE BufferInv'
  <2>1. n \in Nat /\ KEYBOARD_BUFFER_SIZE \in Nat
    BY TerminalAssumption
  <2>2. /\ UNCHANGED <<input_buffer, new_line_ready>> /\ pc' = "check"
        /\ nbytes' = n /\ regular' = (regular /\ ~(n < KEYBOARD_BUFFER_SIZE))
    BY <1>8, Zenon DEF read_enter, Irregular
  <2>3. Lines' = Lines
    BY <2>2, Zenon DEF Lines
  <2>4. /\ regular' \in BOOLEAN /\ (regular' => regular)
        /\ regular' => KEYBOARD_BUFFER_SIZE <= nbytes'
    <3>1. /\ regular' \in BOOLEAN /\ (regular' => regular)
          /\ regular' => ~(n < KEYBOARD_BUFFER_SIZE)
      BY <2>2, Zenon
    <3>2. n < KEYBOARD_BUFFER_SIZE \/ KEYBOARD_BUFFER_SIZE <= n
      BY <2>1
    <3> QED BY <2>2, <3>1, <3>2, Zenon
  <2>5. ReadyCountsLines' /\ RoomForEnter'
    BY <2>2, <2>3, <2>4, Zenon DEF BufferInv, RoomForEnter, ReadyCountsLines
  <2> QED BY <2>1, <2>2, <2>4, <2>5, SMTT(30) DEF BufferInv
<1>9. CASE read_check
  <2>1. Lines \in Nat
    BY <1>1, NewlinesFinite, Zenon DEF Lines
  <2>2. /\ pc = "check" /\ pc' = IF new_line_ready = 0 THEN "hlt" ELSE "got"
        /\ UNCHANGED <<input_buffer, new_line_ready, nbytes, regular>>
    BY <1>9, Zenon DEF read_check
  <2>3. Lines' = Lines
    BY <2>2, Zenon DEF Lines
  <2>4. ReadyCountsLines'
    BY <2>1, <2>2, <2>3 DEF BufferInv, ReadyCountsLines
  <2> QED BY <2>2, <2>3, <2>4, Zenon DEF BufferInv, RoomForEnter
<1> QED
  BY <1>3, <1>4, <1>5, <1>6, <1>7, <1>8, <1>9, PutcKeeps, ReadFinishKeeps DEF Next

LEMMA BufferInvariance == Spec => []BufferInv
BY InitBufferInv, NextBufferInv, PTL DEF Spec
-----------------------------------------------------------------------------
(* A buffer without a complete line has room for Enter, whatever is typed  *)
(* and read (keyboard_putc keeps the last place for it).                   *)
THEOREM RoomKept == Spec => []RoomForEnter
<1>1. BufferInv => RoomForEnter
  BY Zenon DEF BufferInv
<1> QED BY <1>1, BufferInvariance, PTL

(* While programs read whole lines, new_line_ready counts the lines in the *)
(* buffer, and terminal_read never goes on without one.                    *)
THEOREM CountKept == Spec => []ReadyCountsLines
<1>1. BufferInv => ReadyCountsLines
  BY Zenon DEF BufferInv
<1> QED BY <1>1, BufferInvariance, PTL

(* A read ends with the first newline it takes (circular_buffer_find in    *)
(* terminal_read), whatever size was asked for.                            *)
THEOREM OneLine == Spec => ReadTakesOneLine
<1> DEFINE A == pc = "got" /\ pc' = "user" =>
                  \A i \in 1 .. Len(input_buffer) - Len(input_buffer') - 1 :
                    input_buffer[i] # NEWLINE
<1>1. BufferInv /\ [Next]_vars => [A]_vars
  <2> SUFFICES ASSUME BufferInv, Next, pc = "got", pc' = "user",
                      NEW i \in 1 .. Len(input_buffer) - Len(input_buffer') - 1
               PROVE  input_buffer[i] # NEWLINE
    BY Zenon
  <2>1. read_finish
    BY Zenon DEF Next, keyboard_putc, key_ignored, key_backspace, key_newline,
           key_printable, key_ctrl_l, terminal_close, other_interrupt, Interrupt,
           terminal_write, read_enter, read_check, reset_terminal
  <2>2. input_buffer \in Seq(Char) /\ nbytes \in Nat
    BY Zenon DEF BufferInv
  <2>3. /\ ReadLength \in 0 .. Len(input_buffer) /\ ReadLength <= LineLength
        /\ Len(input_buffer) \in Nat /\ LineLength \in Nat
    BY <2>2, ReadLengthInBuffer, LineLengthIsFirst
  <2>4. Len(input_buffer') = Len(input_buffer) - ReadLength
    BY <2>1, <2>2, <2>3, Suffix DEF read_finish
  <2>5. i \in 1 .. Len(input_buffer) /\ ~(LineLength <= i)
    BY <2>3, <2>4
  <2>6. i \notin Newlines(input_buffer)
    BY <2>2, <2>5, LineLengthIsFirst
  <2> QED BY <2>5, <2>6, Zenon DEF Newlines
<1> HIDE DEF A
<1>2. Spec => [][A]_vars
  BY <1>1, BufferInvariance, PTL DEF Spec
<1> QED BY <1>2, Zenon DEF ReadTakesOneLine, A

(* What has been committed is a prefix of any buffer that agrees with the  *)
(* present one as far as the last newline.                                 *)
LEMMA CommittedPrefix ==
  ASSUME input_buffer \in Seq(Char), NEW c \in Seq(Char),
         \A i \in Newlines(input_buffer) : i <= Len(c),
         \A i \in 1 .. Len(input_buffer) : i <= Len(c) => c[i] = input_buffer[i]
  PROVE  StartOf(Committed, c)
<1> DEFINE ends == Newlines(input_buffer)
<1>1. Len(input_buffer) \in Nat /\ Len(c) \in Nat
  BY LenProperties, Zenon
<1>2. ends \subseteq 1 .. Len(input_buffer)
  BY Zenon DEF Newlines
<1>3. CASE ends = {}
  <2>1. Committed = <<>>
    BY <1>3, Zenon DEF Committed
  <2>2. Len(<<>>) = 0 /\ 0 <= Len(c)
    BY <1>1
  <2>3. SubSeq(<<>>, 1, 0) = <<>> /\ SubSeq(c, 1, 0) = <<>>
    BY SubSeqEmpty
  <2> QED BY <2>1, <2>2, <2>3 DEF StartOf
<1>4. CASE ends # {}
  <2> DEFINE m == CHOOSE i \in ends : \A j \in ends : j <= i
             s == SubSeq(input_buffer, 1, m)
             t == SubSeq(c, 1, m)
  <2>1. \E i \in ends : \A j \in ends : j <= i
    BY <1>1, <1>2, <1>4, HasGreatest, Zenon
  <2>2. m \in ends
    BY <2>1, Zenon
  <2>3. Committed = s
    BY <1>4, Zenon DEF Committed
  <2> HIDE DEF m
  <2>4. m \in 0 .. Len(input_buffer) /\ m \in 0 .. Len(c) /\ m \in Nat
    BY <1>1, <1>2, <2>2
  <2>5. s \in Seq(Char) /\ Len(s) = m /\ \A i \in 1 .. m : s[i] = input_buffer[i]
    BY <2>4, Prefix, Zenon
  <2>6. t \in Seq(Char) /\ Len(t) = m /\ \A i \in 1 .. m : t[i] = c[i]
    BY <2>4, Prefix, Zenon
  <2> HIDE DEF s, t
  <2>7. \A i \in 1 .. m : c[i] = input_buffer[i]
    BY <1>1, <2>4
  <2>8. s = t
    BY <2>5, <2>6, <2>7, SeqEqual, SMTT(30)
  <2>9. SubSeq(s, 1, Len(s)) = s
    BY <2>5, SubSeqFull, Zenon
  <2>10. SubSeq(c, 1, Len(s)) = t
    BY <2>5, Zenon DEF t
  <2> QED BY <2>3, <2>4, <2>5, <2>8, <2>9, <2>10 DEF StartOf
<1> QED BY <1>3, <1>4, Zenon

(* No key, and no interleaving with a reader, changes a line once Enter    *)
(* has been pressed (keyboard_putc erases only past the last newline).     *)
THEOREM LinesKept == Spec => CommittedLinesKept
<1> DEFINE A == \/ pc = "got" /\ pc' = "user"
                \/ input_buffer' = <<>>
                   /\ (~regular' \/ (cursor_x' = 0 /\ cursor_y' = 0))
                \/ StartOf(Committed, input_buffer')
<1>1. BufferInv /\ [Next]_vars => [A]_vars
  <2> SUFFICES ASSUME BufferInv, Next PROVE A
    BY Zenon
  <2>1. input_buffer \in Seq(Char) /\ Len(input_buffer) \in Nat
    BY LenProperties, Zenon DEF BufferInv
  <2>2. \A i \in Newlines(input_buffer) : i \in 1 .. Len(input_buffer)
    BY Zenon DEF Newlines
  <2>3. ASSUME input_buffer' = input_buffer PROVE A
    <3>1. \A i \in Newlines(input_buffer) : i <= Len(input_buffer)
      BY <2>1, <2>2
    <3> QED BY <2>1, <2>3, <3>1, CommittedPrefix
  <2>4. CASE key_ctrl_l \/ other_interrupt \/ read_check
    BY <2>3, <2>4, Zenon DEF key_ctrl_l, other_interrupt, read_check
  <2>5. CASE \E bytes \in Outputs : terminal_write(bytes)
    BY <2>3, <2>5 DEF terminal_write
  <2>6. CASE \E n \in ReadSizes : read_enter(n)
    BY <2>3, <2>6, Zenon DEF read_enter
  <2>7. CASE terminal_close
    BY <2>7, Zenon DEF terminal_close, Irregular
  <2>8. CASE reset_terminal
    BY <2>8, Zenon DEF reset_terminal
  <2>9. CASE read_finish
    BY <2>9, Zenon DEF read_finish
  <2>10. ASSUME NEW ch \in Keys, keyboard_putc(ch) PROVE A
    <3>1. CASE key_ignored(ch)
      BY <2>3, <3>1, Zenon DEF key_ignored
    <3>2. CASE key_backspace
      <4>1. /\ input_buffer # <<>> /\ LastByte(input_buffer) # NEWLINE
            /\ input_buffer' = Erased(input_buffer)
        BY <3>2, Zenon DEF key_backspace, Erasable
      <4>2. /\ input_buffer' \in Seq(Char)
            /\ Len(input_buffer') = Len(input_buffer) - 1
            /\ \A i \in 1 .. Len(input_buffer) - 1 :
                 input_buffer'[i] = input_buffer[i]
            /\ Newlines(input_buffer') = Newlines(input_buffer)
        BY <2>1, <4>1, NewlinesFront, Zenon
      <4>3. \A i \in Newlines(input_buffer') : i <= Len(input_buffer')
        BY <2>1, <4>2 DEF Newlines
      <4> QED BY <2>1, <4>2, <4>3, CommittedPrefix
    <3>3. ASSUME NEW c \in Char, input_buffer' = Append(input_buffer, c)
          PROVE  A
      <4>1. /\ input_buffer' \in Seq(Char)
            /\ Len(input_buffer') = Len(input_buffer) + 1
            /\ \A i \in 1 .. Len(input_buffer) :
                 input_buffer'[i] = input_buffer[i]
        BY <2>1, <3>3, AppendProperties
      <4>2. \A i \in Newlines(input_buffer) : i <= Len(input_buffer')
        BY <2>1, <2>2, <4>1, SMTT(30)
      <4> QED BY <2>1, <4>1, <4>2, CommittedPrefix
    <3>4. CASE key_printable(ch)
      BY <3>3, <3>4, TerminalAssumption DEF key_printable
    <3>5. CASE ch = NEWLINE /\ key_newline
      BY <3>3, <3>5, TerminalAssumption DEF key_newline
    <3> QED BY <2>10, <3>1, <3>2, <3>4, <3>5 DEF keyboard_putc
  <2> QED
    BY <2>4, <2>5, <2>6, <2>7, <2>8, <2>9, <2>10 DEF Next
<1> HIDE DEF A
<1>2. Spec => [][A]_vars
  BY <1>1, BufferInvariance, PTL DEF Spec
<1> QED BY <1>2, Zenon DEF CommittedLinesKept, A

-----------------------------------------------------------------------------
(* The cursor.  The places it takes while a byte string is printed.        *)
After(c, bytes, n, f) ==
  f = [k \in 0 .. n |-> IF k = 0 THEN c ELSE putc_internal(f[k - 1], bytes[k])]

LEMMA AfterExists ==
  ASSUME NEW c, NEW bytes, NEW l \in Nat
  PROVE  \E f : After(c, bytes, l, f)
<1> DEFINE S == {n \in Nat : ~ \E f : After(c, bytes, n, f)}
<1> SUFFICES ASSUME S # {} PROVE FALSE
  BY Zenon
<1>1. PICK m \in S : \A n \in S : m <= n
  BY HasLeast, Zenon
<1>2. CASE m = 0
  <2> DEFINE f == [k \in 0 .. 0 |-> c]
  <2>1. f = [k \in 0 .. 0 |-> IF k = 0 THEN c ELSE putc_internal(f[k - 1], bytes[k])]
    OBVIOUS
  <2>2. After(c, bytes, 0, f)
    BY <2>1, Zenon DEF After
  <2> QED BY <1>1, <1>2, <2>2, Zenon
<1>3. CASE m # 0
  <2>1. m - 1 \in Nat /\ m - 1 \notin S
    BY <1>1, <1>3
  <2>2. PICK f : After(c, bytes, m - 1, f)
    BY <2>1, Zenon
  <2> DEFINE e == putc_internal(f[m - 1], bytes[m])
             g == [k \in 0 .. m |-> IF k = m THEN e ELSE f[k]]
  <2>3. \A k \in 0 .. m - 1 : f[k] = IF k = 0 THEN c ELSE putc_internal(f[k - 1], bytes[k])
    BY <2>2, Zenon DEF After
  <2>4. ASSUME NEW k \in 0 .. m
        PROVE  g[k] = IF k = 0 THEN c ELSE putc_internal(g[k - 1], bytes[k])
    <3>1. CASE k = m
      BY <1>3, <3>1
    <3>2. CASE k # m /\ k # 0
      <4>1. g[k] = f[k] /\ g[k - 1] = f[k - 1]
        BY <3>2
      <4> QED BY <2>3, <3>2, <4>1
    <3>3. CASE k = 0
      BY <1>3, <2>3, <3>3
    <3> QED BY <3>1, <3>2, <3>3, Zenon
  <2>5. After(c, bytes, m, g)
    <3>1. g = [k \in 0 .. m |-> g[k]]
      BY Zenon
    <3> HIDE DEF g
    <3>2. g = [k \in 0 .. m |-> IF k = 0 THEN c ELSE putc_internal(g[k - 1], bytes[k])]
      BY <2>4, <3>1, Zenon
    <3> QED BY <3>2 DEF After
  <2> QED BY <1>1, <2>5, Zenon
<1> QED BY <1>2, <1>3, Zenon

LEMMA PutAllAfter ==
  ASSUME NEW c, NEW bytes, Len(bytes) \in Nat
  PROVE  \E f : /\ f[0] = c
                /\ \A k \in 1 .. Len(bytes) : f[k] = putc_internal(f[k - 1], bytes[k])
                /\ PutAll(c, bytes) = f[Len(bytes)]
<1> DEFINE l == Len(bytes)
           F == CHOOSE f : After(c, bytes, l, f)
<1>1. After(c, bytes, l, F)
  BY AfterExists, Zenon
<1>2. PutAll(c, bytes) = F[l]
  BY Zenon DEF PutAll, After
<1> HIDE DEF F
<1>3. F[0] = c /\ \A k \in 1 .. l : F[k] = putc_internal(F[k - 1], bytes[k])
  BY <1>1 DEF After
<1> QED BY <1>2, <1>3, Zenon

LEMMA PutOne ==
  ASSUME NEW c, NEW ch
  PROVE  PutAll(c, <<ch>>) = putc_internal(c, ch)
<1> DEFINE b == <<ch>>
<1>1. Len(b) = 1 /\ b[1] = ch
  BY Zenon
<1> HIDE DEF b
<1>2. PICK f : /\ f[0] = c
               /\ \A k \in 1 .. Len(b) : f[k] = putc_internal(f[k - 1], b[k])
               /\ PutAll(c, b) = f[Len(b)]
  BY <1>1, PutAllAfter
<1>3. f[1] = putc_internal(f[1 - 1], b[1])
  BY <1>1, <1>2
<1>4. f[1] = putc_internal(c, ch)
  BY <1>1, <1>2, <1>3
<1> QED BY <1>1, <1>2, <1>4, Zenon DEF b

OnScreen(c) == /\ c = <<c[1], c[2]>>
               /\ c[1] \in 0 .. TERMINAL_COLUMNS - 1 /\ c[2] \in 0 .. TERMINAL_ROWS - 1
Index(c) == c[2] * TERMINAL_COLUMNS + c[1]
LastRow  == TERMINAL_COLUMNS * (TERMINAL_ROWS - 1)

LEMMA ByteMod == \A n \in 0 .. 255 : n % 256 = n
OBVIOUS

LEMMA ScreenFacts ==
  ASSUME NEW c, OnScreen(c)
  PROVE  /\ TERMINAL_COLUMNS \in 1 .. 255 /\ TERMINAL_ROWS \in 1 .. 255
         /\ c[2] * TERMINAL_COLUMNS \in Nat /\ Index(c) \in Nat /\ LastRow \in Nat
         /\ (c[2] + 1) * TERMINAL_COLUMNS = c[2] * TERMINAL_COLUMNS + TERMINAL_COLUMNS
         /\ (c[2] - 1) * TERMINAL_COLUMNS = c[2] * TERMINAL_COLUMNS - TERMINAL_COLUMNS
         /\ (TERMINAL_ROWS - 1) * TERMINAL_COLUMNS = LastRow
<1>1. TERMINAL_COLUMNS \in 1 .. 255 /\ TERMINAL_ROWS \in 1 .. 255
  BY TerminalAssumption
<1>2. c[2] \in Nat /\ c[1] \in Nat /\ TERMINAL_COLUMNS \in Nat /\ TERMINAL_ROWS - 1 \in Nat
  BY <1>1 DEF OnScreen
<1> DEFINE C == TERMINAL_COLUMNS
           R == TERMINAL_ROWS
           y == c[2]
<1>3. y * C \in Nat /\ C * (R - 1) \in Nat
  BY <1>2
<1>4. (y + 1) * C = y * C + C /\ (y - 1) * C = y * C - C
  BY <1>2
<1>5. (R - 1) * C = C * (R - 1)
  BY <1>2
<1> QED BY <1>1, <1>2, <1>3, <1>4, <1>5, SMTT(30) DEF Index, LastRow

(* Output moves the cursor on, or to the last row.                         *)
LEMMA PutcForward ==
  ASSUME NEW c, OnScreen(c), NEW ch \in Char, ch # BACKSPACE
  PROVE  /\ OnScreen(putc_internal(c, ch))
         /\ Index(putc_internal(c, ch)) >= Index(c) \/ Index(putc_internal(c, ch)) >= LastRow
         /\ ch = "a" => \/ Index(putc_internal(c, ch)) >= Index(c) + 1
                        \/ Index(putc_internal(c, ch)) >= LastRow
<1> DEFINE C == TERMINAL_COLUMNS
           R == TERMINAL_ROWS
           x == c[1]
           y == c[2]
           down == IF (y + 1) % 256 >= R THEN R - 1 ELSE (y + 1) % 256
<1>1. /\ C \in 1 .. 255 /\ R \in 1 .. 255 /\ x \in 0 .. C - 1 /\ y \in 0 .. R - 1
      /\ y * C \in Nat /\ Index(c) = y * C + x /\ LastRow \in Nat
      /\ (y + 1) * C = y * C + C /\ (R - 1) * C = LastRow
  BY ScreenFacts DEF OnScreen, Index
<1>2. (y + 1) % 256 = y + 1
  <2>1. y + 1 \in 0 .. 255
    BY <1>1, SMTT(30)
  <2> QED BY <2>1, ByteMod
<1>3. down = (IF y + 1 >= R THEN R - 1 ELSE y + 1) /\ down \in 0 .. R - 1
  BY <1>1, <1>2
<1>4. down * C = LastRow \/ down * C = y * C + C
  BY <1>1, <1>3, ZenonT(30)
<1> HIDE DEF down
<1> DEFINE r == <<0, down>>
<1>5. /\ OnScreen(r) /\ Index(r) \in Int
      /\ Index(r) >= Index(c) + 1 \/ Index(r) >= LastRow
  <2>1. r[1] = 0 /\ r[2] = down
    BY Zenon
  <2>2. OnScreen(r)
    BY <1>1, <1>3, <2>1 DEF OnScreen
  <2>3. down * C \in Int
    BY <1>1, <1>4
  <2>4. Index(r) = down * C
    BY <2>1, <2>3 DEF Index
  <2>5. down * C >= Index(c) + 1 \/ down * C >= LastRow
    BY <1>1, <1>4
  <2> QED BY <2>2, <2>3, <2>4, <2>5
<1> HIDE DEF r
<1>6. CASE ch = NEWLINE
  <2>1. putc_internal(c, ch) = r
    BY <1>6, Zenon DEF putc_internal, NEWLINE, BACKSPACE, TAB, r, down
  <2>2. Index(r) >= Index(c) \/ Index(r) >= LastRow
    BY <1>1, <1>5
  <2> QED BY <1>5, <1>6, <2>1, <2>2, Zenon DEF NEWLINE
<1>7. CASE ch = TAB
  <2>1. putc_internal(c, ch) = c
    BY <1>7, Zenon DEF putc_internal, NEWLINE, BACKSPACE, TAB
  <2> QED BY <1>1, <1>7, <2>1 DEF TAB
<1>8. CASE ch = "a"
  <2>1. CASE x + 1 >= C
    <3>1. putc_internal(c, ch) = r
      BY <1>8, <2>1, SMTT(30) DEF putc_internal, NEWLINE, BACKSPACE, TAB, r, down
    <3>2. Index(r) >= Index(c) \/ Index(r) >= LastRow
      BY <1>1, <1>5
    <3> QED BY <1>5, <3>1, <3>2
  <2>2. CASE ~(x + 1 >= C)
    <3> DEFINE q == <<x + 1, y>>
    <3>1. putc_internal(c, ch) = q
      BY <1>8, <2>2 DEF putc_internal, NEWLINE, BACKSPACE, TAB
    <3>2. q[1] = x + 1 /\ q[2] = y /\ q = <<q[1], q[2]>>
      BY Zenon
    <3>3. OnScreen(q) /\ Index(q) = Index(c) + 1
      BY <1>1, <2>2, <3>2 DEF OnScreen, Index
    <3> HIDE DEF q
    <3> QED BY <1>1, <3>1, <3>3
  <2> QED BY <2>1, <2>2, Zenon
<1> QED BY <1>6, <1>7, <1>8 DEF Char

LEMMA PutcBack ==
  ASSUME NEW c, OnScreen(c), Index(c) > 0
  PROVE  /\ OnScreen(putc_internal(c, BACKSPACE))
         /\ Index(putc_internal(c, BACKSPACE)) = Index(c) - 1
<1> DEFINE C == TERMINAL_COLUMNS
           R == TERMINAL_ROWS
           x == c[1]
           y == c[2]
<1>1. /\ C \in 1 .. 255 /\ R \in 1 .. 255 /\ x \in 0 .. C - 1 /\ y \in 0 .. R - 1
      /\ y * C \in Nat /\ Index(c) = y * C + x /\ (y - 1) * C = y * C - C
  BY ScreenFacts DEF OnScreen, Index
<1>2. CASE x = 0
  <2>1. y # 0
    <3>1. y = 0 => y * C = 0
      BY <1>1
    <3> QED BY <1>1, <1>2, <3>1
  <2>2. (y - 1) % 256 = y - 1
    BY <1>1, <2>1, ByteMod
  <2> DEFINE q == <<C - 1, y - 1>>
  <2>3. putc_internal(c, BACKSPACE) = q
    BY <1>2, <2>2, Zenon DEF putc_internal, NEWLINE, BACKSPACE, TAB
  <2>4. q[1] = C - 1 /\ q[2] = y - 1 /\ q = <<q[1], q[2]>>
    BY Zenon
  <2>5. OnScreen(q) /\ Index(q) = Index(c) - 1
    BY <1>1, <1>2, <2>1, <2>4 DEF OnScreen, Index
  <2> QED BY <2>3, <2>5, Zenon
<1>3. CASE x # 0
  <2> DEFINE q == <<x - 1, y>>
  <2>1. putc_internal(c, BACKSPACE) = q
    BY <1>3, Zenon DEF putc_internal, NEWLINE, BACKSPACE, TAB
  <2>2. q[1] = x - 1 /\ q[2] = y /\ q = <<q[1], q[2]>>
    BY Zenon
  <2>3. OnScreen(q) /\ Index(q) = Index(c) - 1
    BY <1>1, <1>3, <2>2 DEF OnScreen, Index
  <2> QED BY <2>1, <2>3, Zenon
<1> QED BY <1>2, <1>3, Zenon

(* A program's output never takes the cursor back before a line that fits. *)
LEMMA OutputForward ==
  ASSUME NEW c, OnScreen(c), NEW b \in Seq(Char), \A i \in 1 .. Len(b) : b[i] # BACKSPACE,
         NEW L \in Nat, L <= LastRow, L <= Index(c)
  PROVE  OnScreen(PutAll(c, b)) /\ L <= Index(PutAll(c, b))
<1>1. Len(b) \in Nat
  BY LenProperties, Zenon
<1>2. PICK f : /\ f[0] = c
               /\ \A k \in 1 .. Len(b) : f[k] = putc_internal(f[k - 1], b[k])
               /\ PutAll(c, b) = f[Len(b)]
  BY <1>1, PutAllAfter
<1> DEFINE P(n) == OnScreen(f[n]) /\ L <= Index(f[n])
           S == {n \in 0 .. Len(b) : ~P(n)}
<1>3. S = {}
  <2> SUFFICES ASSUME S # {} PROVE FALSE
    BY Zenon
  <2>0. S \subseteq Nat
    BY <1>1
  <2> HIDE DEF S
  <2>1. PICK m \in S : \A n \in S : m <= n
    BY <2>0, HasLeast, Zenon
  <2> USE DEF S
  <2>2. m \in 0 .. Len(b) /\ ~P(m)
    BY <2>1, Zenon
  <2>3. m # 0
    BY <1>2, <2>2, Zenon
  <2>4. m - 1 \in 0 .. Len(b) /\ m \in 1 .. Len(b) /\ m - 1 < m
    BY <1>1, <2>2, <2>3
  <2>5. P(m - 1)
    BY <2>1, <2>4
  <2> DEFINE d == f[m - 1]
             e == putc_internal(d, b[m])
  <2>6. f[m] = e /\ b[m] \in Char /\ b[m] # BACKSPACE
    BY <1>2, <2>4, ElementOfSeq, Zenon
  <2>7. OnScreen(d) /\ L <= Index(d)
    BY <2>5, Zenon
  <2> HIDE DEF d
  <2>8. OnScreen(e) /\ (Index(e) >= Index(d) \/ Index(e) >= LastRow)
    BY <2>6, <2>7, PutcForward, Zenon
  <2> HIDE DEF e
  <2>9. L <= Index(e)
    <3>1. Index(d) \in Nat /\ Index(e) \in Nat /\ LastRow \in Nat
      BY <2>7, <2>8, ScreenFacts
    <3> QED BY <2>7, <2>8, <3>1, SMTT(30)
  <2> QED BY <2>2, <2>6, <2>8, <2>9, Zenon
<1>4. P(Len(b))
  BY <1>1, <1>3
<1> QED BY <1>2, <1>4, Zenon

(* The bytes of the line being typed: those that no newline follows.       *)
Typed(b, n) == {k \in 1 .. n : \A j \in k .. n : b[j] # NEWLINE}

(* Ctrl+L takes it past a line that fits.                                  *)
LEMMA Reprinted ==
  ASSUME NEW b \in Seq({"a", NEWLINE})
  PROVE  /\ OnScreen(PutAll(<<0, 0>>, b))
         /\ \A k \in Typed(b, Len(b)) : Len(b) - (k - 1) <= LastRow =>
              Len(b) - (k - 1) <= Index(PutAll(<<0, 0>>, b))
<1> DEFINE c == <<0, 0>>
<1>1. Len(b) \in Nat
  BY LenProperties, Zenon
<1>2. OnScreen(c)
  <2>1. c[1] = 0 /\ c[2] = 0
    BY Zenon
  <2>2. 0 \in 0 .. TERMINAL_COLUMNS - 1 /\ 0 \in 0 .. TERMINAL_ROWS - 1
    BY TerminalAssumption
  <2> QED BY <2>1, <2>2, Zenon DEF OnScreen
<1> HIDE DEF c
<1>3. PICK f : /\ f[0] = c
               /\ \A k \in 1 .. Len(b) : f[k] = putc_internal(f[k - 1], b[k])
               /\ PutAll(c, b) = f[Len(b)]
  BY <1>1, PutAllAfter
<1> DEFINE P(n) == /\ OnScreen(f[n])
                   /\ \A k \in Typed(b, n) : n - (k - 1) <= LastRow => n - (k - 1) <= Index(f[n])
           S == {n \in 0 .. Len(b) : ~P(n)}
<1>4. S = {}
  <2> SUFFICES ASSUME S # {} PROVE FALSE
    BY Zenon
  <2>0. S \subseteq Nat
    BY <1>1
  <2> HIDE DEF S
  <2>1. PICK m \in S : \A n \in S : m <= n
    BY <2>0, HasLeast, Zenon
  <2> USE DEF S
  <2>2. m \in 0 .. Len(b) /\ ~P(m)
    BY <2>1, Zenon
  <2>3. m # 0
    <3>1. Typed(b, 0) = {}
      BY DEF Typed
    <3> QED BY <1>2, <1>3, <2>2, <3>1, ZenonT(30)
  <2>4. m - 1 \in 0 .. Len(b) /\ m \in 1 .. Len(b) /\ m - 1 < m
    BY <1>1, <2>2, <2>3
  <2>5. P(m - 1)
    BY <2>1, <2>4
  <2> DEFINE d == f[m - 1]
             e == putc_internal(d, b[m])
  <2>6. f[m] = e /\ b[m] \in {"a", NEWLINE}
    BY <1>3, <2>4, ElementOfSeq, Zenon
  <2>7. OnScreen(d)
    BY <2>5, Zenon
  <2>8. \A k \in Typed(b, m - 1) : (m - 1) - (k - 1) <= LastRow => (m - 1) - (k - 1) <= Index(d)
    BY <2>5, Zenon
  <2> HIDE DEF d
  <2>9. /\ OnScreen(e)
        /\ b[m] = "a" => Index(e) >= Index(d) + 1 \/ Index(e) >= LastRow
    <3>1. b[m] \in Char /\ b[m] # BACKSPACE
      BY <2>6, Zenon DEF Char, NEWLINE, BACKSPACE
    <3> QED BY <2>7, <3>1, PutcForward, Zenon
  <2> HIDE DEF e
  <2>10. ASSUME NEW k \in Typed(b, m), m - (k - 1) <= LastRow PROVE m - (k - 1) <= Index(e)
    <3>1. Index(d) \in Nat /\ Index(e) \in Nat /\ LastRow \in Nat
      BY <2>7, <2>9, ScreenFacts
    <3>2. k \in 1 .. m /\ \A j \in k .. m : b[j] # NEWLINE
      BY Zenon DEF Typed
    <3>3. b[m] = "a"
      BY <2>4, <2>6, <3>2
    <3>4. CASE k = m
      BY <2>4, <2>9, <2>10, <3>1, <3>3, <3>4, SMTT(30)
    <3>5. CASE k # m
      <4>1. k \in Typed(b, m - 1)
        BY <2>4, <3>2, <3>5 DEF Typed
      <4>2. (m - 1) - (k - 1) <= LastRow
        BY <2>4, <2>10, <3>1, <3>2
      <4>3. (m - 1) - (k - 1) <= Index(d)
        BY <2>8, <4>1, <4>2, Zenon
      <4> QED BY <2>4, <2>9, <2>10, <3>1, <3>2, <3>3, <4>3, SMTT(30)
    <3> QED BY <3>4, <3>5, Zenon
  <2> QED BY <2>2, <2>6, <2>9, <2>10, Zenon
<1>5. P(Len(b))
  BY <1>1, <1>4
<1> QED BY <1>3, <1>5, Zenon DEF c

-----------------------------------------------------------------------------
(* While all is regular, the buffer holds no tab and the cursor is at      *)
(* least as far from the corner as the line being typed is long.           *)
CursorInv ==
  PlainOutputs /\ regular =>
    /\ OnScreen(Cursor)
    /\ \A i \in 1 .. Len(input_buffer) : input_buffer[i] \in {"a", NEWLINE}
    /\ \A k \in Typed(input_buffer, Len(input_buffer)) :
         Len(input_buffer) - (k - 1) <= Index(Cursor)

LEMMA LineFits ==
  ASSUME BufferInv, NEW k \in Typed(input_buffer, Len(input_buffer))
  PROVE  /\ Len(input_buffer) - (k - 1) \in Nat
         /\ Len(input_buffer) - (k - 1) <= LastRow
<1> DEFINE n == Len(input_buffer)
<1>1. /\ n \in Nat /\ n <= KEYBOARD_BUFFER_SIZE /\ KEYBOARD_BUFFER_SIZE \in 1 .. 255
      /\ KEYBOARD_BUFFER_SIZE - 1 <= LastRow /\ LastRow \in Int
  <2>1. TERMINAL_COLUMNS * (TERMINAL_ROWS - 1) \in Int
    BY TerminalAssumption
  <2> QED BY <2>1, LenProperties, TerminalAssumption, CursorAssumption, SMTT(30)
             DEF BufferInv, LastRow
<1>2. k \in 1 .. n /\ \A j \in k .. n : input_buffer[j] # NEWLINE
  BY Zenon DEF Typed
<1>3. CASE k = 1
  <2>1. Newlines(input_buffer) = {}
    BY <1>2, <1>3, Zenon DEF Newlines
  <2>2. Lines = 0
    BY <2>1, FS_EmptySet, Zenon DEF Lines
  <2>3. n < KEYBOARD_BUFFER_SIZE
    BY <2>2, Zenon DEF BufferInv, RoomForEnter
  <2> QED BY <1>1, <1>3, <2>3
<1>4. CASE k # 1
  BY <1>1, <1>2, <1>4
<1> QED BY <1>3, <1>4, Zenon

LEMMA CursorSet ==
  ASSUME NEW c, OnScreen(c), SetCursor(c)
  PROVE  Cursor' = c
BY Zenon DEF OnScreen, SetCursor, Cursor

(* The line that is typed afterwards is a part of the one before, or       *)
(* there is none.                                                          *)
LEMMA CursorKeys ==
  ASSUME BufferInv, CursorInv, NEW ch \in Keys, keyboard_putc(ch)
  PROVE  CursorInv'
<1> SUFFICES ASSUME PlainOutputs, regular' PROVE CursorInv'
  BY Zenon DEF CursorInv
<1> DEFINE b == input_buffer
           n == Len(b)
<1>1. regular /\ b \in Seq(Char) /\ n \in Nat /\ ch \in Char
  <2>1. regular
    BY Zenon DEF keyboard_putc, key_ignored, key_backspace, key_newline, key_printable,
       Irregular
  <2> QED BY <2>1, LenProperties, TerminalAssumption DEF BufferInv
<1>2. /\ OnScreen(Cursor) /\ (\A i \in 1 .. n : b[i] \in {"a", NEWLINE})
      /\ \A k \in Typed(b, n) : n - (k - 1) <= Index(Cursor)
  BY <1>1, Zenon DEF CursorInv
<1>3. CASE key_ignored(ch)
  <2>1. UNCHANGED <<input_buffer, regular, cursor_x, cursor_y>>
    BY <1>3, Zenon DEF key_ignored
  <2> QED BY <2>1, Zenon DEF CursorInv, Cursor
<1>4. CASE key_backspace
  <2>1. /\ b # <<>> /\ LastByte(b) # NEWLINE /\ input_buffer' = Erased(b)
        /\ SetCursor(PutAll(Cursor, IF LastByte(b) = TAB THEN TabErase(cursor_x) ELSE <<BACKSPACE>>))
    BY <1>4, Zenon DEF key_backspace, Erasable
  <2>2. /\ Len(Erased(b)) = n - 1 /\ n \in Nat \ {0}
        /\ \A i \in 1 .. n - 1 : Erased(b)[i] = b[i]
    BY <1>1, <2>1, NewlinesFront, Zenon
  <2>3. b[n] # NEWLINE /\ LastByte(b) = b[n] /\ LastByte(b) # TAB
    BY <1>2, <2>1, <2>2 DEF LastByte, TAB, NEWLINE
  <2> DEFINE c == putc_internal(Cursor, BACKSPACE)
  <2>4. SetCursor(c)
    BY <2>1, <2>3, PutOne, ZenonT(30)
  <2>5. n \in Typed(b, n)
    BY <2>2, <2>3 DEF Typed
  <2>6. Index(Cursor) \in Nat /\ Index(Cursor) > 0
    BY <1>1, <1>2, <2>5, ScreenFacts
  <2>7. OnScreen(c) /\ Index(c) = Index(Cursor) - 1
    BY <1>2, <2>6, PutcBack, Zenon
  <2> HIDE DEF c
  <2>8. Cursor' = c
    BY <2>4, <2>7, CursorSet, Zenon
  <2>9. Len(input_buffer') = n - 1 /\ \A i \in 1 .. n - 1 : input_buffer'[i] = b[i]
    BY <2>1, <2>2, Zenon
  <2>10. ASSUME NEW k \in Typed(input_buffer', n - 1) PROVE (n - 1) - (k - 1) <= Index(c)
    <3>1. k \in 1 .. n - 1 /\ \A j \in k .. n - 1 : input_buffer'[j] # NEWLINE
      BY Zenon DEF Typed
    <3>2. k \in Typed(b, n)
      BY <2>2, <2>3, <2>9, <3>1 DEF Typed
    <3>3. n - (k - 1) <= Index(Cursor)
      BY <1>2, <3>2, Zenon
    <3> QED BY <1>1, <2>6, <2>7, <3>1, <3>3
  <2> QED BY <1>2, <2>2, <2>7, <2>8, <2>9, <2>10, SMTT(30) DEF CursorInv
<1>5. CASE key_newline
  <2>1. input_buffer' = Append(b, NEWLINE) /\ SetCursor(putc_internal(Cursor, NEWLINE))
    BY <1>5, Zenon DEF key_newline
  <2>2. /\ Len(input_buffer') = n + 1 /\ input_buffer'[n + 1] = NEWLINE
        /\ \A i \in 1 .. n : input_buffer'[i] = b[i]
    BY <1>1, <2>1
  <2>3. Typed(input_buffer', n + 1) = {}
    BY <1>1, <2>2 DEF Typed
  <2>4. OnScreen(putc_internal(Cursor, NEWLINE))
    BY <1>2, PutcForward, Zenon DEF Char, NEWLINE, BACKSPACE
  <2>5. OnScreen(Cursor')
    BY <2>1, <2>4, CursorSet, Zenon
  <2> QED BY <1>1, <1>2, <2>2, <2>3, <2>5 DEF CursorInv
<1>6. CASE ch \notin {BACKSPACE, NEWLINE} /\ key_printable(ch)
  <2>1. ch = "a"
    BY <1>1, <1>6, Zenon DEF key_printable, Irregular, Char
  <2> DEFINE c == putc_internal(Cursor, ch)
  <2>2. input_buffer' = Append(b, ch) /\ SetCursor(c)
    BY <1>6, <2>1, PutOne DEF key_printable, TAB
  <2>3. /\ Len(input_buffer') = n + 1 /\ input_buffer'[n + 1] = "a"
        /\ \A i \in 1 .. n : input_buffer'[i] = b[i]
    BY <1>1, <2>1, <2>2
  <2>4. OnScreen(c) /\ (Index(c) >= Index(Cursor) + 1 \/ Index(c) >= LastRow)
    BY <1>1, <1>2, <2>1, PutcForward, SMTT(30) DEF BACKSPACE
  <2>5. Index(Cursor) \in Nat /\ Index(c) \in Nat /\ LastRow \in Nat
    BY <1>2, <2>4, ScreenFacts
  <2> HIDE DEF c
  <2>6. Cursor' = c
    BY <2>2, <2>4, CursorSet, Zenon
  <2>7. ASSUME NEW k \in Typed(input_buffer', n + 1) PROVE (n + 1) - (k - 1) <= Index(c)
    <3>1. k \in 1 .. n + 1 /\ \A j \in k .. n + 1 : input_buffer'[j] # NEWLINE
      BY Zenon DEF Typed
    <3>2. (n + 1) - (k - 1) <= LastRow
      \* there was room for this character, and for Enter
      BY <1>1, <1>6, <3>1, TerminalAssumption, CursorAssumption, SMTT(30)
         DEF key_printable, LastRow
    <3>3. CASE k = n + 1
      BY <1>1, <2>4, <2>5, <3>2, <3>3, SMTT(30)
    <3>4. CASE k # n + 1
      <4>1. k \in Typed(b, n)
        BY <1>1, <2>3, <3>1, <3>4 DEF Typed
      <4>2. n - (k - 1) <= Index(Cursor)
        BY <1>2, <4>1, Zenon
      <4> QED BY <1>1, <2>4, <2>5, <3>1, <3>2, <4>2, SMTT(30)
    <3> QED BY <3>3, <3>4, Zenon
  <2> QED BY <1>1, <1>2, <2>3, <2>4, <2>6, <2>7, SMTT(30) DEF CursorInv
<1> QED BY <1>3, <1>4, <1>5, <1>6 DEF keyboard_putc

(* Ctrl+L prints no more than the buffer, which is shorter than a screen.  *)
LEMMA CursorCtrlL ==
  ASSUME BufferInv, CursorInv, key_ctrl_l
  PROVE  CursorInv'
<1> SUFFICES ASSUME PlainOutputs, regular' PROVE CursorInv'
  BY Zenon DEF CursorInv
<1> DEFINE c == PutAll(<<0, 0>>, input_buffer)
<1>1. regular /\ UNCHANGED input_buffer /\ SetCursor(c)
  BY Zenon DEF key_ctrl_l
<1>2. /\ input_buffer \in Seq(Char) /\ Len(input_buffer) \in Nat
      /\ \A i \in 1 .. Len(input_buffer) : input_buffer[i] \in {"a", NEWLINE}
  BY <1>1, LenProperties, Zenon DEF BufferInv, CursorInv
<1>3. input_buffer \in Seq({"a", NEWLINE})
  BY <1>2, IsASeq
<1>4. /\ OnScreen(c)
      /\ \A k \in Typed(input_buffer, Len(input_buffer)) :
           Len(input_buffer) - (k - 1) <= LastRow => Len(input_buffer) - (k - 1) <= Index(c)
  BY <1>3, Reprinted, Zenon
<1> HIDE DEF c
<1>5. Cursor' = c
  BY <1>1, <1>4, CursorSet, Zenon
<1> QED BY <1>1, <1>2, <1>4, <1>5, LineFits, Zenon DEF CursorInv

LEMMA CursorWrite ==
  ASSUME BufferInv, CursorInv, NEW bytes \in Outputs, terminal_write(bytes)
  PROVE  CursorInv'
<1> SUFFICES ASSUME PlainOutputs, regular' PROVE CursorInv'
  BY DEF CursorInv
<1> DEFINE c == PutAll(Cursor, bytes)
           n == Len(input_buffer)
<1>1. regular /\ UNCHANGED input_buffer /\ SetCursor(c)
  BY Zenon DEF terminal_write
<1>2. /\ OnScreen(Cursor) /\ (\A i \in 1 .. n : input_buffer[i] \in {"a", NEWLINE})
      /\ \A k \in Typed(input_buffer, n) : n - (k - 1) <= Index(Cursor)
  BY <1>1, Zenon DEF CursorInv
<1>3. bytes \in Seq(Char) /\ \A i \in 1 .. Len(bytes) : bytes[i] # BACKSPACE
  BY TerminalAssumption DEF PlainOutputs
<1>4. \A L \in Nat : L <= LastRow /\ L <= Index(Cursor) => OnScreen(c) /\ L <= Index(c)
  BY <1>2, <1>3, OutputForward
<1>5. OnScreen(c)
  <2>1. 0 <= LastRow /\ 0 <= Index(Cursor)
    BY <1>2, ScreenFacts
  <2> QED BY <1>4, <2>1, Zenon
<1> HIDE DEF c
<1>6. Cursor' = c
  BY <1>1, <1>5, CursorSet, Zenon
<1>7. \A k \in Typed(input_buffer, n) : n - (k - 1) <= Index(c)
  BY <1>2, <1>4, LineFits
<1> QED BY <1>1, <1>2, <1>5, <1>6, <1>7, ZenonT(30) DEF CursorInv

(* A read takes bytes from the front: the line being typed gets shorter    *)
(* there, or stays.                                                        *)
LEMMA CursorRead ==
  ASSUME BufferInv, CursorInv, read_finish
  PROVE  CursorInv'
<1> SUFFICES ASSUME PlainOutputs, regular' PROVE CursorInv'
  BY DEF CursorInv
<1> DEFINE b == input_buffer
           n == Len(b)
           r == ReadLength
<1>1. /\ regular /\ UNCHANGED <<cursor_x, cursor_y>>
      /\ input_buffer' = SubSeq(b, r + 1, n)
  BY Zenon DEF read_finish
<1>2. b \in Seq(Char) /\ n \in Nat /\ nbytes \in Nat
  BY LenProperties, Zenon DEF BufferInv
<1>3. r \in 0 .. n
  BY <1>2, ReadLengthInBuffer, Zenon
<1> HIDE DEF r
<1>4. /\ Len(input_buffer') = n - r
      /\ \A i \in 1 .. n - r : input_buffer'[i] = b[i + r]
  BY <1>1, <1>2, <1>3, Suffix
<1>5. /\ OnScreen(Cursor) /\ (\A i \in 1 .. n : b[i] \in {"a", NEWLINE})
      /\ \A k \in Typed(b, n) : n - (k - 1) <= Index(Cursor)
  BY <1>1, Zenon DEF CursorInv
<1>6. Cursor' = Cursor
  BY <1>1, Zenon DEF Cursor
<1>7. \A i \in 1 .. n - r : input_buffer'[i] \in {"a", NEWLINE}
  BY <1>2, <1>3, <1>4, <1>5
<1>8. ASSUME NEW k \in Typed(input_buffer', n - r) PROVE (n - r) - (k - 1) <= Index(Cursor)
  <2>1. k \in 1 .. n - r /\ \A j \in k .. n - r : input_buffer'[j] # NEWLINE
    BY Zenon DEF Typed
  <2>2. ASSUME NEW j \in k + r .. n PROVE b[j] # NEWLINE
    <3>1. j - r \in k .. n - r /\ j - r \in 1 .. n - r /\ (j - r) + r = j
      BY <1>2, <1>3, <2>1
    <3> QED BY <1>4, <2>1, <3>1, Zenon
  <2>3. k + r \in Typed(b, n)
    BY <1>2, <1>3, <2>1, <2>2 DEF Typed
  <2>4. n - ((k + r) - 1) <= Index(Cursor)
    BY <1>5, <2>3, Zenon
  <2> QED BY <1>2, <1>3, <2>1, <2>4
<1> QED BY <1>4, <1>5, <1>6, <1>7, <1>8, SMTT(30) DEF CursorInv

LEMMA EmptyLine ==
  ASSUME input_buffer' = <<>>, OnScreen(Cursor')
  PROVE  CursorInv'
<1>1. Len(input_buffer') = 0
  BY Zenon
<1>2. Typed(input_buffer', 0) = {}
  BY DEF Typed
<1> QED BY <1>1, <1>2 DEF CursorInv

LEMMA Corner == OnScreen(<<0, 0>>)
<1> DEFINE q == <<0, 0>>
<1>1. q[1] = 0 /\ q[2] = 0 /\ q = <<q[1], q[2]>>
  BY Zenon
<1>2. 0 \in 0 .. TERMINAL_COLUMNS - 1 /\ 0 \in 0 .. TERMINAL_ROWS - 1
  BY TerminalAssumption
<1> QED BY <1>1, <1>2, Zenon DEF OnScreen

LEMMA NextCursorInv == BufferInv /\ CursorInv /\ [Next]_vars => CursorInv'
<1> SUFFICES ASSUME BufferInv, CursorInv, [Next]_vars PROVE CursorInv'
  BY Zenon
<1>1. ASSUME UNCHANGED <<input_buffer, cursor_x, cursor_y>>, regular' => regular
      PROVE  CursorInv'
  BY <1>1, Zenon DEF CursorInv, Cursor
<1>2. CASE UNCHANGED vars
  BY <1>1, <1>2, Zenon DEF vars
<1>3. CASE other_interrupt \/ read_check
  BY <1>1, <1>3, Zenon DEF other_interrupt, read_check
<1>4. CASE \E n \in ReadSizes : read_enter(n)
  <2>1. UNCHANGED <<input_buffer, cursor_x, cursor_y>> /\ (regular' => regular)
    BY <1>4, Zenon DEF read_enter, Irregular
  <2> QED BY <1>1, <2>1, Zenon
<1>5. CASE terminal_close
  <2>1. ~regular'
    BY <1>5, Zenon DEF terminal_close, Irregular
  <2> QED BY <2>1, Zenon DEF CursorInv
<1>6. CASE reset_terminal
  BY <1>6, Corner, EmptyLine DEF reset_terminal, Cursor
<1> QED
  BY <1>2, <1>3, <1>4, <1>5, <1>6, CursorKeys, CursorCtrlL, CursorWrite, CursorRead
 , ZenonT(30) DEF Next

(* The cursor stays on the screen: a backspace in the corner, which would  *)
(* take it off, is never echoed, because the line being typed is never     *)
(* longer than the cells before the cursor (keyboard_putc, terminal_read,  *)
(* Ctrl+L and programs' output agree on that).                             *)
THEOREM CursorKept == Spec => []CursorOnScreen
<1>1. Init => CursorInv
  <2> SUFFICES ASSUME Init PROVE CursorInv
    OBVIOUS
  <2>1. Cursor = <<0, 0>> /\ input_buffer = <<>>
    BY Zenon DEF Init, Cursor
  <2>2. Len(input_buffer) = 0 /\ Typed(input_buffer, 0) = {}
    BY <2>1 DEF Typed
  <2> QED BY <2>1, <2>2, Corner DEF CursorInv
<1>2. CursorInv => CursorOnScreen
  BY TerminalAssumption DEF CursorInv, OnScreen, Cursor, CursorOnScreen
<1> QED BY <1>1, <1>2, NextCursorInv, BufferInvariance, PTL DEF Spec
=============================================================================
