--------------------------- MODULE LibraryProofs ---------------------------
(***************************************************************************)
(* The kernel's library.  The circular buffer implements a bounded deque,  *)
(* for every capacity, every set of bytes and all inputs; the memory       *)
(* routines write the bytes they were asked for, and no others.            *)
(***************************************************************************)
EXTENDS CircularBuffer, LibMemory, TLAPS

(* The contents of the buffer as a sequence.                               *)
Contents == BytesFrom(head, current_len)

-----------------------------------------------------------------------------
(* Advancing a pointer keeps it in the array.                              *)
LEMMA ForwardType ==
  ASSUME NEW p \in Offsets, NEW n \in 0 .. MAX_LEN
  PROVE  Forward(p, n) \in Offsets
  BY CircularBufferAssumption DEF Forward, Offsets

(* Advancing by m and then by n is advancing by m + n.                     *)
LEMMA ForwardForward ==
  ASSUME NEW p \in Offsets, NEW m \in 0 .. MAX_LEN, NEW n \in 0 .. MAX_LEN,
         m + n <= MAX_LEN
  PROVE  Forward(Forward(p, m), n) = Forward(p, m + n)
  BY CircularBufferAssumption DEF Forward, Offsets

(* Advancing by nothing.                                                   *)
LEMMA ForwardZero ==
  ASSUME NEW p \in Offsets
  PROVE  Forward(p, 0) = p
  BY CircularBufferAssumption DEF Forward, Offsets

(* Stepping back undoes the last advance.                                  *)
LEMMA BackForward ==
  ASSUME NEW p \in Offsets, NEW n \in 1 .. MAX_LEN
  PROVE  Back(Forward(p, n)) = Forward(p, n - 1)
  BY CircularBufferAssumption DEF Forward, Back, Offsets

(* Different distances from a pointer are different offsets.               *)
LEMMA ForwardInjective ==
  ASSUME NEW p \in Offsets, NEW i \in Offsets, NEW j \in Offsets,
         Forward(p, i) = Forward(p, j)
  PROVE  i = j
  BY CircularBufferAssumption DEF Forward, Offsets

(* Distance is the inverse of Forward.                                     *)
LEMMA DistanceForward ==
  ASSUME NEW p \in Offsets, NEW i \in Offsets
  PROVE  Distance(p, Forward(p, i)) = i
  BY CircularBufferAssumption DEF Forward, Distance, Offsets

(* With L bytes stored from p on, the n bytes that still fit after them do *)
(* not reach any of the stored ones.                                       *)
LEMMA StoredOutOfReach ==
  ASSUME NEW p \in Offsets, NEW L \in 0 .. MAX_LEN, NEW n \in 0 .. MAX_LEN,
         L + n <= MAX_LEN, NEW k \in 0 .. L - 1
  PROVE  ~(Distance(Forward(p, L), Forward(p, k)) < n)
<1>0. MAX_LEN \in Nat \ {0} /\ p \in 0 .. MAX_LEN - 1
  BY CircularBufferAssumption, Zenon DEF Offsets
<1>1. CASE p + L < MAX_LEN
  BY <1>0, <1>1 DEF Distance, Forward
<1>2. CASE p + L >= MAX_LEN /\ p + k < MAX_LEN
  BY <1>0, <1>2 DEF Distance, Forward
<1>3. CASE p + L >= MAX_LEN /\ p + k >= MAX_LEN
  BY <1>0, <1>3 DEF Distance, Forward
<1> QED
  BY <1>0, <1>1, <1>2, <1>3

(* A distance is an offset.                                                *)
LEMMA DistanceType ==
  ASSUME NEW p \in Offsets, NEW q \in Offsets
  PROVE  Distance(p, q) \in Offsets
  BY CircularBufferAssumption DEF Distance, Offsets

(* The bytes from a pointer on are a sequence of bytes of that length.     *)
LEMMA BytesFromType ==
  ASSUME TypeOK, NEW p \in Offsets, NEW n \in 0 .. MAX_LEN
  PROVE  /\ BytesFrom(p, n) \in Seq(Bytes)
         /\ Len(BytesFrom(p, n)) = n
         /\ \A i \in 1 .. n : BytesFrom(p, n)[i] = data[Forward(p, i - 1)]
<1>1. MAX_LEN \in Nat /\ n \in Nat
  BY CircularBufferAssumption
<1>2. ASSUME NEW i \in 1 .. n PROVE data[Forward(p, i - 1)] \in Bytes
  <2>1. i - 1 \in 0 .. MAX_LEN
    BY <1>1
  <2> QED
    BY <2>1, ForwardType, Zenon DEF TypeOK
<1>3. BytesFrom(p, n) \in [1 .. n -> Bytes]
  BY <1>2, Zenon DEF BytesFrom
<1> QED
  BY <1>1, <1>3 DEF BytesFrom

-----------------------------------------------------------------------------
(* The initial states satisfy the type invariant.                          *)
LEMMA InitType == Init => TypeOK
  BY CircularBufferAssumption
     DEF Init, circular_buffer_init, TypeOK, Offsets, Forward, Ret

(* Every call keeps the pointers in the array and the count in step.       *)
LEMMA NextType == TypeOK /\ [Next]_vars => TypeOK'
<1> SUFFICES ASSUME TypeOK, [Next]_vars PROVE TypeOK'
  BY Zenon
<1>0. /\ MAX_LEN \in Nat \ {0} /\ head \in Offsets /\ tail \in Offsets
      /\ current_len \in 0 .. MAX_LEN /\ tail = Forward(head, current_len)
      /\ data \in [Offsets -> Bytes]
      /\ ret \in [n : -1 .. MAX_LEN, bytes : Seq(Bytes)]
  BY CircularBufferAssumption, Zenon DEF TypeOK
<1>1. ASSUME NEW n \in -1 .. MAX_LEN, NEW s \in Seq(Bytes), ret' = Ret(n, s)
      PROVE  ret' \in [n : -1 .. MAX_LEN, bytes : Seq(Bytes)]
  BY <1>1, Zenon DEF Ret
<1>2. ASSUME NEW n \in -1 .. MAX_LEN, ret' = Ret(n, <<>>)
      PROVE  ret' \in [n : -1 .. MAX_LEN, bytes : Seq(Bytes)]
  BY <1>2 DEF Ret
<1>3. CASE circular_buffer_clear
  <2>1. ret' \in [n : -1 .. MAX_LEN, bytes : Seq(Bytes)]
    BY <1>0, <1>2, <1>3 DEF circular_buffer_clear
  <2> QED
    BY <1>0, <1>3, <2>1 DEF circular_buffer_clear, TypeOK, Forward, Offsets
<1>4. ASSUME NEW input \in Inputs, circular_buffer_put(input)
      PROVE  TypeOK'
  <2>0. input \in Seq(Bytes) /\ Len(input) \in Nat
    BY CircularBufferAssumption
  <2>1. PICK n \in 0 .. MAX_LEN :
          /\ n <= Len(input) /\ current_len + n <= MAX_LEN
          /\ data' = [q \in Offsets |-> IF Distance(tail, q) < n
                                          THEN input[Distance(tail, q) + 1]
                                          ELSE data[q]]
          /\ tail' = Forward(tail, n)
          /\ current_len' = current_len + n
          /\ ret' = Ret(n, <<>>)
          /\ head' = head
    <3> DEFINE n == IF current_len + Len(input) > MAX_LEN THEN MAX_LEN - current_len
                                                          ELSE Len(input)
    <3>1. n \in 0 .. MAX_LEN /\ n <= Len(input) /\ current_len + n <= MAX_LEN
      BY <1>0, <2>0
    <3>2. /\ data' = [q \in Offsets |-> IF Distance(tail, q) < n
                                          THEN input[Distance(tail, q) + 1]
                                          ELSE data[q]]
          /\ tail' = Forward(tail, n)
          /\ current_len' = current_len + n
          /\ ret' = Ret(n, <<>>)
          /\ head' = head
      BY <1>4, Zenon DEF circular_buffer_put
    <3> HIDE DEF n
    <3> QED BY <3>1, <3>2, Zenon
  <2>2. data' \in [Offsets -> Bytes]
    <3>1. ASSUME NEW q \in Offsets, Distance(tail, q) < n
          PROVE  input[Distance(tail, q) + 1] \in Bytes
      <4>1. PICK d \in 0 .. MAX_LEN - 1 : d = Distance(tail, q)
        BY <1>0, DistanceType, Zenon DEF Offsets
      <4>2. d + 1 \in 1 .. Len(input)
        <5>1. d < n /\ n <= Len(input) /\ n \in Int /\ Len(input) \in Nat
          BY <2>0, <2>1, <3>1, <4>1
        <5> QED BY <5>1
      <4> QED
        BY <2>0, <4>1, <4>2
    <3> QED
      BY <1>0, <2>1, <3>1, Zenon
  <2>3. tail' \in Offsets /\ tail' = Forward(head', current_len')
    <3>1. tail' = Forward(tail, n) /\ head' = head /\ current_len' = current_len + n
      BY <2>1, Zenon
    <3>2. tail \in Offsets /\ head \in Offsets /\ current_len \in 0 .. MAX_LEN
          /\ n \in 0 .. MAX_LEN /\ current_len + n <= MAX_LEN
          /\ tail = Forward(head, current_len)
      BY <1>0, <2>1, Zenon
    <3>3. Forward(tail, n) \in Offsets
      BY <3>2, ForwardType, Zenon
    <3>4. Forward(Forward(head, current_len), n) = Forward(head, current_len + n)
      BY <3>2, ForwardForward, Zenon
    <3> QED BY <3>1, <3>2, <3>3, <3>4, Zenon
  <2>4. ret' \in [n : -1 .. MAX_LEN, bytes : Seq(Bytes)]
    <3>1. n \in -1 .. MAX_LEN
      OBVIOUS
    <3> QED BY <1>2, <2>1, <3>1, Zenon
  <2>5. head' \in Offsets /\ current_len' \in 0 .. MAX_LEN
    <3>1. current_len + n \in 0 .. MAX_LEN
      BY <1>0, <2>1
    <3> QED BY <1>0, <2>1, <3>1, Zenon
  <2> QED
    BY <2>2, <2>3, <2>4, <2>5, Zenon DEF TypeOK
<1>5. ASSUME NEW n \in 0 .. MAX_LEN, n <= current_len,
             ret' = Ret(n, BytesFrom(head, n)), UNCHANGED <<data, tail>>,
             \/ head' = head /\ current_len' = current_len
             \/ head' = Forward(head, n) /\ current_len' = current_len - n
      PROVE  TypeOK'
  <2>1. ret' \in [n : -1 .. MAX_LEN, bytes : Seq(Bytes)]
    BY <1>0, <1>1, <1>5, BytesFromType
  <2>2. current_len - n \in 0 .. MAX_LEN /\ n + (current_len - n) = current_len
    BY <1>0, <1>5
  <2>3. /\ Forward(head, n) \in Offsets
        /\ Forward(Forward(head, n), current_len - n) = tail
    BY <1>0, <1>5, <2>2, ForwardType, ForwardForward
  <2> QED
    BY <1>0, <1>5, <2>1, <2>2, <2>3, Zenon DEF TypeOK
<1>6. ASSUME NEW len \in Lens, circular_buffer_get(len) \/ circular_buffer_peek(len)
      PROVE  TypeOK'
  <2>1. Available(len) \in 0 .. MAX_LEN /\ Available(len) <= current_len
    BY <1>0, CircularBufferAssumption DEF Available
  <2> QED
    BY <1>5, <1>6, <2>1, Zenon DEF circular_buffer_get, circular_buffer_peek
<1>7. ASSUME UNCHANGED <<data, head, tail, current_len>>,
             ret' \in [n : -1 .. MAX_LEN, bytes : Seq(Bytes)]
      PROVE  TypeOK'
  BY <1>7, Zenon DEF TypeOK
<1>8. ASSUME NEW b \in Bytes, circular_buffer_put_byte(b)
      PROVE  TypeOK'
  <2>1. CASE current_len >= MAX_LEN
    BY <1>0, <1>2, <1>7, <1>8, <2>1 DEF circular_buffer_put_byte
  <2>2. CASE ~(current_len >= MAX_LEN)
    <3>1. /\ data' = [data EXCEPT ![tail] = b] /\ tail' = Forward(tail, 1)
          /\ current_len' = current_len + 1 /\ head' = head /\ ret' = Ret(1, <<>>)
      BY <1>8, <2>2, Zenon DEF circular_buffer_put_byte
    <3>2. 1 \in 0 .. MAX_LEN /\ 1 \in -1 .. MAX_LEN /\ current_len + 1 <= MAX_LEN
      BY <1>0, <2>2
    <3>3. tail' \in Offsets /\ tail' = Forward(head', current_len')
      BY <1>0, <3>1, <3>2, ForwardType, ForwardForward
    <3>4. ret' \in [n : -1 .. MAX_LEN, bytes : Seq(Bytes)]
      BY <1>2, <3>1, <3>2, Zenon
    <3> QED
      BY <1>0, <3>1, <3>2, <3>3, <3>4 DEF TypeOK
  <2> QED
    BY <2>1, <2>2, Zenon
<1>9. CASE circular_buffer_get_byte
  <2>1. CASE current_len = 0
    BY <1>0, <1>2, <1>7, <1>9, <2>1 DEF circular_buffer_get_byte
  <2>2. CASE current_len # 0
    <3>1. /\ ret' = Ret(1, <<data[head]>>) /\ head' = Forward(head, 1)
          /\ current_len' = current_len - 1 /\ UNCHANGED <<data, tail>>
      BY <1>9, <2>2, Zenon DEF circular_buffer_get_byte
    <3>2. 1 \in 0 .. MAX_LEN /\ 1 <= current_len
      BY <1>0, <2>2
    <3>3. BytesFrom(head, 1) = <<data[head]>>
      BY <1>0, ForwardZero DEF BytesFrom
    <3> QED
      BY <1>5, <3>1, <3>2, <3>3, Zenon
  <2> QED
    BY <2>1, <2>2, Zenon
<1>10. CASE circular_buffer_peek_end_byte
  <2>1. Back(tail) \in Offsets
    BY <1>0 DEF Back, Offsets
  <2>2. <<data[Back(tail)]>> \in Seq(Bytes) /\ 1 \in -1 .. MAX_LEN /\ 0 \in -1 .. MAX_LEN
    BY <1>0, <2>1
  <2>3. ret' \in [n : -1 .. MAX_LEN, bytes : Seq(Bytes)]
    BY <1>1, <1>2, <1>10, <2>2, Zenon DEF circular_buffer_peek_end_byte
  <2> QED
    BY <1>7, <1>10, <2>3, Zenon DEF circular_buffer_peek_end_byte
<1>11. CASE circular_buffer_remove_end_byte
  <2>1. CASE current_len = 0
    BY <1>0, <1>2, <1>7, <1>11, <2>1 DEF circular_buffer_remove_end_byte
  <2>2. CASE current_len # 0
    <3>1. /\ tail' = Back(tail) /\ current_len' = current_len - 1
          /\ ret' = Ret(1, <<>>) /\ UNCHANGED <<data, head>>
      BY <1>11, <2>2, Zenon DEF circular_buffer_remove_end_byte
    <3>2. /\ current_len \in 1 .. MAX_LEN /\ current_len - 1 \in 0 .. MAX_LEN
          /\ 1 \in -1 .. MAX_LEN
      BY <1>0, <2>2
    <3>3. Back(tail) = Forward(head, current_len - 1)
      BY <1>0, <3>2, BackForward, Zenon
    <3>4. ret' \in [n : -1 .. MAX_LEN, bytes : Seq(Bytes)]
      BY <1>2, <3>1, <3>2, Zenon
    <3> QED
      BY <1>0, <3>1, <3>2, <3>3, <3>4, ForwardType DEF TypeOK
  <2> QED
    BY <2>1, <2>2
<1>12. ASSUME NEW b \in Bytes, circular_buffer_find(b)
       PROVE  TypeOK'
  <2>1. PICK k \in -1 .. MAX_LEN : ret' = Ret(k, <<>>)
    BY <1>0, <1>12 DEF circular_buffer_find
  <2> QED
    BY <1>2, <1>7, <1>12, <2>1, Zenon DEF circular_buffer_find
<1>13. CASE UNCHANGED vars
  BY <1>0, <1>7, <1>13, Zenon DEF vars
<1> QED
  BY <1>3, <1>4, <1>6, <1>8, <1>9, <1>10, <1>11, <1>12, <1>13, Zenon DEF Next

-----------------------------------------------------------------------------
(* Facts about sequences that are functions on an initial interval.        *)
LEMMA SeqEqual ==
  ASSUME NEW S, NEW s \in Seq(S), NEW t \in Seq(S), Len(s) = Len(t),
         \A i \in 1 .. Len(s) : s[i] = t[i]
  PROVE  s = t
  OBVIOUS

LEMMA ConcatFacts ==
  ASSUME NEW S, NEW s \in Seq(S), NEW t \in Seq(S)
  PROVE  /\ s \o t \in Seq(S)
         /\ Len(s \o t) = Len(s) + Len(t)
         /\ \A i \in 1 .. Len(s) + Len(t) :
              (s \o t)[i] = IF i <= Len(s) THEN s[i] ELSE t[i - Len(s)]
  OBVIOUS

LEMMA PrefixFacts ==
  ASSUME NEW S, NEW s \in Seq(S), NEW n \in 0 .. Len(s)
  PROVE  /\ SubSeq(s, 1, n) \in Seq(S) /\ Len(SubSeq(s, 1, n)) = n
         /\ \A i \in 1 .. n : SubSeq(s, 1, n)[i] = s[i]
  OBVIOUS

LEMMA SuffixFacts ==
  ASSUME NEW S, NEW s \in Seq(S), NEW n \in 0 .. Len(s)
  PROVE  /\ SubSeq(s, n + 1, Len(s)) \in Seq(S)
         /\ Len(SubSeq(s, n + 1, Len(s))) = Len(s) - n
         /\ \A i \in 1 .. Len(s) - n : SubSeq(s, n + 1, Len(s))[i] = s[n + i]
<1>1. /\ Len(s) \in Nat /\ n \in Nat /\ n <= Len(s)
      /\ \A i \in 1 .. Len(s) : s[i] \in S
  OBVIOUS
<1>2. SubSeq(s, n + 1, Len(s)) = [i \in 1 .. Len(s) - n |-> s[n + i]]
  BY <1>1
<1>3. [i \in 1 .. Len(s) - n |-> s[n + i]] \in [1 .. Len(s) - n -> S]
  <2>1. ASSUME NEW i \in 1 .. Len(s) - n PROVE s[n + i] \in S
    <3>1. n + i \in 1 .. Len(s)
      BY <1>1
    <3> QED BY <1>1, <3>1, Zenon
  <2> QED BY <2>1, Zenon
<1> DEFINE m == Len(s) - n
           f == [i \in 1 .. m |-> s[n + i]]
<1>4. m \in Nat
  BY <1>1
<1>5. f \in [1 .. m -> S] /\ \A i \in 1 .. m : f[i] = s[n + i]
  BY <1>3, Zenon
<1>6. f \in Seq(S) /\ Len(f) = m
  <2> HIDE DEF m, f
  <2> QED BY <1>4, <1>5
<1> QED
  BY <1>2, <1>5, <1>6, Zenon

(* The contents are as many bytes as the count says, read from head on.    *)
ContentsOK ==
  /\ Contents \in Seq(Bytes)
  /\ Len(Contents) = current_len
  /\ \A i \in 1 .. current_len : Contents[i] = data[Forward(head, i - 1)]

(* This holds whenever the type invariant does, in the next state too.     *)
LEMMA ContentsFacts == TypeOK => ContentsOK
  BY BytesFromType, Zenon DEF TypeOK, Contents, ContentsOK

LEMMA ContentsFactsNext == TypeOK' => ContentsOK'
  BY ContentsFacts, PTL

(* A prefix of the contents is what a read from head copies out.           *)
LEMMA PrefixRead ==
  ASSUME TypeOK, NEW n \in 0 .. current_len
  PROVE  BytesFrom(head, n) = SubSeq(Contents, 1, n)
<1>1. /\ current_len \in 0 .. MAX_LEN /\ MAX_LEN \in Nat /\ head \in Offsets
      /\ ContentsOK
  BY ContentsFacts, CircularBufferAssumption, Zenon DEF TypeOK
<1>2. /\ BytesFrom(head, n) \in Seq(Bytes) /\ Len(BytesFrom(head, n)) = n
      /\ \A i \in 1 .. n : BytesFrom(head, n)[i] = data[Forward(head, i - 1)]
  BY <1>1, BytesFromType
<1>3. /\ SubSeq(Contents, 1, n) \in Seq(Bytes)
      /\ Len(SubSeq(Contents, 1, n)) = n
      /\ \A i \in 1 .. n : SubSeq(Contents, 1, n)[i] = Contents[i]
  <2>1. Contents \in Seq(Bytes) /\ n \in 0 .. Len(Contents)
    BY <1>1, Zenon DEF ContentsOK
  <2> QED BY <2>1, PrefixFacts, Zenon
<1>4. ASSUME NEW i \in 1 .. n
      PROVE  BytesFrom(head, n)[i] = SubSeq(Contents, 1, n)[i]
  <2>1. i \in 1 .. current_len
    BY <1>1
  <2>2. Contents[i] = data[Forward(head, i - 1)]
    BY <1>1, <2>1, Zenon DEF ContentsOK
  <2> QED BY <1>2, <1>3, <2>2, Zenon
<1> QED
  BY <1>2, <1>3, <1>4, SeqEqual, Zenon

(* circular_buffer_get and circular_buffer_peek.                           *)
LEMMA GetRefines ==
  ASSUME TypeOK, TypeOK', NEW len \in Nat, circular_buffer_get(len)
  PROVE  Deque!Get(len)
<1> DEFINE n == Available(len)
<1>1. /\ current_len \in 0 .. MAX_LEN /\ MAX_LEN \in Nat /\ head \in Offsets
      /\ ContentsOK /\ ContentsOK'
  BY ContentsFacts, ContentsFactsNext, CircularBufferAssumption, Zenon DEF TypeOK
<1>2. n \in 0 .. current_len /\ n = Deque!Smaller(len, Len(Contents))
  BY <1>1 DEF Available, Deque!Smaller, ContentsOK
<1>3. /\ ret' = Ret(n, BytesFrom(head, n))
      /\ head' = Forward(head, n) /\ current_len' = current_len - n
      /\ data' = data
  BY Zenon DEF circular_buffer_get
<1> HIDE DEF n
<1>4. ret' = Ret(n, SubSeq(Contents, 1, n))
  BY <1>2, <1>3, PrefixRead, Zenon
<1>5. Contents' = SubSeq(Contents, n + 1, Len(Contents))
  <2>1. /\ SubSeq(Contents, n + 1, Len(Contents)) \in Seq(Bytes)
        /\ Len(SubSeq(Contents, n + 1, Len(Contents))) = current_len - n
        /\ \A i \in 1 .. current_len - n :
             SubSeq(Contents, n + 1, Len(Contents))[i] = Contents[n + i]
    <3>1. Contents \in Seq(Bytes) /\ Len(Contents) = current_len
      BY <1>1, Zenon DEF ContentsOK
    <3>2. n \in 0 .. Len(Contents)
      BY <1>2, <3>1, Zenon
    <3> HIDE DEF Contents
    <3> QED BY <3>1, <3>2, SuffixFacts, Zenon
  <2>2. ASSUME NEW i \in 1 .. current_len - n
        PROVE  Contents'[i] = Contents[n + i]
    <3>1. /\ n + i \in 1 .. current_len /\ i - 1 \in 0 .. MAX_LEN
          /\ n \in 0 .. MAX_LEN /\ n + (i - 1) <= MAX_LEN
          /\ n + (i - 1) = (n + i) - 1
      <4>1. /\ MAX_LEN \in Int /\ current_len \in Int /\ n \in Int /\ i \in Int
            /\ current_len <= MAX_LEN /\ 0 <= n /\ n <= current_len
            /\ 1 <= i /\ i <= current_len - n
        <5>1. current_len \in 0 .. MAX_LEN /\ MAX_LEN \in Nat /\ n \in 0 .. current_len
          BY <1>1, <1>2, Zenon
        <5> QED BY <5>1
      <4> QED BY <4>1
    <3>2. Forward(Forward(head, n), i - 1) = Forward(head, (n + i) - 1)
      BY <1>1, <3>1, ForwardForward
    <3> QED
      BY <1>1, <1>3, <3>1, <3>2, Zenon DEF ContentsOK
  <2>3. Contents' \in Seq(Bytes) /\ Len(Contents') = current_len - n
    BY <1>1, <1>3, Zenon DEF ContentsOK
  <2> QED
    BY <2>1, <2>2, <2>3, SeqEqual, Zenon
<1> QED
  BY <1>2, <1>4, <1>5, Zenon DEF Deque!Get, Deque!Ret, Ret, Contents

LEMMA PeekRefines ==
  ASSUME TypeOK, NEW len \in Nat, circular_buffer_peek(len)
  PROVE  Deque!Peek(len)
<1> DEFINE n == Available(len)
<1>1. /\ current_len \in 0 .. MAX_LEN /\ MAX_LEN \in Nat /\ ContentsOK
  BY ContentsFacts, CircularBufferAssumption, Zenon DEF TypeOK
<1>2. n \in 0 .. current_len /\ n = Deque!Smaller(len, Len(Contents))
  BY <1>1 DEF Available, Deque!Smaller, ContentsOK
<1>3. ret' = Ret(n, BytesFrom(head, n)) /\ Contents' = Contents
  BY Zenon DEF circular_buffer_peek, Contents, BytesFrom
<1> HIDE DEF n
<1>4. ret' = Ret(n, SubSeq(Contents, 1, n))
  BY <1>2, <1>3, PrefixRead, Zenon
<1> QED
  BY <1>2, <1>3, <1>4, Zenon DEF Deque!Peek, Deque!Ret, Ret, Contents

(* circular_buffer_put.                                                    *)
LEMMA PutRefines ==
  ASSUME TypeOK, TypeOK', NEW input \in Seq(Bytes), circular_buffer_put(input)
  PROVE  Deque!Put(input)
<1>1. /\ current_len \in 0 .. MAX_LEN /\ MAX_LEN \in Nat \ {0}
      /\ head \in Offsets /\ tail \in Offsets
      /\ tail = Forward(head, current_len) /\ ContentsOK /\ ContentsOK'
      /\ Len(input) \in Nat
  BY ContentsFacts, ContentsFactsNext, CircularBufferAssumption DEF TypeOK
<1>2. PICK n \in 0 .. MAX_LEN :
        /\ n <= Len(input) /\ current_len + n <= MAX_LEN
        /\ n = Deque!Smaller(Len(input), MAX_LEN - Len(Contents))
        /\ data' = [q \in Offsets |-> IF Distance(tail, q) < n
                                        THEN input[Distance(tail, q) + 1]
                                        ELSE data[q]]
        /\ current_len' = current_len + n
        /\ ret' = Ret(n, <<>>)
        /\ head' = head
  <2> DEFINE n == IF current_len + Len(input) > MAX_LEN THEN MAX_LEN - current_len
                                                        ELSE Len(input)
  <2>1. /\ n \in 0 .. MAX_LEN
        /\ n <= Len(input) /\ current_len + n <= MAX_LEN
    BY <1>1
  <2>2. Len(Contents) = current_len
    BY <1>1, Zenon DEF ContentsOK
  <2>3. n = Deque!Smaller(Len(input), MAX_LEN - Len(Contents))
    BY <1>1, <2>2 DEF Deque!Smaller
  <2>4. /\ data' = [q \in Offsets |-> IF Distance(tail, q) < n
                                        THEN input[Distance(tail, q) + 1]
                                        ELSE data[q]]
        /\ current_len' = current_len + n
        /\ ret' = Ret(n, <<>>)
        /\ head' = head
    BY Zenon DEF circular_buffer_put
  <2> HIDE DEF n
  <2> QED BY <2>1, <2>3, <2>4, Zenon
<1>3. Contents' = Contents \o SubSeq(input, 1, n)
  <2>1. /\ SubSeq(input, 1, n) \in Seq(Bytes) /\ Len(SubSeq(input, 1, n)) = n
        /\ \A i \in 1 .. n : SubSeq(input, 1, n)[i] = input[i]
    <3>1. n \in 0 .. Len(input)
      BY <1>1, <1>2
    <3> QED BY <3>1, PrefixFacts, Zenon
  <2>2. /\ Contents \o SubSeq(input, 1, n) \in Seq(Bytes)
        /\ Len(Contents \o SubSeq(input, 1, n)) = current_len + n
        /\ \A i \in 1 .. current_len + n :
             (Contents \o SubSeq(input, 1, n))[i] =
               IF i <= current_len THEN Contents[i]
                                   ELSE SubSeq(input, 1, n)[i - current_len]
    <3>1. Contents \in Seq(Bytes) /\ Len(Contents) = current_len
      BY <1>1, Zenon DEF ContentsOK
    <3> DEFINE u == SubSeq(input, 1, n)
    <3>2. u \in Seq(Bytes) /\ Len(u) = n
      BY <2>1, Zenon
    <3> HIDE DEF u, Contents
    <3>3. /\ Contents \o u \in Seq(Bytes)
          /\ Len(Contents \o u) = Len(Contents) + Len(u)
          /\ \A i \in 1 .. Len(Contents) + Len(u) :
               (Contents \o u)[i] =
                 IF i <= Len(Contents) THEN Contents[i] ELSE u[i - Len(Contents)]
      BY <3>1, <3>2, ConcatFacts, Zenon
    <3>4. /\ Contents \o u \in Seq(Bytes)
          /\ Len(Contents \o u) = current_len + n
          /\ \A i \in 1 .. current_len + n :
               (Contents \o u)[i] =
                 IF i <= current_len THEN Contents[i] ELSE u[i - current_len]
      BY <3>1, <3>2, <3>3, Zenon
    <3> QED BY <3>4, Zenon DEF u
  <2>3. ASSUME NEW i \in 1 .. current_len, i \in 1 .. current_len + n
        PROVE  Contents'[i] = Contents[i]
    <3>0. i - 1 \in 0 .. MAX_LEN
      BY <1>1
    <3>1. PICK q \in Offsets : q = Forward(head, i - 1)
      BY <1>1, <3>0, ForwardType, Zenon
    <3>2. i - 1 \in 0 .. current_len - 1
      BY <1>1
    <3>3. ~(Distance(tail, q) < n)
      BY <1>1, <1>2, <3>1, <3>2, StoredOutOfReach, Zenon
    <3> QED
      BY <1>1, <1>2, <2>3, <3>1, <3>3, Zenon DEF ContentsOK
  <2>4. ASSUME NEW i \in current_len + 1 .. current_len + n
        PROVE  Contents'[i] = input[i - current_len]
    <3>0. i - 1 \in 0 .. MAX_LEN
      BY <1>1, <1>2
    <3>1. PICK q \in Offsets : q = Forward(head, i - 1)
      BY <1>1, <3>0, ForwardType, Zenon
    <3>2. Distance(tail, q) = i - current_len - 1
      <4>1. /\ head \in 0 .. MAX_LEN - 1 /\ current_len \in 0 .. MAX_LEN
            /\ i \in Int /\ current_len < i /\ i <= MAX_LEN
        BY <1>1, <1>2 DEF Offsets
      <4>2. tail = Forward(head, current_len) /\ q = Forward(head, i - 1)
        BY <1>1, <3>1, Zenon
      <4>3. CASE head + current_len >= MAX_LEN
        BY <1>1, <4>1, <4>2, <4>3 DEF Distance, Forward
      <4>4. CASE head + current_len < MAX_LEN /\ head + (i - 1) >= MAX_LEN
        BY <1>1, <4>1, <4>2, <4>4 DEF Distance, Forward
      <4>5. CASE head + current_len < MAX_LEN /\ head + (i - 1) < MAX_LEN
        BY <1>1, <4>1, <4>2, <4>5 DEF Distance, Forward
      <4> QED BY <1>1, <4>1, <4>3, <4>4, <4>5
    <3>3. /\ i \in 1 .. current_len' /\ i - current_len - 1 < n
          /\ (i - current_len - 1) + 1 = i - current_len
      <4>1. current_len \in Nat /\ n \in Nat /\ current_len' = current_len + n
        BY <1>1, <1>2
      <4> QED BY <4>1
    <3>4. data'[q] = input[i - current_len]
      BY <1>2, <3>2, <3>3, Zenon
    <3> QED
      BY <1>1, <1>2, <3>1, <3>3, <3>4, Zenon DEF ContentsOK
  <2>5. ASSUME NEW i \in 1 .. current_len + n
        PROVE  Contents'[i] = (Contents \o SubSeq(input, 1, n))[i]
    <3>1. CASE i <= current_len
      <4>1. i \in 1 .. current_len
        BY <1>1, <3>1
      <4> QED
        BY <2>2, <2>3, <3>1, <4>1, Zenon
    <3>2. CASE ~(i <= current_len)
      <4>1. i \in current_len + 1 .. current_len + n /\ i - current_len \in 1 .. n
        BY <1>1, <1>2, <3>2
      <4> QED
        BY <2>1, <2>2, <2>4, <3>2, <4>1, Zenon
    <3> QED
      BY <3>1, <3>2, Zenon
  <2>6. Contents' \in Seq(Bytes) /\ Len(Contents') = current_len + n
    BY <1>1, <1>2, Zenon DEF ContentsOK
  <2> QED
    BY <2>2, <2>5, <2>6, SeqEqual, Zenon
<1> QED
  BY <1>2, <1>3, Zenon DEF Deque!Put, Deque!Ret, Ret, Contents

(* The single-byte calls are the general ones for one byte.                *)
LEMMA PutByteIsPut ==
  ASSUME TypeOK, NEW b \in Bytes, circular_buffer_put_byte(b)
  PROVE  circular_buffer_put(<<b>>)
<1>1. /\ current_len \in 0 .. MAX_LEN /\ MAX_LEN \in Nat \ {0}
      /\ tail \in 0 .. MAX_LEN - 1 /\ data \in [Offsets -> Bytes]
      /\ Len(<<b>>) = 1 /\ <<b>>[1] = b
  BY CircularBufferAssumption, Zenon DEF TypeOK, Offsets
<1>2. ASSUME NEW q \in Offsets
      PROVE  /\ Distance(tail, q) \in Offsets
             /\ Distance(tail, q) < 1 <=> q = tail
             /\ ~(Distance(tail, q) < 0)
             /\ q = tail => Distance(tail, q) + 1 = 1
  BY <1>1 DEF Distance, Offsets
<1>3. CASE current_len >= MAX_LEN
  <2>1. current_len + 1 > MAX_LEN /\ MAX_LEN - current_len = 0
    BY <1>1, <1>3
  <2>2. data = [q \in Offsets |-> IF Distance(tail, q) < 0
                                    THEN <<b>>[Distance(tail, q) + 1]
                                    ELSE data[q]]
    BY <1>1, <1>2, Zenon
  <2>3. Forward(tail, 0) = tail /\ current_len + 0 = current_len
    BY <1>1, ForwardZero DEF Offsets
  <2> QED
    BY <1>1, <1>3, <2>1, <2>2, <2>3
      , Zenon DEF circular_buffer_put_byte, circular_buffer_put
<1>4. CASE ~(current_len >= MAX_LEN)
  <2>1. ~(current_len + 1 > MAX_LEN)
    BY <1>1, <1>4
  <2>2. [data EXCEPT ![tail] = b] =
          [q \in Offsets |-> IF Distance(tail, q) < 1
                               THEN <<b>>[Distance(tail, q) + 1]
                               ELSE data[q]]
    BY <1>1, <1>2, Zenon
  <2> QED
    BY <1>1, <1>4, <2>1, <2>2, Zenon DEF circular_buffer_put_byte, circular_buffer_put
<1> QED
  BY <1>3, <1>4, Zenon

LEMMA GetByteIsGet ==
  ASSUME TypeOK, circular_buffer_get_byte
  PROVE  circular_buffer_get(1)
<1>1. current_len \in Nat /\ head \in Offsets /\ Forward(head, 0) = head
  BY ForwardZero, CircularBufferAssumption DEF TypeOK
<1>2. BytesFrom(head, 0) = <<>> /\ BytesFrom(head, 1) = <<data[head]>>
  BY <1>1 DEF BytesFrom
<1>3. CASE current_len = 0
  BY <1>1, <1>2, <1>3 DEF circular_buffer_get_byte, circular_buffer_get, Available
<1>4. CASE current_len # 0
  <2>1. Available(1) = 1
    BY <1>1, <1>4 DEF Available
  <2> QED
    BY <1>2, <1>4, <2>1, Zenon DEF circular_buffer_get_byte, circular_buffer_get
<1> QED
  BY <1>3, <1>4, Zenon

(* circular_buffer_peek_end_byte and circular_buffer_remove_end_byte.      *)
LEMMA EndByteRefines ==
  ASSUME TypeOK, TypeOK'
  PROVE  /\ circular_buffer_peek_end_byte => Deque!PeekEndByte
         /\ circular_buffer_remove_end_byte => Deque!RemoveEndByte
<1>1. /\ current_len \in 0 .. MAX_LEN /\ MAX_LEN \in Nat \ {0}
      /\ head \in Offsets /\ tail = Forward(head, current_len)
      /\ ContentsOK /\ ContentsOK'
  BY ContentsFacts, ContentsFactsNext, CircularBufferAssumption, Zenon DEF TypeOK
<1>2. ASSUME current_len # 0
      PROVE  data[Back(tail)] = Contents[Len(Contents)]
  <2>1. current_len \in 1 .. MAX_LEN /\ current_len \in 1 .. current_len
    BY <1>1, <1>2
  <2> QED
    BY <1>1, <2>1, BackForward DEF ContentsOK
<1>3. ASSUME circular_buffer_peek_end_byte PROVE Deque!PeekEndByte
  <2>1. Contents' = Contents
    BY <1>3, Zenon DEF circular_buffer_peek_end_byte, Contents, BytesFrom
  <2> QED
    BY <1>1, <1>2, <1>3, <2>1, Zenon DEF circular_buffer_peek_end_byte,
      Deque!PeekEndByte, Deque!Ret, Ret, ContentsOK, Contents
<1>4. ASSUME circular_buffer_remove_end_byte PROVE Deque!RemoveEndByte
  <2>1. CASE current_len = 0
    <3>1. Contents' = Contents /\ ret' = Ret(0, <<>>)
      BY <1>4, <2>1, Zenon DEF circular_buffer_remove_end_byte, Contents, BytesFrom
    <3> QED
      BY <1>1, <2>1, <3>1
        , Zenon DEF Deque!RemoveEndByte, Deque!Ret, Ret, ContentsOK, Contents
  <2>2. CASE current_len # 0
    <3>1. /\ current_len' = current_len - 1 /\ head' = head /\ data' = data
          /\ ret' = Ret(1, <<>>)
      BY <1>4, <2>2, Zenon DEF circular_buffer_remove_end_byte
    <3>2. current_len - 1 \in 0 .. current_len
      BY <1>1, <2>2
    <3>3. Contents' = BytesFrom(head, current_len - 1)
      BY <3>1, Zenon DEF Contents, BytesFrom
    <3>4. Contents' = SubSeq(Contents, 1, current_len - 1)
      BY <3>2, <3>3, PrefixRead, Zenon
    <3> QED
      BY <1>1, <2>2, <3>1, <3>4
        , Zenon DEF Deque!RemoveEndByte, Deque!Ret, Ret, ContentsOK, Contents
  <2> QED
    BY <2>1, <2>2, Zenon
<1> QED
  BY <1>3, <1>4, Zenon

(* circular_buffer_find.                                                   *)
LEMMA FindRefines ==
  ASSUME TypeOK, NEW b \in Bytes, circular_buffer_find(b)
  PROVE  Deque!Find(b)
<1>1. current_len \in Nat /\ ContentsOK
  BY ContentsFacts, CircularBufferAssumption DEF TypeOK
<1>2. Contents' = Contents
  BY Zenon DEF circular_buffer_find, Contents, BytesFrom
<1>3. CASE /\ \A k \in 0 .. current_len - 1 : data[Forward(head, k)] # b
           /\ ret' = Ret(-1, <<>>)
  <2>1. ASSUME NEW i \in 1 .. current_len PROVE Contents[i] # b
    <3>1. i - 1 \in 0 .. current_len - 1
      BY <1>1
    <3> QED
      BY <1>1, <1>3, <3>1, Zenon DEF ContentsOK
  <2> QED
    BY <1>1, <1>2, <1>3, <2>1, Zenon DEF Deque!Find, Deque!Ret, Ret, ContentsOK, Contents
<1>4. ASSUME NEW k \in 0 .. current_len - 1, FoundAt(k, b), ret' = Ret(k, <<>>)
      PROVE  Deque!Find(b)
  <2>1. /\ k + 1 \in 1 .. Len(Contents) /\ (k + 1) - 1 = k
        /\ Len(Contents) = current_len
    BY <1>1 DEF ContentsOK
  <2>2. Contents[k + 1] = b
    BY <1>1, <1>4, <2>1, Zenon DEF ContentsOK, FoundAt
  <2>3. ASSUME NEW i \in 1 .. k PROVE Contents[i] # b
    <3>1. i - 1 \in 0 .. k - 1 /\ i \in 1 .. current_len
      BY <1>1
    <3> QED
      BY <1>1, <1>4, <3>1, Zenon DEF ContentsOK, FoundAt
  <2>4. \E m \in 1 .. Len(Contents) :
          /\ Contents[m] = b
          /\ \A i \in 1 .. m - 1 : Contents[i] # b
          /\ ret' = Ret(m - 1, <<>>)
    BY <1>4, <2>1, <2>2, <2>3, Zenon
  <2> QED
    BY <1>2, <2>4, Zenon DEF Deque!Find, Deque!Ret, Ret, Contents
<1> QED
  BY <1>3, <1>4, Zenon DEF circular_buffer_find

-----------------------------------------------------------------------------
(* The pointers of the circular buffer stay in the array, and the tail is  *)
(* always current_len bytes after the head.                                *)
THEOREM TypeCorrect == Spec => []TypeOK
  BY InitType, NextType, PTL DEF Spec

(* Every call on the circular buffer does what the call on a deque does.   *)
LEMMA StepRefines ==
  TypeOK /\ TypeOK' /\ [Next]_vars => [Deque!Next]_(Deque!vars)
<1> SUFFICES ASSUME TypeOK, TypeOK', [Next]_vars
             PROVE  [Deque!Next]_(Deque!vars)
  BY Zenon
<1>0. Inputs \subseteq Seq(Bytes) /\ Lens \subseteq Nat
  BY CircularBufferAssumption, Zenon
<1>1. CASE circular_buffer_clear
  <2>1. BytesFrom(head, current_len)' = <<>> /\ ret' = Ret(0, <<>>)
    BY <1>1 DEF circular_buffer_clear, BytesFrom
  <2> QED
    BY <2>1, Zenon DEF Deque!Next, Deque!Clear, Deque!Ret, Ret
<1>2. ASSUME NEW input \in Inputs, circular_buffer_put(input)
      PROVE  Deque!Next
  BY <1>0, <1>2, PutRefines, Zenon DEF Deque!Next
<1>3. ASSUME NEW len \in Lens, circular_buffer_get(len) \/ circular_buffer_peek(len)
      PROVE  Deque!Next
  BY <1>0, <1>3, GetRefines, PeekRefines, Zenon DEF Deque!Next
<1>4. ASSUME NEW b \in Bytes, circular_buffer_put_byte(b)
      PROVE  Deque!Next
  <2>1. <<b>> \in Seq(Bytes)
    OBVIOUS
  <2> QED
    BY <1>4, <2>1, PutByteIsPut, PutRefines, Zenon DEF Deque!Next, Deque!PutByte
<1>5. ASSUME NEW b \in Bytes, circular_buffer_find(b)
      PROVE  Deque!Next
  BY <1>5, FindRefines, Zenon DEF Deque!Next
<1>6. CASE circular_buffer_get_byte
  <2>1. 1 \in Nat
    BY Zenon
  <2> QED
    BY <1>6, <2>1, GetByteIsGet, GetRefines, Zenon DEF Deque!Next, Deque!GetByte
<1>7. CASE circular_buffer_peek_end_byte \/ circular_buffer_remove_end_byte
  BY <1>7, EndByteRefines, Zenon DEF Deque!Next
<1>8. CASE UNCHANGED vars
  BY <1>8, Zenon DEF vars, Deque!vars, BytesFrom
<1> QED
  BY <1>1, <1>2, <1>3, <1>4, <1>5, <1>6, <1>7, <1>8, Zenon DEF Next

(* The circular buffer implements the bounded deque.                       *)
THEOREM Refinement == Spec => ImplementsDeque
<1>1. Init => Deque!Init
  BY DEF Init, circular_buffer_init, Deque!Init, Deque!Ret, Ret, BytesFrom
<1> QED
  BY <1>1, StepRefines, TypeCorrect, PTL DEF Spec, ImplementsDeque, Deque!Spec

-----------------------------------------------------------------------------
(* The memory routines.  The byte that was asked for at an address of the  *)
(* destination, the number of bytes, and memory with some of them written. *)
Asked(a) ==
  LET k == a - call.dest
      size == ElementSize(call)
  IN  IF call.f = "memset" THEN Fill(0)
      ELSE IF size > 1 THEN Fill(k % size)
      ELSE Byte(call.src + k)
Total == call.n * ElementSize(call)
Written(from, to) ==
  [a \in Addr |-> IF a \in call.dest + from .. call.dest + to - 1 THEN Asked(a)
                                                                  ELSE Byte(a)]

(* The first d bytes are written, and the registers point behind them.     *)
Upward(d) ==
  /\ d \in 0 .. Total
  /\ edi = call.dest + d /\ esi = call.src + d
  /\ mem = Written(0, d)

(* The last bytes are written down to number d.                            *)
Downward(d) ==
  /\ d \in 0 .. Total
  /\ edi = call.dest + d - 1 /\ esi = call.src + d - 1
  /\ mem = Written(d, Total)

(* The inductive invariant: at every label the counters say how much is    *)
(* left.                                                                   *)
MemoryInv ==
  /\ call \in MemoryCalls /\ Legal(call)
  /\ pc \in {"top", "aligned", "rep", "bottom", "wide", "memmove", ".memmove_go", "done"}
  /\ df \in {0, 1} /\ ecx \in Nat /\ edx \in Nat
  /\ pc \in {"top", "aligned"} =>
       call.f \in {"memset", "memcpy"} /\ Upward(call.n - ecx)
  /\ pc = "rep" =>
       call.f \in {"memset", "memcpy"} /\ df = 0 /\ Upward(call.n - 4 * ecx - edx)
  /\ pc = "bottom" =>
       call.f \in {"memset", "memcpy"} /\ Upward(call.n - edx)
  /\ pc = "wide" =>
       /\ call.f \in {"memset_word", "memset_dword"}
       /\ Upward((call.n - ecx) * ElementSize(call))
  /\ pc = "memmove" => call.f = "memmove" /\ ecx = call.n /\ Upward(0)
  /\ pc = ".memmove_go" =>
       /\ call.f = "memmove"
       /\ df = 0 => call.src >= call.dest /\ Upward(call.n - ecx)
       /\ df = 1 => call.src < call.dest /\ Downward(ecx)
  /\ pc = "done" => mem = Written(0, Total)

LEMMA CallFacts ==
  ASSUME call \in MemoryCalls, Legal(call)
  PROVE  /\ call.dest \in Nat /\ call.src \in Nat /\ call.n \in Nat
         /\ call.f \in {"memset", "memset_word", "memset_dword", "memcpy", "memmove"}
         /\ call.f \in {"memset", "memcpy", "memmove"} =>
              ElementSize(call) = 1 /\ Total = call.n
         /\ call.f = "memset_word" => ElementSize(call) = 2 /\ Total = call.n * 2
         /\ call.f = "memset_dword" => ElementSize(call) = 4 /\ Total = call.n * 4
         /\ Total \in Nat /\ call.dest + Total <= Size /\ call.src + Total <= Size
<1>1. /\ call.dest \in Nat /\ call.src \in Nat /\ call.n \in Nat
      /\ call.f \in {"memset", "memset_word", "memset_dword", "memcpy", "memmove"}
  BY LibMemoryAssumption DEF MemoryCalls, Addr
<1>2. /\ call.f \in {"memset", "memcpy", "memmove"} => ElementSize(call) = 1
      /\ call.f = "memset_word" => ElementSize(call) = 2
      /\ call.f = "memset_dword" => ElementSize(call) = 4
  BY DEF ElementSize, WORD
<1>3. ElementSize(call) \in {1, 2, 4}
  BY <1>1, <1>2, Zenon
<1>4. Total \in Nat
  BY <1>1, <1>3 DEF Total
<1>5. call.dest + Total <= Size /\ call.src + Total <= Size
  BY Zenon DEF Legal, Total
<1> QED BY <1>1, <1>2, <1>4, <1>5 DEF Total

LEMMA Functions ==
  ASSUME NEW w, NEW v
  PROVE  /\ Stored(w) = [a \in Addr |-> Stored(w)[a]]
         /\ Written(v, w) = [a \in Addr |-> Written(v, w)[a]]
  BY Zenon DEF Stored, Written

(* A store of the next w bytes going up: what is read has not been         *)
(* written yet.                                                            *)
LEMMA StoreUp ==
  ASSUME call \in MemoryCalls, Legal(call), NEW d \in Nat, NEW w \in {1, 2, 4},
         Upward(d), d + w <= Total,
         call.f \in {"memset_word", "memset_dword"} =>
           w = ElementSize(call) /\ d % ElementSize(call) = 0,
         call.f = "memmove" => w = 1 /\ call.src >= call.dest
  PROVE  Stored(w) = Written(0, d + w)
<1> DEFINE s == call.src
           t == call.dest
<1>1. /\ t \in Nat /\ s \in Nat /\ Total \in Nat /\ t + Total <= Size /\ s + Total <= Size
      /\ Size \in Nat /\ edi = t + d /\ esi = s + d /\ mem = Written(0, d)
  BY CallFacts, LibMemoryAssumption, Zenon DEF Upward
<1>2. ASSUME NEW a \in Addr
      PROVE  Stored(w)[a] = Written(0, d + w)[a]
  <2>1. a \in Nat /\ a < Size
    BY <1>1 DEF Addr
  <2>2. mem[a] = IF a \in t .. t + d - 1 THEN Asked(a) ELSE Byte(a)
    BY <1>1 DEF Written
  <2>3. Written(0, d + w)[a] = IF a \in t .. t + (d + w) - 1 THEN Asked(a) ELSE Byte(a)
    BY <1>1 DEF Written
  <2>4. CASE a \notin BytesAt(edi, w)
    <3>1. Stored(w)[a] = mem[a]
      BY <2>4, Zenon DEF Stored
    <3>2. a \in t .. t + (d + w) - 1 <=> a \in t .. t + d - 1
      BY <1>1, <2>1, <2>4 DEF BytesAt
    <3> QED BY <2>2, <2>3, <3>1, <3>2, Zenon
  <2>5. CASE a \in BytesAt(edi, w)
    <3>1. a >= t + d /\ a < t + d + w
      BY <1>1, <2>1, <2>5 DEF BytesAt
    <3>2. Written(0, d + w)[a] = Asked(a)
      BY <1>1, <2>1, <2>3, <3>1
    <3>3. CASE call.f = "memset"
      BY <2>5, <3>2, <3>3, Zenon DEF Stored, StoredByte, Asked
    <3>4. CASE call.f \in {"memset_word", "memset_dword"}
      <4>1. ElementSize(call) = w /\ w \in {2, 4} /\ d % w = 0
        BY <3>4, CallFacts, Zenon
      <4>2. (a - t) % w = a - edi
        BY <1>1, <2>1, <3>1, <4>1
      <4>3. Asked(a) = Fill(a - edi)
        BY <3>4, <4>1, <4>2 DEF Asked
      <4>4. Stored(w)[a] = Fill(a - edi)
        BY <2>5, <3>4, Zenon DEF Stored, StoredByte
      <4> QED BY <3>2, <4>3, <4>4, Zenon
    <3>5. CASE call.f \in {"memcpy", "memmove"}
      <4> DEFINE b == s + (a - t)
      <4>1. b \in Addr /\ b \in Nat /\ esi + a - edi = b
        BY <1>1, <2>1, <3>1 DEF Addr
      <4>2. b \notin t .. t + d - 1
        <5>1. CASE call.f = "memcpy"
          <6>1. Total = call.n /\ Apart(t, s, call.n)
            BY <5>1, CallFacts, Zenon DEF Legal
          <6> QED BY <1>1, <2>1, <3>1, <6>1 DEF Apart
        <5>2. CASE call.f = "memmove"
          BY <1>1, <2>1, <3>1, <5>2
        <5> QED BY <3>5, <5>1, <5>2, Zenon
      <4>3. mem[b] = Byte(b)
        BY <1>1, <4>1, <4>2 DEF Written
      <4>4. Stored(w)[a] = mem[b]
        BY <2>5, <3>5, <4>1, Zenon DEF Stored, StoredByte
      <4>5. Asked(a) = Byte(b)
        BY <3>5, CallFacts DEF Asked
      <4> QED BY <3>2, <4>3, <4>4, <4>5, Zenon
    <3> QED BY <3>3, <3>4, <3>5, CallFacts, Zenon
  <2> QED BY <2>4, <2>5, Zenon
<1>3. /\ Stored(w) = [a \in Addr |-> Stored(w)[a]]
      /\ Written(0, d + w) = [a \in Addr |-> Written(0, d + w)[a]]
  BY Functions, Zenon
<1> QED BY <1>2, <1>3, Zenon

(* A store of the last byte that is left, going down.                      *)
LEMMA StoreDown ==
  ASSUME call \in MemoryCalls, Legal(call), call.f = "memmove", call.src < call.dest,
         NEW d \in Nat \ {0}, Downward(d)
  PROVE  Stored(1) = Written(d - 1, Total)
<1> DEFINE s == call.src
           t == call.dest
<1>1. /\ t \in Nat /\ s \in Nat /\ Total \in Nat /\ t + Total <= Size /\ s + Total <= Size
      /\ Size \in Nat /\ edi = t + d - 1 /\ esi = s + d - 1 /\ mem = Written(d, Total)
      /\ d <= Total
  BY CallFacts, LibMemoryAssumption DEF Downward
<1>2. ASSUME NEW a \in Addr
      PROVE  Stored(1)[a] = Written(d - 1, Total)[a]
  <2>1. a \in Nat /\ a < Size
    BY <1>1 DEF Addr
  <2>2. mem[a] = IF a \in t + d .. t + Total - 1 THEN Asked(a) ELSE Byte(a)
    BY <1>1, Zenon DEF Written
  <2>3. Written(d - 1, Total)[a]
          = IF a \in t + (d - 1) .. t + Total - 1 THEN Asked(a) ELSE Byte(a)
    BY <1>1, Zenon DEF Written
  <2>4. CASE a \notin BytesAt(edi, 1)
    <3>1. Stored(1)[a] = mem[a]
      BY <2>4, Zenon DEF Stored
    <3>2. a \in t + (d - 1) .. t + Total - 1 <=> a \in t + d .. t + Total - 1
      BY <1>1, <2>1, <2>4 DEF BytesAt
    <3> QED BY <2>2, <2>3, <3>1, <3>2, Zenon
  <2>5. CASE a \in BytesAt(edi, 1)
    <3>1. a = edi /\ a = t + (d - 1)
      BY <1>1, <2>1, <2>5 DEF BytesAt
    <3>2. Written(d - 1, Total)[a] = Asked(a)
      BY <1>1, <2>1, <2>3, <3>1
    <3>3. esi \in Addr /\ esi \notin t + d .. t + Total - 1 /\ esi + a - edi = esi
          /\ esi = s + (a - t)
      BY <1>1, <3>1 DEF Addr
    <3>4. mem[esi] = Byte(esi)
      BY <1>1, <3>3, Zenon DEF Written
    <3>5. Stored(1)[a] = mem[esi]
      BY <2>5, <3>3, Zenon DEF Stored, StoredByte
    <3>6. Asked(a) = Byte(esi)
      BY <3>3, CallFacts DEF Asked
    <3> QED BY <3>2, <3>4, <3>5, <3>6, Zenon
  <2> QED BY <2>4, <2>5, Zenon
<1>3. /\ Stored(1) = [a \in Addr |-> Stored(1)[a]]
      /\ Written(d - 1, Total) = [a \in Addr |-> Written(d - 1, Total)[a]]
  BY Functions, Zenon
<1> QED BY <1>2, <1>3, Zenon

LEMMA NothingWritten ==
  ASSUME call \in MemoryCalls, Legal(call), NEW d \in Nat
  PROVE  Written(d, d) = [a \in Addr |-> Byte(a)]
<1>1. ASSUME NEW a \in Addr PROVE a \notin call.dest + d .. call.dest + d - 1
  BY CallFacts, LibMemoryAssumption DEF Addr
<1> QED BY <1>1, Zenon DEF Written

LEMMA MemoryInitOK == MemoryInit => MemoryInv
<1> SUFFICES ASSUME MemoryInit PROVE MemoryInv
  BY Zenon
<1>1. PICK c \in MemoryCalls : MemoryCall(c)
  BY Zenon DEF MemoryInit
<1>2. /\ call \in MemoryCalls /\ Legal(call) /\ pc = FirstLabel(call.f)
      /\ edi = call.dest /\ esi = call.src /\ ecx = call.n /\ edx = 0 /\ df \in {0, 1}
      /\ mem = [a \in Addr |-> Byte(a)]
  BY <1>1, Zenon DEF MemoryInit, MemoryCall
<1>3. Upward(0)
  <2>1. mem = Written(0, 0)
    BY <1>2, NothingWritten, Zenon
  <2> QED BY <1>2, <2>1, CallFacts DEF Upward
<1>4. /\ call.f \in {"memset", "memcpy"} => pc = "top"
      /\ call.f \in {"memset_word", "memset_dword"} => pc = "wide"
      /\ call.f = "memmove" => pc = "memmove"
  BY <1>2, Zenon DEF FirstLabel
<1>5. call.n - ecx = 0 /\ (call.n - ecx) * ElementSize(call) = 0 /\ ecx \in Nat
  BY <1>2, CallFacts
<1> QED BY <1>2, <1>3, <1>4, <1>5, CallFacts, Zenon DEF MemoryInv

(* What a step that leaves the call alone does to the three measures.      *)
LEMMA SameCall ==
  ASSUME UNCHANGED call, NEW d, NEW e
  PROVE  Total' = Total /\ Written(d, e)' = Written(d, e)
  BY Zenon DEF Total, Written, Asked

LEMMA StaysUp ==
  ASSUME UNCHANGED <<call, edi, esi, mem>>, NEW d, Upward(d)
  PROVE  Upward(d)'
<1>1. Total' = Total /\ Written(0, d)' = Written(0, d)
  BY SameCall, Zenon
<1> QED BY <1>1, Zenon DEF Upward

LEMMA GoesUp ==
  ASSUME call \in MemoryCalls, Legal(call), UNCHANGED call,
         NEW d \in Nat, NEW w \in {1, 2, 4}, Upward(d), d + w <= Total,
         call.f \in {"memset_word", "memset_dword"} =>
           w = ElementSize(call) /\ d % ElementSize(call) = 0,
         call.f = "memmove" => w = 1 /\ call.src >= call.dest,
         mem' = Stored(w), edi' = edi + w, esi' = esi + w
  PROVE  Upward(d + w)'
<1>1. Stored(w) = Written(0, d + w)
  BY StoreUp, Zenon
<1>2. Total' = Total /\ Written(0, d + w)' = Written(0, d + w)
  BY SameCall, Zenon
<1>3. edi = call.dest + d /\ esi = call.src + d /\ call.dest \in Nat /\ call.src \in Nat
  BY CallFacts, Zenon DEF Upward
<1>4. edi' = call'.dest + (d + w) /\ esi' = call'.src + (d + w)
  BY <1>3
<1> QED BY <1>1, <1>2, <1>4, CallFacts DEF Upward

LEMMA GoesDown ==
  ASSUME call \in MemoryCalls, Legal(call), call.f = "memmove", call.src < call.dest,
         UNCHANGED call, NEW d \in Nat \ {0}, Downward(d),
         mem' = Stored(1), edi' = edi + (-1), esi' = esi + (-1)
  PROVE  Downward(d - 1)'
<1>1. Stored(1) = Written(d - 1, Total)
  BY StoreDown, Zenon
<1>2. Total' = Total /\ Written(d - 1, Total)' = Written(d - 1, Total)
  BY SameCall, Zenon DEF Total, Written, Asked
<1>3. edi = call.dest + d - 1 /\ esi = call.src + d - 1 /\ call.dest \in Nat /\ call.src \in Nat
  BY CallFacts, Zenon DEF Downward
<1>4. edi' = call'.dest + (d - 1) - 1 /\ esi' = call'.src + (d - 1) - 1
  BY <1>3
<1> QED BY <1>1, <1>2, <1>4, CallFacts DEF Downward

LEMMA MemoryNextOK == MemoryInv /\ [MemoryNext]_memoryVars => MemoryInv'
<1>0. SUFFICES ASSUME MemoryInv, [MemoryNext]_memoryVars PROVE MemoryInv'
  OBVIOUS
<1>1. call \in MemoryCalls /\ Legal(call) /\ ecx \in Nat /\ edx \in Nat /\ df \in {0, 1}
  BY <1>0, Zenon DEF MemoryInv
<1>2. /\ call.dest \in Nat /\ call.src \in Nat /\ call.n \in Nat /\ Total \in Nat
      /\ call.f \in {"memset", "memcpy", "memmove"} => ElementSize(call) = 1 /\ Total = call.n
      /\ call.f = "memset_word" => ElementSize(call) = 2 /\ Total = call.n * 2
      /\ call.f = "memset_dword" => ElementSize(call) = 4 /\ Total = call.n * 4
  BY <1>1, CallFacts, Zenon
<1>3. UNCHANGED call => Legal(call)' /\ ElementSize(call)' = ElementSize(call)
  BY <1>1, Zenon
<1>4. CASE top
  <2>1. /\ pc = "top" /\ UNCHANGED call /\ call.f \in {"memset", "memcpy"}
        /\ Upward(call.n - ecx) /\ Total = call.n
    BY <1>0, <1>2, <1>4, Zenon DEF top, MemoryInv
  <2>2. PICK d \in Nat : d = call.n - ecx
    BY <2>1 DEF Upward
  <2>3. CASE ecx = 0 /\ pc' = "done" /\ UNCHANGED <<registers, mem>>
    <3>1. mem = Written(0, Total) /\ Written(0, Total)' = Written(0, Total)
      BY <1>2, <2>1, <2>3 DEF Upward, Total, Written, Asked
    <3> QED BY <1>1, <1>3, <2>1, <2>3, <3>1, Zenon DEF MemoryInv, registers
  <2>4. CASE pc' = "aligned" /\ UNCHANGED <<registers, mem>>
    <3>1. Upward(d)'
      BY <2>1, <2>2, <2>4, StaysUp, Zenon DEF registers
    <3> QED BY <1>1, <1>3, <2>1, <2>2, <2>4, <3>1, Zenon DEF MemoryInv, registers
  <2>5. CASE /\ ecx # 0 /\ mem' = Stored(1)
             /\ edi' = edi + 1 /\ esi' = esi + 1 /\ ecx' = ecx - 1
             /\ UNCHANGED <<pc, edx, df>>
    <3>1. d + 1 <= Total /\ d + 1 = call'.n - ecx' /\ ecx' \in Nat
      BY <1>1, <1>2, <2>1, <2>2, <2>5
    <3>2. Upward(d + 1)'
      BY <1>1, <2>1, <2>2, <2>5, <3>1, GoesUp
    <3> QED BY <1>1, <1>3, <2>1, <2>5, <3>1, <3>2 DEF MemoryInv
  <2> QED BY <1>4, <2>3, <2>4, <2>5, Zenon DEF top
<1>5. CASE aligned
  <2>1. /\ pc = "aligned" /\ pc' = "rep" /\ df' = 0 /\ UNCHANGED <<call, edi, esi, mem>>
        /\ ecx' = ecx \div 4 /\ edx' = ecx % 4
        /\ call.f \in {"memset", "memcpy"} /\ Upward(call.n - ecx)
    BY <1>0, <1>5, Zenon DEF aligned, MemoryInv, WORD
  <2>2. PICK d \in Nat : d = call.n - ecx
    BY <2>1 DEF Upward
  <2>3. d = call'.n - 4 * ecx' - edx' /\ ecx' \in Nat /\ edx' \in Nat
    BY <1>1, <1>2, <2>1, <2>2
  <2>4. Upward(d)'
    BY <2>1, <2>2, StaysUp, Zenon
  <2> QED BY <1>1, <1>3, <2>1, <2>3, <2>4, Zenon DEF MemoryInv
<1>6. CASE rep_dword
  <2>1. /\ pc = "rep" /\ UNCHANGED call /\ df = 0
        /\ call.f \in {"memset", "memcpy"} /\ Upward(call.n - 4 * ecx - edx) /\ Total = call.n
    BY <1>0, <1>2, <1>6, Zenon DEF rep_dword, MemoryInv
  <2>2. PICK d \in Nat : d = call.n - 4 * ecx - edx
    BY <2>1 DEF Upward
  <2>3. CASE Rep(4)
    <3>1. /\ mem' = Stored(4) /\ edi' = edi + 4 /\ esi' = esi + 4 /\ ecx > 0 /\ ecx' = ecx - 1
          /\ UNCHANGED <<pc, edx, df>>
      BY <2>1, <2>3 DEF Rep, Step
    <3>2. d + 4 <= Total /\ d + 4 = call'.n - 4 * ecx' - edx' /\ ecx' \in Nat
      BY <1>1, <1>2, <2>1, <2>2, <3>1
    <3>3. Upward(d + 4)'
      BY <1>1, <2>1, <2>2, <3>1, <3>2, GoesUp
    <3> QED BY <1>1, <1>3, <2>1, <3>1, <3>2, <3>3, Zenon DEF MemoryInv
  <2>4. CASE ecx = 0 /\ pc' = "bottom" /\ UNCHANGED <<registers, mem>>
    <3>1. Upward(d)' /\ d = call'.n - edx'
      BY <1>1, <1>2, <2>1, <2>2, <2>4, StaysUp DEF registers
    <3> QED BY <1>1, <1>3, <2>1, <2>4, <3>1, Zenon DEF MemoryInv, registers
  <2> QED BY <1>6, <2>3, <2>4, Zenon DEF rep_dword, WORD
<1>7. CASE bottom
  <2>1. /\ pc = "bottom" /\ UNCHANGED call /\ call.f \in {"memset", "memcpy"}
        /\ Upward(call.n - edx) /\ Total = call.n
    BY <1>0, <1>2, <1>7, Zenon DEF bottom, MemoryInv
  <2>2. PICK d \in Nat : d = call.n - edx
    BY <2>1 DEF Upward
  <2>3. CASE edx = 0 /\ pc' = "done" /\ UNCHANGED <<registers, mem>>
    <3>1. mem = Written(0, Total) /\ Written(0, Total)' = Written(0, Total)
      BY <1>2, <2>1, <2>3 DEF Upward, Total, Written, Asked
    <3> QED BY <1>1, <1>3, <2>1, <2>3, <3>1, Zenon DEF MemoryInv, registers
  <2>4. CASE /\ edx # 0 /\ mem' = Stored(1)
             /\ edi' = edi + 1 /\ esi' = esi + 1 /\ edx' = edx - 1
             /\ UNCHANGED <<pc, ecx, df>>
    <3>1. d + 1 <= Total /\ d + 1 = call'.n - edx' /\ edx' \in Nat
      BY <1>1, <1>2, <2>1, <2>2, <2>4
    <3>2. Upward(d + 1)'
      BY <1>1, <2>1, <2>2, <2>4, <3>1, GoesUp, Zenon
    <3> QED BY <1>1, <1>3, <2>1, <2>4, <3>1, <3>2, Zenon DEF MemoryInv
  <2> QED BY <1>7, <2>3, <2>4, Zenon DEF bottom
<1>8. CASE memset_wide
  <2> DEFINE size == ElementSize(call)
  <2>1. /\ pc = "wide" /\ UNCHANGED call /\ call.f \in {"memset_word", "memset_dword"}
        /\ Upward((call.n - ecx) * size)
    BY <1>0, <1>8, Zenon DEF memset_wide, MemoryInv
  <2>2. size \in {2, 4} /\ Total = call.n * size
    BY <1>2, <2>1, Zenon
  <2>3. PICK d \in Nat : d = (call.n - ecx) * size
    BY <2>1 DEF Upward
  <2>4. CASE df = 1 /\ df' = 0 /\ UNCHANGED <<pc, edi, esi, ecx, edx, mem>>
    <3>1. Upward(d)'
      BY <2>1, <2>3, <2>4, StaysUp, Zenon
    <3> QED BY <1>1, <1>3, <2>1, <2>3, <2>4, <3>1, Zenon DEF MemoryInv
  <2>5. CASE df = 0 /\ Rep(size)
    <3>1. /\ mem' = Stored(size) /\ edi' = edi + size /\ esi' = esi + size
          /\ ecx > 0 /\ ecx' = ecx - 1 /\ UNCHANGED <<pc, edx, df>>
      BY <2>5 DEF Rep, Step
    <3>2. /\ d + size <= Total /\ d + size = (call.n - ecx') * size
          /\ d % size = 0 /\ ecx' \in Nat
      BY <1>1, <1>2, <2>2, <2>3, <3>1
    <3>3. PICK w \in {1, 2, 4} : w = size
      BY <2>2, Zenon
    <3>4. Upward(d + w)'
      BY <1>1, <2>1, <2>2, <2>3, <3>1, <3>2, <3>3, GoesUp
    <3> QED BY <1>1, <1>3, <2>1, <3>1, <3>2, <3>3, <3>4, Zenon DEF MemoryInv
  <2>6. CASE df = 0 /\ ecx = 0 /\ pc' = "done" /\ UNCHANGED <<registers, mem>>
    <3>1. d = Total
      BY <1>2, <2>2, <2>3, <2>6
    <3>2. mem = Written(0, Total) /\ Written(0, Total)' = Written(0, Total)
      BY <2>1, <2>3, <3>1, Zenon DEF Upward, Total, Written, Asked
    <3> QED BY <1>1, <1>3, <2>1, <2>6, <3>2, Zenon DEF MemoryInv, registers
  <2>7. size = IF call.f = "memset_word" THEN WORD \div 2 ELSE WORD
    BY <1>2, <2>1 DEF WORD
  <2> QED BY <1>8, <2>4, <2>5, <2>6, <2>7, Zenon DEF memset_wide
<1>9. CASE memmove
  <2>1. /\ pc = "memmove" /\ pc' = ".memmove_go" /\ UNCHANGED <<ecx, edx, mem, call>>
        /\ call.f = "memmove" /\ ecx = call.n /\ Upward(0) /\ Total = call.n
    BY <1>0, <1>2, <1>9, Zenon DEF memmove, MemoryInv
  <2>2. edi = call.dest /\ esi = call.src /\ mem = Written(0, 0)
    BY <1>2, <2>1 DEF Upward
  <2>3. CASE esi >= edi /\ df' = 0 /\ UNCHANGED <<esi, edi>>
    <3>1. Upward(0)' /\ call'.n - ecx' = 0
      BY <1>2, <2>1, <2>3, StaysUp
    <3> QED BY <1>1, <1>3, <2>1, <2>2, <2>3, <3>1 DEF MemoryInv
  <2>4. CASE ~(esi >= edi) /\ df' = 1 /\ esi' = esi + ecx - 1 /\ edi' = edi + ecx - 1
    <3>1. Written(ecx, Total) = Written(0, 0)
      BY <1>1, <1>2, <2>1, NothingWritten, Zenon
    <3>2. Written(ecx, Total)' = Written(ecx, Total) /\ Total' = Total
      BY <2>1 DEF Total, Written, Asked
    <3>3. Downward(ecx)'
      BY <1>1, <1>2, <2>1, <2>2, <2>4, <3>1, <3>2 DEF Downward
    <3>4. call.src < call.dest
      BY <1>2, <2>2, <2>4
    <3> QED BY <1>1, <1>3, <2>1, <2>4, <3>3, <3>4 DEF MemoryInv
  <2> QED BY <1>9, <2>3, <2>4, Zenon DEF memmove
<1>10. CASE memmove_go
  <2>1. pc = ".memmove_go" /\ UNCHANGED call /\ call.f = "memmove" /\ Total = call.n
    BY <1>0, <1>2, <1>10, Zenon DEF memmove_go, MemoryInv
  <2>2. CASE df = 0 /\ Rep(1)
    <3>1. call.src >= call.dest /\ Upward(call.n - ecx)
      BY <1>0, <2>1, <2>2, Zenon DEF MemoryInv
    <3>2. PICK d \in Nat : d = call.n - ecx
      BY <3>1 DEF Upward
    <3>3. /\ mem' = Stored(1) /\ edi' = edi + 1 /\ esi' = esi + 1 /\ ecx > 0 /\ ecx' = ecx - 1
          /\ UNCHANGED <<pc, edx, df>>
      BY <2>2 DEF Rep, Step
    <3>4. d + 1 <= Total /\ d + 1 = call'.n - ecx' /\ ecx' \in Nat
      BY <1>1, <1>2, <2>1, <3>2, <3>3
    <3>5. Upward(d + 1)'
      BY <1>1, <2>1, <3>1, <3>2, <3>3, <3>4, GoesUp, Zenon
    <3> QED BY <1>1, <1>3, <2>1, <2>2, <3>1, <3>3, <3>4, <3>5 DEF MemoryInv
  <2>3. CASE df = 1 /\ Rep(1)
    <3>1. call.src < call.dest /\ Downward(ecx)
      BY <1>0, <2>1, <2>3, Zenon DEF MemoryInv
    <3>2. /\ mem' = Stored(1) /\ edi' = edi + (-1) /\ esi' = esi + (-1) /\ ecx > 0
          /\ ecx' = ecx - 1 /\ UNCHANGED <<pc, edx, df>>
      BY <2>3, Zenon DEF Rep, Step
    <3>3. PICK d \in Nat \ {0} : d = ecx
      BY <1>1, <3>2
    <3>4. Downward(d - 1)' /\ d - 1 = ecx' /\ ecx' \in Nat
      BY <1>1, <2>1, <3>1, <3>2, <3>3, GoesDown
    <3> QED BY <1>1, <1>3, <2>1, <2>3, <3>1, <3>2, <3>4 DEF MemoryInv
  <2>4. CASE ecx = 0 /\ pc' = "done" /\ UNCHANGED <<registers, mem>>
    <3>1. mem = Written(0, Total)
      BY <1>0, <1>1, <1>2, <2>1, <2>4 DEF MemoryInv, Upward, Downward
    <3>2. Written(0, Total)' = Written(0, Total)
      BY <2>1, Zenon DEF Total, Written, Asked
    <3> QED BY <1>1, <1>3, <2>1, <2>4, <3>1, <3>2 DEF MemoryInv, registers
  <2> QED BY <1>1, <1>10, <2>2, <2>3, <2>4, Zenon DEF memmove_go
<1>11. CASE UNCHANGED memoryVars
  <2>1. UNCHANGED <<call, pc, edi, esi, ecx, edx, df, mem>>
    BY <1>11, Zenon DEF memoryVars, registers
  <2>2. Written(0, Total)' = Written(0, Total)
    BY <2>1, ZenonT(30) DEF Total, Written, Asked
  <2>3. /\ Upward(call.n - ecx)' = Upward(call.n - ecx)
        /\ Upward(call.n - 4 * ecx - edx)' = Upward(call.n - 4 * ecx - edx)
        /\ Upward(call.n - edx)' = Upward(call.n - edx)
        /\ Upward((call.n - ecx) * ElementSize(call))' = Upward((call.n - ecx) * ElementSize(call))
        /\ Upward(0)' = Upward(0) /\ Downward(ecx)' = Downward(ecx)
    BY <2>1 DEF Upward, Downward, Total, Written, Asked
  <2> QED BY <1>0, <1>1, <1>3, <2>1, <2>2, <2>3 DEF MemoryInv
<1> QED BY <1>0, <1>4, <1>5, <1>6, <1>7, <1>8, <1>9, <1>10, <1>11, Zenon DEF MemoryNext

(* For any memory, alignment, length and direction flag: when a routine    *)
(* returns, exactly the bytes it was asked for have been written.          *)
THEOREM RoutinesWriteWhatIsAsked == MemorySpec => []ExactlyTheBytesAsked
<1>1. ASSUME MemoryInv PROVE ExactlyTheBytesAsked
  <2> SUFFICES ASSUME pc = "done", NEW a \in Addr
               PROVE  mem[a] = IF a - call.dest \notin 0 .. Total - 1 THEN Byte(a) ELSE Asked(a)
    BY Zenon DEF ExactlyTheBytesAsked, Total, Asked
  <2>1. mem = Written(0, Total) /\ call.dest \in Nat /\ Total \in Nat /\ a \in Int
    BY <1>1, CallFacts DEF MemoryInv, Addr
  <2>2. a - call.dest \in 0 .. Total - 1 <=> a \in call.dest + 0 .. call.dest + Total - 1
    BY <2>1
  <2>3. mem[a] = IF a \in call.dest + 0 .. call.dest + Total - 1 THEN Asked(a) ELSE Byte(a)
    BY <2>1, Zenon DEF Written
  <2> QED BY <2>2, <2>3, Zenon
<1> QED BY <1>1, MemoryInitOK, MemoryNextOK, PTL DEF MemorySpec
=============================================================================
