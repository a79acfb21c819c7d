--------------------------- MODULE CircularBuffer ---------------------------
(***************************************************************************)
(* lib/circular_buffer.c: a deque of bytes in a fixed array, with a head   *)
(* and a tail pointer that wrap around and a separate count.  Pointers are *)
(* offsets from data_start, so data_end is MAX_LEN.  Each call is atomic:  *)
(* its callers run with interrupts off.                                    *)
(***************************************************************************)
EXTENDS Integers, Sequences

CONSTANTS
  Bytes,    \* the byte values stored
  MAX_LEN,  \* capacity (KEYBOARD_BUFFER_SIZE, 128, for a terminal)
  Inputs,   \* the byte strings callers put
  Lens      \* the lengths callers ask for

ASSUME CircularBufferAssumption ==
  /\ MAX_LEN \in Nat \ {0}
  /\ Inputs \subseteq Seq(Bytes)
  /\ Lens \subseteq Nat
  /\ Bytes # {}

VARIABLES data, head, tail, current_len, ret

vars == <<data, head, tail, current_len, ret>>

Offsets == 0 .. MAX_LEN - 1

Ret(n, bytes) == [n |-> n, bytes |-> bytes]

(* A pointer after n increments, each wrapping at data_end; n <= MAX_LEN.  *)
Forward(p, n) == IF p + n >= MAX_LEN THEN p + n - MAX_LEN ELSE p + n

back_bug(p) == IF p - 1 < 0 THEN 0 ELSE p - 1

(* A pointer after one decrement, wrapping below data_start.               *)
Back(p) == IF p - 1 < 0 THEN MAX_LEN - 1 ELSE p - 1

(* The distance from pointer p forward to offset q.                        *)
Distance(p, q) == IF q >= p THEN q - p ELSE q - p + MAX_LEN

(* The n bytes from pointer p on.                                          *)
BytesFrom(p, n) == [i \in 1 .. n |-> data[Forward(p, i - 1)]]

(* A length capped at the number of bytes in the buffer.                   *)
Available(len) == IF len > current_len THEN current_len ELSE len

-----------------------------------------------------------------------------
(* The array is not cleared: it holds whatever was in it.                  *)
circular_buffer_init ==
  /\ data \in [Offsets -> Bytes]
  /\ head = 0 /\ tail = 0 /\ current_len = 0

Init == circular_buffer_init /\ ret = Ret(0, <<>>)

circular_buffer_clear ==
  /\ head' = 0 /\ tail' = 0 /\ current_len' = 0
  /\ ret' = Ret(0, <<>>)
  /\ UNCHANGED data

circular_buffer_put(input) ==
  LET n == IF current_len + Len(input) > MAX_LEN THEN MAX_LEN - current_len
                                                 ELSE Len(input)
  IN
  /\ data' = [q \in Offsets |-> IF Distance(tail, q) < n
                                  THEN input[Distance(tail, q) + 1]
                                  ELSE data[q]]
  /\ tail' = Forward(tail, n)
  /\ current_len' = current_len + n
  /\ ret' = Ret(n, <<>>)
  /\ UNCHANGED head

circular_buffer_get(len) ==
  LET n == Available(len) IN
  /\ ret' = Ret(n, BytesFrom(head, n))
  /\ head' = Forward(head, n)
  /\ current_len' = current_len - n
  /\ UNCHANGED <<data, tail>>

circular_buffer_peek(len) ==
  LET n == Available(len) IN
  /\ ret' = Ret(n, BytesFrom(head, n))
  /\ UNCHANGED <<data, head, tail, current_len>>

circular_buffer_put_byte(b) ==
  IF current_len >= MAX_LEN
    THEN ret' = Ret(0, <<>>) /\ UNCHANGED <<data, head, tail, current_len>>
    ELSE /\ data' = [data EXCEPT ![tail] = b]
         /\ tail' = Forward(tail, 1)
         /\ current_len' = current_len + 1
         /\ ret' = Ret(1, <<>>)
         /\ UNCHANGED head

circular_buffer_get_byte ==
  IF current_len = 0
    THEN ret' = Ret(0, <<>>) /\ UNCHANGED <<data, head, tail, current_len>>
    ELSE /\ ret' = Ret(1, <<data[head]>>)
         /\ head' = Forward(head, 1)
         /\ current_len' = current_len - 1
         /\ UNCHANGED <<data, tail>>

circular_buffer_peek_end_byte ==
  /\ ret' = IF current_len = 0 THEN Ret(0, <<>>)
                               ELSE Ret(1, <<data[Back(tail)]>>)
  /\ UNCHANGED <<data, head, tail, current_len>>

circular_buffer_remove_end_byte ==
  IF current_len = 0
    THEN ret' = Ret(0, <<>>) /\ UNCHANGED <<data, head, tail, current_len>>
    ELSE /\ tail' = Back(tail)
         /\ current_len' = current_len - 1
         /\ ret' = Ret(1, <<>>)
         /\ UNCHANGED <<data, head>>

(* The loop of circular_buffer_find stops at offset k from head.           *)
FoundAt(k, b) ==
  /\ data[Forward(head, k)] = b
  /\ \A j \in 0 .. k - 1 : data[Forward(head, j)] # b

circular_buffer_find(b) ==
  /\ \/ /\ \A k \in 0 .. current_len - 1 : data[Forward(head, k)] # b
        /\ ret' = Ret(-1, <<>>)
     \/ \E k \in 0 .. current_len - 1 :
          FoundAt(k, b) /\ ret' = Ret(k, <<>>)
  /\ UNCHANGED <<data, head, tail, current_len>>

Next ==
  \/ circular_buffer_clear
  \/ \E input \in Inputs : circular_buffer_put(input)
  \/ \E len \in Lens : circular_buffer_get(len) \/ circular_buffer_peek(len)
  \/ \E b \in Bytes : circular_buffer_put_byte(b) \/ circular_buffer_find(b)
  \/ circular_buffer_get_byte
  \/ circular_buffer_peek_end_byte
  \/ circular_buffer_remove_end_byte

Spec == Init /\ [][Next]_vars

-----------------------------------------------------------------------------
(* Pointers stay inside the array, and the three pieces of redundant state *)
(* agree: the tail is current_len bytes after the head.                    *)
TypeOK ==
  /\ data \in [Offsets -> Bytes]
  /\ head \in Offsets
  /\ tail \in Offsets
  /\ current_len \in 0 .. MAX_LEN
  /\ ret \in [n : -1 .. MAX_LEN, bytes : Seq(Bytes)]
  /\ tail = Forward(head, current_len)

Deque == INSTANCE BoundedDeque WITH contents <- BytesFrom(head, current_len)

(* The array with its wrapping pointers behaves as a bounded deque: every  *)
(* call changes the contents and returns the value and the bytes that the  *)
(* same call on a sequence would.                                          *)
ImplementsDeque == Deque!Spec
=============================================================================
