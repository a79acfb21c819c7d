---------------------------- MODULE BoundedDeque ----------------------------
(***************************************************************************)
(* What the circular buffer promises: a sequence of at most MAX_LEN bytes  *)
(* that grows at its end, and shrinks at its front (a reader) or at its    *)
(* end (a backspace).  This is the view the terminal driver has of it.     *)
(***************************************************************************)
EXTENDS Integers, Sequences

CONSTANTS Bytes, MAX_LEN, Inputs, Lens

VARIABLES contents, ret

vars == <<contents, ret>>

(* What a call hands back: its return value and the bytes it copied out.   *)
Ret(n, bytes) == [n |-> n, bytes |-> bytes]

Smaller(m, n) == IF m < n THEN m ELSE n

Init == contents = <<>> /\ ret = Ret(0, <<>>)

Clear == contents' = <<>> /\ ret' = Ret(0, <<>>)

Put(input) ==
  LET n == Smaller(Len(input), MAX_LEN - Len(contents)) IN
  /\ contents' = contents \o SubSeq(input, 1, n)
  /\ ret' = Ret(n, <<>>)

Get(len) ==
  LET n == Smaller(len, Len(contents)) IN
  /\ contents' = SubSeq(contents, n + 1, Len(contents))
  /\ ret' = Ret(n, SubSeq(contents, 1, n))

Peek(len) ==
  LET n == Smaller(len, Len(contents)) IN
  /\ contents' = contents
  /\ ret' = Ret(n, SubSeq(contents, 1, n))

PutByte(b) == Put(<<b>>)

GetByte == Get(1)

PeekEndByte ==
  /\ contents' = contents
  /\ ret' = IF Len(contents) = 0 THEN Ret(0, <<>>)
                                 ELSE Ret(1, <<contents[Len(contents)]>>)

RemoveEndByte ==
  IF Len(contents) = 0
    THEN contents' = contents /\ ret' = Ret(0, <<>>)
    ELSE /\ contents' = SubSeq(contents, 1, Len(contents) - 1)
         /\ ret' = Ret(1, <<>>)

(* The number of bytes before the first b, or -1.                          *)
Find(b) ==
  /\ contents' = contents
  /\ \/ /\ \A i \in 1 .. Len(contents) : contents[i] # b
        /\ ret' = Ret(-1, <<>>)
     \/ \E k \in 1 .. Len(contents) :
          /\ contents[k] = b
          /\ \A i \in 1 .. k - 1 : contents[i] # b
          /\ ret' = Ret(k - 1, <<>>)

Next ==
  \/ Clear
  \/ \E input \in Inputs : Put(input)
  \/ \E len \in Lens : Get(len) \/ Peek(len)
  \/ \E b \in Bytes : PutByte(b) \/ Find(b)
  \/ GetByte \/ PeekEndByte \/ RemoveEndByte

Spec == Init /\ [][Next]_vars
=============================================================================
