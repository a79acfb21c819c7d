----------------------------- MODULE LibMemory -----------------------------
(***************************************************************************)
(* The memory routines of the kernel's library (lib/lib.c): one call of    *)
(* one of them, instruction by instruction between the labels of its       *)
(* assembly.                                                               *)
(*                                                                         *)
(* The routines never look at the bytes they move, so that memory starts   *)
(* with a different byte at every address, its own number.                 *)
(***************************************************************************)
EXTENDS Integers

CONSTANT Size  \* the bytes of memory

ASSUME LibMemoryAssumption == Size \in Nat

WORD == 4  \* the bytes of a double word; half of it is a word
Addr == 0 .. Size - 1

VARIABLES
  call,  \* the routine called and its arguments
  pc,    \* the label reached, or "done"
  edi, esi, ecx, edx, df,  \* the registers and the direction flag
  mem    \* memory

registers  == <<edi, esi, ecx, edx, df>>
memoryVars == <<call, pc, registers, mem>>
-----------------------------------------------------------------------------
Byte(a) == <<"at", a>>    \* the byte that was at a when the routine was called
Fill(k) == <<"fill", k>>  \* byte k of the value that memory is set to

BytesAt(start, n) == start .. start + n - 1

(* n bytes at edi are stored: of memset, the byte in every byte of eax; of *)
(* memset_word, its word; and otherwise the bytes at esi.                  *)
StoredByte(a) ==
  CASE call.f = "memset" -> Fill(0)
    [] call.f \in {"memset_word", "memset_dword"} -> Fill(a - edi)
    [] call.f \in {"memcpy", "memmove"} -> mem[esi + a - edi]
Stored(n) == [a \in Addr |-> IF a \in BytesAt(edi, n) THEN StoredByte(a) ELSE mem[a]]

Step(n) == IF df = 1 THEN -n ELSE n

(* One iteration of rep with elements of n bytes.                          *)
Rep(n) ==
  /\ ecx > 0 /\ ecx' = ecx - 1
  /\ mem' = Stored(n)
  /\ edi' = edi + Step(n) /\ esi' = esi + Step(n)
  /\ UNCHANGED <<pc, edx, df>>

(* .memcpy_top and .memset_top: bytes until edi is aligned.                *)
top ==
  /\ pc = "top"
  /\ \/ ecx = 0 /\ pc' = "done" /\ UNCHANGED <<registers, mem>>
     \/ /\ ecx # 0 /\ edi % WORD = 0
        /\ pc' = "aligned" /\ UNCHANGED <<registers, mem>>
     \/ /\ ecx # 0 /\ edi % WORD # 0
        /\ mem' = Stored(1)
        /\ edi' = edi + 1 /\ esi' = esi + 1 /\ ecx' = ecx - 1
        /\ UNCHANGED <<pc, edx, df>>
  /\ UNCHANGED call

aligned_bug ==  \* the rest is taken after the shift
  /\ pc = "aligned"
  /\ ecx' = ecx \div WORD /\ edx' = ecx' % WORD
  /\ df' = 0 /\ pc' = "rep"
  /\ UNCHANGED <<edi, esi, mem, call>>

(* .memcpy_aligned and .memset_aligned.                                    *)
aligned ==
  /\ pc = "aligned"
  /\ ecx' = ecx \div WORD /\ edx' = ecx % WORD
  /\ df' = 0 /\ pc' = "rep"
  /\ UNCHANGED <<edi, esi, mem, call>>

(* rep movsl and rep stosl there.                                          *)
rep_dword ==
  /\ pc = "rep"
  /\ \/ Rep(WORD)
     \/ ecx = 0 /\ pc' = "bottom" /\ UNCHANGED <<registers, mem>>
  /\ UNCHANGED call

(* .memcpy_bottom and .memset_bottom.                                      *)
bottom ==
  /\ pc = "bottom"
  /\ \/ edx = 0 /\ pc' = "done" /\ UNCHANGED <<registers, mem>>
     \/ /\ edx # 0
        /\ mem' = Stored(1)
        /\ edi' = edi + 1 /\ esi' = esi + 1 /\ edx' = edx - 1
        /\ UNCHANGED <<pc, ecx, df>>
  /\ UNCHANGED call

(* memset_word and memset_dword, whose n counts elements.                  *)
memset_wide ==
  /\ pc = "wide"
  /\ \/ df = 1 /\ df' = 0 /\ UNCHANGED <<pc, edi, esi, ecx, edx, mem>>  \* cld
     \/ df = 0 /\ Rep(IF call.f = "memset_word" THEN WORD \div 2 ELSE WORD)
     \/ df = 0 /\ ecx = 0 /\ pc' = "done" /\ UNCHANGED <<registers, mem>>
  /\ UNCHANGED call

(* memmove: from the last byte down when the source is below.              *)
memmove ==
  /\ pc = "memmove"
  /\ pc' = ".memmove_go"
  /\ IF esi >= edi
       THEN df' = 0 /\ UNCHANGED <<esi, edi>>
       ELSE df' = 1 /\ esi' = esi + ecx - 1 /\ edi' = edi + ecx - 1
  /\ UNCHANGED <<ecx, edx, mem, call>>

memmove_go ==
  /\ pc = ".memmove_go"
  /\ \/ Rep(1)
     \/ ecx = 0 /\ pc' = "done" /\ UNCHANGED <<registers, mem>>
  /\ UNCHANGED call
-----------------------------------------------------------------------------
(* The calls.  memcpy is only used on areas that do not overlap.           *)
Apart(dest, src, n) == src + n <= dest \/ dest + n <= src

MemoryCalls ==
  [f : {"memset", "memset_word", "memset_dword", "memcpy", "memmove"},
   dest : Addr, src : Addr, n : 0 .. Size]

ElementSize(c) ==
  CASE c.f = "memset_word" -> WORD \div 2
    [] c.f = "memset_dword" -> WORD
    [] OTHER -> 1

Legal(c) ==
  /\ c.dest + c.n * ElementSize(c) <= Size /\ c.src + c.n * ElementSize(c) <= Size
  /\ c.f = "memcpy" => Apart(c.dest, c.src, c.n)
  /\ c.f \notin {"memcpy", "memmove"} => c.src = c.dest

FirstLabel(f) ==
  CASE f \in {"memset", "memcpy"} -> "top"
    [] f \in {"memset_word", "memset_dword"} -> "wide"
    [] f = "memmove" -> "memmove"

MemoryCall(c) ==
  /\ Legal(c)
  /\ call = c /\ pc = FirstLabel(c.f)
  /\ edi = c.dest /\ esi = c.src /\ ecx = c.n

MemoryInit ==
  /\ \E c \in MemoryCalls : MemoryCall(c)
  /\ edx = 0 /\ df \in {0, 1}
  /\ mem = [a \in Addr |-> Byte(a)]

MemoryNext ==
  \/ top \/ aligned \/ rep_dword \/ bottom
  \/ memset_wide \/ memmove \/ memmove_go

MemorySpec == MemoryInit /\ [][MemoryNext]_memoryVars
-----------------------------------------------------------------------------
(* "set n consecutive bytes of pointer s to value c", "copy n bytes of src *)
(* to dest", "move n bytes of src to dest" (used for overlapping areas):   *)
(* when a memory routine returns, the bytes it was asked to write are the  *)
(* ones asked for, and no other byte of memory has changed, whatever the   *)
(* alignment, the length and the direction flag were.                      *)
ExactlyTheBytesAsked ==
  pc = "done" /\ call.f # "printf" =>
    \A a \in Addr :
      LET k == a - call.dest
          size == ElementSize(call)
      IN mem[a] = IF k \notin 0 .. call.n * size - 1 THEN Byte(a)
                  ELSE IF call.f = "memset" THEN Fill(0)
                  ELSE IF size > 1 THEN Fill(k % size)
                  ELSE Byte(call.src + k)
=============================================================================
