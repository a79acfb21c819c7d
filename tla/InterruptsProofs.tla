-------------------------- MODULE InterruptsProofs --------------------------
(***************************************************************************)
(* The wrappers that save and restore a program, whatever interrupts it    *)
(* and whatever system call it makes, with the interrupt controllers.      *)
(***************************************************************************)
EXTENDS Interrupts, TLAPS

(* What registers and the kernel stack hold.                               *)
Word   == ((Programs \cup {"kernel"}) \X Regs) \cup {Minus1, Result}
Places == {"user", "wait"}
Frame  == [at : Places, df : Flag, if : Flag]
Cell   == Word \cup Frame \cup [CalleeSaved -> Word] \cup ({"esp"} \X Nat)
            \cup ({"code"} \X {"0", "cpu"}) \cup ({"vector"} \X Nat)
Memories == Seq(Cell)
Contexts == [regs : [Regs -> Word], df : Flag, stack : Memories]

(* Inside a handler that was entered from machine m, and in a system call. *)
Interrupted(m, where) == Call(SaveAll(Gate(m, where)))
InSyscall(m) == Call(SaveForSyscall(Gate(m, "user")))

(* The machine that runs in context c, interrupts on.                      *)
MachineOf(c) == State(c.regs, c.df, 1, c.stack)

(* What a program expects: its context in ring 3 or, in a system call that *)
(* waits, that of the call, on a stack that leads back to ring 3 with the  *)
(* result in eax.                                                          *)
Where(e) == IF Len(e) = 1 THEN "user" ELSE "wait"
Eax(R, v) == [R EXCEPT !["eax"] = v]
Entry(c, v) == State(Eax(c.regs, v), c.df, 1, c.stack)
ExpectOK(e) ==
  /\ e \in Seq(Contexts) /\ Len(e) \in {1, 2}
  /\ e[1].stack = << >>
  /\ Len(e) = 2 => /\ e[1].regs["eax"] = Result
                   /\ \E v \in Word : e[2].stack = InSyscall(Entry(e[1], v)).stack

(* The stack of a program that was switched away from.                     *)
Suspended(e) == Interrupted(MachineOf(Top(e)), Where(e)).stack

Running == at \in Places
Booting == {"start", "pic", "fs", "sti", "terminals", "shells", "ring3"}

(* The program that runs is as it expects.                                 *)
RunsAsExpected ==
  LET e == expect[program]
  IN  /\ at = Where(e)
      /\ cpu = [regs |-> Top(e).regs, df |-> Top(e).df, if |-> 1]
      /\ stack[program] = Top(e).stack

(* The stack of another one that was saved leads back to where it was;     *)
(* what was not saved has never run.                                       *)
OthersReady ==
  \A p \in Programs \ {program} :
    /\ p \in saved => stack[p] = Suspended(expect[p])
    /\ p \notin saved => stack[p] = << >> /\ expect[p] = <<NewContext>>

(* The inductive invariant of contexts.                                    *)
ContextInv ==
  /\ at \in Booting \cup {"user", "wait", "stopped"}
  /\ program \in Programs
  /\ stack \in [Programs -> Memories]
  /\ DOMAIN expect = Programs /\ \A p \in Programs : ExpectOK(expect[p])
  /\ at \in Booting =>
       /\ cpu = [regs |-> Of("kernel"), df |-> 0, if |-> IF at = "sti" THEN 1 ELSE 0]
       /\ stack[program] = << >> /\ expect[program] = <<NewContext>>
  /\ Running => RunsAsExpected
  /\ at # "stopped" => OthersReady

(* The inductive invariant of the controllers: nothing is in service, and  *)
(* the lines of the PIT and the keyboard are closed while interrupts are   *)
(* on before they are set up.                                              *)
PicInv ==
  /\ isr = {} /\ early = {}
  /\ at \in Booting => ~rtc_on /\ RTC_IRQ \notin irr
  /\ at \in {"start", "pic"} => {PIT_IRQ, KEYBOARD_IRQ} \subseteq master_mask
  /\ at \in {"fs", "sti"} => {PIT_IRQ, KEYBOARD_IRQ} \subseteq imr
  /\ at \notin {"start", "stopped"} => \A q \in IRQs : idt[IRQ_INT_NUM(q)] = Wrapper(q)

(* An exception is the last thing that happens.                            *)
ReportInv == (at # "stopped" => report = << >>) /\ FaultReported

-----------------------------------------------------------------------------
(* What is on the stack: the frame of a gate, the registers as the         *)
(* wrappers push them, and what a C function keeps.                        *)
Framed(S, w, D, I) == Append(S, [at |-> w, df |-> D, if |-> I])
Pushed(R, n) ==
  << <<"esp", n>>, R["ebp"], R["edi"], R["esi"], R["edx"], R["ecx"], R["ebx"], R["eax"]>>
PushedForSyscall(R) == <<R["ebp"], R["edi"], R["esi"], R["edx"], R["ecx"], R["ebx"]>>
Kept(R) == [r \in CalleeSaved |-> R[r]]
HandlerStack(R, D, I, S, w) ==
  Append(Framed(S, w, D, I) \o Pushed(R, Len(S) + 1), Kept(R))
SyscallStack(R, D, I, S) ==
  Append(Framed(S, "user", D, I) \o PushedForSyscall(R), Kept(R))

(* The registers after a return and after the pops.                        *)
Returned(S, v) == [r \in Regs |-> IF r \in CalleeSaved THEN Top(S)[r]
                                  ELSE IF r = "eax" THEN v ELSE <<"kernel", r>>]
Popped(S) == [r \in Regs |-> S[Len(S) + 1 - PopPlace[r]]]
PoppedEsp(S) == S[Len(S) + 1 - PopPlace["esp"]][2]
SyscallPopped(R, S) ==
  [r \in Regs |-> IF r = "eax" THEN R[r] ELSE S[Len(S) + 1 - SyscallPopPlace[r]]]

(* What each instruction sequence makes of a machine, field by field.      *)
LEMMA GateIs ==
  ASSUME NEW R, NEW D, NEW I, NEW S, NEW w
  PROVE  Gate(State(R, D, I, S), w) = State(R, D, 0, Framed(S, w, D, I))
  BY Zenon DEF Gate, State, Framed

LEMMA IretIs ==
  ASSUME NEW R, NEW D, NEW I, NEW S
  PROVE  /\ Iret(State(R, D, I, S)) = State(R, Top(S).df, Top(S).if, Pop(S))
         /\ IretTo(State(R, D, I, S)) = Top(S).at
  BY Zenon DEF Iret, IretTo, State

LEMMA CallIs ==
  ASSUME NEW R, NEW D, NEW I, NEW S
  PROVE  Call(State(R, D, I, S)) = State(Of("kernel"), D, I, Append(S, Kept(R)))
  BY Zenon DEF Call, State, Kept

LEMMA ReturnIs ==
  ASSUME NEW R, NEW D, NEW I, NEW S, NEW v
  PROVE  Return(State(R, D, I, S), v) = State(Returned(S, v), D, I, Pop(S))
  BY Zenon DEF Return, State, Returned

LEMMA SaveAllIs ==
  ASSUME NEW R, NEW D, NEW I, NEW S
  PROVE  SaveAll(State(R, D, I, S)) = State(R, 0, I, S \o Pushed(R, Len(S)))
  BY Zenon DEF SaveAll, State, Pushed

LEMMA RestoreAllIs ==
  ASSUME NEW R, NEW D, NEW I, NEW S
  PROVE  RestoreAll(State(R, D, I, S)) = State(Popped(S), D, I, SubSeq(S, 1, PoppedEsp(S)))
  BY Zenon DEF RestoreAll, Parameter, State, Popped, PoppedEsp

LEMMA SaveForSyscallIs ==
  ASSUME NEW R, NEW D, NEW I, NEW S
  PROVE  SaveForSyscall(State(R, D, I, S)) = State(R, 0, I, S \o PushedForSyscall(R))
  BY Zenon DEF SaveForSyscall, State, PushedForSyscall

LEMMA RestoreFromSyscallIs ==
  ASSUME NEW R, NEW D, NEW I, NEW S
  PROVE  RestoreFromSyscall(State(R, D, I, S))
           = State(SyscallPopped(R, S), D, I, SubSeq(S, 1, Len(S) - 6))
  BY Zenon DEF RestoreFromSyscall, Parameter, State, SyscallPopped

LEMMA PopPlaceIs ==
  /\ PopPlace["eax"] = 1 /\ PopPlace["ebx"] = 2 /\ PopPlace["ecx"] = 3 /\ PopPlace["edx"] = 4
  /\ PopPlace["esi"] = 5 /\ PopPlace["edi"] = 6 /\ PopPlace["ebp"] = 7 /\ PopPlace["esp"] = 8
  BY Zenon DEF PopPlace

LEMMA SyscallPopPlaceIs ==
  /\ SyscallPopPlace["ebx"] = 1 /\ SyscallPopPlace["ecx"] = 2 /\ SyscallPopPlace["edx"] = 3
  /\ SyscallPopPlace["esi"] = 4 /\ SyscallPopPlace["edi"] = 5 /\ SyscallPopPlace["ebp"] = 6
  BY Zenon DEF SyscallPopPlace

LEMMA Fields ==
  ASSUME NEW R, NEW D, NEW I, NEW S
  PROVE  /\ State(R, D, I, S).regs = R /\ State(R, D, I, S).df = D
         /\ State(R, D, I, S).if = I /\ State(R, D, I, S).stack = S
  BY Zenon DEF State

-----------------------------------------------------------------------------
(* Sequences: what was pushed last, and what was there before.             *)
LEMMA PopAppend ==
  ASSUME NEW C, NEW s \in Seq(C), NEW e \in C
  PROVE  Pop(Append(s, e)) = s /\ Top(Append(s, e)) = e
  BY DEF Pop, Top

LEMMA PopOfOne ==
  ASSUME NEW C, NEW x \in C, NEW y \in C
  PROVE  Pop(<<x>>) \o <<y>> = <<y>>
<1>1. <<x>> \in Seq(C) /\ Len(<<x>>) = 1
  OBVIOUS
<1>2. Pop(<<x>>) \in Seq(C) /\ Len(Pop(<<x>>)) = 0
  BY <1>1 DEF Pop
<1>3. Pop(<<x>>) = << >>
  BY <1>2
<1> QED BY <1>3

LEMMA PopOfTwo ==
  ASSUME NEW C, NEW x \in C, NEW y \in C
  PROVE  Pop(<<x, y>>) = <<x>>
<1>1. <<x>> \in Seq(C) /\ <<x, y>> = Append(<<x>>, y)
  OBVIOUS
<1> QED BY <1>1, PopAppend, Zenon

LEMMA ConcatPlaces ==
  ASSUME NEW C, NEW s \in Seq(C), NEW t \in Seq(C)
  PROVE  /\ Len(s \o t) = Len(s) + Len(t)
         /\ \A i \in 1 .. Len(t) : (s \o t)[Len(s) + i] = t[i]
  OBVIOUS

LEMMA ConcatFirst ==
  ASSUME NEW C, NEW s \in Seq(C), NEW t \in Seq(C)
  PROVE  /\ Len(s \o t) = Len(s) + Len(t)
         /\ \A i \in 1 .. Len(s) : (s \o t)[i] = s[i]
  OBVIOUS

LEMMA CutConcat ==
  ASSUME NEW C, NEW s \in Seq(C), NEW t \in Seq(C)
  PROVE  SubSeq(s \o t, 1, Len(s)) = s
<1> DEFINE u == SubSeq(s \o t, 1, Len(s))
<1>1. s \o t \in Seq(C) /\ Len(s \o t) = Len(s) + Len(t) /\ Len(s) \in Nat /\ Len(t) \in Nat
  OBVIOUS
<1>2. Len(u) = Len(s) /\ u \in Seq(C)
  BY <1>1
<1>3. \A i \in 1 .. Len(s) : u[i] = s[i]
  BY <1>1
<1> HIDE DEF u
<1> QED BY <1>2, <1>3

(* The types of what is pushed.                                            *)
LEMMA PushedType ==
  ASSUME NEW R \in [Regs -> Word], NEW n \in Nat
  PROVE  /\ Pushed(R, n) \in Memories /\ Len(Pushed(R, n)) = 8
         /\ PushedForSyscall(R) \in Memories /\ Len(PushedForSyscall(R)) = 6
         /\ Kept(R) \in Cell
<1>1. \A r \in Regs : R[r] \in Cell
  BY Zenon DEF Cell
<1>2. <<"esp", n>> \in Cell
  BY Zenon DEF Cell
<1>3. Kept(R) \in [CalleeSaved -> Word]
  BY Zenon DEF Regs, Kept
<1> QED BY <1>1, <1>2, <1>3
           DEF Pushed, PushedForSyscall, Memories, Regs, CalleeSaved, Cell

LEMMA UserPlace == "user" \in Places
  BY Zenon DEF Places

LEMMA FramedType ==
  ASSUME NEW S \in Memories, NEW w \in Places, NEW D \in Flag, NEW I \in Flag
  PROVE  /\ Len(S) \in Nat
         /\ Framed(S, w, D, I) \in Memories
         /\ Len(Framed(S, w, D, I)) = Len(S) + 1
         /\ Pop(Framed(S, w, D, I)) = S
         /\ Top(Framed(S, w, D, I)).at = w
         /\ Top(Framed(S, w, D, I)).df = D /\ Top(Framed(S, w, D, I)).if = I
<1> DEFINE c == [at |-> w, df |-> D, if |-> I]
<1>1. c \in Cell /\ c.at = w /\ c.df = D /\ c.if = I
  BY Zenon DEF Cell, Frame, Places
<1>2. Framed(S, w, D, I) = Append(S, c)
  BY Zenon DEF Framed
<1>3. S \in Seq(Cell)
  BY Zenon DEF Memories
<1> HIDE DEF c
<1>4. Pop(Append(S, c)) = S /\ Top(Append(S, c)) = c
  BY <1>1, <1>3, PopAppend, Zenon
<1>5. Len(S) \in Nat /\ Append(S, c) \in Seq(Cell) /\ Len(Append(S, c)) = Len(S) + 1
  BY <1>1, <1>3
<1> QED BY <1>1, <1>2, <1>4, <1>5, Zenon DEF Memories

LEMMA EaxType ==
  ASSUME NEW R \in [Regs -> Word], NEW v \in Word
  PROVE  Eax(R, v) \in [Regs -> Word]
  BY Zenon DEF Eax

LEMMA StackType ==
  ASSUME NEW R \in [Regs -> Word], NEW D \in Flag, NEW I \in Flag,
         NEW S \in Memories, NEW w \in Places
  PROVE  /\ HandlerStack(R, D, I, S, w) \in Memories
         /\ SyscallStack(R, D, I, S) \in Memories
         /\ Framed(S, w, D, I) \o Pushed(R, Len(S) + 1) \in Memories
         /\ Framed(S, "user", D, I) \o PushedForSyscall(R) \in Memories
<1>1. Len(S) + 1 \in Nat
  BY FramedType
<1>2. Framed(S, w, D, I) \in Memories /\ Framed(S, "user", D, I) \in Memories
  BY FramedType, UserPlace, Zenon
<1>3. /\ Pushed(R, Len(S) + 1) \in Memories /\ PushedForSyscall(R) \in Memories
      /\ Kept(R) \in Cell
  BY <1>1, PushedType, Zenon
<1> QED BY <1>2, <1>3 DEF Memories, HandlerStack, SyscallStack

(* A handler entered from a machine, and a system call.                    *)
LEMMA InterruptedIs ==
  ASSUME NEW R \in [Regs -> Word], NEW D \in Flag, NEW I \in Flag,
         NEW S \in Memories, NEW w \in Places
  PROVE  /\ Interrupted(State(R, D, I, S), w)
              = State(Of("kernel"), 0, 0, HandlerStack(R, D, I, S, w))
         /\ Interrupted(State(R, D, I, S), w).stack = HandlerStack(R, D, I, S, w)
<1> DEFINE B == Framed(S, w, D, I)
           U == B \o Pushed(R, Len(S) + 1)
<1>1. Gate(State(R, D, I, S), w) = State(R, D, 0, B)
  BY GateIs
<1>2. Len(B) = Len(S) + 1
  BY FramedType
<1>3. SaveAll(State(R, D, 0, B)) = State(R, 0, 0, U)
  BY <1>2, SaveAllIs
<1>4. Call(State(R, 0, 0, U)) = State(Of("kernel"), 0, 0, HandlerStack(R, D, I, S, w))
  BY CallIs, Zenon DEF HandlerStack
<1>5. Interrupted(State(R, D, I, S), w)
        = State(Of("kernel"), 0, 0, HandlerStack(R, D, I, S, w))
  BY <1>1, <1>3, <1>4, Zenon DEF Interrupted
<1> QED BY <1>5, Fields

LEMMA InSyscallIs ==
  ASSUME NEW R \in [Regs -> Word], NEW D \in Flag, NEW I \in Flag, NEW S \in Memories
  PROVE  /\ InSyscall(State(R, D, I, S)) = State(Of("kernel"), 0, 0, SyscallStack(R, D, I, S))
         /\ InSyscall(State(R, D, I, S)).stack = SyscallStack(R, D, I, S)
<1> DEFINE B == Framed(S, "user", D, I)
           U == B \o PushedForSyscall(R)
<1>1. Gate(State(R, D, I, S), "user") = State(R, D, 0, B)
  BY GateIs
<1>3. SaveForSyscall(State(R, D, 0, B)) = State(R, 0, 0, U)
  BY SaveForSyscallIs
<1>4. Call(State(R, 0, 0, U)) = State(Of("kernel"), 0, 0, SyscallStack(R, D, I, S))
  BY CallIs, Zenon DEF SyscallStack
<1>5. InSyscall(State(R, D, I, S)) = State(Of("kernel"), 0, 0, SyscallStack(R, D, I, S))
  BY <1>1, <1>3, <1>4, Zenon DEF InSyscall
<1> QED BY <1>5, Fields

-----------------------------------------------------------------------------
(* Popping finds what was pushed.                                          *)
LEMMA PopsWhatWasPushed ==
  ASSUME NEW R \in [Regs -> Word], NEW B \in Memories
  PROVE  LET U == B \o Pushed(R, Len(B))
         IN  Popped(U) = R /\ PoppedEsp(U) = Len(B)
<1> DEFINE P == Pushed(R, Len(B))
           U == B \o P
<1>0. Len(B) \in Nat
  BY DEF Memories
<1>1. P \in Memories /\ Len(P) = 8 /\ Len(B) \in Nat
  BY <1>0, PushedType, Zenon
<1>p. P[1] = <<"esp", Len(B)>>
  BY Zenon DEF Pushed
<1>e. <<"esp", Len(B)>>[2] = Len(B)
  BY Zenon
<1>2. /\ P[2] = R["ebp"] /\ P[3] = R["edi"] /\ P[4] = R["esi"]
      /\ P[5] = R["edx"] /\ P[6] = R["ecx"] /\ P[7] = R["ebx"] /\ P[8] = R["eax"]
  BY Zenon DEF Pushed
<1> HIDE DEF P
<1>a. B \in Seq(Cell) /\ P \in Seq(Cell)
  BY <1>1, Zenon DEF Memories
<1>b. Len(U) = Len(B) + Len(P) /\ \A i \in 1 .. Len(P) : U[Len(B) + i] = P[i]
  BY <1>a, ConcatPlaces, Zenon
<1> HIDE DEF U
<1>3. Len(U) = Len(B) + 8 /\ \A i \in 1 .. 8 : U[Len(B) + i] = P[i]
  BY <1>1, <1>b, Zenon
<1> HIDE DEF U
<1>4. ASSUME NEW k \in 1 .. 8 PROVE U[Len(U) + 1 - k] = P[9 - k]
  <2>1. Len(U) + 1 - k = Len(B) + (9 - k) /\ 9 - k \in 1 .. 8
    BY <1>1, <1>3
  <2> QED BY <1>3, <2>1, Zenon
<1>5. /\ U[Len(U) + 1 - PopPlace["eax"]] = R["eax"] /\ U[Len(U) + 1 - PopPlace["ebx"]] = R["ebx"]
      /\ U[Len(U) + 1 - PopPlace["ecx"]] = R["ecx"] /\ U[Len(U) + 1 - PopPlace["edx"]] = R["edx"]
      /\ U[Len(U) + 1 - PopPlace["esi"]] = R["esi"] /\ U[Len(U) + 1 - PopPlace["edi"]] = R["edi"]
      /\ U[Len(U) + 1 - PopPlace["ebp"]] = R["ebp"]
  BY <1>2, <1>4, PopPlaceIs
<1>6. U[Len(U) + 1 - PopPlace["esp"]] = P[1]
  BY <1>4, PopPlaceIs
<1>8. U[Len(U) + 1 - PopPlace["esp"]][2] = Len(B)
  BY <1>6, <1>p, <1>e, Zenon
<1>7. \A r \in Regs : U[Len(U) + 1 - PopPlace[r]] = R[r]
  BY <1>5, Zenon DEF Regs, CalleeSaved
<1>9. Popped(U) = R
  BY <1>7, Zenon DEF Popped
<1> QED BY <1>8, <1>9, Zenon DEF U, P, PoppedEsp

LEMMA SyscallPopsWhatWasPushed ==
  ASSUME NEW R \in [Regs -> Word], NEW B \in Memories
  PROVE  LET U == B \o PushedForSyscall(R)
         IN  /\ \A Q : SyscallPopped(Q, U) = Eax(R, Q["eax"])
             /\ Len(U) - 6 = Len(B)
<1> DEFINE P == PushedForSyscall(R)
           U == B \o P
<1>0. Len(B) \in Nat
  BY DEF Memories
<1>1. P \in Memories /\ Len(P) = 6 /\ Len(B) \in Nat
  BY <1>0, PushedType, Zenon
<1>2. /\ P[1] = R["ebp"] /\ P[2] = R["edi"] /\ P[3] = R["esi"]
      /\ P[4] = R["edx"] /\ P[5] = R["ecx"] /\ P[6] = R["ebx"]
  BY Zenon DEF PushedForSyscall
<1> HIDE DEF P
<1>a. B \in Seq(Cell) /\ P \in Seq(Cell)
  BY <1>1, Zenon DEF Memories
<1>b. Len(U) = Len(B) + Len(P) /\ \A i \in 1 .. Len(P) : U[Len(B) + i] = P[i]
  BY <1>a, ConcatPlaces, Zenon
<1> HIDE DEF U
<1>3. Len(U) = Len(B) + 6 /\ \A i \in 1 .. 6 : U[Len(B) + i] = P[i]
  BY <1>1, <1>b, Zenon
<1> HIDE DEF U
<1>4. ASSUME NEW k \in 1 .. 6 PROVE U[Len(U) + 1 - k] = P[7 - k]
  <2>1. Len(U) + 1 - k = Len(B) + (7 - k) /\ 7 - k \in 1 .. 6
    BY <1>1, <1>3
  <2> QED BY <1>3, <2>1, Zenon
<1>5. /\ U[Len(U) + 1 - SyscallPopPlace["ebx"]] = R["ebx"]
      /\ U[Len(U) + 1 - SyscallPopPlace["ecx"]] = R["ecx"]
      /\ U[Len(U) + 1 - SyscallPopPlace["edx"]] = R["edx"]
      /\ U[Len(U) + 1 - SyscallPopPlace["esi"]] = R["esi"]
      /\ U[Len(U) + 1 - SyscallPopPlace["edi"]] = R["edi"]
      /\ U[Len(U) + 1 - SyscallPopPlace["ebp"]] = R["ebp"]
  BY <1>2, <1>4, SyscallPopPlaceIs
<1>6. \A r \in Regs \ {"eax"} : U[Len(U) + 1 - SyscallPopPlace[r]] = R[r]
  BY <1>5, Zenon DEF Regs, CalleeSaved
<1>7. Len(U) - 6 = Len(B)
  BY <1>1, <1>3
<1>8. ASSUME NEW Q PROVE SyscallPopped(Q, U) = Eax(R, Q["eax"])
  BY <1>6, Zenon DEF SyscallPopped, Eax
<1> QED BY <1>7, <1>8, Zenon DEF U, P

(* Whatever the CPU holds, returning from a handler on the stack it was    *)
(* entered with makes the CPU the machine it was entered from.             *)
LEMMA HandlerReturns ==
  ASSUME NEW R \in [Regs -> Word], NEW D \in Flag, NEW I \in Flag,
         NEW S \in Memories, NEW w \in Places,
         NEW R1, NEW D1, NEW I1, NEW v
  PROVE  LET m == RestoreAll(Return(State(R1, D1, I1, HandlerStack(R, D, I, S, w)), v))
         IN  Iret(m) = State(R, D, I, S) /\ IretTo(m) = w
<1> DEFINE B == Framed(S, w, D, I)
           U == B \o Pushed(R, Len(S) + 1)
           T == HandlerStack(R, D, I, S, w)
           R2 == Returned(T, v)
           m1 == Return(State(R1, D1, I1, T), v)
           m == RestoreAll(m1)
<1>0. B \in Memories /\ Len(B) = Len(S) + 1 /\ Len(S) \in Nat
  BY FramedType
<1>u. U \in Memories
  BY StackType, Zenon
<1>1. B \in Memories /\ Len(B) = Len(S) + 1 /\ Len(S) + 1 \in Nat /\ U \in Memories
  BY <1>0, <1>u
<1>2. Pushed(R, Len(S) + 1) \in Memories /\ Kept(R) \in Cell
  BY <1>1, PushedType, Zenon
<1>t. T = Append(U, Kept(R))
  BY Zenon DEF HandlerStack
<1> HIDE DEF U, T
<1>3. Pop(T) = U
  BY <1>1, <1>2, <1>t, PopAppend, Zenon DEF Memories
<1>r. m1 = State(R2, D1, I1, Pop(T))
  BY ReturnIs
<1>4. m1 = State(R2, D1, I1, U)
  BY <1>3, <1>r, Zenon
<1> USE DEF U, T
<1>5. Popped(U) = R /\ PoppedEsp(U) = Len(B)
  BY <1>1, PopsWhatWasPushed, Zenon
<1>6. SubSeq(U, 1, Len(B)) = B
  BY <1>1, <1>2, CutConcat, Zenon DEF Memories
<1> HIDE DEF U, B, T, m1, R2
<1>7. RestoreAll(State(R2, D1, I1, U)) = State(Popped(U), D1, I1, SubSeq(U, 1, PoppedEsp(U)))
  BY RestoreAllIs
<1>9. m = State(R, D1, I1, B)
  BY <1>4, <1>5, <1>6, <1>7, Zenon
<1>10. Pop(B) = S /\ Top(B).at = w /\ Top(B).df = D /\ Top(B).if = I
  BY FramedType DEF B
<1>11. Iret(m) = State(R, D, I, S) /\ IretTo(m) = w
  BY <1>9, <1>10, IretIs
<1> QED BY <1>11, Zenon DEF m1, T

(* Likewise a system call, but for its result in eax.                      *)
LEMMA SyscallReturns ==
  ASSUME NEW R \in [Regs -> Word], NEW D \in Flag, NEW I \in Flag, NEW S \in Memories,
         NEW R1, NEW D1, NEW I1, NEW v
  PROVE  LET m == RestoreFromSyscall(Return(State(R1, D1, I1, SyscallStack(R, D, I, S)), v))
         IN  Iret(m) = State(Eax(R, v), D, I, S) /\ IretTo(m) = "user"
<1> DEFINE B == Framed(S, "user", D, I)
           U == B \o PushedForSyscall(R)
           T == SyscallStack(R, D, I, S)
           R2 == Returned(T, v)
           m1 == Return(State(R1, D1, I1, T), v)
           m == RestoreFromSyscall(m1)
<1>1. B \in Memories /\ Len(S) \in Nat
  BY FramedType, UserPlace, Zenon
<1>u. U \in Memories
  BY StackType, UserPlace, Zenon
<1>2. PushedForSyscall(R) \in Memories /\ Kept(R) \in Cell
  BY <1>1, PushedType, Zenon
<1>t. T = Append(U, Kept(R))
  BY Zenon DEF SyscallStack
<1>5. SyscallPopped(R2, U) = Eax(R, R2["eax"]) /\ Len(U) - 6 = Len(B)
  BY <1>1, SyscallPopsWhatWasPushed, Zenon
<1>6. SubSeq(U, 1, Len(B)) = B
  BY <1>1, <1>2, CutConcat, Zenon DEF Memories
<1>e. R2["eax"] = v
  BY Zenon DEF Returned, Regs, CalleeSaved
<1> HIDE DEF U, T, R2
<1>3. Pop(T) = U
  BY <1>u, <1>2, <1>t, PopAppend, Zenon DEF Memories
<1>r. m1 = State(R2, D1, I1, Pop(T))
  BY ReturnIs DEF R2
<1>4. m1 = State(R2, D1, I1, U)
  BY <1>3, <1>r, Zenon
<1> HIDE DEF B, m1
<1>7. RestoreFromSyscall(State(R2, D1, I1, U))
        = State(SyscallPopped(R2, U), D1, I1, SubSeq(U, 1, Len(U) - 6))
  BY RestoreFromSyscallIs, Zenon
<1>9. m = State(Eax(R, v), D1, I1, B)
  BY <1>4, <1>5, <1>6, <1>7, <1>e, Zenon
<1>10. Pop(B) = S /\ Top(B).at = "user" /\ Top(B).df = D /\ Top(B).if = I
  BY FramedType, UserPlace DEF B
<1>11. Iret(m) = State(Eax(R, v), D, I, S) /\ IretTo(m) = "user"
  BY <1>9, <1>10, IretIs
<1> QED BY <1>11, Zenon DEF m1, T

(* The parameters of exception_handler, for stack V under the registers.   *)
LEMMA ParametersAre ==
  ASSUME NEW R \in [Regs -> Word], NEW V \in Memories, Len(V) >= 3
  PROVE  LET a == Parameters(SaveAll(State(R, 0, 0, V)))
         IN  /\ a.regs = R
             /\ a.vector = V[Len(V)] /\ a.code = V[Len(V) - 1] /\ a.frame = V[Len(V) - 2]
<1> DEFINE U == V \o Pushed(R, Len(V))
           m == SaveAll(State(R, 0, 0, V))
<1>1. m = State(R, 0, 0, U)
  BY SaveAllIs, Zenon
<1>3. Popped(U) = R
  BY PopsWhatWasPushed, Zenon
<1> HIDE DEF U, m
<1>2. m.stack = U
  BY <1>1, Fields
<1>n. Len(V) \in Nat
  BY DEF Memories
<1>4. V \in Seq(Cell) /\ Pushed(R, Len(V)) \in Seq(Cell) /\ Len(Pushed(R, Len(V))) = 8
  BY <1>n, PushedType, Zenon DEF Memories
<1>a. Len(U) = Len(V) + Len(Pushed(R, Len(V))) /\ \A i \in 1 .. Len(V) : U[i] = V[i]
  BY <1>4, ConcatFirst, Zenon DEF U
<1>5. Len(U) = Len(V) + 8 /\ \A i \in 1 .. Len(V) : U[i] = V[i]
  BY <1>4, <1>a, Zenon
<1>6. /\ U[Len(U) + 1 - 9] = V[Len(V)] /\ U[Len(U) + 1 - 10] = V[Len(V) - 1]
      /\ U[Len(U) + 1 - 11] = V[Len(V) - 2]
  <2>1. /\ Len(U) + 1 - 9 = Len(V) /\ Len(U) + 1 - 10 = Len(V) - 1
        /\ Len(U) + 1 - 11 = Len(V) - 2
        /\ Len(V) \in 1 .. Len(V) /\ Len(V) - 1 \in 1 .. Len(V) /\ Len(V) - 2 \in 1 .. Len(V)
    BY <1>n, <1>5
  <2> QED BY <1>5, <2>1, Zenon
<1>7. Parameters(m).regs = Popped(U)
  BY <1>2, Zenon DEF Parameters, Parameter, Popped
<1>8. /\ Parameters(m).vector = U[Len(U) + 1 - 9] /\ Parameters(m).code = U[Len(U) + 1 - 10]
      /\ Parameters(m).frame = U[Len(U) + 1 - 11]
  BY <1>2, Zenon DEF Parameters, Parameter
<1> QED BY <1>3, <1>6, <1>7, <1>8, Zenon DEF m

(* The stack the registers are pushed on has the same layout with and      *)
(* without an error code of the CPU.                                       *)
LEMMA ExceptionStack ==
  ASSUME NEW R \in [Regs -> Word], NEW D \in Flag, NEW I \in Flag, NEW S \in Memories,
         NEW v \in 0 .. 31 \ {21, 29}, Machine(program) = State(R, D, I, S), at = "user"
  PROVE  LET code == <<"code", "cpu">>
             c == IF v \in CpuErrorCodes THEN code ELSE Zero
         IN  VectorWrapper(CpuRaises(v, code), v)
               = State(R, D, 0, Append(Append(Framed(S, "user", D, I), c), <<"vector", v>>))
<1> DEFINE code == <<"code", "cpu">>
           B == Framed(S, "user", D, I)
<1>1. Gate(Machine(program), at) = State(R, D, 0, B)
  BY GateIs
<1>2. ASSUME NEW T, NEW x PROVE Push(State(R, D, 0, T), x) = State(R, D, 0, Append(T, x))
  BY Zenon DEF Push, State
<1>3. v \in CpuErrorCodes <=> v \in error_code_exception_handler
  BY Zenon DEF CpuErrorCodes, error_code_exception_handler
<1> HIDE DEF B
<1>4. CASE v \in CpuErrorCodes
  <2>1. CpuRaises(v, code) = State(R, D, 0, Append(B, code))
    BY <1>1, <1>2, <1>4, Zenon DEF CpuRaises
  <2>2. VectorWrapper(CpuRaises(v, code), v)
          = State(R, D, 0, Append(Append(B, code), <<"vector", v>>))
    BY <1>2, <1>3, <1>4, <2>1, Zenon DEF VectorWrapper
  <2> QED BY <1>4, <2>2, Zenon DEF B
<1>5. CASE v \notin CpuErrorCodes
  <2>1. CpuRaises(v, code) = State(R, D, 0, B)
    BY <1>1, <1>5, Zenon DEF CpuRaises
  <2>2. Push(CpuRaises(v, code), Zero) = State(R, D, 0, Append(B, Zero))
    BY <1>2, <2>1, Zenon
  <2>3. VectorWrapper(CpuRaises(v, code), v)
          = State(R, D, 0, Append(Append(B, Zero), <<"vector", v>>))
    BY <1>2, <1>3, <1>5, <2>2, Zenon DEF VectorWrapper
  <2> QED BY <1>5, <2>3, Zenon DEF B
<1> QED BY <1>4, <1>5, Zenon

-----------------------------------------------------------------------------
(* Interrupts are only taken when programs run.                            *)
LEMMA TakenWhenRunning ==
  ASSUME ContextInv, PicInv, NEW q \in IRQs, Accept(q)
  PROVE  Running
<1>1. at # "stopped" /\ cpu.if = 1 /\ q \in irr /\ q \notin imr
  BY Zenon DEF Accept, Interruptible, Offered, Open
<1>2. CASE at \in Booting
  <2>1. cpu.if = IF at = "sti" THEN 1 ELSE 0
    BY <1>2 DEF ContextInv
  <2>2. at = "sti"
    BY <1>1, <2>1
  <2>3. PIT_IRQ \in imr /\ KEYBOARD_IRQ \in imr /\ RTC_IRQ \notin irr
    BY <1>2, <2>2, Zenon DEF PicInv
  <2> QED BY <1>1, <2>3, Zenon DEF IRQs
<1>3. at \in Booting \cup {"user", "wait", "stopped"}
  BY Zenon DEF ContextInv
<1> QED BY <1>1, <1>2, <1>3, Zenon DEF Running, Places

(* What is in service is acknowledged in the same step.                    *)
LEMMA Acknowledged ==
  ASSUME isr = {}, NEW q \in IRQs
  PROVE  send_eoi(InService(q), q) = {}
  BY Zenon DEF send_eoi, InService, Slave

-----------------------------------------------------------------------------
(* What is known of a program's expectation, and of the program that runs. *)
LEMMA Expectation ==
  ASSUME NEW e, ExpectOK(e)
  PROVE  /\ Top(e).regs \in [Regs -> Word] /\ Top(e).df \in Flag /\ Top(e).stack \in Memories
         /\ Top(e) = [regs |-> Top(e).regs, df |-> Top(e).df, stack |-> Top(e).stack]
         /\ Where(e) \in Places
         /\ Where(e) = "user" => e = <<Top(e)>> /\ Top(e).stack = << >>
         /\ Where(e) = "wait" => e = <<e[1], Top(e)>> /\ e[1] \in Contexts
<1>1. e \in Seq(Contexts) /\ Len(e) \in {1, 2} /\ e[1].stack = << >>
  BY Zenon DEF ExpectOK
<1>2. Top(e) \in Contexts /\ e[1] \in Contexts
  BY <1>1 DEF Top
<1>3. Where(e) = "user" => Len(e) = 1
  BY Zenon DEF Where
<1>4. Where(e) = "wait" => Len(e) = 2
  BY <1>1, Zenon DEF Where
<1>5. Len(e) = 1 => e = <<Top(e)>> /\ Top(e).stack = << >>
  BY <1>1 DEF Top
<1>6. Len(e) = 2 => e = <<e[1], Top(e)>>
  BY <1>1 DEF Top
<1>7. Where(e) \in Places
  BY Zenon DEF Where, Places
<1>8. /\ Top(e).regs \in [Regs -> Word] /\ Top(e).df \in Flag /\ Top(e).stack \in Memories
      /\ Top(e) = [regs |-> Top(e).regs, df |-> Top(e).df, stack |-> Top(e).stack]
  BY <1>2, Zenon DEF Contexts
<1> QED BY <1>2, <1>3, <1>4, <1>5, <1>6, <1>7, <1>8, Zenon

LEMMA RunningMachine ==
  ASSUME ContextInv, Running
  PROVE  LET e == expect[program]
             c == Top(e)
         IN  /\ ExpectOK(e) /\ at = Where(e)
             /\ cpu = [regs |-> c.regs, df |-> c.df, if |-> 1]
             /\ Machine(program) = State(c.regs, c.df, 1, c.stack)
             /\ stack[program] = c.stack
<1> DEFINE e == expect[program]
<1>1. ExpectOK(e) /\ RunsAsExpected
  BY Zenon DEF ContextInv
<1>2. /\ at = Where(e) /\ stack[program] = Top(e).stack
      /\ cpu = [regs |-> Top(e).regs, df |-> Top(e).df, if |-> 1]
  BY <1>1, Zenon DEF RunsAsExpected
<1> HIDE DEF e
<1>3. cpu.regs = Top(e).regs /\ cpu.df = Top(e).df /\ cpu.if = 1
  BY <1>2, Zenon
<1>4. Machine(program) = State(Top(e).regs, Top(e).df, 1, Top(e).stack)
  BY <1>2, <1>3, Zenon DEF Machine
<1> QED BY <1>1, <1>2, <1>4, Zenon DEF e

(* An interrupt that returns leaves the CPU and the stack as they were.    *)
LEMMA InterruptLeavesNoTrace ==
  ASSUME ContextInv, Running, NEW q \in IRQs, interrupt_returns(q)
  PROVE  UNCHANGED cpuVars
<1> DEFINE e == expect[program]
           c == Top(e)
           h == Interrupted(State(c.regs, c.df, 1, c.stack), at)
           m == RestoreAll(Return(h, <<"kernel", "eax">>))
<1>1. /\ ExpectOK(e) /\ at = Where(e)
      /\ cpu = [regs |-> c.regs, df |-> c.df, if |-> 1]
      /\ Machine(program) = State(c.regs, c.df, 1, c.stack)
      /\ stack[program] = c.stack
  BY RunningMachine, Zenon
<1>2. /\ c.regs \in [Regs -> Word] /\ c.df \in Flag /\ c.stack \in Memories
      /\ at \in Places /\ 1 \in Flag
  BY <1>1, Expectation, Zenon DEF Flag
<1> HIDE DEF e
<1>3. h = State(Of("kernel"), 0, 0, HandlerStack(c.regs, c.df, 1, c.stack, at))
  BY <1>2, InterruptedIs
<1>4. Iret(m) = State(c.regs, c.df, 1, c.stack) /\ IretTo(m) = at
  BY <1>2, <1>3, HandlerReturns
<1>5. /\ stack' = [stack EXCEPT ![program] = Iret(m).stack]
      /\ program' = program /\ at' = IretTo(m)
      /\ cpu' = [regs |-> Iret(m).regs, df |-> Iret(m).df, if |-> Iret(m).if]
      /\ UNCHANGED <<saved, expect>>
  BY <1>1, Zenon DEF interrupt_returns, Resume, Interrupted
<1> HIDE DEF m
<1>6. stack' = stack /\ at' = at /\ cpu' = cpu
  BY <1>1, <1>4, <1>5, Fields DEF ContextInv
<1> QED BY <1>5, <1>6, Zenon DEF cpuVars

(* What makes the invariant hold after a step to a program that runs.      *)
LEMMA Resumed ==
  ASSUME program' \in Programs, stack' \in [Programs -> Memories],
         DOMAIN expect' = Programs, \A p \in Programs : ExpectOK(expect'[p]),
         at' = Where(expect'[program']),
         cpu' = [regs |-> Top(expect'[program']).regs,
                 df |-> Top(expect'[program']).df, if |-> 1],
         stack'[program'] = Top(expect'[program']).stack,
         \A p \in Programs \ {program'} :
           /\ p \in saved' => stack'[p] = Suspended(expect'[p])
           /\ p \notin saved' => stack'[p] = << >> /\ expect'[p] = <<NewContext>>
  PROVE  ContextInv' /\ Running'
<1>1. at' \in Places
  BY Zenon DEF Where, Places
<1>2. RunsAsExpected'
  BY Zenon DEF RunsAsExpected
<1>3. OthersReady'
  BY Zenon DEF OthersReady
<1> QED BY <1>1, <1>2, <1>3, Zenon DEF ContextInv, Running, Places, Booting

(* A step of the program that runs, which from then on expects e.          *)
GoesOn(e) ==
  /\ stack' = [stack EXCEPT ![program] = Top(e).stack]
  /\ expect' = [expect EXCEPT ![program] = e]
  /\ program' = program /\ saved' = saved /\ at' = Where(e)
  /\ cpu' = [regs |-> Top(e).regs, df |-> Top(e).df, if |-> 1]

LEMMA ProgramGoesOn ==
  ASSUME ContextInv, Running, NEW e, ExpectOK(e), GoesOn(e)
  PROVE  ContextInv' /\ Running'
<1>0. /\ stack' = [stack EXCEPT ![program] = Top(e).stack]
      /\ expect' = [expect EXCEPT ![program] = e]
      /\ program' = program /\ saved' = saved /\ at' = Where(e)
      /\ cpu' = [regs |-> Top(e).regs, df |-> Top(e).df, if |-> 1]
  BY Zenon DEF GoesOn
<1>1. /\ program \in Programs /\ stack \in [Programs -> Memories]
      /\ DOMAIN expect = Programs /\ \A p \in Programs : ExpectOK(expect[p])
  BY Zenon DEF ContextInv
<1>2. at # "stopped"
  BY Zenon DEF Running, Places
<1>3. \A p \in Programs \ {program} :
        /\ p \in saved => stack[p] = Suspended(expect[p])
        /\ p \notin saved => stack[p] = << >> /\ expect[p] = <<NewContext>>
  BY <1>2, Zenon DEF ContextInv, OthersReady
<1>4. Top(e).stack \in Memories
  BY Expectation, Zenon
<1>5. stack' \in [Programs -> Memories] /\ stack'[program] = Top(e).stack
  BY <1>0, <1>1, <1>4, Zenon
<1>6. expect'[program] = e /\ DOMAIN expect' = Programs
  BY <1>0, <1>1, Zenon
<1>7. \A p \in Programs \ {program} : expect'[p] = expect[p] /\ stack'[p] = stack[p]
  BY <1>0, <1>1, Zenon
<1>8. \A p \in Programs : ExpectOK(expect'[p])
  BY <1>1, <1>6, <1>7, Zenon
<1>9. \A p \in Programs \ {program'} :
        /\ p \in saved' => stack'[p] = Suspended(expect'[p])
        /\ p \notin saved' => stack'[p] = << >> /\ expect'[p] = <<NewContext>>
  BY <1>0, <1>3, <1>7, Zenon
<1> QED BY <1>0, <1>1, <1>5, <1>6, <1>8, <1>9, Resumed, Zenon

(* The stack of a program that is switched away from.                      *)
LEMMA SuspendedIs ==
  ASSUME NEW e, ExpectOK(e)
  PROVE  LET c == Top(e)
         IN  /\ Suspended(e) = HandlerStack(c.regs, c.df, 1, c.stack, Where(e))
             /\ Suspended(e) \in Memories
<1> DEFINE c == Top(e)
<1>1. /\ c.regs \in [Regs -> Word] /\ c.df \in Flag /\ c.stack \in Memories
      /\ Where(e) \in Places /\ 1 \in Flag
  BY Expectation, Zenon DEF Flag
<1> HIDE DEF c
<1>2. Interrupted(State(c.regs, c.df, 1, c.stack), Where(e)).stack
        = HandlerStack(c.regs, c.df, 1, c.stack, Where(e))
  BY <1>1, InterruptedIs
<1>3. HandlerStack(c.regs, c.df, 1, c.stack, Where(e)) \in Memories
  BY <1>1, StackType, Zenon
<1> QED BY <1>2, <1>3, Zenon DEF Suspended, MachineOf, c

(* A new program.                                                          *)
LEMMA NewProgram ==
  /\ ExpectOK(<<NewContext>>) /\ Top(<<NewContext>>) = NewContext
  /\ Where(<<NewContext>>) = "user"
<1>1. Of("kernel") \in [Regs -> Word]
  BY Zenon DEF Of, Word
<1>2. << >> \in Memories
  BY DEF Memories
<1>3. NewContext \in Contexts /\ NewContext.stack = << >>
  BY <1>1, <1>2, Zenon DEF NewContext, Contexts, Flag
<1>4. <<NewContext>> \in Seq(Contexts) /\ Len(<<NewContext>>) = 1 /\ <<NewContext>>[1] = NewContext
  BY <1>3
<1> QED BY <1>3, <1>4 DEF ExpectOK, Where, Top

-----------------------------------------------------------------------------
(* Switching to p: the stack left behind leads back to the program that    *)
(* was interrupted, and p goes on from its own, or starts.                 *)
LEMMA SwitchKeepsContexts ==
  ASSUME ContextInv, Running, NEW p \in Programs, pit_switches(p)
  PROVE  ContextInv' /\ Running'
<1> DEFINE e == expect[program]
           c == Top(e)
           m1 == Call(SaveAll(Gate(Machine(program), at)))
           s == State(m1.regs, m1.df, m1.if, stack[p])
           m2 == RestoreAll(Return(s, <<"kernel", "eax">>))
<1>1. /\ ExpectOK(e) /\ at = Where(e)
      /\ Machine(program) = State(c.regs, c.df, 1, c.stack)
  BY RunningMachine, Zenon
<1>2. /\ c.regs \in [Regs -> Word] /\ c.df \in Flag /\ c.stack \in Memories
      /\ at \in Places /\ 1 \in Flag
  BY <1>1, Expectation, Zenon DEF Flag
<1>3. /\ p # program /\ expect' = expect /\ saved' = saved \cup {program} /\ program' = p
      /\ p \in saved => /\ stack' = [stack EXCEPT ![program] = m1.stack, ![p] = Iret(m2).stack]
                        /\ at' = IretTo(m2)
                        /\ cpu' = [regs |-> Iret(m2).regs, df |-> Iret(m2).df, if |-> Iret(m2).if]
      /\ p \notin saved => /\ stack' = [stack EXCEPT ![program] = m1.stack]
                           /\ at' = "user"
                           /\ cpu' = [regs |-> Of("kernel"), df |-> m1.df, if |-> 1]
  BY Zenon DEF pit_switches, context_switch, Resume, switch_to_ring_3
<1> HIDE DEF e
<1>4. Interrupted(State(c.regs, c.df, 1, c.stack), at)
        = State(Of("kernel"), 0, 0, HandlerStack(c.regs, c.df, 1, c.stack, at))
  <2> HIDE DEF c
  <2> QED BY <1>2, InterruptedIs
<1>5. m1 = State(Of("kernel"), 0, 0, Suspended(e))
  BY <1>1, <1>4, SuspendedIs, Zenon DEF Interrupted
<1> HIDE DEF m1
<1>6. m1.stack = Suspended(e) /\ m1.df = 0 /\ Suspended(e) \in Memories
  BY <1>1, <1>5, Fields, SuspendedIs
<1>7. /\ program \in Programs /\ stack \in [Programs -> Memories]
      /\ DOMAIN expect = Programs /\ \A x \in Programs : ExpectOK(expect[x])
  BY Zenon DEF ContextInv
<1>8. \A x \in Programs \ {program} :
        /\ x \in saved => stack[x] = Suspended(expect[x])
        /\ x \notin saved => stack[x] = << >> /\ expect[x] = <<NewContext>>
  BY Zenon DEF Running, Places, ContextInv, OthersReady
<1>9. CASE p \in saved
  <2> DEFINE f == expect[p]
             d == Top(f)
  <2>1. /\ ExpectOK(f) /\ d.regs \in [Regs -> Word] /\ d.df \in Flag /\ d.stack \in Memories
        /\ Where(f) \in Places
    BY <1>7, Expectation, Zenon
  <2>2. stack[p] = HandlerStack(d.regs, d.df, 1, d.stack, Where(f))
    BY <1>3, <1>8, <1>9, <2>1, SuspendedIs, Zenon
  <2> HIDE DEF f
  <2>3. Iret(m2) = State(d.regs, d.df, 1, d.stack) /\ IretTo(m2) = Where(f)
    BY <1>2, <2>1, <2>2, HandlerReturns
  <2> HIDE DEF m2
  <2>4. /\ stack' = [stack EXCEPT ![program] = Suspended(e), ![p] = d.stack]
        /\ at' = Where(f) /\ cpu' = [regs |-> d.regs, df |-> d.df, if |-> 1]
    BY <1>3, <1>6, <1>9, <2>3, Fields
  <2>5. /\ stack' \in [Programs -> Memories] /\ stack'[p] = d.stack
        /\ stack'[program] = Suspended(e)
        /\ \A x \in Programs \ {p, program} : stack'[x] = stack[x]
    BY <1>3, <1>6, <1>7, <2>1, <2>4, Zenon
  <2>6. \A x \in Programs \ {p} :
          /\ x \in saved' => stack'[x] = Suspended(expect'[x])
          /\ x \notin saved' => stack'[x] = << >> /\ expect'[x] = <<NewContext>>
    BY <1>3, <1>8, <2>5, ZenonT(30) DEF e
  <2> QED BY <1>3, <1>7, <2>4, <2>5, <2>6, Resumed, Zenon DEF f
<1>10. CASE p \notin saved
  <2>1. /\ expect[p] = <<NewContext>> /\ stack[p] = << >>
    BY <1>3, <1>8, <1>10, Zenon
  <2>2. /\ Top(expect'[p]).regs = Of("kernel") /\ Top(expect'[p]).df = 0
        /\ Top(expect'[p]).stack = << >> /\ Where(expect'[p]) = "user"
    BY <1>3, <2>1, NewProgram DEF NewContext
  <2>3. /\ stack' = [stack EXCEPT ![program] = Suspended(e)] /\ at' = "user"
        /\ cpu' = [regs |-> Of("kernel"), df |-> 0, if |-> 1]
    BY <1>3, <1>6, <1>10, Zenon
  <2>4. /\ stack' \in [Programs -> Memories] /\ stack'[program] = Suspended(e)
        /\ \A x \in Programs \ {program} : stack'[x] = stack[x]
    BY <1>6, <1>7, <2>3, Zenon
  <2>5. stack'[p] = << >>
    BY <1>3, <2>1, <2>4, Zenon
  <2>6. \A x \in Programs \ {p} :
          /\ x \in saved' => stack'[x] = Suspended(expect'[x])
          /\ x \notin saved' => stack'[x] = << >> /\ expect'[x] = <<NewContext>>
    BY <1>3, <1>8, <2>4, Zenon DEF e
  <2> QED BY <1>3, <1>7, <2>2, <2>3, <2>4, <2>5, <2>6, Resumed
<1> QED BY <1>9, <1>10, Zenon

(* What a program in ring 3 computes it expects.                           *)
LEMMA InRing3 ==
  ASSUME ContextInv, at = "user"
  PROVE  LET e == expect[program]
             c == Top(e)
         IN  /\ ExpectOK(e) /\ e = <<c>> /\ c.stack = << >>
             /\ c.regs \in [Regs -> Word] /\ c.df \in Flag
             /\ cpu = [regs |-> c.regs, df |-> c.df, if |-> 1]
             /\ Machine(program) = State(c.regs, c.df, 1, << >>)
             /\ stack[program] = << >>
<1> DEFINE e == expect[program]
<1>1. Running
  BY Zenon DEF Running, Places
<1>2. /\ ExpectOK(e) /\ at = Where(e)
      /\ cpu = [regs |-> Top(e).regs, df |-> Top(e).df, if |-> 1]
      /\ Machine(program) = State(Top(e).regs, Top(e).df, 1, Top(e).stack)
      /\ stack[program] = Top(e).stack
  BY <1>1, RunningMachine, Zenon
<1> HIDE DEF e
<1>3. e = <<Top(e)>> /\ Top(e).stack = << >> /\ Top(e).regs \in [Regs -> Word] /\ Top(e).df \in Flag
  BY <1>2, Expectation, Zenon
<1> QED BY <1>2, <1>3, Zenon DEF e

LEMMA OneContext ==
  ASSUME NEW R \in [Regs -> Word], NEW D \in Flag
  PROVE  LET c == [regs |-> R, df |-> D, stack |-> << >>]
         IN  ExpectOK(<<c>>) /\ Top(<<c>>) = c /\ Where(<<c>>) = "user"
<1> DEFINE c == [regs |-> R, df |-> D, stack |-> << >>]
<1>1. << >> \in Memories
  BY DEF Memories
<1>2. c \in Contexts /\ c.stack = << >>
  BY <1>1, Zenon DEF Contexts
<1> HIDE DEF c
<1>3. <<c>> \in Seq(Contexts) /\ Len(<<c>>) = 1 /\ <<c>>[1] = c
  BY <1>2
<1> QED BY <1>2, <1>3 DEF ExpectOK, Where, Top, c

LEMMA ComputeStep ==
  ASSUME ContextInv, compute
  PROVE  ContextInv' /\ Running'
<1>1. at = "user" /\ Running
  BY Zenon DEF compute, Running, Places
<1>2. PICK D \in Flag :
        /\ cpu' = [regs |-> Of(program), df |-> D, if |-> cpu.if]
        /\ Expecting(State(Of(program), D, cpu.if, stack[program]))
  BY Zenon DEF compute
<1>3. UNCHANGED <<at, program, stack, saved>>
  BY Zenon DEF compute
<1> DEFINE e == expect[program]
           d == [regs |-> Of(program), df |-> D, stack |-> << >>]
<1>4. /\ e = <<Top(e)>> /\ stack[program] = << >> /\ cpu.if = 1
      /\ program \in Programs /\ stack \in [Programs -> Memories]
  BY <1>1, InRing3 DEF ContextInv
<1>5. Of(program) \in [Regs -> Word]
  BY <1>4, Zenon DEF Of, Word
<1>6. ExpectOK(<<d>>) /\ Top(<<d>>) = d /\ Where(<<d>>) = "user"
  BY <1>5, OneContext, Zenon
<1>7. Pop(e) \o <<d>> = <<d>>
  <2>1. Top(e) \in {Top(e), d} /\ d \in {Top(e), d}
    BY Zenon
  <2> QED BY <1>4, <2>1, PopOfOne, Zenon
<1>8. Context(State(Of(program), D, cpu.if, stack[program])) = d
  BY <1>4, Zenon DEF Context, State
<1>9. expect' = [expect EXCEPT ![program] = <<d>>]
  BY <1>2, <1>7, <1>8, Zenon DEF Expecting
<1>10. stack' = [stack EXCEPT ![program] = Top(<<d>>).stack]
  BY <1>3, <1>4, <1>6
<1>11. cpu' = [regs |-> Top(<<d>>).regs, df |-> Top(<<d>>).df, if |-> 1]
  BY <1>2, <1>4, <1>6
<1>12. at' = Where(<<d>>) /\ program' = program /\ saved' = saved
  BY <1>1, <1>3, <1>6, Zenon
<1> HIDE DEF d
<1>13. GoesOn(<<d>>)
  BY <1>9, <1>10, <1>11, <1>12, Zenon DEF GoesOn
<1> QED BY <1>1, <1>6, <1>13, ProgramGoesOn, Zenon

(* A call that returns at once, with v in eax: m is what the pops leave.   *)
LEMMA ReturnsAtOnce ==
  ASSUME ContextInv, at = "user", NEW v \in Word, NEW m,
         Iret(m) = State(Eax(Top(expect[program]).regs, v), Top(expect[program]).df, 1, << >>),
         IretTo(m) = "user",
         Resume(program, Iret(m), IretTo(m)),
         stack' = [stack EXCEPT ![program] = Iret(m).stack],
         expect' = [expect EXCEPT ![program] = <<ReturnsTo(v)>>],
         saved' = saved
  PROVE  ContextInv' /\ Running'
<1> DEFINE c == Top(expect[program])
           R == Eax(c.regs, v)
           d == [regs |-> R, df |-> c.df, stack |-> << >>]
<1>1. Running
  BY Zenon DEF Running, Places
<1>2. c.regs \in [Regs -> Word] /\ c.df \in Flag /\ c.stack = << >>
  BY InRing3, Zenon
<1>3. R \in [Regs -> Word]
  <2> HIDE DEF c
  <2> QED BY <1>2, EaxType, Zenon
<1>4. ReturnsTo(v) = d
  BY <1>2, Zenon DEF ReturnsTo, Eax
<1>5. ExpectOK(<<d>>) /\ Top(<<d>>) = d /\ Where(<<d>>) = "user"
  BY <1>2, <1>3, OneContext, Zenon
<1> HIDE DEF R
<1>6. Iret(m).stack = << >> /\ Iret(m).regs = R /\ Iret(m).df = c.df /\ Iret(m).if = 1
  BY Fields DEF R
<1>7. /\ program' = program /\ at' = "user" /\ cpu' = [regs |-> R, df |-> c.df, if |-> 1]
  BY <1>6, Zenon DEF Resume
<1>f. d.stack = << >> /\ d.regs = R /\ d.df = c.df
  BY Zenon
<1> HIDE DEF d
<1>8. /\ stack' = [stack EXCEPT ![program] = Top(<<d>>).stack]
      /\ cpu' = [regs |-> Top(<<d>>).regs, df |-> Top(<<d>>).df, if |-> 1]
  BY <1>5, <1>6, <1>7, <1>f, Zenon
<1>9. expect' = [expect EXCEPT ![program] = <<d>>] /\ at' = Where(<<d>>)
  BY <1>4, <1>5, <1>7, Zenon
<1>10. GoesOn(<<d>>)
  BY <1>7, <1>8, <1>9, Zenon DEF GoesOn
<1> QED BY <1>1, <1>5, <1>10, ProgramGoesOn, Zenon

LEMMA InvalidStep ==
  ASSUME ContextInv, NEW eax \in SyscallNumbers, invalid_syscall_num(eax)
  PROVE  ContextInv' /\ Running'
<1> DEFINE c == Top(expect[program])
           g == Gate(Machine(program), at)
           R == [g.regs EXCEPT !["eax"] = Minus1]
           m == State(R, g.df, g.if, g.stack)
<1>1. at = "user" /\ Minus1 \in Word
  BY Zenon DEF invalid_syscall_num, Word
<1>2. /\ Machine(program) = State(c.regs, c.df, 1, << >>) /\ c.df \in Flag /\ << >> \in Memories
  BY <1>1, InRing3 DEF Memories
<1> HIDE DEF c
<1> DEFINE B == Framed(<< >>, "user", c.df, 1)
<1>3. g = State(c.regs, c.df, 0, B)
  BY <1>1, <1>2, GateIs
<1> HIDE DEF B, g
<1>4. m = State(Eax(c.regs, Minus1), c.df, 0, B)
  BY <1>3, Fields DEF Eax
<1>f. 1 \in Flag
  BY Zenon DEF Flag
<1>5. Pop(B) = << >> /\ Top(B).at = "user" /\ Top(B).df = c.df /\ Top(B).if = 1
  BY <1>2, <1>f, FramedType, UserPlace DEF B
<1>6. Iret(m) = State(Eax(c.regs, Minus1), c.df, 1, << >>) /\ IretTo(m) = "user"
  BY <1>4, <1>5, IretIs
<1>7. /\ Resume(program, Iret(m), IretTo(m)) /\ stack' = [stack EXCEPT ![program] = Iret(m).stack]
      /\ expect' = [expect EXCEPT ![program] = <<ReturnsTo(Minus1)>>] /\ saved' = saved
  BY Zenon DEF invalid_syscall_num, SyscallFrame, g
<1> HIDE DEF m
<1> QED BY <1>1, <1>6, <1>7, ReturnsAtOnce, Zenon DEF c

LEMMA SyscallStep ==
  ASSUME ContextInv, NEW eax \in SyscallNumbers, syscall_returns(eax)
  PROVE  ContextInv' /\ Running'
<1> DEFINE c == Top(expect[program])
           m == RestoreFromSyscall(Return(Entered, Result))
<1>1. at = "user" /\ Result \in Word /\ << >> \in Memories /\ 1 \in Flag
  BY DEF syscall_returns, Word, Memories, Flag
<1>2. /\ Machine(program) = State(c.regs, c.df, 1, << >>)
      /\ c.regs \in [Regs -> Word] /\ c.df \in Flag
  BY <1>1, InRing3, Zenon
<1> HIDE DEF c
<1>3. Entered = State(Of("kernel"), 0, 0, SyscallStack(c.regs, c.df, 1, << >>))
  <2>1. InSyscall(State(c.regs, c.df, 1, << >>))
          = State(Of("kernel"), 0, 0, SyscallStack(c.regs, c.df, 1, << >>))
    BY <1>1, <1>2, InSyscallIs, Zenon
  <2> QED BY <1>1, <1>2, <2>1, Zenon DEF Entered, InSyscall
<1>4. /\ Iret(m) = State(Eax(c.regs, Result), c.df, 1, << >>)
      /\ IretTo(m) = "user"
  <2>1. LET n == RestoreFromSyscall(Return(State(Of("kernel"), 0, 0,
                                                 SyscallStack(c.regs, c.df, 1, << >>)), Result))
        IN  Iret(n) = State(Eax(c.regs, Result), c.df, 1, << >>) /\ IretTo(n) = "user"
    BY <1>1, <1>2, SyscallReturns
  <2> QED BY <1>3, <2>1, Zenon
<1>5. /\ Resume(program, Iret(m), IretTo(m)) /\ stack' = [stack EXCEPT ![program] = Iret(m).stack]
      /\ expect' = [expect EXCEPT ![program] = <<ReturnsTo(Result)>>] /\ saved' = saved
  BY Zenon DEF syscall_returns, SyscallFrame
<1> HIDE DEF m
<1> QED BY <1>1, <1>4, <1>5, ReturnsAtOnce, Zenon DEF c

(* A call that waits: its stack leads back to ring 3.                      *)
LEMMA WaitStep ==
  ASSUME ContextInv, NEW eax \in SyscallNumbers, read_waits(eax)
  PROVE  ContextInv' /\ Running'
<1> DEFINE c == Top(expect[program])
           R == Eax(c.regs, Result)
           T == SyscallStack(c.regs, c.df, 1, << >>)
           d1 == [regs |-> R, df |-> c.df, stack |-> << >>]
           d2 == [regs |-> Of("kernel"), df |-> 0, stack |-> T]
           e == <<d1, d2>>
<1>1. at = "user" /\ Running /\ Result \in Word /\ << >> \in Memories /\ 1 \in Flag /\ 0 \in Flag
  BY DEF read_waits, Word, Memories, Flag, Running, Places
<1>2. /\ Machine(program) = State(c.regs, c.df, 1, << >>)
      /\ c.regs \in [Regs -> Word] /\ c.df \in Flag /\ c.stack = << >>
  BY <1>1, InRing3, Zenon
<1>s. InSyscall(State(c.regs, c.df, 1, << >>)) = State(Of("kernel"), 0, 0, T)
  <2> HIDE DEF c
  <2> QED BY <1>1, <1>2, InSyscallIs, ZenonT(30)
<1>3. Entered = State(Of("kernel"), 0, 0, T)
  BY <1>1, <1>2, <1>s, Zenon DEF Entered, InSyscall
<1>4. Of("kernel") \in [Regs -> Word]
  BY Zenon DEF Of, Word
<1>5. T \in Memories
  BY <1>1, <1>2, StackType, UserPlace, Zenon
<1> HIDE DEF T
<1>6. ReturnsTo(Result) = d1
  BY <1>2, Zenon DEF ReturnsTo, Eax
<1>7. Context(Entered) = d2
  BY <1>3, Fields DEF Context
<1>8. R \in [Regs -> Word] /\ R["eax"] = Result
  BY <1>1, <1>2, Zenon DEF Regs, Eax
<1>9. d1 \in Contexts /\ d2 \in Contexts
  BY <1>1, <1>2, <1>4, <1>5, <1>8, Zenon DEF Contexts
<1>10. Eax(R, c.regs["eax"]) = c.regs
  BY <1>2, Zenon DEF Eax
<1> HIDE DEF R
<1>11. d1.stack = << >> /\ d1.regs = R /\ d1.df = c.df
  BY Zenon
<1>12. d2.stack = T /\ d2.regs = Of("kernel") /\ d2.df = 0
  BY Zenon
<1> HIDE DEF d1, d2
<1>13. e \in Seq(Contexts) /\ Len(e) = 2 /\ e[1] = d1 /\ e[2] = d2
  BY <1>9
<1>14. Top(e) = d2 /\ Where(e) = "wait"
  BY <1>13 DEF Top, Where
<1>15. Entry(d1, c.regs["eax"]) = State(c.regs, c.df, 1, << >>)
  BY <1>10, <1>11, Zenon DEF Entry
<1>16. InSyscall(Entry(d1, c.regs["eax"])).stack = T
  <2> HIDE DEF c
  <2>1. State(Of("kernel"), 0, 0, T).stack = T
    BY Fields
  <2> QED BY <1>15, <1>s, <2>1, Zenon
<1>17. c.regs["eax"] \in Word
  BY <1>2, Zenon DEF Regs
<1> HIDE DEF c, e
<1>18. ExpectOK(e)
  BY <1>8, <1>11, <1>12, <1>13, <1>16, <1>17, Zenon DEF ExpectOK
<1>19. /\ Resume(program, State(Entered.regs, Entered.df, 1, Entered.stack), "wait")
       /\ stack' = [stack EXCEPT ![program] = Entered.stack]
       /\ expect' = [expect EXCEPT ![program] = e] /\ saved' = saved
  BY <1>6, <1>7, Zenon DEF read_waits, SyscallFrame, e
<1>20. Entered.regs = Of("kernel") /\ Entered.df = 0 /\ Entered.stack = T
  BY <1>3, Fields
<1>21. /\ program' = program /\ at' = "wait"
       /\ cpu' = [regs |-> Of("kernel"), df |-> 0, if |-> 1]
  BY <1>19, <1>20, Fields DEF Resume
<1>22. /\ stack' = [stack EXCEPT ![program] = Top(e).stack] /\ at' = Where(e)
       /\ cpu' = [regs |-> Top(e).regs, df |-> Top(e).df, if |-> 1]
  BY <1>12, <1>14, <1>19, <1>20, <1>21, Zenon
<1>23. GoesOn(e)
  BY <1>19, <1>21, <1>22, Zenon DEF GoesOn
<1> QED BY <1>1, <1>18, <1>23, ProgramGoesOn, Zenon

LEMMA WaitEndsStep ==
  ASSUME ContextInv, read_returns
  PROVE  ContextInv' /\ Running'
<1> DEFINE e == expect[program]
           c == e[1]
           m == RestoreFromSyscall(Return(State(cpu.regs, cpu.df, 0, stack[program]), Result))
<1>1. at = "wait" /\ Running /\ Result \in Word /\ << >> \in Memories /\ 1 \in Flag
  BY DEF read_returns, Word, Memories, Flag, Running, Places
<1>2. ExpectOK(e) /\ at = Where(e) /\ stack[program] = Top(e).stack
  BY <1>1, RunningMachine, Zenon
<1>3. e = <<c, Top(e)>> /\ c \in Contexts
  BY <1>1, <1>2, Expectation, Zenon
<1>4. c.regs \in [Regs -> Word] /\ c.df \in Flag
  BY <1>3, Zenon DEF Contexts
<1>5. Len(e) = 2 /\ Top(e) = e[2]
  BY <1>1, <1>2, Zenon DEF ExpectOK, Where, Top
<1>6. c.stack = << >> /\ c.regs["eax"] = Result
  BY <1>2, <1>5, Zenon DEF ExpectOK
<1>7. PICK v \in Word : Top(e).stack = InSyscall(Entry(c, v)).stack
  BY <1>2, <1>5, Zenon DEF ExpectOK
<1> HIDE DEF e
<1> DEFINE R == Eax(c.regs, v)
<1> HIDE DEF c
<1>8. R \in [Regs -> Word]
  BY <1>4, EaxType, Zenon
<1>9. Eax(R, Result) = c.regs
  BY <1>4, <1>6, Zenon DEF Eax
<1>10. Entry(c, v) = State(R, c.df, 1, << >>)
  BY <1>6, Zenon DEF Entry
<1> HIDE DEF R
<1>11. stack[program] = SyscallStack(R, c.df, 1, << >>)
  <2>1. InSyscall(State(R, c.df, 1, << >>)).stack = SyscallStack(R, c.df, 1, << >>)
    BY <1>1, <1>4, <1>8, InSyscallIs, ZenonT(30)
  <2> QED BY <1>2, <1>7, <1>10, <2>1, Zenon
<1>12. Iret(m) = State(c.regs, c.df, 1, << >>) /\ IretTo(m) = "user"
  <2>1. LET n == RestoreFromSyscall(Return(State(cpu.regs, cpu.df, 0,
                                                 SyscallStack(R, c.df, 1, << >>)), Result))
        IN  Iret(n) = State(Eax(R, Result), c.df, 1, << >>) /\ IretTo(n) = "user"
    BY <1>1, <1>4, <1>8, SyscallReturns
  <2> QED BY <1>9, <1>11, <2>1, Zenon
<1>13. c = [regs |-> c.regs, df |-> c.df, stack |-> << >>]
  BY <1>3, <1>6, Zenon DEF Contexts
<1>14. ExpectOK(<<c>>) /\ Top(<<c>>) = c /\ Where(<<c>>) = "user"
  BY <1>4, <1>13, OneContext, Zenon
<1>15. Pop(e) = <<c>>
  <2>1. c \in {c, Top(e)} /\ Top(e) \in {c, Top(e)}
    BY Zenon
  <2> QED BY <1>3, <2>1, PopOfTwo, Zenon
<1>16. /\ Resume(program, Iret(m), IretTo(m)) /\ stack' = [stack EXCEPT ![program] = Iret(m).stack]
       /\ expect' = [expect EXCEPT ![program] = <<c>>] /\ saved' = saved
  BY <1>15, Zenon DEF read_returns, SyscallFrame, e
<1> HIDE DEF m
<1>f. /\ Iret(m).regs = c.regs /\ Iret(m).df = c.df /\ Iret(m).if = 1 /\ Iret(m).stack = << >>
  BY <1>12, Fields
<1>17. /\ program' = program /\ at' = "user" /\ cpu' = [regs |-> c.regs, df |-> c.df, if |-> 1]
       /\ stack' = [stack EXCEPT ![program] = << >>]
  BY <1>12, <1>16, <1>f, Zenon DEF Resume
<1>18. /\ stack' = [stack EXCEPT ![program] = Top(<<c>>).stack] /\ at' = Where(<<c>>)
       /\ cpu' = [regs |-> Top(<<c>>).regs, df |-> Top(<<c>>).df, if |-> 1]
  BY <1>6, <1>14, <1>17, Zenon
<1>19. GoesOn(<<c>>)
  BY <1>16, <1>17, <1>18, Zenon DEF GoesOn
<1> QED BY <1>1, <1>14, <1>19, ProgramGoesOn, Zenon

LEMMA AppendOne ==
  ASSUME NEW A \in Memories, NEW y \in Cell
  PROVE  /\ Append(A, y) \in Memories /\ Len(Append(A, y)) = Len(A) + 1
         /\ Append(A, y)[Len(A) + 1] = y
         /\ \A i \in 1 .. Len(A) : Append(A, y)[i] = A[i]
  BY DEF Memories

LEMMA AppendTwo ==
  ASSUME NEW B \in Memories, NEW x \in Cell, NEW y \in Cell, Len(B) = 1
  PROVE  LET V == Append(Append(B, x), y)
         IN  V \in Memories /\ Len(V) = 3 /\ V[3] = y /\ V[2] = x /\ V[1] = B[1]
<1> DEFINE A == Append(B, x)
           V == Append(A, y)
<1>1. /\ A \in Memories /\ Len(A) = Len(B) + 1 /\ A[Len(B) + 1] = x
      /\ \A i \in 1 .. Len(B) : A[i] = B[i]
  BY AppendOne, Zenon
<1> HIDE DEF A
<1>2. /\ V \in Memories /\ Len(V) = Len(A) + 1 /\ V[Len(A) + 1] = y
      /\ \A i \in 1 .. Len(A) : V[i] = A[i]
  BY <1>1, AppendOne, Zenon
<1> HIDE DEF V
<1>3. Len(A) = 2 /\ Len(V) = 3
  BY <1>1, <1>2
<1>4. A[2] = x /\ A[1] = B[1]
  BY <1>1
<1>5. V[3] = y /\ V[2] = A[2] /\ V[1] = A[1]
  BY <1>2, <1>3
<1> QED BY <1>2, <1>3, <1>4, <1>5, Zenon DEF A, V

(* An exception: what the handler is given is what was raised.             *)
LEMMA ExceptionStep ==
  ASSUME ContextInv, NEW v \in Faults, exception_handler(v)
  PROVE  ContextInv' /\ at' = "stopped" /\ FaultReported'
<1> DEFINE c == Top(expect[program])
           code == <<"code", "cpu">>
           x == IF v \in CpuErrorCodes THEN code ELSE Zero
           B == Framed(<< >>, "user", c.df, 1)
           V == Append(Append(B, x), <<"vector", v>>)
           m == SaveAll(VectorWrapper(CpuRaises(v, code), v))
           a == Parameters(m)
<1>1. at = "user" /\ << >> \in Memories /\ 1 \in Flag /\ v \in 0 .. 31 \ {21, 29}
  BY InterruptsAssumption DEF exception_handler, Memories, Flag
<1>2. /\ Machine(program) = State(c.regs, c.df, 1, << >>)
      /\ c.regs \in [Regs -> Word] /\ c.df \in Flag
  BY <1>1, InRing3, Zenon
<1>3. VectorWrapper(CpuRaises(v, code), v) = State(c.regs, c.df, 0, V)
  BY <1>1, <1>2, ExceptionStack
<1>4. B \in Memories /\ Len(B) = 1 /\ B[1] = [at |-> "user", df |-> c.df, if |-> 1]
  <2> HIDE DEF c
  <2>1. B \in Memories
    BY <1>1, <1>2, UserPlace, FramedType
  <2> QED BY <2>1 DEF Framed
<1>5. x \in Cell /\ <<"vector", v>> \in Cell
  <2>1. v \in Nat
    BY <1>1
  <2>2. <<"vector", v>> \in {"vector"} \X Nat
    BY <2>1, Zenon
  <2>3. code \in {"code"} \X {"0", "cpu"} /\ Zero \in {"code"} \X {"0", "cpu"}
    BY Zenon DEF Zero
  <2>4. x \in {"code"} \X {"0", "cpu"}
    BY <2>3, Zenon
  <2> HIDE DEF x
  <2> QED BY <2>2, <2>4, Zenon DEF Cell
<1> HIDE DEF B, x
<1>6. /\ V \in Memories /\ Len(V) = 3
      /\ V[3] = <<"vector", v>> /\ V[2] = x /\ V[1] = B[1]
  <2> DEFINE y == <<"vector", v>>
  <2>1. y \in Cell
    BY <1>5, Zenon
  <2> HIDE DEF y
  <2>2. LET W == Append(Append(B, x), y)
        IN  W \in Memories /\ Len(W) = 3 /\ W[3] = y /\ W[2] = x /\ W[1] = B[1]
    BY <1>4, <1>5, <2>1, AppendTwo
  <2>3. V = Append(Append(B, x), y)
    BY Zenon DEF y
  <2> HIDE DEF V
  <2> QED BY <2>2, <2>3, Zenon DEF y
<1> HIDE DEF V, c
<1>7. m = State(c.regs, 0, 0, V \o Pushed(c.regs, Len(V))) /\ m = SaveAll(State(c.regs, 0, 0, V))
  BY <1>3, SaveAllIs
<1>8. m.stack \in Memories
  <2>1. Pushed(c.regs, Len(V)) \in Memories
    BY <1>2, <1>6, PushedType, Zenon
  <2>2. V \o Pushed(c.regs, Len(V)) \in Memories
    BY <1>6, <2>1 DEF Memories
  <2> QED BY <1>7, <2>2, Fields
<1> HIDE DEF m
<1>9. a.regs = c.regs /\ a.vector = V[3] /\ a.code = V[2] /\ a.frame = V[1]
  <2>1. /\ a.regs = c.regs /\ a.vector = V[Len(V)] /\ a.code = V[Len(V) - 1]
        /\ a.frame = V[Len(V) - 2]
    <3>1. Len(V) >= 3
      BY <1>6
    <3>2. Parameters(m) = Parameters(SaveAll(State(c.regs, 0, 0, V)))
      BY <1>7, Zenon
    <3>3. LET b == Parameters(SaveAll(State(c.regs, 0, 0, V)))
          IN  /\ b.regs = c.regs
              /\ b.vector = V[Len(V)] /\ b.code = V[Len(V) - 1] /\ b.frame = V[Len(V) - 2]
      BY <1>2, <1>6, <3>1, ParametersAre, Zenon
    <3> QED BY <3>2, <3>3, Zenon
  <2> QED BY <1>6, <2>1
<1> HIDE DEF a
<1>10. /\ at' = "stopped" /\ stack' = [stack EXCEPT ![program] = m.stack]
       /\ report' = <<[regs |-> a.regs, vector |-> a.vector, frame |-> a.frame,
                       code |-> IF v \in has_error_code THEN a.code ELSE Zero]>>
       /\ fault' = <<v, x>>
       /\ UNCHANGED <<program, saved, expect>>
  BY Zenon DEF exception_handler, m, a, x
<1>11. ContextInv'
  <2>1. stack' \in [Programs -> Memories]
    BY <1>8, <1>10, Zenon DEF ContextInv
  <2> QED BY <1>10, <2>1, Zenon DEF ContextInv, Running, Places, Booting
<1>12. (IF v \in has_error_code THEN a.code ELSE Zero) = x
  <2>1. v \in has_error_code <=> v \in CpuErrorCodes
    BY <1>1, Zenon DEF has_error_code, CpuErrorCodes
  <2> QED BY <1>6, <1>9, <2>1, Zenon DEF x
<1>13. /\ report'[1].vector = <<"vector", v>> /\ report'[1].code = x
       /\ report'[1].regs = c.regs /\ report'[1].frame = B[1]
  BY <1>6, <1>9, <1>10, <1>12, Zenon
<1>14. fault'[1] = v /\ fault'[2] = x
  BY <1>10, Zenon
<1>15. FaultReported'
  BY <1>4, <1>10, <1>13, <1>14 DEF FaultReported, c
<1> QED BY <1>10, <1>11, <1>15, ZenonT(30)

LEMMA BootKeepsContexts ==
  ASSUME ContextInv, Boot
  PROVE  ContextInv'
<1>1. ASSUME at \in Booting, at' \in Booting, UNCHANGED <<program, stack, saved, expect>>,
             cpu' = [regs |-> Of("kernel"), df |-> 0, if |-> IF at' = "sti" THEN 1 ELSE 0]
      PROVE  ContextInv'
  <2>1. OthersReady'
    BY <1>1, Zenon DEF ContextInv, Booting, OthersReady
  <2> QED BY <1>1, <2>1, Zenon DEF ContextInv, Booting, Running, Places
<1>2. ASSUME at \in Booting, at' = "stopped", UNCHANGED <<program, stack, expect>> PROVE ContextInv'
  BY <1>2, Zenon DEF ContextInv, Booting, Running, Places
<1>3. at \in Booting => cpu.regs = Of("kernel") /\ cpu.df = 0
  BY DEF ContextInv
<1>4. at \in Booting => cpu = [regs |-> Of("kernel"), df |-> 0, if |-> IF at = "sti" THEN 1 ELSE 0]
  BY Zenon DEF ContextInv
<1> USE DEF Booting
<1>5. ASSUME NEW ok \in BOOLEAN, entry_rejects(ok) \/ no_shell(ok) PROVE ContextInv'
  BY <1>2, <1>5, Zenon DEF entry_rejects, no_shell, Stage, BootFrame
<1>6. ASSUME NEW ok \in BOOLEAN, entry_idt(ok) \/ pit_init(ok) PROVE ContextInv'
  BY <1>1, <1>4, <1>6, Zenon DEF entry_idt, pit_init, Stage, BootFrame
<1>7. ASSUME entry_pic \/ multiple_terminal_init PROVE ContextInv'
  BY <1>1, <1>4, <1>7, Zenon DEF entry_pic, multiple_terminal_init, Stage, BootFrame
<1>8. ASSUME entry_sti \/ first_program_cli PROVE ContextInv'
  BY <1>1, <1>3, <1>8, Zenon DEF entry_sti, first_program_cli, Stage, BootFrame
<1>9. ASSUME first_ring_3 PROVE ContextInv'
  <2>1. at = "ring3" /\ at' = "user" /\ cpu' = switch_to_ring_3(cpu)
        /\ UNCHANGED <<program, stack, saved, expect>>
    BY <1>9, Zenon DEF first_ring_3, Stage, BootFrame
  <2>2. cpu' = [regs |-> Of("kernel"), df |-> 0, if |-> 1]
    BY <1>3, <2>1, Zenon DEF switch_to_ring_3
  <2>3. expect[program] = <<NewContext>> /\ stack[program] = << >>
    BY <2>1, Zenon DEF ContextInv
  <2>4. RunsAsExpected'
    BY <2>1, <2>2, <2>3, NewProgram DEF RunsAsExpected, NewContext
  <2>5. OthersReady'
    BY <2>1, Zenon DEF ContextInv, OthersReady
  <2> QED BY <2>1, <2>4, <2>5, Zenon DEF ContextInv, Running, Places
<1> QED BY <1>5, <1>6, <1>7, <1>8, <1>9, Zenon DEF Boot

-----------------------------------------------------------------------------
InterruptsInv == ContextInv /\ PicInv /\ ReportInv

LEMMA NothingReported ==
  ASSUME ReportInv, at # "stopped", UNCHANGED report
  PROVE  ReportInv'
  BY Zenon DEF ReportInv, FaultReported

(* A step while programs run that leaves the IDT and the report alone.     *)
LEMMA RunningStep ==
  ASSUME InterruptsInv, Running, ContextInv', Running' \/ at' = "stopped",
         isr' = {}, UNCHANGED <<idt, early, report>>
  PROVE  InterruptsInv'
<1>1. PicInv'
  BY Zenon DEF InterruptsInv, PicInv, Running, Places, Booting
<1> QED BY <1>1, NothingReported, Zenon DEF InterruptsInv, Running, Places

(* Booting opens the lines of the keyboard and the PIT only after          *)
(* interrupts have been turned off again.                                  *)
LEMMA BootStep ==
  ASSUME InterruptsInv, Boot
  PROVE  InterruptsInv'
<1>1. ContextInv'
  BY BootKeepsContexts, Zenon DEF InterruptsInv
<1>2. at # "stopped" /\ UNCHANGED report
  BY Zenon DEF Boot, entry_rejects, entry_idt, no_shell, pit_init, entry_pic, entry_sti,
         first_program_cli, multiple_terminal_init, first_ring_3, Stage, BootFrame
<1>3. PicInv'
  <2> USE DEF InterruptsInv, PicInv, Booting, Stage, BootFrame, picVars
  <2>1. ASSUME NEW ok \in BOOLEAN, entry_rejects(ok) \/ no_shell(ok) PROVE PicInv'
    BY <2>1, Zenon DEF entry_rejects, no_shell
  <2>2. ASSUME NEW ok \in BOOLEAN, entry_idt(ok) PROVE PicInv'
    <3>1. ASSUME NEW q \in IRQs PROVE idt'[IRQ_INT_NUM(q)] = Wrapper(q)
      <4>1. IRQ_INT_NUM(q) \in Vectors /\ q \in {0, 1, 8}
        BY Zenon DEF Vectors, IRQs, PIT_IRQ, KEYBOARD_IRQ, RTC_IRQ
      <4>2. CASE q = 0
        BY <2>2, <4>1, <4>2 DEF entry_idt, Wrapper, IRQ_INT_NUM, NUM_RESERVED_VEC,
             SYSCALL_INT, PIT_IRQ, KEYBOARD_IRQ, RTC_IRQ
      <4>3. CASE q = 1
        BY <2>2, <4>1, <4>3 DEF entry_idt, Wrapper, IRQ_INT_NUM, NUM_RESERVED_VEC,
             SYSCALL_INT, PIT_IRQ, KEYBOARD_IRQ, RTC_IRQ
      <4>4. CASE q = 8
        BY <2>2, <4>1, <4>4 DEF entry_idt, Wrapper, IRQ_INT_NUM, NUM_RESERVED_VEC,
             SYSCALL_INT, PIT_IRQ, KEYBOARD_IRQ, RTC_IRQ
      <4> QED BY <4>1, <4>2, <4>3, <4>4, Zenon
    <3> QED BY <2>2, <3>1, Zenon DEF entry_idt
  <2>3. ASSUME NEW ok \in BOOLEAN, pit_init(ok) PROVE PicInv'
    BY <2>3, Zenon DEF pit_init
  <2>4. ASSUME entry_pic PROVE PicInv'
    <3>1. {PIT_IRQ, KEYBOARD_IRQ} \subseteq master_mask
      BY <2>4, Zenon DEF entry_pic
    <3> QED BY <2>4, <3>1 DEF entry_pic, i8259_init, CASCADE, PIT_IRQ, KEYBOARD_IRQ
  <2>5. ASSUME entry_sti \/ first_program_cli \/ first_ring_3 PROVE PicInv'
    BY <2>5 DEF entry_sti, first_program_cli, first_ring_3
  <2>6. ASSUME multiple_terminal_init PROVE PicInv'
    BY <2>6, Zenon DEF multiple_terminal_init
  <2> QED BY <2>1, <2>2, <2>3, <2>4, <2>5, <2>6, Zenon DEF Boot
<1> QED BY <1>1, <1>2, <1>3, NothingReported, Zenon DEF InterruptsInv

LEMMA RequestStep ==
  ASSUME InterruptsInv, NEW q \in IRQs, request(q)
  PROVE  InterruptsInv'
<1>1. UNCHANGED cpuVars /\ UNCHANGED <<idt, isr, imr, master_mask, early, rtc_on, fault, report>>
  BY Zenon DEF request
<1>2. ContextInv'
  BY <1>1, Zenon DEF InterruptsInv, cpuVars, ContextInv, Running, Places,
     RunsAsExpected, OthersReady
<1>3. PicInv'
  BY <1>1 DEF InterruptsInv, cpuVars, PicInv, request
<1>4. ReportInv'
  BY <1>1, Zenon DEF InterruptsInv, cpuVars, ReportInv, FaultReported
<1> QED BY <1>2, <1>3, <1>4, Zenon DEF InterruptsInv

LEMMA InterruptStep ==
  ASSUME InterruptsInv, Interrupt
  PROVE  InterruptsInv'
<1>1. ASSUME NEW q \in IRQs, Accept(q)
      PROVE  Running /\ UNCHANGED early /\ send_eoi(InService(q), q) = {}
  <2>1. Running
    BY <1>1, TakenWhenRunning, Zenon DEF InterruptsInv
  <2>2. Ready(q)
    BY <2>1, Zenon DEF InterruptsInv, PicInv, Ready, Running, Places
  <2> QED BY <1>1, <2>1, <2>2, Acknowledged, Zenon DEF Accept, InterruptsInv, PicInv
<1>2. ASSUME NEW q \in IRQs, interrupt_returns(q) PROVE InterruptsInv'
  <2>1. Accept(q) /\ isr' = send_eoi(InService(q), q) /\ UNCHANGED <<idt, report>>
    BY <1>2, Zenon DEF interrupt_returns
  <2>2. Running /\ UNCHANGED early /\ isr' = {}
    BY <1>1, <2>1, Zenon
  <2>3. UNCHANGED cpuVars
    BY <1>2, <2>2, InterruptLeavesNoTrace, Zenon DEF InterruptsInv
  <2>4. ContextInv' /\ Running'
    BY <2>2, <2>3, Zenon DEF InterruptsInv, cpuVars, ContextInv, Running, Places,
       RunsAsExpected, OthersReady
  <2> QED BY <2>1, <2>2, <2>4, RunningStep, Zenon
<1>3. ASSUME NEW p \in Programs, pit_switches(p) PROVE InterruptsInv'
  <2>1. /\ Accept(PIT_IRQ) /\ isr' = send_eoi(InService(PIT_IRQ), PIT_IRQ)
        /\ UNCHANGED <<idt, report>>
    BY <1>3, Zenon DEF pit_switches, context_switch
  <2>2. Running /\ UNCHANGED early /\ isr' = {}
    BY <1>1, <2>1, Zenon DEF IRQs
  <2>3. ContextInv' /\ Running'
    BY <1>3, <2>2, SwitchKeepsContexts, Zenon DEF InterruptsInv
  <2> QED BY <2>1, <2>2, <2>3, RunningStep, Zenon
<1> QED BY <1>2, <1>3, Zenon DEF Interrupt

LEMMA ProgramStep ==
  ASSUME InterruptsInv, Program
  PROVE  InterruptsInv'
<1>1. isr = {} /\ ContextInv
  BY Zenon DEF InterruptsInv, PicInv
<1>2. CASE compute
  <2>1. Running /\ UNCHANGED <<isr, idt, early, report>>
    BY <1>2, Zenon DEF compute, Running, Places, picVars
  <2> QED BY <1>1, <1>2, <2>1, ComputeStep, RunningStep
<1>3. CASE read_returns
  <2>1. Running /\ UNCHANGED <<isr, idt, early, report>>
    BY <1>3, Zenon DEF read_returns, Running, Places, SyscallFrame
  <2> QED BY <1>1, <1>3, <2>1, WaitEndsStep, RunningStep
<1>4. ASSUME NEW eax \in SyscallNumbers,
             invalid_syscall_num(eax) \/ syscall_returns(eax) \/ read_waits(eax)
      PROVE  InterruptsInv'
  <2>1. Running /\ UNCHANGED <<isr, idt, early, report>>
    BY <1>4, Zenon DEF invalid_syscall_num, syscall_returns, read_waits, Running,
       Places, SyscallFrame
  <2>2. ContextInv' /\ Running'
    BY <1>1, <1>4, InvalidStep, SyscallStep, WaitStep, Zenon
  <2> QED BY <1>1, <2>1, <2>2, RunningStep
<1>5. ASSUME NEW v \in Faults, exception_handler(v) PROVE InterruptsInv'
  <2>1. ContextInv' /\ at' = "stopped" /\ FaultReported'
    BY <1>1, <1>5, ExceptionStep, Zenon
  <2>2. UNCHANGED <<isr, early>>
    BY <1>5, Zenon DEF exception_handler, picVars
  <2>3. PicInv' /\ ReportInv'
    BY <2>1, <2>2, Zenon DEF InterruptsInv, PicInv, Booting, ReportInv
  <2> QED BY <2>1, <2>3, Zenon DEF InterruptsInv
<1> QED BY <1>2, <1>3, <1>4, <1>5 DEF Program

LEMMA InitOK ==
  ASSUME Init
  PROVE  InterruptsInv
<1>1. ExpectOK(<<NewContext>>) /\ << >> \in Memories /\ "first" \in Programs
  BY NewProgram, InterruptsAssumption DEF Memories
<1>2. ContextInv
  BY <1>1, Zenon DEF Init, ContextInv, Booting, Running, Places, OthersReady
<1>3. PicInv
  BY Zenon DEF Init, PicInv, Booting, PIT_IRQ, KEYBOARD_IRQ, CASCADE
<1>4. ReportInv
  BY Zenon DEF Init, ReportInv, FaultReported
<1> QED BY <1>2, <1>3, <1>4, Zenon DEF InterruptsInv

LEMMA NextOK ==
  ASSUME InterruptsInv, [Next]_vars
  PROVE  InterruptsInv'
<1>1. CASE UNCHANGED vars
  <2>1. UNCHANGED cpuVars /\ UNCHANGED <<idt, isr, imr, irr, master_mask, early, rtc_on, fault, report>>
    BY <1>1, Zenon DEF vars, picVars
  <2>2. ContextInv'
    BY <2>1, Zenon DEF InterruptsInv, cpuVars, ContextInv, Running, Places,
       RunsAsExpected, OthersReady
  <2>3. PicInv' /\ ReportInv'
    BY <2>1, Zenon DEF InterruptsInv, cpuVars, PicInv, ReportInv, FaultReported
  <2> QED BY <2>2, <2>3, Zenon DEF InterruptsInv
<1> QED BY <1>1, BootStep, RequestStep, InterruptStep, ProgramStep DEF Next

LEMMA InterruptsInvariant == Spec => []InterruptsInv
  BY InitOK, NextOK, PTL DEF Spec

(* Whenever a program runs, in ring 3 or waiting in a system call, it has  *)
(* the registers, direction flag and kernel stack it had when the kernel   *)
(* took the CPU from it, for any number of programs and any interleaving   *)
(* of interrupts, switches and system calls.  While it does not run its    *)
(* kernel stack is the one the wrappers and context_switch left, from      *)
(* which popping and iret lead back to its context.                        *)
THEOREM ContextsKept == Spec => []ContextRestored
<1>1. ASSUME InterruptsInv PROVE ContextRestored
  <2> SUFFICES ASSUME Running
               PROVE  Context(Machine(program)) = Top(expect[program]) /\ cpu.if = 1
    BY Zenon DEF ContextRestored, Running, Places
  <2>1. ContextInv
    BY <1>1, Zenon DEF InterruptsInv
  <2>2. RunsAsExpected
    BY <2>1, Zenon DEF ContextInv
  <2> DEFINE c == Top(expect[program])
  <2>3. cpu = [regs |-> c.regs, df |-> c.df, if |-> 1] /\ stack[program] = c.stack
    BY <2>2, Zenon DEF RunsAsExpected
  <2>4. c = [regs |-> c.regs, df |-> c.df, stack |-> c.stack]
    BY <2>1, Expectation, Zenon DEF ContextInv
  <2> HIDE DEF c
  <2>5. Context(Machine(program)) = [regs |-> c.regs, df |-> c.df, stack |-> c.stack]
    BY <2>3, Zenon DEF Context, Machine, State
  <2>6. Context(Machine(program)) = c
    BY <2>4, <2>5, Zenon
  <2> QED BY <2>3, <2>6, Zenon DEF c
<1> QED BY <1>1, InterruptsInvariant, PTL

(* Nothing is in service on the controllers while a program runs, whatever *)
(* nesting of switches led to it: send_eoi has been called for every       *)
(* interrupt taken, on the slave and the cascade too.                      *)
THEOREM InterruptsAcknowledged == Spec => []AllAcknowledged
<1>1. ASSUME InterruptsInv PROVE AllAcknowledged
  BY <1>1, Zenon DEF InterruptsInv, PicInv, AllAcknowledged
<1> QED BY <1>1, InterruptsInvariant, PTL

(* entry turns interrupts on before there is a process; none can arrive    *)
(* then, since the lines of the PIT and the keyboard are still closed and  *)
(* the RTC has not been told to interrupt.                                 *)
THEOREM NoInterruptEarly == Spec => []NoneEarly
<1>1. ASSUME InterruptsInv PROVE NoneEarly
  BY <1>1, Zenon DEF InterruptsInv, PicInv, NoneEarly
<1> QED BY <1>1, InterruptsInvariant, PTL

(* Whatever the fault, exception_handler is called with its vector, its    *)
(* error code or 0, and the registers of the program.                      *)
THEOREM FaultsReported == Spec => []FaultReported
<1>1. ASSUME InterruptsInv PROVE FaultReported
  BY <1>1, Zenon DEF InterruptsInv, ReportInv
<1> QED BY <1>1, InterruptsInvariant, PTL
=============================================================================
