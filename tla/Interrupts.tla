----------------------------- MODULE Interrupts -----------------------------
(***************************************************************************)
(* Booting, and entering and leaving the kernel: boot.S and entry, the IDT,*)
(* the two 8259 interrupt controllers, the assembly wrappers of device     *)
(* interrupts, exceptions and system calls, what they push and pop, and    *)
(* the acknowledgement of interrupts across context switches.              *)
(*                                                                         *)
(* Two programs share the CPU.  A C function is a frame that keeps the     *)
(* callee-saved registers; it leaves anything in the others.  All gates    *)
(* are interrupt gates, so what runs from a gate to iret, or to the next   *)
(* sti, is one step; between steps devices may request interrupts.         *)
(*                                                                         *)
(* The controllers are the machine's: ICW1 clears a controller's mask and  *)
(* its pending and in-service interrupts, and the cascade is on line 2     *)
(* whatever ICW3 says.  Only devices the kernel drives request interrupts. *)
(***************************************************************************)
EXTENDS Integers, Sequences

CONSTANTS
  Programs,       \* the programs of ring 3, the first of them "first"
  SyscallNumbers, \* values of eax at int $0x80
  Faults          \* exception vectors the programs cause

(* Vectors 21 and 29 belong to CPU features (control-flow enforcement,     *)
(* encrypted virtual machines) that the kernel never turns on.             *)
ASSUME InterruptsAssumption ==
  /\ "first" \in Programs
  /\ SyscallNumbers \subseteq Int
  /\ Faults \subseteq 0 .. 31 \ {21, 29}

PIT_IRQ      == 0
KEYBOARD_IRQ == 1
CASCADE      == 2
RTC_IRQ      == 8
IRQs  == {PIT_IRQ, KEYBOARD_IRQ, RTC_IRQ}
Lines == IRQs \cup {CASCADE}

IRQ_INT_NUM(q)   == 32 + q
SYSCALL_INT      == 128
NUM_RESERVED_VEC == 32
Vectors == 0 .. 31 \cup {IRQ_INT_NUM(q) : q \in IRQs} \cup {SYSCALL_INT}

VARIABLES
  at,          \* where the CPU is: a stage of booting, "user", "wait", "stopped"
  program,     \* the program it executes
  cpu,         \* registers and flags: [regs, df, if]
  stack,       \* the kernel stack of each program
  saved,       \* programs whose registers context_switch has saved
  idt,         \* the handler of each vector
  master_mask, slave_mask,  \* the kernel's copies of the masks
  imr, irr, isr,            \* masked, pending, in-service lines
  rtc_on,      \* the RTC has been told to interrupt
  expect,      \* history: the contexts each program has to find again
  early,       \* history: interrupts taken before the kernel was ready
  fault,       \* history: the exceptions raised
  report       \* what exception_handler is called with

cpuVars == <<at, program, cpu, stack, saved, expect>>
picVars == <<master_mask, slave_mask, imr, irr, isr>>
vars    == <<cpuVars, picVars, idt, rtc_on, early, fault, report>>

-----------------------------------------------------------------------------
(* Registers.  A value is who put it there and where.                      *)
CalleeSaved == {"ebx", "esi", "edi", "ebp"}
Regs        == CalleeSaved \cup {"eax", "ecx", "edx"}
Of(who)     == [r \in Regs |-> <<who, r>>]

(* A stack is a sequence whose end is its top.                             *)
Top(s) == s[Len(s)]
Pop(s) == SubSeq(s, 1, Len(s) - 1)

(* The CPU with a stack; df and if are bits of EFLAGS.                     *)
Flag == {0, 1}
State(regs, df, if, stk) == [regs |-> regs, df |-> df, if |-> if, stack |-> stk]
Machine(p) == State(cpu.regs, cpu.df, cpu.if, stack[p])

Push(m, v)      == State(m.regs, m.df, m.if, Append(m.stack, v))
Parameter(m, i) == m.stack[Len(m.stack) + 1 - i]  \* the i-th value from the top

(* An interrupt gate, and iret.  The frame says where the CPU was.         *)
Gate(m, where) ==
  State(m.regs, m.df, 0, Append(m.stack, [at |-> where, df |-> m.df, if |-> m.if]))
Iret(m)   == State(m.regs, Top(m.stack).df, Top(m.stack).if, Pop(m.stack))
IretTo(m) == Top(m.stack).at

(* Calling a C function, and returning from it with v in eax.              *)
Call(m) ==
  State(Of("kernel"), m.df, m.if, Append(m.stack, [r \in CalleeSaved |-> m.regs[r]]))
Return(m, v) ==
  State([r \in Regs |-> IF r \in CalleeSaved THEN Top(m.stack)[r]
                        ELSE IF r = "eax" THEN v ELSE <<"kernel", r>>],
        m.df, m.if, Pop(m.stack))

pop_place_bug ==  \* edx is popped before ecx
  [eax |-> 1, ebx |-> 2, ecx |-> 4, edx |-> 3, esi |-> 5, edi |-> 6, ebp |-> 7, esp |-> 8]

(* The place of each register in the order of the pops of the wrappers.    *)
PopPlace ==
  [eax |-> 1, ebx |-> 2, ecx |-> 3, edx |-> 4, esi |-> 5, edi |-> 6, ebp |-> 7, esp |-> 8]

(* The device and exception wrappers up to the call, and from the return.  *)
(* What is popped into esp is where the stack was.                         *)
SaveAll(m) ==
  LET r == m.regs IN
  State(m.regs, 0, m.if,
        m.stack \o << <<"esp", Len(m.stack)>>, r["ebp"], r["edi"], r["esi"],
                      r["edx"], r["ecx"], r["ebx"], r["eax"]>>)
RestoreAll(m) ==
  State([r \in Regs |-> Parameter(m, PopPlace[r])], m.df, m.if,
        SubSeq(m.stack, 1, Parameter(m, PopPlace["esp"])[2]))

(* syscall_handler_wrapper, likewise; eax holds the result.                *)
SyscallPopPlace ==
  [ebx |-> 1, ecx |-> 2, edx |-> 3, esi |-> 4, edi |-> 5, ebp |-> 6]
SaveForSyscall(m) ==
  LET r == m.regs IN
  State(m.regs, 0, m.if,
        m.stack \o <<r["ebp"], r["edi"], r["esi"], r["edx"], r["ecx"], r["ebx"]>>)
RestoreFromSyscall(m) ==
  State([r \in Regs |-> IF r = "eax" THEN m.regs[r] ELSE Parameter(m, SyscallPopPlace[r])],
        m.df, m.if, SubSeq(m.stack, 1, Len(m.stack) - 6))

(* The CPU goes on as m says, in program p.                                *)
Resume(p, m, where) ==
  /\ program' = p
  /\ at' = where
  /\ cpu' = [regs |-> m.regs, df |-> m.df, if |-> m.if]

-----------------------------------------------------------------------------
(* The interrupt controllers.  Lines of the slave come in on line 2.       *)
Slave(q) == q >= 8
Rank(q)  == IF Slave(q) THEN CASCADE ELSE q

i8259_init_bug ==  \* the last write of the mask is forgotten
  /\ master_mask' = master_mask \ {CASCADE}
  /\ slave_mask' = slave_mask
  /\ imr' = {}
  /\ irr' = {}
  /\ isr' = {}

(* Both are masked, then initialised, which clears their masks; the mask   *)
(* of the master is written again with line 2 open.                        *)
i8259_init ==
  /\ master_mask' = master_mask \ {CASCADE}
  /\ slave_mask' = slave_mask
  /\ imr' = master_mask'
  /\ irr' = {}
  /\ isr' = {}

enable_irq_bug(q) ==  \* the mask is written before the bit is cleared
  IF Slave(q)
  THEN /\ slave_mask' = slave_mask \ {q}
       /\ imr' = {x \in imr : ~Slave(x)} \cup slave_mask
       /\ UNCHANGED master_mask
  ELSE /\ master_mask' = master_mask \ {q}
       /\ imr' = {x \in imr : Slave(x)} \cup master_mask
       /\ UNCHANGED slave_mask

(* The mask of the controller that has the line is written as a whole.     *)
enable_irq(q) ==
  IF Slave(q)
  THEN /\ slave_mask' = slave_mask \ {q}
       /\ imr' = {x \in imr : ~Slave(x)} \cup (slave_mask \ {q})
       /\ UNCHANGED master_mask
  ELSE /\ master_mask' = master_mask \ {q}
       /\ imr' = {x \in imr : Slave(x)} \cup (master_mask \ {q})
       /\ UNCHANGED slave_mask

(* The lines still in service after a specific end of interrupt.           *)
send_eoi(inservice, q) ==
  IF Slave(q) THEN inservice \ {q, CASCADE} ELSE inservice \ {q}

(* The line the controllers offer the CPU: open, pending, of the highest   *)
(* rank, and above everything in service.                                  *)
Open(q) == q \notin imr /\ (Slave(q) => CASCADE \notin imr)
Offered(q) ==
  /\ q \in irr /\ Open(q)
  /\ \A x \in isr : Rank(q) < Rank(x)
  /\ \A x \in irr : Open(x) => Rank(q) <= Rank(x)

InService(q) == isr \cup {q} \cup (IF Slave(q) THEN {CASCADE} ELSE {})

(* A device pulls its line.  The RTC does so once rtc_open has enabled it. *)
request(q) ==
  /\ q \notin irr
  /\ q = RTC_IRQ => rtc_on
  /\ irr' = irr \cup {q}
  /\ UNCHANGED <<cpuVars, master_mask, slave_mask, imr, isr, idt, rtc_on, early,
                 fault, report>>

-----------------------------------------------------------------------------
(* A new program finds what the kernel left in its registers, DF clear and *)
(* its kernel stack empty.                                                 *)
NewContext == [regs |-> Of("kernel"), df |-> 0, stack |-> << >>]

(* boot.S and entry.  The registers are the kernel's from the start.       *)
Init ==
  /\ at = "start"
  /\ program = "first"
  /\ cpu = [regs |-> Of("kernel"), df |-> 0, if |-> 0]
  /\ stack = [p \in Programs |-> << >>]
  /\ saved = {}
  /\ expect = [p \in Programs |-> <<NewContext>>]
  /\ idt = [v \in Vectors |-> "absent"]
  /\ master_mask = {PIT_IRQ, KEYBOARD_IRQ, CASCADE}
  /\ slave_mask = {RTC_IRQ}
  /\ imr = {} /\ irr = {} /\ isr = {}
  /\ rtc_on = FALSE
  /\ early = {}
  /\ fault = << >>
  /\ report = << >>

Stage(from, to) == at = from /\ at' = to
BootFrame == <<program, stack, saved, expect, rtc_on, early, fault, report>>

(* What the boot loader hands over is in order, or not: with a wrong magic *)
(* number, or flags 4 and 5 both set, entry returns to the hlt loop of     *)
(* boot.S.                                                                 *)
entry_rejects(ok) ==
  /\ ~ok
  /\ Stage("start", "stopped")
  /\ UNCHANGED <<BootFrame, cpu, idt, picVars>>

(* Otherwise the LDT, the TSS and the IDT are set up: every vector gets a  *)
(* handler, the ones the kernel uses get theirs.                           *)
entry_idt(ok) ==
  /\ ok
  /\ Stage("start", "pic")
  /\ idt' = [v \in Vectors |->
       CASE v < NUM_RESERVED_VEC           -> "interrupt_handler"
         [] v = SYSCALL_INT                -> "syscall_handler_wrapper"
         [] v = IRQ_INT_NUM(KEYBOARD_IRQ)  -> "keyboard_handler_wrapper"
         [] v = IRQ_INT_NUM(RTC_IRQ)       -> "rtc_handler_wrapper"
         [] v = IRQ_INT_NUM(PIT_IRQ)       -> "pit_handler_wrapper"
         [] OTHER                          -> "null_interrupt_handler"]
  /\ UNCHANGED <<BootFrame, cpu, picVars>>

entry_pic ==
  /\ Stage("pic", "fs")
  /\ i8259_init
  /\ UNCHANGED <<BootFrame, cpu, idt>>

(* The file system and paging are ready; interrupts are turned on, and off *)
(* again by kernel_run_first_program.                                      *)
entry_sti ==
  /\ Stage("fs", "sti")
  /\ cpu' = [regs |-> cpu.regs, df |-> cpu.df, if |-> 1]
  /\ UNCHANGED <<BootFrame, idt, picVars>>

first_program_cli ==
  /\ Stage("sti", "terminals")
  /\ cpu' = [regs |-> cpu.regs, df |-> cpu.df, if |-> 0]
  /\ UNCHANGED <<BootFrame, idt, picVars>>

multiple_terminal_init ==
  /\ Stage("terminals", "shells")
  /\ enable_irq(KEYBOARD_IRQ)
  /\ UNCHANGED <<BootFrame, cpu, idt, irr, isr>>

(* Without a shell kernel_run_first_program returns, interrupts off.       *)
no_shell(ok) ==
  /\ ~ok
  /\ Stage("shells", "stopped")
  /\ UNCHANGED <<BootFrame, cpu, idt, picVars>>

pit_init(ok) ==
  /\ ok
  /\ Stage("shells", "ring3")
  /\ enable_irq(PIT_IRQ)
  /\ UNCHANGED <<BootFrame, cpu, idt, irr, isr>>

(* switch_to_ring_3: the flags are the kernel's, with IF set.              *)
switch_to_ring_3(m) == [regs |-> Of("kernel"), df |-> m.df, if |-> 1]

first_ring_3 ==
  /\ Stage("ring3", "user")
  /\ cpu' = switch_to_ring_3(cpu)
  /\ UNCHANGED <<BootFrame, idt, picVars>>

-----------------------------------------------------------------------------
(* Where interrupts can arrive.                                            *)
Interruptible == at # "stopped" /\ cpu.if = 1

(* What a handler needs: its own wrapper in the IDT, and the state it      *)
(* works on, which exists once the shells have been set up.                *)
Wrapper(q) ==
  CASE q = PIT_IRQ      -> "pit_handler_wrapper"
    [] q = KEYBOARD_IRQ -> "keyboard_handler_wrapper"
    [] q = RTC_IRQ      -> "rtc_handler_wrapper"
Ready(q) == at \in {"user", "wait"} /\ idt[IRQ_INT_NUM(q)] = Wrapper(q)

Accept(q) ==
  /\ Interruptible
  /\ Offered(q)
  /\ irr' = irr \ {q}
  /\ early' = IF Ready(q) THEN early ELSE early \cup {q}

(* keyboard_handler and rtc_handler, and pit_handler when the scheduler    *)
(* finds no other process: acknowledge and return to where the CPU was.    *)
interrupt_returns(q) ==
  LET m == RestoreAll(Return(Call(SaveAll(Gate(Machine(program), at))), <<"kernel", "eax">>))
  IN
  /\ Accept(q)
  /\ isr' = send_eoi(InService(q), q)
  /\ stack' = [stack EXCEPT ![program] = Iret(m).stack]
  /\ Resume(program, Iret(m), IretTo(m))
  /\ UNCHANGED <<saved, expect, master_mask, slave_mask, imr, idt, rtc_on, fault, report>>

(* pit_handler, switching to p.  The stack of the interrupted program      *)
(* stays as it is inside context_switch.  A program that was saved there   *)
(* goes on from there and acknowledges; a new one is entered in ring 3     *)
(* after the acknowledgement.                                              *)
context_switch_bug(p) ==  \* no acknowledgement before a new program
  LET m1 == Call(SaveAll(Gate(Machine(program), at)))
      m2 == RestoreAll(Return(State(m1.regs, m1.df, m1.if, stack[p]), <<"kernel", "eax">>))
  IN
  /\ isr' = IF p \in saved THEN send_eoi(InService(PIT_IRQ), PIT_IRQ)
                           ELSE InService(PIT_IRQ)
  /\ IF p \in saved
     THEN /\ stack' = [stack EXCEPT ![program] = m1.stack, ![p] = Iret(m2).stack]
          /\ Resume(p, Iret(m2), IretTo(m2))
     ELSE /\ stack' = [stack EXCEPT ![program] = m1.stack]
          /\ Resume(p, switch_to_ring_3(m1), "user")

context_switch(p) ==
  LET m1 == Call(SaveAll(Gate(Machine(program), at)))
      m2 == RestoreAll(Return(State(m1.regs, m1.df, m1.if, stack[p]), <<"kernel", "eax">>))
  IN
  /\ isr' = send_eoi(InService(PIT_IRQ), PIT_IRQ)
  /\ IF p \in saved
     THEN /\ stack' = [stack EXCEPT ![program] = m1.stack, ![p] = Iret(m2).stack]
          /\ Resume(p, Iret(m2), IretTo(m2))
     ELSE /\ stack' = [stack EXCEPT ![program] = m1.stack]
          /\ Resume(p, switch_to_ring_3(m1), "user")

pit_switches(p) ==
  /\ p # program
  /\ at \in {"user", "wait"}
  /\ Accept(PIT_IRQ)
  /\ context_switch(p)
  /\ saved' = saved \cup {program}
  /\ UNCHANGED <<expect, master_mask, slave_mask, imr, idt, rtc_on, fault, report>>

Interrupt ==
  \/ \E q \in IRQs : interrupt_returns(q)
  \/ \E p \in Programs : pit_switches(p)

-----------------------------------------------------------------------------
(* Ring 3.  What a program does to its registers and flags it finds again. *)
Context(m) == [regs |-> m.regs, df |-> m.df, stack |-> m.stack]
Expecting(m) == expect' = [expect EXCEPT ![program] = Pop(@) \o <<Context(m)>>]

compute ==
  /\ at = "user"
  /\ \E df \in Flag :
       /\ cpu' = [regs |-> Of(program), df |-> df, if |-> cpu.if]
       /\ Expecting(State(Of(program), df, cpu.if, stack[program]))
  /\ UNCHANGED <<at, program, stack, saved, picVars, idt, rtc_on, early, fault, report>>

SYSCALL_MIN_NUM == 1
SYSCALL_MAX_NUM == 10
Minus1     == <<"result", "-1">>
Result     == <<"result", "ok">>
OPEN_RTC   == 5
READ       == 3

(* The program sees the result in eax and everything else as it was.       *)
ReturnsTo(v) ==
  LET c == Top(expect[program])
  IN  [regs |-> [c.regs EXCEPT !["eax"] = v], df |-> c.df, stack |-> c.stack]

SyscallFrame == <<program, saved, irr, isr, idt, early, fault, report>>

(* A number outside 1 .. 10: -1, and nothing was pushed.                   *)
invalid_syscall_num(eax) ==
  LET g == Gate(Machine(program), at)
      m == State([g.regs EXCEPT !["eax"] = Minus1], g.df, g.if, g.stack)
  IN
  /\ at = "user"
  /\ idt[SYSCALL_INT] = "syscall_handler_wrapper"
  /\ eax < SYSCALL_MIN_NUM \/ eax > SYSCALL_MAX_NUM
  /\ Resume(program, Iret(m), IretTo(m))
  /\ stack' = [stack EXCEPT ![program] = Iret(m).stack]
  /\ expect' = [expect EXCEPT ![program] = <<ReturnsTo(Minus1)>>]
  /\ UNCHANGED <<SyscallFrame, master_mask, slave_mask, imr, rtc_on>>

Entered == Call(SaveForSyscall(Gate(Machine(program), at)))

(* A call that returns at once.  Opening the RTC starts its interrupts.    *)
syscall_returns(eax) ==
  LET m == RestoreFromSyscall(Return(Entered, Result)) IN
  /\ at = "user"
  /\ idt[SYSCALL_INT] = "syscall_handler_wrapper"
  /\ eax \in SYSCALL_MIN_NUM .. SYSCALL_MAX_NUM
  /\ Resume(program, Iret(m), IretTo(m))
  /\ stack' = [stack EXCEPT ![program] = Iret(m).stack]
  /\ expect' = [expect EXCEPT ![program] = <<ReturnsTo(Result)>>]
  /\ IF eax = OPEN_RTC THEN rtc_on' = TRUE /\ enable_irq(RTC_IRQ)
                       ELSE UNCHANGED <<rtc_on, master_mask, slave_mask, imr>>
  /\ UNCHANGED SyscallFrame

(* rtc_read and terminal_read turn interrupts on and wait.                 *)
read_waits(eax) ==
  /\ at = "user"
  /\ idt[SYSCALL_INT] = "syscall_handler_wrapper"
  /\ eax = READ
  /\ Resume(program, State(Entered.regs, Entered.df, 1, Entered.stack), "wait")
  /\ stack' = [stack EXCEPT ![program] = Entered.stack]
  /\ expect' = [expect EXCEPT ![program] = <<ReturnsTo(Result), Context(Entered)>>]
  /\ UNCHANGED <<SyscallFrame, master_mask, slave_mask, imr, rtc_on>>

(* The wait is over: interrupts off, then back to the program.             *)
read_returns ==
  LET m == RestoreFromSyscall(
             Return(State(cpu.regs, cpu.df, 0, stack[program]), Result))
  IN
  /\ at = "wait"
  /\ Resume(program, Iret(m), IretTo(m))
  /\ stack' = [stack EXCEPT ![program] = Iret(m).stack]
  /\ expect' = [expect EXCEPT ![program] = Pop(@)]
  /\ UNCHANGED <<SyscallFrame, master_mask, slave_mask, imr, rtc_on>>

-----------------------------------------------------------------------------
(* Exceptions.  For some vectors the CPU pushes an error code after the    *)
(* frame; the wrappers of the others push 0 in its place.                  *)
CpuErrorCodes == {8, 10, 11, 12, 13, 14, 17, 21, 29, 30}

error_code_bug == {8, 10, 11, 12, 13, 17, 30}

error_code_exception_handler == {8, 10, 11, 12, 13, 14, 17, 30}
has_error_code == {8, 10, 11, 12, 13, 14, 17, 30}

CpuRaises(v, code) ==
  IF v \in CpuErrorCodes THEN Push(Gate(Machine(program), at), code)
                         ELSE Gate(Machine(program), at)
Zero == <<"code", "0">>
VectorWrapper(m, v) ==
  Push(IF v \in error_code_exception_handler THEN m ELSE Push(m, Zero),
       <<"vector", v>>)

(* The parameters of exception_handler are what is on the stack.           *)
Parameters(m) ==
  [regs  |-> [r \in Regs |-> Parameter(m, PopPlace[r])],
   vector |-> Parameter(m, 9),
   code   |-> Parameter(m, 10),
   frame  |-> Parameter(m, 11)]

(* In a root shell exception_handler prints what it was given and halts    *)
(* the machine, interrupts off.  The code is printed for the vectors of    *)
(* has_error_code.                                                         *)
exception_handler(v) ==
  LET code == <<"code", "cpu">>
      m    == SaveAll(VectorWrapper(CpuRaises(v, code), v))
      args == Parameters(m)
  IN
  /\ at = "user"
  /\ idt[v] = "interrupt_handler"
  /\ at' = "stopped"
  /\ cpu' = [regs |-> Of("kernel"), df |-> m.df, if |-> m.if]
  /\ stack' = [stack EXCEPT ![program] = m.stack]
  /\ report' = <<[regs |-> args.regs, vector |-> args.vector, frame |-> args.frame,
                   code |-> IF v \in has_error_code THEN args.code ELSE Zero]>>
  /\ fault' = <<v, IF v \in CpuErrorCodes THEN code ELSE Zero>>
  /\ UNCHANGED <<program, saved, expect, picVars, idt, rtc_on, early>>

-----------------------------------------------------------------------------
Boot ==
  \/ \E ok \in BOOLEAN :
       entry_rejects(ok) \/ entry_idt(ok) \/ no_shell(ok) \/ pit_init(ok)
  \/ entry_pic \/ entry_sti \/ first_program_cli \/ multiple_terminal_init
  \/ first_ring_3

Program ==
  \/ compute
  \/ \E eax \in SyscallNumbers :
       invalid_syscall_num(eax) \/ syscall_returns(eax) \/ read_waits(eax)
  \/ read_returns
  \/ \E v \in Faults : exception_handler(v)

Next ==
  \/ Boot
  \/ \E q \in IRQs : request(q)
  \/ Interrupt
  \/ Program

(* Handlers take microseconds, the devices' periods are milliseconds: an   *)
(* interrupt the CPU could take again and again is taken.  This is strong  *)
(* fairness of taking it, with the enabling condition written out.  What a *)
(* program does is up to the program.                                      *)
Spec     == Init /\ [][Next]_vars
FairSpec ==
  /\ Spec
  /\ \A q \in IRQs :
       []<>(Interruptible /\ Offered(q)) => []<><<q \in irr /\ q \notin irr'>>_irr

-----------------------------------------------------------------------------
(* Whenever a program runs, in ring 3 or in a waiting system call, it has  *)
(* the registers, direction flag and kernel stack it had when the kernel   *)
(* took the CPU from it, but for the result of a system call in eax: the   *)
(* pushes and pops of the wrappers match across nested interrupts and      *)
(* switches between stacks.                                                *)
ContextRestored ==
  at \in {"user", "wait"} =>
    /\ Context(Machine(program)) = Top(expect[program])
    /\ cpu.if = 1

(* Every interrupt has been acknowledged on each controller it came        *)
(* through by the time a program runs, also when the handler never         *)
(* returned because a new program was started.                             *)
AllAcknowledged == at \in {"user", "wait"} => isr = {}

(* No device interrupt is taken before its handler is in the IDT and the   *)
(* process table it works on is there, though interrupts are turned on     *)
(* before the terminals, shells and PIT are set up.                        *)
NoneEarly == early = {}

(* The exception screen shows the vector, error code and registers of the  *)
(* fault: the stack has the same layout with and without an error code.    *)
FaultReported ==
  report # << >> =>
    /\ report[1].vector = <<"vector", fault[1]>>
    /\ report[1].code = fault[2]
    /\ report[1].regs = Top(expect[program]).regs
    /\ report[1].frame.at = "user"

(* A device that has pulled its line while programs run is served, unless  *)
(* an exception stops the machine: no line stays blocked or masked.        *)
DevicesServed ==
  \A q \in IRQs :
    (at \in {"user", "wait"} /\ q \in irr) ~> (q \notin irr \/ at = "stopped")
=============================================================================
