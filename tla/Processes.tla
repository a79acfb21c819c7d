------------------------------ MODULE Processes ------------------------------
(***************************************************************************)
(* Process management of the kernel: the table of process control blocks,  *)
(* syscall_execute, halt_program (reached from syscall_halt and from an    *)
(* exception), the timer-driven scheduler with its context switch, and the *)
(* part of paging these operations touch: the page directory loaded in cr3 *)
(* and the page that a process sees as video memory.                       *)
(*                                                                         *)
(* Every IDT entry is an interrupt gate and the system call wrapper        *)
(* executes cli, so a handler runs with interrupts off from entry to iret: *)
(* one handler is one action.  The two places that turn interrupts on      *)
(* again, terminal_read and rtc_read, change none of this module's state   *)
(* while they wait; a process waiting there is, here, a process running.   *)
(*                                                                         *)
(* Left out because nothing in the kernel reads it: pid, child,            *)
(* system_ticks.  Left out because other modules own it: open files,       *)
(* terminal contents.                                                      *)
(***************************************************************************)
EXTENDS Integers

CONSTANTS
  MAX_PROCESSES,  \* number of PCB slots (6)
  NUM_TERMINALS,  \* number of terminals, each with a root shell (3)
  HaltArgs,       \* the 32-bit values user programs pass to halt
  FKeys           \* the terminals the user selects with Alt+F1, Alt+F2, ...

ASSUME ProcessesAssumption ==
  /\ MAX_PROCESSES \in Nat
  /\ NUM_TERMINALS \in Nat \ {0}
  /\ NUM_TERMINALS <= MAX_PROCESSES
  /\ HaltArgs \subseteq Nat
  /\ FKeys \subseteq 0 .. NUM_TERMINALS - 1

Slots     == 0 .. MAX_PROCESSES - 1
Terminals == 0 .. NUM_TERMINALS - 1

(* No PCB (parent of a root shell).                                        *)
NULL == -1

(* A process status, and what pcb->regs was saved by: "NULL" is a slot     *)
(* whose regs.esp is still the zero that RAM starts with.                  *)
Status == {"PROCESS_NONE", "PROCESS_RUNNING", "PROCESS_BLOCKED"}
Frame  == {"NULL", "context_switch", "syscall_execute"}

(* The frame a process's video page maps to: video memory itself, or the   *)
(* output buffer of terminal t, written t.                                 *)
VIDEO_PHYS_ADDR == -1
VideoFrame      == Terminals \cup {VIDEO_PHYS_ADDR}

VARIABLES
  in_use, status, parent, terminal_num, regs,  \* fields of the PCB in a slot
  vmem,             \* local_pt[0] of the slot's page table
  cr3,              \* slot whose page directory the CPU uses
  tss_esp0,         \* slot whose kernel stack the TSS names
  running,          \* slot whose program the CPU executes
  active_terminal,  \* the terminal shown on the screen
  halted,           \* the CPU is parked in hlt with interrupts off for good
  returned          \* the calls of syscall_execute the last step returned from

pcbVars == <<in_use, status, parent, terminal_num, regs, vmem>>
cpuVars == <<cr3, tss_esp0, running>>
vars    == <<in_use, status, parent, terminal_num, regs, vmem, cr3, tss_esp0,
             running, active_terminal, halted, returned>>

-----------------------------------------------------------------------------
(* An interrupt or system call enters the kernel on the stack that the TSS *)
(* names, and the PCB is found by masking the stack pointer.               *)
get_current_pcb == tss_esp0

get_terminal_output_buffer(t) ==
  IF t = active_terminal THEN VIDEO_PHYS_ADDR ELSE t

(* The state kernel_run_first_program leaves when it enters the first      *)
(* shell: a root shell in slot t for every terminal t, slot 0 on the CPU,  *)
(* terminal 0 active.  The "shell" executable is on the file system.       *)
kernel_run_first_program ==
  /\ in_use = [s \in Slots |-> s \in Terminals]
  /\ status = [s \in Slots |-> IF s \in Terminals THEN "PROCESS_RUNNING"
                                                  ELSE "PROCESS_NONE"]
  /\ parent = [s \in Slots |-> NULL]
  /\ terminal_num = [s \in Slots |-> IF s \in Terminals THEN s ELSE 0]
  /\ regs = [s \in Slots |-> "NULL"]
  /\ active_terminal = 0
  /\ vmem = [s \in Slots |-> IF s \in Terminals
                               THEN get_terminal_output_buffer(s)
                               ELSE VIDEO_PHYS_ADDR]
  /\ cr3 = 0
  /\ tss_esp0 = 0
  /\ running = 0

Init == /\ kernel_run_first_program
        /\ halted = FALSE
        /\ returned = {}

-----------------------------------------------------------------------------
(* A value that a call of syscall_execute by the process in slot s returns *)
(* with, and the reason: the call failed, the child halted, or it was      *)
(* killed by an exception.                                                 *)
Return(s, v, why) == [slot |-> s, val |-> v, why |-> why]

free_by_status_bug == {s \in Slots : status[s] # "PROCESS_RUNNING"}
free_but_self_bug == Slots \ {get_current_pcb}

FreeSlots == {s \in Slots : ~in_use[s]}

enter_bug(c) == cr3' = c /\ tss_esp0' = tss_esp0 /\ running' = c

(* Run the program of slot c: its page directory, its kernel stack, ring 3.*)
Enter(c) == cr3' = c /\ tss_esp0' = c /\ running' = c

(* syscall_execute, the calls that fail: no free slot, or the command does *)
(* not name a valid executable.                                            *)
execute_fails(loads) ==
  /\ ~halted
  /\ FreeSlots = {} \/ ~loads
  /\ returned' = {Return(get_current_pcb, -1, "failed")}
  /\ UNCHANGED <<pcbVars, cpuVars, active_terminal, halted>>

(* syscall_execute, the calls that start the child c in the lowest free    *)
(* slot and block the caller.  The child's regs are left as they were.     *)
execute_starts(loads, c) ==
  LET parent_pcb == get_current_pcb IN
  /\ ~halted
  /\ loads
  /\ c \in FreeSlots
  /\ \A s \in FreeSlots : c <= s
  /\ vmem' = [vmem EXCEPT
       ![c] = get_terminal_output_buffer(terminal_num[parent_pcb])]
  /\ parent' = [parent EXCEPT ![c] = parent_pcb]
  /\ in_use' = [in_use EXCEPT ![c] = TRUE]
  /\ terminal_num' = [terminal_num EXCEPT ![c] = terminal_num[parent_pcb]]
  /\ status' = [status EXCEPT ![c] = "PROCESS_RUNNING",
                              ![parent_pcb] = "PROCESS_BLOCKED"]
  /\ regs' = [regs EXCEPT ![parent_pcb] = "syscall_execute"]
  /\ Enter(c)
  /\ returned' = {}
  /\ UNCHANGED <<active_terminal, halted>>

syscall_execute(loads) ==
  \/ execute_fails(loads)
  \/ \E c \in Slots : execute_starts(loads, c)

(* halt_program in a process with a parent: the slot is freed and the      *)
(* parent returns from syscall_execute with the status.                    *)
halt_to_parent(stat, why) ==
  LET child_pcb  == get_current_pcb
      parent_pcb == parent[child_pcb]
  IN
  /\ ~halted
  /\ parent_pcb # NULL
  /\ in_use' = [in_use EXCEPT ![child_pcb] = FALSE]
  /\ status' = [status EXCEPT ![child_pcb]  = "PROCESS_NONE",
                              ![parent_pcb] = "PROCESS_RUNNING"]
  /\ Enter(parent_pcb)
  /\ returned' = {Return(parent_pcb, stat, why)}
  /\ UNCHANGED <<parent, terminal_num, regs, vmem, active_terminal, halted>>

(* halt_program in a root shell: it is set up again in its own slot, on    *)
(* the page directory that is loaded already.                              *)
halt_restarts ==
  LET child_pcb == get_current_pcb IN
  /\ ~halted
  /\ parent[child_pcb] = NULL
  /\ parent' = [parent EXCEPT ![child_pcb] = NULL]
  /\ in_use' = [in_use EXCEPT ![child_pcb] = TRUE]
  /\ status' = [status EXCEPT ![child_pcb] = "PROCESS_RUNNING"]
  /\ tss_esp0' = child_pcb
  /\ running' = child_pcb
  /\ returned' = {}
  /\ UNCHANGED <<terminal_num, regs, vmem, cr3, active_terminal, halted>>

syscall_halt_bug(arg) == halt_to_parent(arg, "halted") \/ halt_restarts

(* The exit code is the low byte of the argument.                          *)
syscall_halt(arg) == halt_to_parent(arg % 256, "halted") \/ halt_restarts

(* An exception kills a process that has a parent.  In a root shell it     *)
(* shows terminal 0 and stops the machine.                                 *)
exception_handler ==
  \/ halt_to_parent(256, "exception")
  \/ /\ ~halted
     /\ parent[get_current_pcb] = NULL
     /\ active_terminal' = 0
     /\ halted' = TRUE
     /\ returned' = {}
     /\ UNCHANGED <<pcbVars, cpuVars>>

-----------------------------------------------------------------------------
candidate_bug(former, k) == k  \* the loop always starts at slot 0

(* The slot that iteration k (from 0) of the scheduler's loop looks at.    *)
(* The first one is not reduced modulo MAX_PROCESSES.                      *)
Candidate(former, k) ==
  IF k = 0 THEN former + 1 ELSE (former + 1 + k) % MAX_PROCESSES

(* The slot at which the loop stops, without looking at it.                *)
LastSlotChecked(former) ==
  IF former - 1 < 0 THEN former - 1 + MAX_PROCESSES ELSE former - 1

runnable_bug(i) == i \in Slots /\ in_use[i]

(* What the loop tests.  For the slot number MAX_PROCESSES the PCB address *)
(* lies below the last kernel stack, in RAM that nothing writes: in_use is *)
(* the zero it started with.                                               *)
Runnable(i) == i \in Slots /\ in_use[i] /\ status[i] = "PROCESS_RUNNING"

(* Iteration k is the first to look at a process that should run.          *)
Picks(former, k) ==
  /\ \A j \in 0 .. k : Candidate(former, j) # LastSlotChecked(former)
  /\ \A j \in 0 .. k - 1 : ~Runnable(Candidate(former, j))
  /\ Runnable(Candidate(former, k))

context_switch_bug(last_pcb, pcb) ==  \* the video page is not refreshed
  /\ vmem' = vmem
  /\ regs' = [regs EXCEPT ![last_pcb] = "context_switch"]
  /\ Enter(pcb)

(* Save last_pcb's registers, enter pcb on its own page directory and      *)
(* kernel stack, with its video page brought up to date.                   *)
context_switch(last_pcb, pcb) ==
  /\ vmem' = [vmem EXCEPT
       ![pcb] = get_terminal_output_buffer(terminal_num[pcb])]
  /\ regs' = [regs EXCEPT ![last_pcb] = "context_switch"]
  /\ Enter(pcb)

(* The timer interrupt.                                                    *)
pit_handler ==
  LET former_pcb == get_current_pcb IN
  /\ ~halted
  /\ \/ \E k \in Slots :
          /\ Picks(former_pcb, k)
          /\ context_switch(former_pcb, Candidate(former_pcb, k))
     \/ /\ \A k \in Slots : ~Picks(former_pcb, k)
        /\ UNCHANGED <<vmem, regs, cpuVars>>
  /\ returned' = {}
  /\ UNCHANGED <<in_use, status, parent, terminal_num, active_terminal, halted>>

(* The keyboard interrupt, for Alt and a function key.  The page tables of *)
(* the processes are not touched.                                          *)
switch_active_terminal(t) ==
  /\ ~halted
  /\ active_terminal' = t
  /\ returned' = {}
  /\ UNCHANGED <<pcbVars, cpuVars, halted>>

Next ==
  \/ \E loads \in BOOLEAN : syscall_execute(loads)
  \/ \E arg \in HaltArgs : syscall_halt(arg)
  \/ exception_handler
  \/ pit_handler
  \/ \E t \in FKeys : switch_active_terminal(t)

Spec == Init /\ [][Next]_vars

(* The PIT fires at 100 Hz and its interrupt is never masked, so timer     *)
(* interrupts keep coming whatever the programs and the user do.           *)
FairSpec == Spec /\ WF_vars(pit_handler)
-----------------------------------------------------------------------------
(* Every variable holds a value of its kind; slot numbers name slots.      *)
TypeOK ==
  /\ in_use \in [Slots -> BOOLEAN]
  /\ status \in [Slots -> Status]
  /\ parent \in [Slots -> Slots \cup {NULL}]
  /\ terminal_num \in [Slots -> Terminals]
  /\ regs \in [Slots -> Frame]
  /\ vmem \in [Slots -> VideoFrame]
  /\ cr3 \in Slots /\ tss_esp0 \in Slots /\ running \in Slots
  /\ active_terminal \in Terminals
  /\ halted \in BOOLEAN
  /\ returned \subseteq [slot : Slots, val : -1 .. 256,
                          why : {"failed", "halted", "exception"}]

(* Whatever the programs execute and halt, in whatever order the timer     *)
(* interleaves them, every terminal has exactly one process that wants the *)
(* CPU, so one reader of its keyboard buffer (terminal_read relies on it)  *)
(* and always somebody to answer the user.                                 *)
OneRunnerPerTerminal ==
  \A t \in Terminals :
    \E s \in Slots :
      /\ Runnable(s) /\ terminal_num[s] = t
      /\ \A r \in Slots : Runnable(r) /\ terminal_num[r] = t => r = s

(* The processes of a terminal form one chain: a process that is not a     *)
(* root shell has a live parent on the same terminal, blocked in           *)
(* syscall_execute for it alone, and every blocked process waits for a     *)
(* live child.  halt_program never returns to a freed or reused slot.      *)
ProcessChain ==
  /\ \A s \in Slots : in_use[s] /\ parent[s] # NULL =>
       /\ in_use[parent[s]]
       /\ status[parent[s]] = "PROCESS_BLOCKED"
       /\ terminal_num[parent[s]] = terminal_num[s]
       /\ \A r \in Slots : in_use[r] /\ parent[r] = parent[s] => r = s
  /\ \A s \in Slots : status[s] = "PROCESS_BLOCKED" =>
       \E c \in Slots : in_use[c] /\ parent[c] = s

(* The CPU executes a live, runnable process, on that process's page       *)
(* directory and with that process's kernel stack in the TSS, after every  *)
(* way of changing the process: execute, halt, exception, timer.           *)
CpuRunsCurrentProcess ==
  /\ Runnable(running)
  /\ cr3 = running
  /\ tss_esp0 = running

(* A saved context is resumed by the code that matches the place it was    *)
(* saved in: the scheduler finds a frame saved by context_switch (whose    *)
(* return path acknowledges the timer interrupt) or a root shell that      *)
(* never ran, and halt_program finds a frame saved by syscall_execute.     *)
FramesMatchResumption ==
  \A s \in Slots : in_use[s] /\ s # running =>
    \/ /\ status[s] = "PROCESS_BLOCKED" /\ regs[s] = "syscall_execute"
    \/ /\ status[s] = "PROCESS_RUNNING"
       /\ \/ regs[s] = "context_switch"
          \/ regs[s] = "NULL" /\ parent[s] = NULL

(* What the documentation of syscall_execute promises its caller: 0-255    *)
(* when the child halted, 256 when an exception killed it, -1 when the     *)
(* call failed; and the value goes to the process that is now running.     *)
ExecuteReturnCodes ==
  \A r \in returned :
    /\ r.slot = running
    /\ r.why = "halted" <=> r.val \in 0 .. 255
    /\ r.why = "exception" <=> r.val = 256
    /\ r.why = "failed" <=> r.val = -1

(* A process never sees the output of another terminal through its video   *)
(* page: the page is the process's own terminal's buffer or the screen.    *)
VideoPageNeverForeign ==
  \A s \in Slots : in_use[s] => vmem[s] \in {terminal_num[s], VIDEO_PHYS_ADDR}

(* No step gives the slot of a live process to another one, or changes     *)
(* its parent or its terminal, while it is in use.                         *)
SlotKeptWhileInUse ==
  [][\A s \in Slots : in_use[s] /\ in_use'[s] =>
       /\ parent'[s] = parent[s]
       /\ terminal_num'[s] = terminal_num[s]]_vars

-----------------------------------------------------------------------------
(* The video page of the process in slot s is where its terminal's output  *)
(* belongs at this moment.                                                 *)
VideoPageCurrent(s) == vmem[s] = get_terminal_output_buffer(terminal_num[s])

LastSlot == MAX_PROCESSES - 1

(* With timer interrupts, a process that wants the CPU gets it, as long as *)
(* the last slot is not in use (see EveryRunnerScheduled).                 *)
ScheduledWithoutLastSlot ==
  \A s \in Slots \ {LastSlot} :
    Runnable(s) ~> (running = s \/ ~Runnable(s) \/ in_use[LastSlot] \/ halted)

(* A stale video page of the running process is repaired by a later        *)
(* context switch, as long as the last slot is not in use.                 *)
VideoPageRepairedWithoutLastSlot ==
  \A s \in Slots \ {LastSlot} :
    running = s ~> (VideoPageCurrent(s) \/ ~Runnable(s)
                      \/ in_use[LastSlot] \/ halted)

(* pit.c: the scheduler "finds a process that should next be run": with    *)
(* timer interrupts, a process that wants the CPU gets it.                 *)
EveryRunnerScheduled ==
  \A s \in Slots : Runnable(s) ~> (running = s \/ ~Runnable(s) \/ halted)

(* syscall.c: vidmap gives a process "a process's user-accessible video    *)
(* memory": a running process writes to the place where the output of its  *)
(* own terminal belongs.                                                   *)
VideoPageFollowsTerminal == halted \/ VideoPageCurrent(running)
=============================================================================
