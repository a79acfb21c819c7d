--------------------------- MODULE ProcessesProofs ---------------------------
(***************************************************************************)
(* The safety properties of processes (Processes), of their paging and     *)
(* video memory (Memory) and of their clocks (Rtc), for every number of    *)
(* slots that fits below the paging structures, every number of terminals, *)
(* every place of the terminals' buffers, and any rates and any number of  *)
(* descriptors of the clock.                                               *)
(***************************************************************************)
EXTENDS Memory, Rtc, TLAPS

-----------------------------------------------------------------------------
(* Processes.                                                              *)

(* A slot is in use exactly when its process has a status.                 *)
StatusMatchesUse ==
  \A s \in Slots : in_use[s] <=> status[s] # "PROCESS_NONE"

(* The inductive invariant.  None of the properties is inductive alone:    *)
(* halt_program returns to parent[running], and that this slot is live,    *)
(* blocked and on the same terminal is ProcessChain; that no other process *)
(* also waits for it needs the parent to be blocked and the running        *)
(* process not to be, which is CpuRunsCurrentProcess.                      *)
ProcessInv ==
  /\ TypeOK
  /\ StatusMatchesUse
  /\ CpuRunsCurrentProcess
  /\ ProcessChain
  /\ OneRunnerPerTerminal
  /\ FramesMatchResumption
  /\ VideoPageNeverForeign

-----------------------------------------------------------------------------
(* The low byte of an exit code is an exit code.                           *)
LEMMA LowByte == \A n \in Nat : n % 256 \in 0 .. 255
  OBVIOUS

(* The kernel starts in a state that satisfies the invariant.              *)
LEMMA InitInv == Init => ProcessInv
<1> SUFFICES ASSUME Init PROVE ProcessInv
  BY Zenon
<1>0. /\ MAX_PROCESSES \in Nat /\ NUM_TERMINALS \in Nat
      /\ 0 \in Slots /\ 0 \in Terminals
      /\ Terminals \subseteq Slots
  BY ProcessesAssumption DEF Slots, Terminals
<1> USE DEF Init, kernel_run_first_program
<1>1. TypeOK
  <2>1. in_use \in [Slots -> BOOLEAN] /\ status \in [Slots -> Status]
    BY DEF Status
  <2>2. parent \in [Slots -> Slots \cup {NULL}] /\ regs \in [Slots -> Frame]
    BY Zenon DEF Frame
  <2>3. terminal_num \in [Slots -> Terminals]
    BY <1>0, Zenon
  <2>4. vmem \in [Slots -> VideoFrame]
    BY <1>0, Zenon DEF VideoFrame, get_terminal_output_buffer
  <2> QED
    BY <1>0, <2>1, <2>2, <2>3, <2>4, Zenon DEF TypeOK
<1>2. StatusMatchesUse
  BY Zenon DEF StatusMatchesUse
<1>3. CpuRunsCurrentProcess
  BY <1>0, Zenon DEF CpuRunsCurrentProcess, Runnable
<1>4. ProcessChain
  BY Zenon DEF ProcessChain
<1>5. OneRunnerPerTerminal
  <2> SUFFICES ASSUME NEW t \in Terminals
               PROVE  /\ t \in Slots
                      /\ Runnable(t) /\ terminal_num[t] = t
                      /\ \A r \in Slots :
                           Runnable(r) /\ terminal_num[r] = t => r = t
    BY Zenon DEF OneRunnerPerTerminal
  <2>1. t \in Slots
    BY <1>0, Zenon
  <2> QED
    BY <2>1, Zenon DEF Runnable
<1>6. FramesMatchResumption
  BY Zenon DEF FramesMatchResumption
<1>7. VideoPageNeverForeign
  BY Zenon DEF VideoPageNeverForeign,
         get_terminal_output_buffer
<1> QED
  BY <1>1, <1>2, <1>3, <1>4, <1>5, <1>6, <1>7, Zenon DEF ProcessInv

(* Where terminal output goes is a frame a video page may map.             *)
LEMMA OutputBufferType ==
  ASSUME TypeOK, NEW t \in Terminals
  PROVE  get_terminal_output_buffer(t) \in VideoFrame
  BY Zenon DEF get_terminal_output_buffer, VideoFrame

(* A step that touches neither the table nor the CPU keeps the invariant   *)
(* if it keeps the remaining types.                                        *)
LEMMA TableUnchanged ==
  ASSUME ProcessInv, UNCHANGED <<pcbVars, cpuVars>>, TypeOK'
  PROVE  ProcessInv'
  BY DEF ProcessInv, StatusMatchesUse, CpuRunsCurrentProcess, ProcessChain,
         OneRunnerPerTerminal, FramesMatchResumption, VideoPageNeverForeign,
         Runnable, pcbVars, cpuVars

(* syscall_execute that fails.                                             *)
LEMMA ExecuteFailsInv ==
  ASSUME ProcessInv, NEW loads \in BOOLEAN, execute_fails(loads)
  PROVE  ProcessInv'
<1>1. TypeOK'
  BY DEF ProcessInv, execute_fails, TypeOK, pcbVars, cpuVars, Return,
         get_current_pcb
<1> QED
  BY <1>1, TableUnchanged, Zenon DEF execute_fails

(* A slot number is never NULL.                                            *)
LEMMA NullIsNoSlot == NULL \notin Slots
  BY ProcessesAssumption DEF NULL, Slots

(* syscall_execute that starts a child.                                    *)
LEMMA ExecuteStartsInv ==
  ASSUME ProcessInv, NEW loads \in BOOLEAN, NEW c \in Slots,
         execute_starts(loads, c)
  PROVE  ProcessInv'
<1>0. PICK p \in Slots : p = running
  BY DEF ProcessInv, TypeOK
<1>1. /\ tss_esp0 = p /\ in_use[p] /\ ~in_use[c] /\ c # p
      /\ status[p] = "PROCESS_RUNNING"
  BY <1>0, Zenon DEF ProcessInv, CpuRunsCurrentProcess, Runnable, execute_starts,
              FreeSlots
<1>2. /\ parent' = [parent EXCEPT ![c] = p]
      /\ in_use' = [in_use EXCEPT ![c] = TRUE]
      /\ terminal_num' = [terminal_num EXCEPT ![c] = terminal_num[p]]
      /\ status' = [status EXCEPT ![c] = "PROCESS_RUNNING",
                                  ![p] = "PROCESS_BLOCKED"]
      /\ regs' = [regs EXCEPT ![p] = "syscall_execute"]
      /\ vmem' = [vmem EXCEPT
                    ![c] = get_terminal_output_buffer(terminal_num[p])]
      /\ cr3' = c /\ tss_esp0' = c /\ running' = c
      /\ returned' = {} /\ UNCHANGED <<active_terminal, halted>>
  BY <1>1, Zenon DEF execute_starts, get_current_pcb, Enter
<1>3. TypeOK
  BY Zenon DEF ProcessInv
<1>4. TypeOK'
  <2>1. get_terminal_output_buffer(terminal_num[p]) \in VideoFrame
    BY <1>1, <1>3, OutputBufferType DEF TypeOK
  <2> QED
    BY <1>1, <1>2, <1>3, <2>1 DEF TypeOK, Status, Frame
<1>5. StatusMatchesUse'
  BY <1>1, <1>2, <1>3 DEF ProcessInv, StatusMatchesUse, TypeOK
<1>6. CpuRunsCurrentProcess'
  BY <1>1, <1>2, <1>3 DEF CpuRunsCurrentProcess, Runnable, TypeOK
<1>7. ProcessChain'
  <2>1. ASSUME NEW s \in Slots, in_use'[s], parent'[s] # NULL
        PROVE  /\ in_use'[parent'[s]]
               /\ status'[parent'[s]] = "PROCESS_BLOCKED"
               /\ terminal_num'[parent'[s]] = terminal_num'[s]
               /\ \A r \in Slots : in_use'[r] /\ parent'[r] = parent'[s] => r = s
    <3>1. CASE s = c
      <4>1. \A r \in Slots : in_use[r] => parent[r] # p
        BY <1>1, NullIsNoSlot DEF ProcessInv, ProcessChain
      <4> QED
        BY <1>1, <1>2, <1>3, <3>1, <4>1 DEF TypeOK
    <3>2. CASE s # c
      <4>1. in_use[s] /\ parent[s] # NULL /\ parent'[s] = parent[s]
        BY <1>2, <1>3, <2>1, <3>2 DEF TypeOK
      <4>2. /\ parent[s] \in Slots /\ in_use[parent[s]]
            /\ status[parent[s]] = "PROCESS_BLOCKED"
            /\ terminal_num[parent[s]] = terminal_num[s]
            /\ \A r \in Slots : in_use[r] /\ parent[r] = parent[s] => r = s
        <5>1. parent[s] \in Slots
          BY <1>3, <4>1 DEF TypeOK
        <5> QED BY <4>1, <5>1, Zenon DEF ProcessInv, ProcessChain
      <4>3. parent[s] # p /\ parent[s] # c
        BY <1>1, <4>2, Zenon
      <4> QED
        BY <1>1, <1>2, <1>3, <3>2, <4>1, <4>2, <4>3 DEF TypeOK
    <3> QED
      BY <3>1, <3>2, Zenon
  <2>2. ASSUME NEW s \in Slots, status'[s] = "PROCESS_BLOCKED"
        PROVE  \E d \in Slots : in_use'[d] /\ parent'[d] = s
    <3>1. CASE s = p
      BY <1>1, <1>2, <1>3, <3>1 DEF TypeOK
    <3>2. CASE s # p
      <4>1. status[s] = "PROCESS_BLOCKED"
        BY <1>1, <1>2, <1>3, <2>2, <3>2 DEF TypeOK
      <4>2. PICK d \in Slots : in_use[d] /\ parent[d] = s
        BY <4>1, Zenon DEF ProcessInv, ProcessChain
      <4> QED
        BY <1>1, <1>2, <1>3, <4>2 DEF TypeOK
    <3> QED
      BY <3>1, <3>2, Zenon
  <2> QED
    BY <2>1, <2>2, Zenon DEF ProcessChain
<1>8. OneRunnerPerTerminal'
  <2> SUFFICES ASSUME NEW t \in Terminals
               PROVE  \E s \in Slots :
                        /\ Runnable(s)' /\ terminal_num'[s] = t
                        /\ \A r \in Slots :
                             Runnable(r)' /\ terminal_num'[r] = t => r = s
    BY Zenon DEF OneRunnerPerTerminal
  <2>1. PICK s \in Slots :
          /\ Runnable(s) /\ terminal_num[s] = t
          /\ \A r \in Slots : Runnable(r) /\ terminal_num[r] = t => r = s
    BY Zenon DEF ProcessInv, OneRunnerPerTerminal
  <2>2. \A r \in Slots \ {c, p} : /\ Runnable(r)' <=> Runnable(r)
                                  /\ terminal_num'[r] = terminal_num[r]
    BY <1>1, <1>2, <1>3 DEF TypeOK, Runnable
  <2>3. /\ Runnable(c)' /\ terminal_num'[c] = terminal_num[p]
        /\ ~Runnable(p)' /\ Runnable(p) /\ ~Runnable(c)
    BY <1>1, <1>2, <1>3 DEF TypeOK, Runnable
  <2>4. CASE s = p
    BY <1>1, <2>1, <2>2, <2>3, <2>4
  <2>5. CASE s # p
    BY <1>1, <2>1, <2>2, <2>3, <2>5
  <2> QED
    BY <2>4, <2>5, Zenon
<1>9. FramesMatchResumption'
  <2> SUFFICES ASSUME NEW s \in Slots, in_use'[s], s # c
               PROVE  \/ status'[s] = "PROCESS_BLOCKED" /\ regs'[s] = "syscall_execute"
                      \/ /\ status'[s] = "PROCESS_RUNNING"
                         /\ \/ regs'[s] = "context_switch"
                            \/ regs'[s] = "NULL" /\ parent'[s] = NULL
    BY <1>2, Zenon DEF FramesMatchResumption
  <2>1. CASE s = p
    BY <1>1, <1>2, <1>3, <2>1 DEF TypeOK
  <2>2. CASE s # p
    <3>1. /\ in_use[s] /\ status'[s] = status[s]
          /\ regs'[s] = regs[s] /\ parent'[s] = parent[s]
      BY <1>2, <1>3, <2>2 DEF TypeOK
    <3> QED
      BY <1>0, <2>2, <3>1, Zenon DEF ProcessInv, FramesMatchResumption
  <2> QED
    BY <2>1, <2>2, Zenon
<1>10. VideoPageNeverForeign'
  <2> SUFFICES ASSUME NEW s \in Slots, in_use'[s]
               PROVE  vmem'[s] \in {terminal_num'[s], VIDEO_PHYS_ADDR}
    BY Zenon DEF VideoPageNeverForeign
  <2>1. CASE s = c
    BY <1>2, <1>3, <2>1 DEF TypeOK, get_terminal_output_buffer
  <2>2. CASE s # c
    <3>1. in_use[s] /\ vmem'[s] = vmem[s] /\ terminal_num'[s] = terminal_num[s]
      BY <1>2, <1>3, <2>2 DEF TypeOK
    <3> QED
      BY <3>1, Zenon DEF ProcessInv, VideoPageNeverForeign
  <2> QED
    BY <2>1, <2>2, Zenon
<1> QED
  BY <1>4, <1>5, <1>6, <1>7, <1>8, <1>9, <1>10, Zenon DEF ProcessInv

(* halt_program, by syscall_halt or by an exception, in a process that has *)
(* a parent.                                                               *)
LEMMA HaltToParentInv ==
  ASSUME ProcessInv, NEW stat \in 0 .. 256, NEW why \in {"halted", "exception"},
         halt_to_parent(stat, why)
  PROVE  ProcessInv'
<1>0. PICK c \in Slots : c = running
  BY DEF ProcessInv, TypeOK
<1>1. TypeOK
  BY Zenon DEF ProcessInv
<1>2. tss_esp0 = c /\ in_use[c] /\ status[c] = "PROCESS_RUNNING"
  BY <1>0, Zenon DEF ProcessInv, CpuRunsCurrentProcess, Runnable
<1>3. PICK p \in Slots : p = parent[c]
  BY <1>1, <1>2 DEF halt_to_parent, get_current_pcb, TypeOK
<1>4. /\ in_use[p] /\ status[p] = "PROCESS_BLOCKED" /\ p # c
      /\ terminal_num[p] = terminal_num[c]
      /\ \A r \in Slots : in_use[r] /\ parent[r] = p => r = c
  BY <1>2, <1>3, NullIsNoSlot DEF ProcessInv, ProcessChain
<1>5. /\ in_use' = [in_use EXCEPT ![c] = FALSE]
      /\ status' = [status EXCEPT ![c] = "PROCESS_NONE",
                                  ![p] = "PROCESS_RUNNING"]
      /\ cr3' = p /\ tss_esp0' = p /\ running' = p
      /\ returned' = {Return(p, stat, why)}
      /\ UNCHANGED <<parent, terminal_num, regs, vmem, active_terminal, halted>>
  BY <1>2, <1>3, Zenon DEF halt_to_parent, get_current_pcb, Enter
<1>6. TypeOK'
  <2>1. Return(p, stat, why) \in [slot : Slots, val : -1 .. 256,
                                  why : {"failed", "halted", "exception"}]
    <3>1. stat \in -1 .. 256
      OBVIOUS
    <3> QED BY <3>1 DEF Return
  <2>2. returned' \subseteq [slot : Slots, val : -1 .. 256,
                             why : {"failed", "halted", "exception"}]
    <3> DEFINE R == [slot : Slots, val : -1 .. 256,
                     why : {"failed", "halted", "exception"}]
               x == Return(p, stat, why)
    <3>1. x \in R /\ returned' = {x}
      BY <1>5, <2>1, Zenon
    <3> HIDE DEF R, x
    <3>2. returned' \subseteq R
      BY <3>1, Zenon
    <3> QED BY <3>2 DEF R
  <2>3. in_use' \in [Slots -> BOOLEAN] /\ status' \in [Slots -> Status]
    BY <1>1, <1>5 DEF TypeOK, Status
  <2>4. /\ parent' \in [Slots -> Slots \cup {NULL}]
        /\ terminal_num' \in [Slots -> Terminals]
        /\ regs' \in [Slots -> Frame] /\ vmem' \in [Slots -> VideoFrame]
        /\ active_terminal' \in Terminals /\ halted' \in BOOLEAN
        /\ cr3' \in Slots /\ tss_esp0' \in Slots /\ running' \in Slots
    BY <1>1, <1>5, Zenon DEF TypeOK
  <2> QED
    BY <2>2, <2>3, <2>4, Zenon DEF TypeOK
<1>7. StatusMatchesUse'
  <2> SUFFICES ASSUME NEW s \in Slots
               PROVE  in_use'[s] <=> status'[s] # "PROCESS_NONE"
    BY Zenon DEF StatusMatchesUse
  <2>1. CASE s = c \/ s = p
    BY <1>1, <1>4, <1>5, <2>1 DEF TypeOK
  <2>2. CASE s # c /\ s # p
    <3>1. in_use'[s] = in_use[s] /\ status'[s] = status[s]
      BY <1>1, <1>5, <2>2 DEF TypeOK
    <3> QED
      BY <3>1, Zenon DEF ProcessInv, StatusMatchesUse
  <2> QED
    BY <2>1, <2>2, Zenon
<1>8. CpuRunsCurrentProcess'
  BY <1>1, <1>4, <1>5 DEF CpuRunsCurrentProcess, Runnable, TypeOK
<1>9. ProcessChain'
  <2>1. ASSUME NEW s \in Slots, in_use'[s], parent'[s] # NULL
        PROVE  /\ in_use'[parent'[s]]
               /\ status'[parent'[s]] = "PROCESS_BLOCKED"
               /\ terminal_num'[parent'[s]] = terminal_num'[s]
               /\ \A r \in Slots : in_use'[r] /\ parent'[r] = parent'[s] => r = s
    <3>1. in_use[s] /\ s # c /\ parent[s] # NULL
      BY <1>1, <1>5, <2>1 DEF TypeOK
    <3>2. /\ parent[s] \in Slots /\ in_use[parent[s]]
          /\ status[parent[s]] = "PROCESS_BLOCKED"
          /\ terminal_num[parent[s]] = terminal_num[s]
          /\ \A r \in Slots : in_use[r] /\ parent[r] = parent[s] => r = s
      <4>1. parent[s] \in Slots
        BY <1>1, <3>1 DEF TypeOK
      <4> QED BY <3>1, <4>1, Zenon DEF ProcessInv, ProcessChain
    <3>3. parent[s] # p /\ parent[s] # c
      BY <1>2, <1>4, <3>1, <3>2
    <3> QED
      BY <1>1, <1>5, <3>2, <3>3 DEF TypeOK
  <2>2. ASSUME NEW s \in Slots, status'[s] = "PROCESS_BLOCKED"
        PROVE  \E d \in Slots : in_use'[d] /\ parent'[d] = s
    <3>1. status[s] = "PROCESS_BLOCKED" /\ s # p
      BY <1>1, <1>4, <1>5, <2>2 DEF TypeOK
    <3>2. PICK d \in Slots : in_use[d] /\ parent[d] = s
      BY <3>1, Zenon DEF ProcessInv, ProcessChain
    <3> QED
      BY <1>1, <1>3, <1>5, <3>1, <3>2 DEF TypeOK
  <2> QED
    BY <2>1, <2>2, Zenon DEF ProcessChain
<1>10. OneRunnerPerTerminal'
  <2> SUFFICES ASSUME NEW t \in Terminals
               PROVE  \E s \in Slots :
                        /\ Runnable(s)' /\ terminal_num'[s] = t
                        /\ \A r \in Slots :
                             Runnable(r)' /\ terminal_num'[r] = t => r = s
    BY Zenon DEF OneRunnerPerTerminal
  <2>1. PICK s \in Slots :
          /\ Runnable(s) /\ terminal_num[s] = t
          /\ \A r \in Slots : Runnable(r) /\ terminal_num[r] = t => r = s
    BY Zenon DEF ProcessInv, OneRunnerPerTerminal
  <2>2. \A r \in Slots \ {c, p} : Runnable(r)' <=> Runnable(r)
    BY <1>1, <1>5 DEF TypeOK, Runnable
  <2>3. Runnable(p)' /\ ~Runnable(p) /\ ~Runnable(c)' /\ Runnable(c)
    BY <1>1, <1>2, <1>4, <1>5 DEF TypeOK, Runnable
  <2>4. terminal_num' = terminal_num
    BY <1>5, Zenon
  <2>5. CASE s = c
    BY <1>4, <2>1, <2>2, <2>3, <2>4, <2>5
  <2>6. CASE s # c
    BY <1>4, <2>1, <2>2, <2>3, <2>4, <2>6
  <2> QED
    BY <2>5, <2>6
<1>11. FramesMatchResumption'
  <2> SUFFICES ASSUME NEW s \in Slots, in_use'[s], s # p
               PROVE  \/ status'[s] = "PROCESS_BLOCKED" /\ regs'[s] = "syscall_execute"
                      \/ /\ status'[s] = "PROCESS_RUNNING"
                         /\ \/ regs'[s] = "context_switch"
                            \/ regs'[s] = "NULL" /\ parent'[s] = NULL
    BY <1>5, Zenon DEF FramesMatchResumption
  <2>1. s # c
    BY <1>1, <1>5 DEF TypeOK
  <2>2. /\ in_use[s] /\ status'[s] = status[s]
        /\ regs'[s] = regs[s] /\ parent'[s] = parent[s]
    BY <1>1, <1>5, <2>1 DEF TypeOK
  <2> QED
    BY <1>0, <2>1, <2>2, Zenon DEF ProcessInv, FramesMatchResumption
<1>12. VideoPageNeverForeign'
  <2> SUFFICES ASSUME NEW s \in Slots, in_use'[s]
               PROVE  vmem'[s] \in {terminal_num'[s], VIDEO_PHYS_ADDR}
    BY Zenon DEF VideoPageNeverForeign
  <2>1. in_use[s] /\ vmem' = vmem /\ terminal_num' = terminal_num
    BY <1>1, <1>5 DEF TypeOK
  <2> QED
    BY <2>1, Zenon DEF ProcessInv, VideoPageNeverForeign
<1> QED
  BY <1>6, <1>7, <1>8, <1>9, <1>10, <1>11, <1>12, Zenon DEF ProcessInv

(* halt_program in a root shell sets the slot to what it was.              *)
LEMMA HaltRestartsInv ==
  ASSUME ProcessInv, halt_restarts
  PROVE  ProcessInv'
<1>1. TypeOK /\ running = tss_esp0 /\ Runnable(running)
  BY Zenon DEF ProcessInv, CpuRunsCurrentProcess
<1>2. UNCHANGED <<in_use, status, parent>>
  BY <1>1 DEF halt_restarts, get_current_pcb, TypeOK, Runnable
<1>3. UNCHANGED <<pcbVars, cpuVars>> /\ UNCHANGED <<active_terminal, halted>>
  BY <1>1, <1>2, Zenon DEF halt_restarts, get_current_pcb, pcbVars, cpuVars
<1>4. TypeOK'
  BY <1>1, <1>3 DEF halt_restarts, TypeOK, pcbVars, cpuVars
<1> QED
  BY <1>3, <1>4, TableUnchanged, Zenon

(* The timer interrupt, whatever slot the scheduler's loop finds.          *)
LEMMA PitHandlerInv ==
  ASSUME ProcessInv, pit_handler
  PROVE  ProcessInv'
<1>1. TypeOK
  BY Zenon DEF ProcessInv
<1>2. PICK p \in Slots : p = running /\ p = tss_esp0 /\ Runnable(p)
  BY DEF ProcessInv, TypeOK, CpuRunsCurrentProcess
<1>3. /\ returned' = {}
      /\ UNCHANGED <<in_use, status, parent, terminal_num, active_terminal, halted>>
  BY Zenon DEF pit_handler
<1>4. CASE UNCHANGED <<vmem, regs, cpuVars>>
  <2>1. UNCHANGED <<pcbVars, cpuVars>>
    BY <1>3, <1>4, Zenon DEF pcbVars, cpuVars
  <2>2. TypeOK'
    BY <1>1, <1>3, <2>1 DEF TypeOK, pcbVars, cpuVars
  <2> QED
    BY <2>1, <2>2, TableUnchanged, Zenon
<1>5. CASE \E k \in Slots : /\ Picks(p, k)
                            /\ context_switch(p, Candidate(p, k))
  <2>1. PICK n : Runnable(n) /\ context_switch(p, n)
    BY <1>5, Zenon DEF Picks
  <2>2. n \in Slots /\ in_use[n] /\ status[n] = "PROCESS_RUNNING"
    BY <2>1, Zenon DEF Runnable
  <2>3. /\ vmem' = [vmem EXCEPT
                      ![n] = get_terminal_output_buffer(terminal_num[n])]
        /\ regs' = [regs EXCEPT ![p] = "context_switch"]
        /\ cr3' = n /\ tss_esp0' = n /\ running' = n
    BY <2>1, Zenon DEF context_switch, Enter
  <2>4. get_terminal_output_buffer(terminal_num[n]) \in VideoFrame
    BY <1>1, <2>2, OutputBufferType DEF TypeOK
  <2>5. TypeOK'
    <3>1. vmem' \in [Slots -> VideoFrame] /\ regs' \in [Slots -> Frame]
      BY <1>1, <2>3, <2>4, Zenon DEF TypeOK, Frame
    <3>2. /\ in_use' \in [Slots -> BOOLEAN] /\ status' \in [Slots -> Status]
          /\ parent' \in [Slots -> Slots \cup {NULL}]
          /\ terminal_num' \in [Slots -> Terminals]
          /\ cr3' \in Slots /\ tss_esp0' \in Slots /\ running' \in Slots
          /\ active_terminal' \in Terminals /\ halted' \in BOOLEAN
      BY <1>1, <1>3, <2>2, <2>3, Zenon DEF TypeOK
    <3> QED
      BY <1>3, <3>1, <3>2, Zenon DEF TypeOK
  <2>6. StatusMatchesUse' /\ ProcessChain' /\ OneRunnerPerTerminal'
    <3>1. /\ in_use' = in_use /\ status' = status
          /\ parent' = parent /\ terminal_num' = terminal_num
      BY <1>3, Zenon
    <3>2. StatusMatchesUse'
      BY <3>1, Zenon DEF ProcessInv, StatusMatchesUse
    <3>3. ProcessChain'
      BY <3>1, Zenon DEF ProcessInv, ProcessChain
    <3>4. OneRunnerPerTerminal'
      BY <3>1 DEF ProcessInv, OneRunnerPerTerminal, Runnable
    <3> QED
      BY <3>2, <3>3, <3>4, Zenon
  <2>7. CpuRunsCurrentProcess'
    BY <1>3, <2>2, <2>3, Zenon DEF CpuRunsCurrentProcess, Runnable
  <2>8. FramesMatchResumption'
    <3> SUFFICES ASSUME NEW s \in Slots, in_use'[s], s # n
                 PROVE  \/ status'[s] = "PROCESS_BLOCKED" /\ regs'[s] = "syscall_execute"
                        \/ /\ status'[s] = "PROCESS_RUNNING"
                           /\ \/ regs'[s] = "context_switch"
                              \/ regs'[s] = "NULL" /\ parent'[s] = NULL
      BY <2>3, Zenon DEF FramesMatchResumption
    <3>1. CASE s = p
      BY <1>1, <1>2, <1>3, <2>3, <3>1 DEF TypeOK, Runnable
    <3>2. CASE s # p
      <4>1. /\ in_use[s] /\ status'[s] = status[s]
            /\ regs'[s] = regs[s] /\ parent'[s] = parent[s]
        BY <1>1, <1>3, <2>3, <3>2 DEF TypeOK
      <4> QED
        BY <1>2, <3>2, <4>1, Zenon DEF ProcessInv, FramesMatchResumption
    <3> QED
      BY <3>1, <3>2, Zenon
  <2>9. VideoPageNeverForeign'
    <3> SUFFICES ASSUME NEW s \in Slots, in_use'[s]
                 PROVE  vmem'[s] \in {terminal_num'[s], VIDEO_PHYS_ADDR}
      BY Zenon DEF VideoPageNeverForeign
    <3>1. CASE s = n
      BY <1>1, <1>3, <2>3, <3>1 DEF TypeOK, get_terminal_output_buffer
    <3>2. CASE s # n
      <4>1. in_use[s] /\ vmem'[s] = vmem[s] /\ terminal_num'[s] = terminal_num[s]
        BY <1>1, <1>3, <2>3, <3>2 DEF TypeOK
      <4> QED
        BY <4>1, Zenon DEF ProcessInv, VideoPageNeverForeign
    <3> QED
      BY <3>1, <3>2, Zenon
  <2> QED
    BY <2>5, <2>6, <2>7, <2>8, <2>9, Zenon DEF ProcessInv
<1> QED
  BY <1>2, <1>4, <1>5, Zenon DEF pit_handler, get_current_pcb

(* The exception of a root shell, and Alt with a function key.             *)
LEMMA ScreenStepInv ==
  ASSUME ProcessInv, UNCHANGED <<pcbVars, cpuVars>>,
         active_terminal' \in Terminals, halted' \in BOOLEAN, returned' = {}
  PROVE  ProcessInv'
<1>1. TypeOK'
  BY DEF ProcessInv, TypeOK, pcbVars, cpuVars
<1> QED
  BY <1>1, TableUnchanged, Zenon

(* Every step of the kernel keeps the invariant.                           *)
LEMMA NextInv == ProcessInv /\ [Next]_vars => ProcessInv'
<1> SUFFICES ASSUME ProcessInv, [Next]_vars PROVE ProcessInv'
  BY Zenon
<1>0. TypeOK
  BY Zenon DEF ProcessInv
<1>1. ASSUME NEW loads \in BOOLEAN, syscall_execute(loads)
      PROVE  ProcessInv'
  BY <1>1, ExecuteFailsInv, ExecuteStartsInv, Zenon DEF syscall_execute
<1>2. ASSUME NEW arg \in HaltArgs, syscall_halt(arg)
      PROVE  ProcessInv'
  <2>1. arg % 256 \in 0 .. 256
    BY LowByte, ProcessesAssumption
  <2> QED
    BY <1>2, <2>1, HaltToParentInv, HaltRestartsInv DEF syscall_halt
<1>3. CASE exception_handler
  <2>1. CASE halt_to_parent(256, "exception")
    BY <2>1, HaltToParentInv
  <2>2. CASE /\ active_terminal' = 0 /\ halted' = TRUE /\ returned' = {}
             /\ UNCHANGED <<pcbVars, cpuVars>>
    <3>1. 0 \in Terminals
      BY ProcessesAssumption DEF Terminals
    <3> QED
      BY <2>2, <3>1, ScreenStepInv, Zenon
  <2> QED
    BY <1>3, <2>1, <2>2, Zenon DEF exception_handler
<1>4. CASE pit_handler
  BY <1>4, PitHandlerInv, Zenon
<1>5. ASSUME NEW t \in FKeys, switch_active_terminal(t)
      PROVE  ProcessInv'
  <2>1. t \in Terminals
    BY ProcessesAssumption, Zenon DEF Terminals
  <2> QED
    BY <1>0, <1>5, <2>1, ScreenStepInv, Zenon DEF switch_active_terminal, TypeOK
<1>6. CASE UNCHANGED vars
  <2>1. UNCHANGED <<pcbVars, cpuVars>> /\ TypeOK'
    BY <1>0, <1>6 DEF vars, pcbVars, cpuVars, TypeOK
  <2> QED
    BY <2>1, TableUnchanged, Zenon
<1> QED
  BY <1>1, <1>2, <1>3, <1>4, <1>5, <1>6, Zenon DEF Next

-----------------------------------------------------------------------------
(* The inductive invariant holds in every reachable state.                 *)
THEOREM Invariance == Spec => []ProcessInv
  BY InitInv, NextInv, PTL DEF Spec

(* Every PCB field, cr3, the TSS and the values returned by                *)
(* syscall_execute keep their kinds.                                       *)
THEOREM TypeCorrect == Spec => []TypeOK
<1>1. ProcessInv => TypeOK
  BY Zenon DEF ProcessInv
<1> QED
  BY <1>1, Invariance, PTL

(* execute, halt, exceptions and preemption leave exactly one runnable     *)
(* process on every terminal, for any number of slots and terminals.       *)
THEOREM OneRunner == Spec => []OneRunnerPerTerminal
<1>1. ProcessInv => OneRunnerPerTerminal
  BY Zenon DEF ProcessInv
<1> QED
  BY <1>1, Invariance, PTL

(* The parent that halt_program returns to is live, blocked, on the same   *)
(* terminal, and waits for the halting process alone.                      *)
THEOREM Chain == Spec => []ProcessChain
<1>1. ProcessInv => ProcessChain
  BY Zenon DEF ProcessInv
<1> QED
  BY <1>1, Invariance, PTL

(* cr3, the TSS and the program on the CPU always belong to one process.   *)
THEOREM CpuConsistent == Spec => []CpuRunsCurrentProcess
<1>1. ProcessInv => CpuRunsCurrentProcess
  BY Zenon DEF ProcessInv
<1> QED
  BY <1>1, Invariance, PTL

(* The scheduler and halt_program only load frames they can resume.        *)
THEOREM FramesMatch == Spec => []FramesMatchResumption
<1>1. ProcessInv => FramesMatchResumption
  BY Zenon DEF ProcessInv
<1> QED
  BY <1>1, Invariance, PTL

(* No process ever sees another terminal's buffer through its video page.  *)
THEOREM NeverForeign == Spec => []VideoPageNeverForeign
<1>1. ProcessInv => VideoPageNeverForeign
  BY Zenon DEF ProcessInv
<1> QED
  BY <1>1, Invariance, PTL

(* A step returns from syscall_execute with one of the documented codes,   *)
(* to the process it leaves on the CPU.                                    *)
LEMMA ReturnStep ==
  ProcessInv /\ ExecuteReturnCodes /\ [Next]_vars => ExecuteReturnCodes'
<1> SUFFICES ASSUME ProcessInv, ExecuteReturnCodes, [Next]_vars
             PROVE  ExecuteReturnCodes'
  BY Zenon
<1>1. ASSUME returned' = {} PROVE ExecuteReturnCodes'
  BY <1>1, Zenon DEF ExecuteReturnCodes
<1>2. ASSUME NEW v \in -1 .. 256, NEW why, returned' = {Return(running', v, why)},
             \/ why = "failed" /\ v = -1
             \/ why = "halted" /\ v \in 0 .. 255
             \/ why = "exception" /\ v = 256
      PROVE  ExecuteReturnCodes'
  <2>1. ASSUME NEW r \in returned'
        PROVE  r.slot = running' /\ r.val = v /\ r.why = why
    BY <1>2, <2>1 DEF Return
  <2> QED
    BY <1>2, <2>1 DEF ExecuteReturnCodes
<1>3. ASSUME NEW loads \in BOOLEAN, execute_fails(loads)
      PROVE  ExecuteReturnCodes'
  <2>1. returned' = {Return(running', -1, "failed")}
    BY <1>3, Zenon DEF ProcessInv, CpuRunsCurrentProcess, execute_fails,
                get_current_pcb, cpuVars
  <2> QED
    BY <1>2, <2>1
<1>4. CASE halt_to_parent(256, "exception")
  <2>1. returned' = {Return(running', 256, "exception")}
    BY <1>4 DEF halt_to_parent, Enter
  <2> QED
    BY <1>2, <2>1
<1>5. ASSUME NEW arg \in HaltArgs, syscall_halt(arg)
      PROVE  ExecuteReturnCodes'
  <2>1. arg % 256 \in 0 .. 255
    BY LowByte, ProcessesAssumption, SMTT(30)
  <2>2. CASE halt_to_parent(arg % 256, "halted")
    <3>1. returned' = {Return(running', arg % 256, "halted")}
      BY <2>2 DEF halt_to_parent, Enter
    <3>2. arg % 256 \in -1 .. 256
      BY <2>1
    <3> QED
      BY <1>2, <2>1, <3>1, <3>2
  <2>3. CASE halt_restarts
    BY <1>1, <2>3, Zenon DEF halt_restarts
  <2> QED
    BY <1>5, <2>2, <2>3 DEF syscall_halt
<1>6. CASE exception_handler
  BY <1>1, <1>4, <1>6 DEF exception_handler
<1>7. ASSUME NEW loads \in BOOLEAN, syscall_execute(loads)
      PROVE  ExecuteReturnCodes'
  BY <1>1, <1>3, <1>7, Zenon DEF syscall_execute, execute_starts
<1>8. CASE pit_handler
  BY <1>1, <1>8, Zenon DEF pit_handler
<1>9. ASSUME NEW t \in FKeys, switch_active_terminal(t)
      PROVE  ExecuteReturnCodes'
  BY <1>1, <1>9, Zenon DEF switch_active_terminal
<1>10. CASE UNCHANGED vars
  BY <1>10 DEF vars, ExecuteReturnCodes
<1> QED
  BY <1>5, <1>6, <1>7, <1>8, <1>9, <1>10, Zenon DEF Next

(* syscall_execute returns what its documentation says: 0-255, 256 or -1,  *)
(* each for its own reason.                                                *)
THEOREM ReturnCodes == Spec => []ExecuteReturnCodes
<1>1. Init => ExecuteReturnCodes
  BY Zenon DEF Init, ExecuteReturnCodes
<1> QED
  BY <1>1, ReturnStep, Invariance, PTL DEF Spec

(* No step of the kernel gives the slot of a live process away.            *)
THEOREM SlotKept == Spec => SlotKeptWhileInUse
<1>1. ASSUME ProcessInv, [Next]_vars, NEW s \in Slots, in_use[s], in_use'[s]
      PROVE  parent'[s] = parent[s] /\ terminal_num'[s] = terminal_num[s]
  <2>0. TypeOK
    BY <1>1, Zenon DEF ProcessInv
  <2>1. ASSUME NEW loads \in BOOLEAN, NEW c \in Slots, execute_starts(loads, c)
        PROVE  parent'[s] = parent[s] /\ terminal_num'[s] = terminal_num[s]
    <3>1. c # s
      BY <1>1, <2>1, Zenon DEF execute_starts, FreeSlots
    <3> QED
      BY <2>0, <2>1, <3>1 DEF execute_starts, TypeOK
  <2>2. CASE halt_restarts
    <3>1. /\ parent' = [parent EXCEPT ![tss_esp0] = NULL]
          /\ parent[tss_esp0] = NULL /\ terminal_num' = terminal_num
      BY <2>2, Zenon DEF halt_restarts, get_current_pcb
    <3> QED
      BY <2>0, <3>1, Zenon DEF TypeOK
  <2>3. CASE UNCHANGED <<parent, terminal_num>>
    BY <2>3, Zenon
  <2>4. ASSUME NEW loads \in BOOLEAN, execute_fails(loads)
        PROVE  UNCHANGED <<parent, terminal_num>>
    BY <2>4, Zenon DEF execute_fails, pcbVars
  <2>5. ASSUME NEW v, NEW why, halt_to_parent(v, why)
        PROVE  UNCHANGED <<parent, terminal_num>>
    BY <2>5, ZenonT(30) DEF halt_to_parent
  <2>6. CASE \/ exception_handler \/ pit_handler \/ UNCHANGED vars
             \/ \E t \in FKeys : switch_active_terminal(t)
    BY <2>3, <2>5, <2>6 DEF exception_handler, pit_handler,
                            switch_active_terminal, vars, pcbVars
  <2> QED
    BY <1>1, <2>1, <2>2, <2>3, <2>4, <2>5, <2>6
       DEF Next, syscall_execute, syscall_halt
<1>2. ProcessInv /\ [Next]_vars =>
        [\A s \in Slots : in_use[s] /\ in_use'[s] =>
           /\ parent'[s] = parent[s]
           /\ terminal_num'[s] = terminal_num[s]]_vars
  BY <1>1, Zenon
<1> QED
  BY <1>2, Invariance, PTL DEF Spec, SlotKeptWhileInUse

-----------------------------------------------------------------------------
(* The memory of processes.                                                *)
(* The inductive invariant: the directory of a live slot is the one that   *)
(* setup_process_paging builds for it.                                     *)
DirectoryInv ==
  /\ directory = [s \in Slots |-> directory[s]]
  /\ \A s \in Slots : in_use[s] => directory[s] = setup_process_paging(s)

-----------------------------------------------------------------------------
(* Slot numbers are naturals, and bounded as MemoryAssumption says.        *)
LEMMA SlotFacts ==
  /\ MAX_PROCESSES \in Nat /\ MAX_PROCESSES <= 29
  /\ \A s \in Slots : s \in Nat /\ s < MAX_PROCESSES /\ s <= 28
  /\ Terminals \subseteq Slots
  BY ProcessesAssumption, MemoryAssumption DEF Slots, Terminals

(* A step of Memory is a step of Processes.                                *)
LEMMA ProcessStep == [MemNext]_memVars => [Next]_vars
<1> SUFFICES ASSUME [MemNext]_memVars PROVE [Next]_vars
  BY Zenon
<1>1. ASSUME NEW file \in Files
      PROVE  LoadsProgram(file) \in BOOLEAN
  BY Zenon DEF LoadsProgram, get_executable_entrypoint
<1>2. ASSUME NEW file \in Files, execute_without_slot(file)
      PROVE  Next
  BY <1>1, <1>2, Zenon DEF execute_without_slot, Next, syscall_execute
<1>3. ASSUME NEW file \in Files, NEW c \in Slots, execute_in_slot(file, c)
      PROVE  Next
  BY <1>1, <1>3, Zenon DEF execute_in_slot, Next, syscall_execute
<1>4. CASE Elsewhere
  BY <1>4, Zenon DEF Elsewhere, Next
<1>5. CASE UNCHANGED memVars
  BY <1>5, Zenon DEF memVars, vars
<1> QED
  BY <1>2, <1>3, <1>4, <1>5, Zenon DEF MemNext

(* So Memory implements Processes, and has its theorems.                   *)
THEOREM ImplementsProcesses == MemSpec => Spec
<1>1. MemInit => Init
  BY Zenon DEF MemInit
<1> QED
  BY <1>1, ProcessStep, PTL DEF MemSpec, Spec

(* Only syscall_execute makes a slot live that was not.                    *)
LEMMA ElsewhereKeepsSlots ==
  ASSUME ProcessInv, Elsewhere, NEW s \in Slots, in_use'[s]
  PROVE  in_use[s]
<1>0. TypeOK /\ in_use[running] /\ tss_esp0 = running
  BY Zenon DEF ProcessInv, CpuRunsCurrentProcess, Runnable
<1>1. ASSUME NEW n, NEW why, halt_to_parent(n, why)
      PROVE  in_use[s]
  BY <1>0, <1>1 DEF halt_to_parent, get_current_pcb, TypeOK
<1>2. CASE halt_restarts
  BY <1>0, <1>2 DEF halt_restarts, get_current_pcb, TypeOK
<1>3. CASE pit_handler
  BY <1>3, Zenon DEF pit_handler
<1>4. CASE in_use' = in_use
  BY <1>4, Zenon
<1>5. CASE exception_handler
  BY <1>1, <1>4, <1>5 DEF exception_handler, pcbVars
<1>6. ASSUME NEW t \in FKeys, switch_active_terminal(t)
      PROVE  in_use[s]
  BY <1>4, <1>6, Zenon DEF switch_active_terminal, pcbVars
<1> QED
  BY <1>1, <1>2, <1>3, <1>5, <1>6 DEF Elsewhere, syscall_halt

(* The directories of live slots are built before the slots become live.   *)
LEMMA DirectoryStep ==
  ProcessInv /\ DirectoryInv /\ [MemNext]_memVars => DirectoryInv'
<1> SUFFICES ASSUME ProcessInv, DirectoryInv, [MemNext]_memVars
             PROVE  DirectoryInv'
  BY Zenon
<1>1. ASSUME directory' = directory,
             \A s \in Slots : in_use'[s] => in_use[s]
      PROVE  DirectoryInv'
  BY <1>1, Zenon DEF DirectoryInv
<1>2. ASSUME NEW file \in Files, execute_without_slot(file)
      PROVE  DirectoryInv'
  BY <1>1, <1>2, Zenon DEF execute_without_slot, execute_fails, pcbVars
<1>3. ASSUME NEW file \in Files, NEW c \in Slots, execute_in_slot(file, c)
      PROVE  DirectoryInv'
  <2>1. CASE execute_fails(LoadsProgram(file)) /\ UNCHANGED directory
    BY <1>1, <2>1, Zenon DEF execute_fails, pcbVars
  <2>2. CASE /\ execute_starts(LoadsProgram(file), c)
             /\ directory' = [directory EXCEPT ![c] = setup_process_paging(c)]
    <3>1. in_use' = [in_use EXCEPT ![c] = TRUE] /\ in_use \in [Slots -> BOOLEAN]
      BY <2>2, Zenon DEF execute_starts, ProcessInv, TypeOK
    <3>2. directory' = [s \in Slots |-> directory'[s]]
      BY <2>2, Zenon DEF DirectoryInv
    <3>3. ASSUME NEW s \in Slots, in_use'[s]
          PROVE  directory'[s] = setup_process_paging(s)
      <4>1. CASE s = c
        BY <2>2, <4>1, Zenon DEF DirectoryInv
      <4>2. CASE s # c
        BY <2>2, <3>1, <3>3, <4>2, Zenon DEF DirectoryInv
      <4> QED
        BY <4>1, <4>2, Zenon
    <3>4. \A s \in Slots : setup_process_paging(s)' = setup_process_paging(s)
      BY Zenon DEF setup_process_paging, initialize_paging_structs,
             get_process_pt, get_process_page_from_slot
    <3> QED
      BY <3>2, <3>3, <3>4, Zenon DEF DirectoryInv
  <2> QED
    BY <1>3, <2>1, <2>2, Zenon DEF execute_in_slot
<1>4. CASE Elsewhere /\ UNCHANGED directory
  BY <1>1, <1>4, ElsewhereKeepsSlots, Zenon
<1>5. CASE UNCHANGED memVars
  BY <1>1, <1>5, Zenon DEF memVars, memoryVars, vars
<1> QED
  BY <1>2, <1>3, <1>4, <1>5, Zenon DEF MemNext

(* Every reachable state satisfies both invariants.                        *)
THEOREM MemoryInvariance == MemSpec => [](ProcessInv /\ DirectoryInv)
<1>1. MemInit => DirectoryInv
  BY Zenon DEF MemInit, Init, kernel_run_first_program, DirectoryInv
<1> QED
  BY <1>1, DirectoryStep, Invariance, ImplementsProcesses, PTL DEF MemSpec

-----------------------------------------------------------------------------
(* The entries of a live slot's directory, spelled out.                    *)
LEMMA LiveDirectory ==
  ASSUME DirectoryInv, NEW s \in Slots, in_use[s]
  PROVE  /\ DOMAIN directory[s] = {0, 1, 31, 32, 33} \cup 2 .. MAX_PROCESSES + 1
         /\ directory[s][0] = Table(VMEM_PT, FALSE)
         /\ directory[s][32] = Page(get_process_page_from_slot(s), TRUE)
         /\ directory[s][33] = Table(get_process_pt(s), TRUE)
         /\ \A i \in {1, 31} \cup 2 .. MAX_PROCESSES + 1 :
              directory[s][i] = Page(FOUR_MB * i, FALSE)
<1>1. directory[s] = setup_process_paging(s)
  BY Zenon DEF DirectoryInv
<1>2. \A i \in 2 .. MAX_PROCESSES + 1 : i # 0 /\ i # 32 /\ i # 33
  BY SlotFacts
<1> DEFINE D  == {0, 1, 31, 33} \cup 2 .. MAX_PROCESSES + 1
           pd == initialize_paging_structs(get_process_pt(s))
<1>3. pd = [i \in D |-> IF i = 0 THEN Table(VMEM_PT, FALSE)
                        ELSE IF i = 33 THEN Table(get_process_pt(s), TRUE)
                        ELSE Page(FOUR_MB * i, FALSE)]
  BY Zenon DEF initialize_paging_structs
<1>4. directory[s] = [i \in D \cup {32} |->
                        IF i = 32 THEN Page(get_process_page_from_slot(s), TRUE)
                        ELSE pd[i]]
  <2>1. DOMAIN pd = D
    BY <1>3, Zenon
  <2> QED
    BY <1>1, <2>1, Zenon DEF setup_process_paging
<1> HIDE DEF pd
<1>5. DOMAIN directory[s] = D \cup {32}
  BY <1>4, Zenon
<1>6. directory[s][32] = Page(get_process_page_from_slot(s), TRUE)
  BY <1>4
<1>7. directory[s][0] = Table(VMEM_PT, FALSE)
  <2>1. directory[s][0] = pd[0]
    BY <1>4
  <2>2. pd[0] = Table(VMEM_PT, FALSE)
    BY <1>3, Zenon
  <2> QED
    BY <2>1, <2>2, Zenon
<1>8. directory[s][33] = Table(get_process_pt(s), TRUE)
  <2>1. directory[s][33] = pd[33]
    BY <1>4
  <2>2. pd[33] = Table(get_process_pt(s), TRUE)
    BY <1>3
  <2> QED
    BY <2>1, <2>2, Zenon
<1>9. ASSUME NEW i \in {1, 31} \cup 2 .. MAX_PROCESSES + 1
      PROVE  directory[s][i] = Page(FOUR_MB * i, FALSE)
  <2>1. i \in D /\ i # 0 /\ i # 32 /\ i # 33
    BY <1>2
  <2> QED
    BY <1>3, <1>4, <2>1, ZenonT(30)
<1> QED
  BY <1>5, <1>6, <1>7, <1>8, <1>9, Zenon

(* A page table belongs to one slot.                                       *)
LEMMA VideoEntryOfSlot ==
  ASSUME NEW s \in Slots
  PROVE  VideoEntry(get_process_pt(s)) = {FramePage(vmem[s])}
<1>1. \A r \in Slots : get_process_pt(r) = get_process_pt(s) => r = s
  BY SlotFacts DEF get_process_pt, PAGING_STRUCT_PAGE, STRUCT_PAGES, FOUR_MB
<1> QED
  BY <1>1, Zenon DEF VideoEntry

(* What a live slot's program reaches in ring 3.                           *)
LEMMA LiveUserMemory ==
  ASSUME DirectoryInv, NEW s \in Slots, in_use[s]
  PROVE  /\ UserPages(s) = {Region(get_process_page_from_slot(s), FOUR_MB)}
         /\ UserVideo(s) = {Region(FramePage(vmem[s]), 1)}
<1>0. /\ directory[s][0] = Table(VMEM_PT, FALSE)
      /\ directory[s][32] = Page(get_process_page_from_slot(s), TRUE)
      /\ directory[s][33] = Table(get_process_pt(s), TRUE)
      /\ \A i \in {1, 31} \cup 2 .. MAX_PROCESSES + 1 :
           directory[s][i] = Page(FOUR_MB * i, FALSE)
  BY LiveDirectory, Zenon
<1>1. \A i \in {0, 1, 31} \cup 2 .. MAX_PROCESSES + 1 : ~directory[s][i].user
  <2>1. ~directory[s][0].user
    BY <1>0 DEF Table
  <2>2. ASSUME NEW i \in {1, 31} \cup 2 .. MAX_PROCESSES + 1
        PROVE  ~directory[s][i].user
    <3>1. directory[s][i] = Page(FOUR_MB * i, FALSE)
      BY <1>0, Zenon
    <3>2. Page(FOUR_MB * i, FALSE).user = FALSE
      BY Zenon DEF Page
    <3> QED
      BY <3>1, <3>2, Zenon
  <2> QED
    BY <2>1, <2>2, Zenon
<1>2. directory[s][32].user /\ directory[s][33].user
      /\ directory[s][32].big /\ ~directory[s][33].big
      /\ directory[s][32].page = get_process_page_from_slot(s)
      /\ directory[s][33].page = get_process_pt(s)
  BY <1>0 DEF Table, Page
<1>3. UserEntries(s) = {32, 33}
  <2>1. DOMAIN directory[s] = {0, 1, 31, 32, 33} \cup 2 .. MAX_PROCESSES + 1
    BY LiveDirectory, Zenon
  <2>2. ASSUME NEW i \in DOMAIN directory[s], directory[s][i].user
        PROVE  i \in {32, 33}
    BY <1>1, <2>1, <2>2, Zenon
  <2>3. 32 \in DOMAIN directory[s] /\ 33 \in DOMAIN directory[s]
    BY <2>1, Zenon
  <2> QED BY <1>2, <2>2, <2>3, ZenonT(30) DEF UserEntries
<1>4. /\ {j \in UserEntries(s) : directory[s][j].big} = {32}
      /\ {j \in UserEntries(s) : ~directory[s][j].big} = {33}
  BY <1>2, <1>3
<1>5. UserPages(s) = {Region(directory[s][32].page, FOUR_MB)}
  BY <1>4 DEF UserPages
<1>6. UserVideo(s) = {Region(p, 1) : p \in VideoEntry(directory[s][33].page)}
  BY <1>4 DEF UserVideo
<1> QED
  BY <1>2, <1>5, <1>6, VideoEntryOfSlot

(* Where the video page of a live slot is: the screen, or the buffer of    *)
(* the slot's own terminal.                                                *)
LEMMA LiveVideoPage ==
  ASSUME ProcessInv, NEW s \in Slots, in_use[s]
  PROVE  /\ FramePage(vmem[s]) \in
              {VIDEO_PAGE} \cup
              (FOUR_MB .. KERNEL_PAGE_END - STACK_PAGES * MAX_PROCESSES - 1)
         /\ \A t \in Terminals :
              FramePage(vmem[s]) = buffer_page[t] => terminal_num[s] = t
<1>1. vmem[s] \in {terminal_num[s], VIDEO_PHYS_ADDR} /\ terminal_num[s] \in Terminals
  BY DEF ProcessInv, VideoPageNeverForeign, TypeOK
<1>2. FramePage(vmem[s]) \in {VIDEO_PAGE, buffer_page[terminal_num[s]]}
  BY <1>1, Zenon DEF FramePage
<1>3. \A t \in Terminals :
        buffer_page[t] \in FOUR_MB .. KERNEL_PAGE_END - STACK_PAGES * MAX_PROCESSES - 1
  BY MemoryAssumption, Zenon
<1>4. \A t \in Terminals : buffer_page[t] # VIDEO_PAGE
  BY <1>3, SlotFacts DEF FOUR_MB, KERNEL_PAGE_END, VIDEO_PAGE, STACK_PAGES
<1> QED
  BY <1>1, <1>2, <1>3, <1>4, MemoryAssumption, Zenon

-----------------------------------------------------------------------------
(* For every placement the assumptions allow, no program reaches another   *)
(* live program, a kernel stack, a PCB or a paging structure.              *)
THEOREM MemoryPrivate == MemSpec => []UserMemoryPrivate
<1>1. ProcessInv /\ DirectoryInv => UserMemoryPrivate
  <2> SUFFICES ASSUME ProcessInv, DirectoryInv, NEW s \in Slots, in_use[s]
               PROVE  /\ \A a \in UserPages(s) \cup UserVideo(s), r \in Slots :
                           /\ ~Overlap(a, get_pcb_from_slot(r))
                           /\ ~Overlap(a, Region(get_process_pd(r), STRUCT_PAGES))
                           /\ in_use[r] /\ r # s =>
                                \A b \in UserPages(r) : ~Overlap(a, b)
                      /\ \A a \in UserVideo(s), t \in Terminals :
                           a.first = buffer_page[t] => terminal_num[s] = t
    BY Zenon DEF UserMemoryPrivate
  <2> DEFINE own == Region(get_process_page_from_slot(s), FOUR_MB)
             vid == Region(FramePage(vmem[s]), 1)
  <2> USE DEF Overlap, Region, get_pcb_from_slot, get_process_pd,
              get_process_page_from_slot, FOUR_MB, KERNEL_PAGE_END,
              PAGING_STRUCT_PAGE, STRUCT_PAGES, STACK_PAGES
  <2>1. ASSUME NEW r \in Slots
        PROVE  /\ ~Overlap(own, get_pcb_from_slot(r))
               /\ ~Overlap(own, Region(get_process_pd(r), STRUCT_PAGES))
               /\ r # s =>
                    ~Overlap(own, Region(get_process_page_from_slot(r), FOUR_MB))
    BY SlotFacts
  <2>2. ASSUME NEW r \in Slots
        PROVE  /\ ~Overlap(vid, get_pcb_from_slot(r))
               /\ ~Overlap(vid, Region(get_process_pd(r), STRUCT_PAGES))
               /\ ~Overlap(vid, Region(get_process_page_from_slot(r), FOUR_MB))
    <3>1. /\ r \in Nat /\ r <= MAX_PROCESSES - 1 /\ MAX_PROCESSES \in Nat
          /\ FramePage(vmem[s]) \in {184} \cup (1024 .. 2047 - 2 * MAX_PROCESSES)
      BY SlotFacts, LiveVideoPage DEF VIDEO_PAGE
    <3> QED
      BY <3>1, SlotFacts
  <2>3. UserPages(s) = {own} /\ UserVideo(s) = {vid}
    BY LiveUserMemory
  <2>4. ASSUME NEW t \in Terminals, vid.first = buffer_page[t]
        PROVE  terminal_num[s] = t
    BY <2>4, LiveVideoPage
  <2>5. \A r \in Slots : in_use[r] =>
          UserPages(r) = {Region(get_process_page_from_slot(r), FOUR_MB)}
    BY LiveUserMemory
  <2> HIDE DEF own, vid, Overlap, Region, get_pcb_from_slot, get_process_pd,
               get_process_page_from_slot
  <2> QED
    BY <2>1, <2>2, <2>3, <2>4, <2>5
<1> QED
  BY <1>1, MemoryInvariance, PTL

(* The directory of a live slot maps every 4 MB page it shares with the    *)
(* kernel to itself.                                                       *)
LEMMA Split == \A v \in Nat : 1024 * (v \div 1024) + (v % 1024) = v
OBVIOUS

LEMMA Identity ==
  ASSUME DirectoryInv, NEW s \in Slots, in_use[s],
         NEW i \in {1, 31} \cup 2 .. MAX_PROCESSES + 1,
         NEW v \in Nat, v \div FOUR_MB = i
  PROVE  v \in Translate(s, v)
<1>1. i \in DOMAIN directory[s] /\ directory[s][i] = Page(FOUR_MB * i, FALSE)
  <2>1. DOMAIN directory[s] = {0, 1, 31, 32, 33} \cup 2 .. MAX_PROCESSES + 1
    BY LiveDirectory, Zenon
  <2>2. directory[s][i] = Page(FOUR_MB * i, FALSE)
    BY LiveDirectory, Zenon
  <2> QED BY <2>1, <2>2, Zenon
<1>2. FOUR_MB * i + (v % FOUR_MB) = v
  <2>1. v \div 1024 = i
    BY DEF FOUR_MB
  <2> QED BY <2>1, Split DEF FOUR_MB
<1> QED
  BY <1>1, <1>2 DEF Translate, Page

(* Through whichever live directory is loaded, the kernel finds program    *)
(* pages, paging structures and PCBs where it computes them to be.         *)
THEOREM KernelAlwaysMapped == MemSpec => []KernelMapped
<1>1. ProcessInv /\ DirectoryInv => KernelMapped
  <2> SUFFICES ASSUME ProcessInv, DirectoryInv, NEW s \in Slots, in_use[s]
               PROVE  /\ \A r \in Slots :
                           /\ get_process_page_from_slot(r) \in
                                Translate(s, get_process_page_from_slot(r))
                           /\ get_process_pt(r) \in Translate(s, get_process_pt(r))
                           /\ get_pcb_from_slot(r).first \in
                                Translate(s, get_pcb_from_slot(r).first)
                      /\ get_process_page_from_slot(s) \in
                           Translate(s, PROCESS_VIRT_PAGE)
    BY Zenon DEF KernelMapped
  <2>1. ASSUME NEW r \in Slots
        PROVE  get_process_page_from_slot(r) \in
                 Translate(s, get_process_page_from_slot(r))
    <3>1. /\ get_process_page_from_slot(r) \in Nat
          /\ get_process_page_from_slot(r) \div FOUR_MB = r + 2
          /\ r + 2 \in 2 .. MAX_PROCESSES + 1
      BY SlotFacts DEF get_process_page_from_slot, FOUR_MB, KERNEL_PAGE_END
    <3> QED
      BY <3>1, Identity, Zenon
  <2>2. ASSUME NEW r \in Slots
        PROVE  get_process_pt(r) \in Translate(s, get_process_pt(r))
    <3>1. get_process_pt(r) \in Nat /\ get_process_pt(r) \div FOUR_MB = 31
      BY SlotFacts
         DEF get_process_pt, FOUR_MB, PAGING_STRUCT_PAGE, STRUCT_PAGES
    <3> QED
      BY <3>1, Identity
  <2>3. ASSUME NEW r \in Slots
        PROVE  get_pcb_from_slot(r).first \in
                 Translate(s, get_pcb_from_slot(r).first)
    <3>1. /\ get_pcb_from_slot(r).first \in Nat
          /\ get_pcb_from_slot(r).first \div FOUR_MB = 1
      BY SlotFacts, SMTT(30) DEF get_pcb_from_slot, Region, FOUR_MB, KERNEL_PAGE_END,
                       STACK_PAGES
    <3> QED
      BY <3>1, Identity, Zenon
  <2>4. get_process_page_from_slot(s) \in Translate(s, PROCESS_VIRT_PAGE)
    <3>1. PROCESS_VIRT_PAGE \div FOUR_MB = 32 /\ PROCESS_VIRT_PAGE % FOUR_MB = 0
      BY DEF PROCESS_VIRT_PAGE, FOUR_MB
    <3>2. /\ 32 \in DOMAIN directory[s]
          /\ directory[s][32] = Page(get_process_page_from_slot(s), TRUE)
      BY LiveDirectory, Zenon
    <3>3. get_process_page_from_slot(s) + 0 = get_process_page_from_slot(s)
      BY SlotFacts DEF get_process_page_from_slot, FOUR_MB, KERNEL_PAGE_END
    <3> QED
      BY <3>1, <3>2, <3>3 DEF Translate, Page
  <2> QED
    BY <2>1, <2>2, <2>3, <2>4, Zenon
<1> QED
  BY <1>1, MemoryInvariance, PTL

(* Loading a program, valid or not, writes only to the page of the free    *)
(* slot it is meant for.                                                   *)
THEOREM ProgramsIntact == MemSpec => LiveProgramsIntact
<1>1. ASSUME ProcessInv, DirectoryInv, [MemNext]_memVars,
             ~UNCHANGED memVars, NEW s \in Slots, in_use[s]
      PROVE  s \notin written'
  <2>1. ASSUME NEW file \in Files, NEW c \in Slots, execute_in_slot(file, c)
        PROVE  s \notin written'
    <3>1. cr3 \in Slots /\ in_use[cr3] /\ s # c
      BY <1>1, <2>1, Zenon DEF ProcessInv, CpuRunsCurrentProcess, Runnable,
                        execute_in_slot, FreeSlots
    <3> DEFINE v == get_process_page_from_slot(c) + LINK_OFFSET
    <3>2. v \in Nat /\ v \div FOUR_MB = c + 2 /\ c + 2 \in 2 .. MAX_PROCESSES + 1
      BY SlotFacts, SMTT(30) DEF get_process_page_from_slot, FOUR_MB, KERNEL_PAGE_END,
                       LINK_OFFSET
    <3>3. Translate(cr3, v) = {FOUR_MB * (c + 2) + (v % FOUR_MB)}
      <4>1. /\ c + 2 \in DOMAIN directory[cr3]
            /\ directory[cr3][c + 2] = Page(FOUR_MB * (c + 2), FALSE)
        BY <1>1, <3>1, <3>2, LiveDirectory, Zenon
      <4> QED
        BY <3>2, <4>1 DEF Translate, Page
    <3>4. FOUR_MB * (c + 2) + (v % FOUR_MB) = v
      BY <3>2 DEF FOUR_MB
    <3>5. get_process_page_from_slot(s) + LINK_OFFSET # v
      BY <3>1, SlotFacts DEF get_process_page_from_slot, FOUR_MB,
                             KERNEL_PAGE_END, LINK_OFFSET
    <3> QED
      BY <2>1, <3>3, <3>4, <3>5, Zenon DEF execute_in_slot, load_program_into_slot
  <2>2. ASSUME NEW file \in Files, execute_without_slot(file)
        PROVE  s \notin written'
    BY <2>2, Zenon DEF execute_without_slot
  <2> QED
    BY <1>1, <2>1, <2>2, Zenon DEF MemNext
<1>2. ProcessInv /\ DirectoryInv /\ [MemNext]_memVars =>
        [\A s \in Slots : in_use[s] => s \notin written']_memVars
  BY <1>1, Zenon
<1> QED
  BY <1>2, MemoryInvariance, PTL DEF MemSpec, LiveProgramsIntact

-----------------------------------------------------------------------------
(* The shape of the clocks.                                                *)
ClockTypes ==
  /\ rtc_enabled \in [Slots -> BOOLEAN]
  /\ rtc_interval \in [Slots -> Nat]
  /\ remaining_rtc_ticks \in [Slots -> Nat]
  /\ owed \in [Slots -> Nat]
  /\ fds \in [Slots -> Nat]
  /\ htz \in Nat \ {0}

(* What rtc_handler tests of a slot holds of every user of the clock.      *)
UsersAlive == \A s \in Slots : fds[s] > 0 => in_use[s]

RtcInv ==
  /\ ProcessInv
  /\ ClockTypes /\ UsersAlive
  /\ NeverEarly /\ NeverLate /\ FreedClockIsOff
-----------------------------------------------------------------------------
(* The processes of Rtc are those of Processes: every step is one of its   *)
(* steps or leaves the table and the CPU alone.                            *)
LEMMA ClockStep == [RtcNext]_systemVars => [Next]_vars
<1> SUFFICES ASSUME [RtcNext]_systemVars PROVE [Next]_vars
  OBVIOUS
<1>1. CASE UNCHANGED systemVars
  BY <1>1, Zenon DEF systemVars
<1>2. CASE \E s \in Slots :
             \/ syscall_open(s) \/ syscall_close(s)
             \/ \E hz \in Hertz : rtc_write(s, hz)
             \/ rtc_read(s) \/ rtc_read_returns(s)
  BY <1>2, Zenon DEF syscall_open, syscall_close, rtc_write, rtc_read, rtc_read_returns
<1>3. CASE rtc_handler \/ start_rtc_test \/ stop_rtc_test
  BY <1>3, Zenon DEF rtc_handler, start_rtc_test, stop_rtc_test
<1>4. CASE (\E loads \in BOOLEAN : execute(loads)) \/ halt
  BY <1>4, Zenon DEF execute, halt, Next
<1>5. CASE schedule \/ \E t \in FKeys : switch_terminal(t)
  BY <1>5, Zenon DEF schedule, switch_terminal, Next
<1> QED BY <1>1, <1>2, <1>3, <1>4, <1>5, Zenon DEF RtcNext

(* The driver composed with the processes lets them do nothing that they   *)
(* do not do by themselves, so that all that is proved of Processes holds  *)
(* with the clocks.                                                        *)
THEOREM ClocksImplementProcesses == RtcSpec => Spec
<1>1. RtcInit => Init
  BY Zenon DEF RtcInit
<1> QED BY <1>1, ClockStep, PTL DEF Spec, RtcSpec

(* The process that makes a call is alive, and no slot but its own is      *)
(* freed by a step.                                                        *)
LEMMA CallerAlive ==
  ProcessInv => /\ in_use \in [Slots -> BOOLEAN] /\ tss_esp0 \in Slots
                /\ in_use[tss_esp0]
BY DEF ProcessInv, TypeOK, CpuRunsCurrentProcess, Runnable

LEMMA ExecuteFreesNone ==
  ASSUME ProcessInv, NEW loads, execute(loads)
  PROVE  \A s \in Slots : in_use[s] => in_use'[s]
<1>1. in_use' = in_use \/ \E c \in Slots : in_use' = [in_use EXCEPT ![c] = TRUE]
  BY Zenon DEF execute, syscall_execute, execute_fails, execute_starts,
         pcbVars
<1> QED BY <1>1, CallerAlive, Zenon

LEMMA HaltFreesItsOwn ==
  ASSUME ProcessInv, halt
  PROVE  /\ \A s \in Slots \ {tss_esp0} : in_use[s] => in_use'[s]
         /\ halted' => UNCHANGED in_use
<1>1. \/ in_use' = [in_use EXCEPT ![tss_esp0] = FALSE] /\ ~halted'
      \/ in_use' = [in_use EXCEPT ![tss_esp0] = TRUE] /\ ~halted'
      \/ in_use' = in_use
  BY DEF halt, syscall_halt, exception_handler, halt_to_parent,
         halt_restarts, get_current_pcb, pcbVars
<1> QED BY <1>1, CallerAlive, Zenon
-----------------------------------------------------------------------------
LEMMA InitRtcInv == RtcInit => RtcInv
<1> SUFFICES ASSUME RtcInit PROVE RtcInv
  OBVIOUS
<1>1. ProcessInv
  BY InitInv, Zenon DEF RtcInit
<1>2. ClockTypes
  BY DEF RtcInit, ClockTypes
<1>3. UsersAlive /\ NeverEarly /\ NeverLate /\ FreedClockIsOff
  BY DEF RtcInit, UsersAlive, NeverEarly, NeverLate, FreedClockIsOff
<1> QED BY <1>1, <1>2, <1>3, Zenon DEF RtcInv

LEMMA Quotient == \A m \in Nat, n \in Nat \ {0} : m \div n \in Nat
OBVIOUS

(* Loading the clock of a slot and turning it on.                          *)
LEMMA OpenKeeps ==
  ASSUME RtcInv, NEW d \in Slots, NEW hz \in Nat \ {0}, rtc_open(d, hz),
         UNCHANGED in_use,
         \/ fds' = fds /\ tested' = TRUE
         \/ fds' = [fds EXCEPT ![d] = fds[d] + 1] /\ in_use[d] /\ tested' = tested,
         htz' \in Nat \ {0}
  PROVE  /\ ClockTypes' /\ UsersAlive'
         /\ NeverEarly' /\ NeverLate' /\ FreedClockIsOff'
<1> DEFINE n == MAX_FREQ \div 2
           i == MAX_FREQ \div hz
<1>1. n \in Nat /\ i \in Nat
  BY Quotient, RtcAssumption
<1>2. /\ rtc_enabled' = [rtc_enabled EXCEPT ![d] = TRUE]
      /\ rtc_interval' = [rtc_interval EXCEPT ![d] = i]
      /\ remaining_rtc_ticks' = [remaining_rtc_ticks EXCEPT ![d] = n]
      /\ owed' = [owed EXCEPT ![d] = n]
  BY Zenon DEF rtc_open, Load
<1> HIDE DEF n, i
<1>3. ClockTypes'
  BY <1>1, <1>2 DEF RtcInv, ClockTypes
<1>4. \A s \in Slots \ {d} :
        /\ rtc_enabled'[s] = rtc_enabled[s] /\ owed'[s] = owed[s]
        /\ remaining_rtc_ticks'[s] = remaining_rtc_ticks[s] /\ fds'[s] = fds[s]
  BY <1>2, Zenon DEF RtcInv, ClockTypes
<1>5. remaining_rtc_ticks'[d] = n /\ owed'[d] = n
  BY <1>2, Zenon DEF RtcInv, ClockTypes
<1>6. UsersAlive'
  BY Zenon DEF RtcInv, ClockTypes, UsersAlive
<1>n. NeverEarly /\ NeverLate /\ FreedClockIsOff
  BY Zenon DEF RtcInv
<1>7. NeverEarly'
  <2>1. n <= n
    BY <1>1
  <2> QED BY <1>n, <1>4, <1>5, <2>1, Zenon DEF NeverEarly
<1>8. NeverLate'
  BY <1>n, <1>4, <1>5 DEF NeverLate
<1>9. FreedClockIsOff'
  <2>1. CASE tested' = TRUE
    BY <2>1, Zenon DEF FreedClockIsOff
  <2>2. CASE fds' = [fds EXCEPT ![d] = fds[d] + 1] /\ tested' = tested
    <3>1. fds'[d] # 0
      BY <2>2 DEF RtcInv, ClockTypes
    <3> QED BY <1>4, <2>2, <3>1, Zenon DEF RtcInv, FreedClockIsOff
  <2> QED BY <2>1, <2>2, Zenon
<1> QED BY <1>3, <1>6, <1>7, <1>8, <1>9, Zenon

(* Turning the clock of a slot off.                                        *)
LEMMA CloseKeeps ==
  ASSUME RtcInv, NEW d \in Slots, rtc_close(d), NEW n \in Nat, n <= fds[d],
         fds' = [fds EXCEPT ![d] = n],
         UNCHANGED <<rtc_interval, remaining_rtc_ticks, owed>>,
         htz' \in Nat \ {0}, tested' \/ tested' = tested,
         \A s \in Slots : s # d \/ n > 0 => (in_use[s] => in_use'[s])
  PROVE  /\ ClockTypes' /\ UsersAlive'
         /\ NeverEarly' /\ NeverLate' /\ FreedClockIsOff'
<1>1. rtc_enabled' = [rtc_enabled EXCEPT ![d] = FALSE]
  BY Zenon DEF rtc_close
<1>2. ClockTypes'
  BY <1>1, Zenon DEF RtcInv, ClockTypes
<1>3. /\ ~rtc_enabled'[d] /\ fds'[d] = n
      /\ \A s \in Slots \ {d} :
           rtc_enabled'[s] = rtc_enabled[s] /\ fds'[s] = fds[s]
  BY <1>1, Zenon DEF RtcInv, ClockTypes
<1>4. UsersAlive'
  <2> SUFFICES ASSUME NEW s \in Slots, fds'[s] > 0 PROVE in_use'[s]
    BY Zenon DEF UsersAlive
  <2>1. fds[s] > 0 /\ (s # d \/ n > 0)
    BY <1>3 DEF RtcInv, ClockTypes
  <2> QED BY <2>1, Zenon DEF RtcInv, UsersAlive
<1>5. NeverEarly'
  BY Zenon DEF RtcInv, NeverEarly
<1>6. NeverLate'
  BY <1>3, Zenon DEF RtcInv, NeverLate
<1>7. FreedClockIsOff'
  BY <1>3, Zenon DEF RtcInv, FreedClockIsOff
<1> QED BY <1>2, <1>4, <1>5, <1>6, <1>7, Zenon
-----------------------------------------------------------------------------
LEMMA TickKeeps ==
  ASSUME RtcInv, rtc_handler
  PROVE  /\ ClockTypes' /\ UsersAlive'
         /\ NeverEarly' /\ NeverLate' /\ FreedClockIsOff'
<1>1. UNCHANGED <<in_use, rtc_enabled, rtc_interval, fds, htz, tested>>
  BY Zenon DEF rtc_handler, vars, pcbVars
<1>2. ASSUME NEW s \in Slots
      PROVE  /\ remaining_rtc_ticks'[s] = IF Counts(s)
                  THEN remaining_rtc_ticks[s] - 1 ELSE remaining_rtc_ticks[s]
             /\ owed'[s] = IF owed[s] > 0 THEN owed[s] - 1 ELSE 0
             /\ remaining_rtc_ticks[s] \in Nat /\ owed[s] \in Nat
  BY Zenon DEF rtc_handler, RtcInv, ClockTypes
<1>3. ASSUME NEW s \in Slots
      PROVE  remaining_rtc_ticks'[s] \in Nat /\ owed'[s] \in Nat
  BY <1>2 DEF Counts
<1>4. ClockTypes'
  <2>1. /\ remaining_rtc_ticks' = [s \in Slots |-> remaining_rtc_ticks'[s]]
        /\ owed' = [s \in Slots |-> owed'[s]]
    BY Zenon DEF rtc_handler
  <2>2. remaining_rtc_ticks' \in [Slots -> Nat] /\ owed' \in [Slots -> Nat]
    BY <1>3, <2>1, Zenon
  <2> QED BY <1>1, <2>2, Zenon DEF RtcInv, ClockTypes
<1>5. UsersAlive' /\ FreedClockIsOff'
  BY <1>1, Zenon DEF RtcInv, UsersAlive, FreedClockIsOff
<1>6. NeverEarly'
  BY <1>2 DEF RtcInv, NeverEarly, Counts
<1>7. NeverLate'
  <2> SUFFICES ASSUME NEW s \in Slots, fds[s] > 0, rtc_enabled[s]
               PROVE  remaining_rtc_ticks'[s] = owed'[s]
    BY <1>1, Zenon DEF NeverLate
  <2>1. remaining_rtc_ticks[s] = owed[s] /\ in_use[s]
    BY Zenon DEF RtcInv, NeverLate, UsersAlive
  <2> QED BY <1>2, <2>1 DEF Counts
<1> QED BY <1>4, <1>5, <1>6, <1>7, Zenon

LEMMA ReturnKeeps ==
  ASSUME RtcInv, NEW d \in Slots, rtc_read_returns(d)
  PROVE  /\ ClockTypes' /\ UsersAlive'
         /\ NeverEarly' /\ NeverLate' /\ FreedClockIsOff'
<1>1. /\ remaining_rtc_ticks' = [remaining_rtc_ticks EXCEPT ![d] = rtc_interval[d]]
      /\ owed' = [owed EXCEPT ![d] = rtc_interval[d]]
      /\ UNCHANGED <<in_use, rtc_enabled, rtc_interval, fds, htz, tested>>
  BY Zenon DEF rtc_read_returns, Load, vars, pcbVars
<1>2. rtc_interval[d] \in Nat
  BY Zenon DEF RtcInv, ClockTypes
<1>3. ClockTypes'
  BY <1>1, <1>2, Zenon DEF RtcInv, ClockTypes
<1>4. /\ remaining_rtc_ticks'[d] = rtc_interval[d] /\ owed'[d] = rtc_interval[d]
      /\ \A s \in Slots \ {d} :
           remaining_rtc_ticks'[s] = remaining_rtc_ticks[s] /\ owed'[s] = owed[s]
  BY <1>1, Zenon DEF RtcInv, ClockTypes
<1>5. UsersAlive' /\ FreedClockIsOff'
  BY <1>1, ZenonT(30) DEF RtcInv, UsersAlive, FreedClockIsOff
<1>6. NeverEarly' /\ NeverLate'
  BY <1>1, <1>2, <1>4 DEF RtcInv, NeverEarly, NeverLate
<1> QED BY <1>3, <1>5, <1>6, Zenon

(* Steps that leave the clocks alone and free no slot.                     *)
LEMMA ClocksKept ==
  ASSUME RtcInv, UNCHANGED <<rtc_enabled, remaining_rtc_ticks, owed, fds, htz, tested>>,
         rtc_interval' \in [Slots -> Nat],
         \A s \in Slots : in_use[s] => in_use'[s]
  PROVE  /\ ClockTypes' /\ UsersAlive'
         /\ NeverEarly' /\ NeverLate' /\ FreedClockIsOff'
<1>1. ClockTypes'
  BY Zenon DEF RtcInv, ClockTypes
<1>2. UsersAlive'
  BY Zenon DEF RtcInv, UsersAlive
<1>3. NeverEarly' /\ NeverLate' /\ FreedClockIsOff'
  BY Zenon DEF RtcInv, NeverEarly, NeverLate, FreedClockIsOff
<1> QED BY <1>1, <1>2, <1>3, Zenon

LEMMA WriteKeeps ==
  ASSUME RtcInv, NEW d \in Slots, NEW hz \in Hertz, rtc_write(d, hz)
  PROVE  /\ ClockTypes' /\ UsersAlive'
         /\ NeverEarly' /\ NeverLate' /\ FreedClockIsOff'
<1>1. rtc_interval' \in [Slots -> Nat]
  <2>1. rtc_interval \in [Slots -> Nat]
    BY Zenon DEF RtcInv, ClockTypes
  <2>2. CASE Acceptable(hz)
    <3>1. hz \in Nat \ {0}
      BY <2>2, RtcAssumption DEF Acceptable
    <3>2. MAX_FREQ \div hz \in Nat
      BY <3>1, Quotient, RtcAssumption, Zenon
    <3>3. rtc_interval' = [rtc_interval EXCEPT ![d] = MAX_FREQ \div hz]
      BY <2>2, Zenon DEF rtc_write
    <3> QED BY <2>1, <3>2, <3>3, Zenon
  <2>3. CASE ~Acceptable(hz)
    BY <2>1, <2>3, Zenon DEF rtc_write
  <2> QED BY <2>2, <2>3, Zenon
<1>2. /\ UNCHANGED <<rtc_enabled, remaining_rtc_ticks, owed, fds, htz, tested>>
      /\ UNCHANGED in_use
  BY Zenon DEF rtc_write, vars, pcbVars
<1> QED BY <1>1, <1>2, ClocksKept, Zenon

LEMMA HaltKeeps ==
  ASSUME RtcInv, halt
  PROVE  /\ ClockTypes' /\ UsersAlive'
         /\ NeverEarly' /\ NeverLate' /\ FreedClockIsOff'
<1>1. /\ tss_esp0 \in Slots
      /\ \A s \in Slots \ {tss_esp0} : in_use[s] => in_use'[s]
      /\ halted' => UNCHANGED in_use
  BY CallerAlive, HaltFreesItsOwn, Zenon DEF RtcInv
<1>2. /\ UNCHANGED <<rtc_interval, remaining_rtc_ticks, owed, htz, tested>>
      /\ IF halted' THEN UNCHANGED <<fds, rtc_enabled>> ELSE CloseAll(tss_esp0)
  BY Zenon DEF halt, get_current_pcb
<1>3. rtc_interval \in [Slots -> Nat] /\ htz \in Nat \ {0} /\ fds \in [Slots -> Nat]
  BY Zenon DEF RtcInv, ClockTypes
<1>4. CASE halted'
  BY <1>1, <1>2, <1>3, <1>4, ClocksKept, Zenon
<1>5. CASE ~halted' /\ fds[tss_esp0] > 0
  <2>1. rtc_close(tss_esp0) /\ fds' = [fds EXCEPT ![tss_esp0] = 0]
    BY <1>2, <1>5, Zenon DEF CloseAll
  <2>2. /\ 0 \in Nat /\ 0 <= fds[tss_esp0] /\ htz' \in Nat \ {0}
        /\ \A s \in Slots : s # tss_esp0 \/ 0 > 0 => (in_use[s] => in_use'[s])
    BY <1>1, <1>2, <1>3
  <2> QED BY <1>1, <1>2, <2>1, <2>2, CloseKeeps, Zenon
<1>6. CASE ~halted' /\ ~(fds[tss_esp0] > 0)
  <2>1. fds' = fds /\ UNCHANGED rtc_enabled
    <3>1. fds[tss_esp0] = 0
      BY <1>1, <1>3, <1>6
    <3>2. fds' = [fds EXCEPT ![tss_esp0] = 0] /\ UNCHANGED rtc_enabled
      BY <1>2, <1>6, Zenon DEF CloseAll
    <3> QED BY <1>1, <1>3, <3>1, <3>2, Zenon
  <2>2. UsersAlive'
    BY <1>1, <1>6, <2>1, Zenon DEF RtcInv, UsersAlive
  <2>3. ClockTypes' /\ NeverEarly' /\ NeverLate' /\ FreedClockIsOff'
    BY <1>2, <2>1
   , Zenon DEF RtcInv, ClockTypes, NeverEarly, NeverLate, FreedClockIsOff
  <2> QED BY <2>2, <2>3, Zenon
<1> QED BY <1>4, <1>5, <1>6, Zenon

LEMMA NextRtcInv == RtcInv /\ [RtcNext]_systemVars => RtcInv'
<1> SUFFICES ASSUME RtcInv, [RtcNext]_systemVars
             PROVE  /\ ClockTypes' /\ UsersAlive'
                    /\ NeverEarly' /\ NeverLate' /\ FreedClockIsOff'
  BY ClockStep, NextInv, Zenon DEF RtcInv
<1>1. /\ tss_esp0 \in Slots /\ in_use[tss_esp0]
      /\ rtc_interval \in [Slots -> Nat] /\ htz \in Nat \ {0}
      /\ fds \in [Slots -> Nat]
  BY CallerAlive, Zenon DEF RtcInv, ClockTypes
<1>2. CASE UNCHANGED systemVars
  <2>1. UNCHANGED <<in_use, rtc_enabled, rtc_interval, remaining_rtc_ticks, owed,
                    fds, htz, tested>>
    BY <1>2, Zenon DEF systemVars, vars, pcbVars, rtcVars, clockVars
  <2> QED BY <1>1, <2>1, ClocksKept, Zenon
<1>3. ASSUME NEW d \in Slots, syscall_open(d)
      PROVE  /\ ClockTypes' /\ UsersAlive'
             /\ NeverEarly' /\ NeverLate' /\ FreedClockIsOff'
  <2>1. /\ d = tss_esp0 /\ rtc_open(d, 2)
        /\ fds' = [fds EXCEPT ![d] = fds[d] + 1]
        /\ UNCHANGED <<in_use, htz, tested>>
    BY <1>3, Zenon DEF syscall_open, Calls, get_current_pcb, vars, pcbVars
  <2>2. 2 \in Nat \ {0}
    OBVIOUS
  <2> QED BY <1>1, <2>1, <2>2, OpenKeeps, Zenon
<1>4. ASSUME NEW d \in Slots, syscall_close(d)
      PROVE  /\ ClockTypes' /\ UsersAlive'
             /\ NeverEarly' /\ NeverLate' /\ FreedClockIsOff'
  <2>1. /\ d = tss_esp0 /\ rtc_close(d) /\ fds[d] > 0
        /\ fds' = [fds EXCEPT ![d] = fds[d] - 1]
        /\ UNCHANGED <<rtc_interval, remaining_rtc_ticks, owed>>
        /\ UNCHANGED <<in_use, htz, tested>>
    BY <1>4, Zenon DEF syscall_close, Calls, get_current_pcb, vars, pcbVars
  <2>2. fds[d] - 1 \in Nat /\ fds[d] - 1 <= fds[d]
    BY <1>1, <2>1
  <2> QED BY <1>1, <2>1, <2>2, CloseKeeps, Zenon
<1>5. ASSUME NEW d \in Slots, rtc_read(d)
      PROVE  /\ ClockTypes' /\ UsersAlive'
             /\ NeverEarly' /\ NeverLate' /\ FreedClockIsOff'
  <2>1. UNCHANGED <<in_use, rtc_enabled, rtc_interval, remaining_rtc_ticks, owed,
                    fds, htz, tested>>
    BY <1>5, Zenon DEF rtc_read, vars, pcbVars, clockVars
  <2> QED BY <1>1, <2>1, ClocksKept, Zenon
<1>6. CASE start_rtc_test
  <2>1. /\ rtc_open(tss_esp0, htz') /\ fds' = fds /\ tested' = TRUE
        /\ UNCHANGED in_use
    BY <1>6, Zenon DEF start_rtc_test, get_current_pcb, vars, pcbVars
  <2>2. htz' \in Nat \ {0}
    BY <1>1, <1>6, RtcAssumption DEF start_rtc_test
  <2>3. PICK hz \in Nat \ {0} : rtc_open(tss_esp0, hz)
    BY <2>1, <2>2, Zenon
  <2> QED BY <1>1, <2>1, <2>2, <2>3, OpenKeeps, Zenon
<1>7. CASE stop_rtc_test
  <2>1. /\ rtc_close(tss_esp0) /\ fds' = fds /\ tested' = TRUE /\ htz' = 1
        /\ UNCHANGED <<rtc_interval, remaining_rtc_ticks, owed>>
        /\ UNCHANGED in_use
    BY <1>7, Zenon DEF stop_rtc_test, get_current_pcb, vars, pcbVars
  <2> DEFINE n == fds[tss_esp0]
  <2>2. /\ fds' = [fds EXCEPT ![tss_esp0] = n]
        /\ n \in Nat /\ n <= fds[tss_esp0]
        /\ htz' \in Nat \ {0}
        /\ \A s \in Slots : s # tss_esp0 \/ n > 0 => (in_use[s] => in_use'[s])
    BY <1>1, <2>1
  <2> HIDE DEF n
  <2>3. tested' \/ tested' = tested
    BY <2>1, Zenon
  <2> QED BY <1>1, <2>1, <2>2, <2>3, CloseKeeps, Zenon
<1>8. CASE \/ \E loads \in BOOLEAN : execute(loads)
           \/ schedule
           \/ \E t \in FKeys : switch_terminal(t)
  <2>1. UNCHANGED <<rtc_enabled, rtc_interval, remaining_rtc_ticks, owed, fds,
                    htz, tested>>
    BY <1>8, Zenon DEF execute, schedule, switch_terminal, rtcVars, clockVars
  <2>2. \A s \in Slots : in_use[s] => in_use'[s]
    <3>1. CASE \E loads \in BOOLEAN : execute(loads)
      BY <3>1, ExecuteFreesNone, Zenon DEF RtcInv
    <3>2. CASE schedule \/ \E t \in FKeys : switch_terminal(t)
      BY <3>2, Zenon DEF schedule, switch_terminal, pit_handler,
                  switch_active_terminal, pcbVars
    <3> QED BY <1>8, <3>1, <3>2, Zenon
  <2> QED BY <1>1, <2>1, <2>2, ClocksKept, Zenon
<1> QED
  BY <1>2, <1>3, <1>4, <1>5, <1>6, <1>7, <1>8, WriteKeeps, ReturnKeeps, TickKeeps,
     HaltKeeps, Zenon DEF RtcNext

LEMMA RtcInvariance == RtcSpec => []RtcInv
BY InitRtcInv, NextRtcInv, PTL DEF RtcSpec

(* A read never ends before the ticks of its interval have come, whatever  *)
(* the scheduler, the other processes and the test keys do (rtc_read).     *)
THEOREM NotEarly == RtcSpec => []NeverEarly
<1>1. RtcInv => NeverEarly
  BY Zenon DEF RtcInv
<1> QED BY <1>1, RtcInvariance, PTL

(* Nor does the clock of a live user lose a tick: rtc_handler counts for   *)
(* it whether it is running, preempted or blocked.                         *)
THEOREM NotLate == RtcSpec => []NeverLate
<1>1. RtcInv => NeverLate
  BY Zenon DEF RtcInv
<1> QED BY <1>1, RtcInvariance, PTL

(* A slot that is used again starts with its clock off, since halt_program *)
(* closes the descriptors of the process before.                           *)
THEOREM StartsOff == RtcSpec => []FreedClockIsOff
<1>1. RtcInv => FreedClockIsOff
  BY Zenon DEF RtcInv
<1> QED BY <1>1, RtcInvariance, PTL
=============================================================================
