-------------------------------- MODULE Rtc --------------------------------
(***************************************************************************)
(* The real-time clock as processes see it (drivers/rtc.c): every PCB has  *)
(* a clock of its own, counted down by the one hardware interrupt.  The    *)
(* module composes the driver with Processes: the processes that use the   *)
(* clock are started, scheduled, blocked and halted there, and halting     *)
(* closes their descriptors.                                               *)
(*                                                                         *)
(* rtc_read is the one operation with interrupts on in the middle.  It is  *)
(* rtc_read (the entry), then any interrupts, then rtc_read_returns (the   *)
(* end of the loop, once the process has the CPU).                         *)
(*                                                                         *)
(* Of the descriptor tables, only the number of descriptors open on the    *)
(* clock matters here.  rtc_test_enabled, set exactly when htz is not 1,   *)
(* only chooses whether a tick prints a character, and is left out.        *)
(***************************************************************************)
EXTENDS Processes

CONSTANTS
  MAX_FREQ,   \* 1024, the rate of the hardware interrupt
  MIN_FREQ,   \* 2
  Hertz,      \* the values programs write to the clock
  RtcSlots,   \* the slots whose programs use the clock, or for which the
              \* user presses a test key
  RtcFds      \* how many descriptors a process can have open on it (6)

ASSUME RtcAssumption ==
  /\ MIN_FREQ \in Nat \ {0} /\ MAX_FREQ \in Nat /\ MIN_FREQ <= MAX_FREQ
  /\ Hertz \subseteq Nat
  /\ RtcSlots \subseteq Slots
  /\ RtcFds \in Nat

VARIABLES
  rtc_enabled, rtc_interval, remaining_rtc_ticks,  \* fields of the PCB in a slot
  fds,      \* the descriptors the process in a slot has open on the clock
  reading,  \* the process in a slot waits in rtc_read
  irq,      \* the hardware interrupt is on
  htz,      \* of the test in kernel/tests.c
  owed,     \* history: the ticks still to come since the slot's clock was
            \* last loaded with an interval
  tested    \* history: a test key has been pressed

clockVars  == <<rtc_enabled, rtc_interval, remaining_rtc_ticks, owed>>
rtcVars    == <<clockVars, fds, reading, irq, htz, tested>>
systemVars == <<vars, rtcVars>>

RtcInit ==
  /\ Init
  /\ rtc_enabled = [s \in Slots |-> FALSE]
  /\ rtc_interval = [s \in Slots |-> 0]
  /\ remaining_rtc_ticks = [s \in Slots |-> 0]
  /\ owed = [s \in Slots |-> 0]
  /\ fds = [s \in Slots |-> 0]
  /\ reading = [s \in Slots |-> FALSE]
  /\ irq = FALSE
  /\ htz = 1
  /\ tested = FALSE
-----------------------------------------------------------------------------
load_bug(s, n) ==  \* one tick too few
  /\ remaining_rtc_ticks' = [remaining_rtc_ticks EXCEPT ![s] = n - 1]
  /\ owed' = [owed EXCEPT ![s] = n]

(* Load the clock of slot s with n ticks.                                  *)
Load(s, n) ==
  /\ remaining_rtc_ticks' = [remaining_rtc_ticks EXCEPT ![s] = n]
  /\ owed' = [owed EXCEPT ![s] = n]

(* The process that runs makes a system call.                              *)
Calls(s) == ~halted /\ s = get_current_pcb /\ ~reading[s]

(* rtc_open, followed by an rtc_write of hz where the caller makes one: a  *)
(* clock starts at 2 Hz.                                                   *)
rtc_open(s, hz) ==
  /\ irq' = TRUE
  /\ rtc_enabled' = [rtc_enabled EXCEPT ![s] = TRUE]
  /\ rtc_interval' = [rtc_interval EXCEPT ![s] = MAX_FREQ \div hz]
  /\ Load(s, MAX_FREQ \div 2)

rtc_close(s) == rtc_enabled' = [rtc_enabled EXCEPT ![s] = FALSE]

syscall_open(s) ==
  /\ Calls(s) /\ s \in RtcSlots /\ fds[s] < RtcFds
  /\ rtc_open(s, 2)
  /\ fds' = [fds EXCEPT ![s] = fds[s] + 1]
  /\ UNCHANGED <<vars, reading, htz, tested>>

syscall_close(s) ==
  /\ Calls(s) /\ fds[s] > 0
  /\ fds' = [fds EXCEPT ![s] = fds[s] - 1]
  /\ rtc_close(s)
  /\ UNCHANGED <<vars, rtc_interval, remaining_rtc_ticks, owed, reading,
                 irq, htz, tested>>

(* A rate the clock can have: a power of two in range.                     *)
PowerOf2(hz) == \E k \in 0 .. hz : hz = 2^k
Acceptable(hz) == MIN_FREQ <= hz /\ hz <= MAX_FREQ /\ PowerOf2(hz)

(* A new rate counts from the next load on.                                *)
rtc_write(s, hz) ==
  /\ Calls(s) /\ fds[s] > 0
  /\ rtc_interval' = IF Acceptable(hz)
                       THEN [rtc_interval EXCEPT ![s] = MAX_FREQ \div hz]
                       ELSE rtc_interval
  /\ UNCHANGED <<vars, rtc_enabled, remaining_rtc_ticks, owed, fds, reading,
                 irq, htz, tested>>

(* With its clock off a read fails at once.                                *)
rtc_read(s) ==
  /\ Calls(s) /\ fds[s] > 0
  /\ reading' = [reading EXCEPT ![s] = rtc_enabled[s]]
  /\ UNCHANGED <<vars, clockVars, fds, irq, htz, tested>>

rtc_read_returns(s) ==
  /\ ~halted /\ s = running /\ reading[s]
  /\ remaining_rtc_ticks[s] = 0
  /\ Load(s, rtc_interval[s])
  /\ reading' = [reading EXCEPT ![s] = FALSE]
  /\ UNCHANGED <<vars, rtc_enabled, rtc_interval, fds, irq, htz, tested>>

counts_bug(s) ==  \* the clock of a process that is not scheduled stands still
  s = running /\ rtc_enabled[s] /\ remaining_rtc_ticks[s] > 0

counts_root_bug(s) ==  \* the loop ends at NUM_TERMINALS
  s < NUM_TERMINALS /\ in_use[s] /\ rtc_enabled[s] /\ remaining_rtc_ticks[s] > 0

(* The clocks that a tick counts down.                                     *)
Counts(s) == in_use[s] /\ rtc_enabled[s] /\ remaining_rtc_ticks[s] > 0

rtc_handler ==
  /\ ~halted /\ irq
  /\ remaining_rtc_ticks' =
       [s \in Slots |-> IF Counts(s) THEN remaining_rtc_ticks[s] - 1
                                       ELSE remaining_rtc_ticks[s]]
  /\ owed' = [s \in Slots |-> IF owed[s] > 0 THEN owed[s] - 1 ELSE 0]
  /\ UNCHANGED <<vars, rtc_enabled, rtc_interval, fds, reading, irq, htz, tested>>

(* Ctrl+4 acts on the process the keyboard interrupt came to, with a rate  *)
(* that doubles each time.                                                 *)
start_rtc_test ==
  /\ ~halted /\ get_current_pcb \in RtcSlots
  /\ htz' = IF 2 * htz > MAX_FREQ THEN MIN_FREQ ELSE 2 * htz
  /\ rtc_open(get_current_pcb, htz')
  /\ tested' = TRUE
  /\ UNCHANGED <<vars, fds, reading>>

(* Ctrl+5 (and empties a keyboard buffer, see Terminal).                   *)
stop_rtc_test ==
  /\ ~halted /\ get_current_pcb \in RtcSlots
  /\ htz' = 1
  /\ rtc_close(get_current_pcb)
  /\ tested' = TRUE
  /\ UNCHANGED <<vars, rtc_interval, remaining_rtc_ticks, owed, fds, reading, irq>>

close_all_bug(s) ==  \* the table is emptied without the calls of close
  fds' = [fds EXCEPT ![s] = 0] /\ UNCHANGED rtc_enabled

(* halt_program closes every descriptor of the process.                    *)
CloseAll(s) ==
  /\ fds' = [fds EXCEPT ![s] = 0]
  /\ IF fds[s] > 0 THEN rtc_close(s) ELSE UNCHANGED rtc_enabled

execute(loads) ==
  /\ Calls(get_current_pcb)
  /\ syscall_execute(loads)
  /\ UNCHANGED rtcVars

(* A program halts or is killed by an exception; in a root shell an        *)
(* exception stops the machine before anything is closed.                  *)
halt ==
  /\ Calls(get_current_pcb)
  /\ (\E arg \in HaltArgs : syscall_halt(arg)) \/ exception_handler
  /\ IF halted' THEN UNCHANGED <<fds, rtc_enabled>> ELSE CloseAll(get_current_pcb)
  /\ UNCHANGED <<rtc_interval, remaining_rtc_ticks, owed, reading, irq, htz, tested>>

schedule == pit_handler /\ UNCHANGED rtcVars

switch_terminal(t) == switch_active_terminal(t) /\ UNCHANGED rtcVars

RtcNext ==
  \/ \E s \in Slots :
       \/ syscall_open(s)
       \/ syscall_close(s)
       \/ \E hz \in Hertz : rtc_write(s, hz)
       \/ rtc_read(s)
       \/ rtc_read_returns(s)
  \/ rtc_handler
  \/ start_rtc_test
  \/ stop_rtc_test
  \/ \E loads \in BOOLEAN : execute(loads)
  \/ halt
  \/ schedule
  \/ \E t \in FKeys : switch_terminal(t)

RtcSpec == RtcInit /\ [][RtcNext]_systemVars

(* Both timers fire for ever and are never masked.  A process that waits   *)
(* polls its clock many times whenever it has the CPU, so it does not miss *)
(* that it may go on each time it is scheduled.                            *)
RtcFairSpec ==
  /\ RtcSpec
  /\ WF_systemVars(schedule)
  /\ WF_systemVars(rtc_handler)
  /\ \A s \in RtcSlots : SF_systemVars(rtc_read_returns(s))
-----------------------------------------------------------------------------
(* Clocks never count below zero or above half a second, and only a live   *)
(* process that is not blocked waits for one.                              *)
RtcTypeOK ==
  /\ rtc_enabled \in [Slots -> BOOLEAN]
  /\ rtc_interval \in [Slots -> 0 .. MAX_FREQ \div MIN_FREQ]
  /\ remaining_rtc_ticks \in [Slots -> 0 .. MAX_FREQ \div 2]
  /\ owed \in [Slots -> 0 .. MAX_FREQ \div 2]
  /\ fds \in [Slots -> 0 .. RtcFds]
  /\ reading \in [Slots -> BOOLEAN]
  /\ irq \in BOOLEAN
  /\ htz \in 1 .. MAX_FREQ
  /\ tested \in BOOLEAN
  /\ \A s \in Slots : fds[s] > 0 => in_use[s]
  /\ \A s \in Slots : reading[s] => Runnable(s)

(* rtc_read never returns early: whatever the other processes, the         *)
(* scheduler and the test keys do, the ticks of the interval that was      *)
(* loaded have all come when the countdown is over.                        *)
NeverEarly == \A s \in Slots : owed[s] <= remaining_rtc_ticks[s]

(* Nor does it lose a tick while its clock is on: a process with an open   *)
(* descriptor waits for the ticks that are due and no more, though it was  *)
(* preempted or blocked in the meantime, or its slot was used before.      *)
NeverLate ==
  \A s \in Slots :
    fds[s] > 0 /\ rtc_enabled[s] => remaining_rtc_ticks[s] = owed[s]

(* A process that is gone leaves no clock running in its slot: the next    *)
(* one starts with the clock off (until a test key is pressed).            *)
FreedClockIsOff == ~tested => \A s \in Slots : fds[s] = 0 => ~rtc_enabled[s]

(* "Returns (only when) the next RTC tick occurs" (rtc_read, drivers/      *)
(* rtc.c): a process that waits goes on, unless the scheduler fails it     *)
(* (the last slot is in use, see Processes), a test key loads its clock    *)
(* again or turns it off, or the machine stops.                            *)
ReadReturns ==
  \A s \in RtcSlots :
    reading[s] ~> (~reading[s] \/ in_use[LastSlot] \/ tested \/ halted)
=============================================================================
