------------------------------- MODULE Memory -------------------------------
(***************************************************************************)
(* Paging and program loading on top of Processes: the page directory of   *)
(* every slot, what the MMU makes of it, and the 4 MB page that holds the  *)
(* program of a slot.  Memory is measured in 4 KB pages, the unit of       *)
(* physical_addr_31_to_12.  A directory is a function on the entries that  *)
(* are present; local_pt[0], the only present entry of a slot's page       *)
(* table, is the variable vmem of Processes.                               *)
(***************************************************************************)
EXTENDS Processes

CONSTANT
  buffer_page  \* where the linker put the output buffer of each terminal

(* Page numbers of paging.h and task.h.                                    *)
FOUR_MB            == 1024
VIDEO_PAGE         == 184
KERNEL_PAGE_END    == 2 * FOUR_MB
PAGING_STRUCT_PAGE == 31 * FOUR_MB
PROCESS_VIRT_PAGE  == 32 * FOUR_MB
LINK_OFFSET        == 72

(* The paging structures of a slot take four pages, its kernel stack two.  *)
STRUCT_PAGES == 4
STACK_PAGES  == 2

(* The program pages end below the paging structures, which fit in one     *)
(* 4 MB page; the terminals' buffers are kernel data, below the stacks.    *)
ASSUME MemoryAssumption ==
  /\ MAX_PROCESSES <= 29
  /\ buffer_page \in [Terminals ->
       FOUR_MB .. KERNEL_PAGE_END - STACK_PAGES * MAX_PROCESSES - 1]
  /\ \A t, u \in Terminals : buffer_page[t] = buffer_page[u] => t = u

VARIABLES
  directory,  \* the page directory of each slot
  written     \* the slots whose program page the last step wrote to

memoryVars == <<directory, written>>
memVars    == <<vars, memoryVars>>

-----------------------------------------------------------------------------
(* A run of consecutive physical pages.                                    *)
Region(first, n) == [first |-> first, n |-> n]
Overlap(a, b)    == a.first < b.first + b.n /\ b.first < a.first + a.n

get_process_pd(s) == PAGING_STRUCT_PAGE + STRUCT_PAGES * s
get_process_pt(s) == PAGING_STRUCT_PAGE + STRUCT_PAGES * s + 1

get_process_page_from_slot(s) == KERNEL_PAGE_END + FOUR_MB * s

(* The two pages of a slot's PCB and kernel stack.                         *)
get_pcb_from_slot(s) ==
  Region(KERNEL_PAGE_END - STACK_PAGES * (s + 1), STACK_PAGES)

(* Directory entries: a 4 MB page, or a page table.                        *)
Page(page, user)  == [big |-> TRUE, user |-> user, page |-> page]
Table(page, user) == [big |-> FALSE, user |-> user, page |-> page]

(* vmem_pt, the kernel's table for the first 4 MB, is kernel data.         *)
VMEM_PT == FOUR_MB

initialize_user_bug(pt) ==  \* the program pages are user accessible
  [i \in {0, 1, 31, 33} \cup 2 .. MAX_PROCESSES + 1 |->
     IF i = 0 THEN Table(VMEM_PT, FALSE)
     ELSE IF i = 33 THEN Table(pt, TRUE)
     ELSE Page(FOUR_MB * i, i \in 2 .. MAX_PROCESSES + 1)]

(* The entries every directory has: video memory, the kernel, the paging   *)
(* structures and all program pages where they are in physical memory, for *)
(* the kernel only; and the process's own page table at 132 MB.            *)
initialize_paging_structs(pt) ==
  [i \in {0, 1, 31, 33} \cup 2 .. MAX_PROCESSES + 1 |->
     IF i = 0 THEN Table(VMEM_PT, FALSE)
     ELSE IF i = 33 THEN Table(pt, TRUE)
     ELSE Page(FOUR_MB * i, FALSE)]

(* The directory of slot s: besides those, its own page at 128 MB.         *)
setup_process_paging(s) ==
  LET local_pd == initialize_paging_structs(get_process_pt(s)) IN
  [i \in DOMAIN local_pd \cup {32} |->
     IF i = 32 THEN Page(get_process_page_from_slot(s), TRUE)
     ELSE local_pd[i]]

(* The page a video frame of Processes is, and the page the video entry of *)
(* the slot that owns a page table leads to.                               *)
FramePage(f) == IF f = VIDEO_PHYS_ADDR THEN VIDEO_PAGE ELSE buffer_page[f]
VideoEntry(pt) ==
  {FramePage(vmem[s]) : s \in {r \in Slots : get_process_pt(r) = pt}}

(* The MMU, in kernel mode on the directory of slot s: the physical pages  *)
(* that virtual page v leads to (none: a page fault).                      *)
Translate(s, v) ==
  LET i == v \div FOUR_MB IN
  IF i \notin DOMAIN directory[s] THEN {}
  ELSE LET e == directory[s][i] IN
       IF e.big THEN {e.page + (v % FOUR_MB)}
       ELSE IF e.page = VMEM_PT THEN {v} \cap {VIDEO_PAGE}
       ELSE IF v % FOUR_MB = 0 THEN VideoEntry(e.page) ELSE {}

(* What a program in ring 3 reaches on the directory of slot s.            *)
UserEntries(s) == {i \in DOMAIN directory[s] : directory[s][i].user}
UserPages(s) ==
  {Region(directory[s][i].page, FOUR_MB) :
     i \in {j \in UserEntries(s) : directory[s][j].big}}
UserVideo(s) ==
  UNION {{Region(p, 1) : p \in VideoEntry(directory[s][i].page)} :
           i \in {j \in UserEntries(s) : ~directory[s][j].big}}

-----------------------------------------------------------------------------
(* What a command can name: nothing, a file of at most four bytes, a       *)
(* longer one that is not an executable, an executable.                    *)
Files == {"none", "short", "text", "elf"}

get_executable_entrypoint(file) == file = "elf"

LoadsProgram(file) ==
  /\ file # "none"
  /\ file # "short"
  /\ get_executable_entrypoint(file)

(* The file is copied to the program page of slot s through the directory  *)
(* that is loaded, before it is examined.                                  *)
load_program_into_slot(file, s) ==
  written' = {r \in Slots :
    /\ file # "none"
    /\ get_process_page_from_slot(r) + LINK_OFFSET \in
         Translate(cr3, get_process_page_from_slot(s) + LINK_OFFSET)}

(* The slot syscall_execute looks at first, if there is a free one.        *)
execute_in_slot(file, c) ==
  /\ c \in FreeSlots
  /\ \A s \in FreeSlots : c <= s
  /\ load_program_into_slot(file, c)
  /\ \/ /\ execute_fails(LoadsProgram(file))
        /\ UNCHANGED directory
     \/ /\ execute_starts(LoadsProgram(file), c)
        /\ directory' = [directory EXCEPT ![c] = setup_process_paging(c)]

execute_without_slot(file) ==
  /\ FreeSlots = {}
  /\ execute_fails(LoadsProgram(file))
  /\ written' = {}
  /\ UNCHANGED directory

(* At boot the root shells have been loaded through the kernel's own       *)
(* directory; RAM above them has not been written.                         *)
MemInit ==
  /\ Init
  /\ directory = [s \in Slots |-> IF s \in Terminals THEN setup_process_paging(s)
                                                     ELSE << >>]
  /\ written = {}

Elsewhere ==
  \/ \E arg \in HaltArgs : syscall_halt(arg)
  \/ exception_handler
  \/ pit_handler
  \/ \E t \in FKeys : switch_active_terminal(t)

MemNext ==
  \/ \E file \in Files : execute_without_slot(file)
  \/ \E file \in Files, c \in Slots : execute_in_slot(file, c)
  \/ Elsewhere /\ written' = {} /\ UNCHANGED directory

MemSpec == MemInit /\ [][MemNext]_memVars

(* As FairSpec of Processes, with its ENABLED written out: unless the CPU  *)
(* is parked, the timer interrupt switches to a process that it picks, or  *)
(* at least is a step that returns and writes nothing after one that did.  *)
(* pit_handler leaves in_use and active_terminal alone; saying so first    *)
(* spares TLC most of its work.                                            *)
timer ==
  written' = {} /\ UNCHANGED <<directory, in_use, active_terminal>> /\ pit_handler

TimerDue ==
  /\ ~halted
  /\ returned # {} \/ written # {} \/ \E k \in Slots : Picks(get_current_pcb, k)

MemFairSpec == MemSpec /\ ([]<>~TimerDue \/ []<><<timer>>_memVars)

-----------------------------------------------------------------------------
(* Whatever is executed, halted and switched, a program reaches no page of *)
(* another live program, no kernel stack, no PCB and no paging structure.  *)
(* Two programs share at most a video page, and the page of a terminal     *)
(* that is not the screen only with programs of that terminal.             *)
UserMemoryPrivate ==
  \A s \in Slots : in_use[s] =>
    /\ \A a \in UserPages(s) \cup UserVideo(s), r \in Slots :
         /\ ~Overlap(a, get_pcb_from_slot(r))
         /\ ~Overlap(a, Region(get_process_pd(r), STRUCT_PAGES))
         /\ in_use[r] /\ r # s =>
              \A b \in UserPages(r) : ~Overlap(a, b)
    /\ \A a \in UserVideo(s), t \in Terminals :
         a.first = buffer_page[t] => terminal_num[s] = t

(* Whichever live process's directory is loaded, the kernel finds every    *)
(* program page and paging structure at its physical address (the loader   *)
(* and the timer handler write there through whatever directory they       *)
(* interrupted), and 128 MB is that process's own program page.            *)
KernelMapped ==
  \A s \in Slots : in_use[s] =>
    /\ \A r \in Slots :
         /\ get_process_page_from_slot(r) \in
              Translate(s, get_process_page_from_slot(r))
         /\ get_process_pt(r) \in Translate(s, get_process_pt(r))
         /\ get_pcb_from_slot(r).first \in
              Translate(s, get_pcb_from_slot(r).first)
    /\ get_process_page_from_slot(s) \in Translate(s, PROCESS_VIRT_PAGE)

(* A live process's program is never overwritten: not by a command that    *)
(* names no executable, whose file has been copied by the time the kernel  *)
(* finds out, and not by loading a child.  A root shell is restarted from  *)
(* the page as it is, so this is also what restarting relies on.           *)
LiveProgramsIntact == [][\A s \in Slots : in_use[s] => s \notin written']_memVars
=============================================================================
