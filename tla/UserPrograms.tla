---------------------------- MODULE UserPrograms ----------------------------
(***************************************************************************)
(* Three of the user programs (syscalls/) that the slot of Descriptors is  *)
(* used for, among programs that make any calls: cat and ls, which copy a  *)
(* file or the directory to the screen, and syserr, which tests the        *)
(* failures of the system calls.  Their messages are left out.             *)
(***************************************************************************)
EXTENDS Descriptors

CONSTANTS
  dot,     \* the name "."
  helloo,  \* "string that matches filename with additional character"
  shel,    \* "string that is short of filename by one character"
  BUFSIZE  \* the length of cat's reads

VARIABLES
  test,  \* the tests syserr has to run, empty when it is not running
  pos,   \* the number of calls of the first of them that returned
  cnt,   \* the calls of open that failed in it (err_open_lots)
  fail,  \* a test has failed

  copier,  \* the running one of cat and ls: its step, or "none"
  cfd,     \* its descriptor
  out      \* what it has written

errVars  == <<test, pos, cnt, fail>>
copyVars == <<copier, cfd, out>>
-----------------------------------------------------------------------------
(* The result of a call is only told apart from -1.                        *)
open_succeeds(fname) ==
  /\ \E fd \in Fds : LowestFree(fd)
  /\ \E i \in 1 .. Len(directory_entries) :
       read_dentry_by_name(fname, i) /\ directory_entries[i].file_type <= FILE_FT

close_succeeds(fd) == fd \in Fds /\ Closes(fd)

(* The range that read and write test first.                               *)
InRange(fd) == fd \in Fds

(* stdout has no read; a read of anything else gives at least 0, since     *)
(* every open file has an inode.                                           *)
read_succeeds(fd) ==
  /\ InRange(fd)
  /\ fa[fd].flags /\ fa[fd].fops # "stdout"

(* stdin has no write, and that of a file or a directory returns -1.       *)
write_succeeds(fd) ==
  /\ InRange(fd)
  /\ fa[fd].flags /\ fa[fd].fops \in {"stdout", "rtc"}

syscall_read_returns_0(fd, nbytes) ==
  LET f == fa[fd] IN
  \/ f.fops = "rtc"
  \/ f.fops = "dir" /\ f.file_position >= Len(directory_entries)
  \/ f.fops = "file" /\ read_data(f.inode, f.file_position, nbytes) = 0

(* The pointer has to be in the program's page: addresses are "null",      *)
(* "kernel" and "program".                                                 *)
vidmap_succeeds(screen_start) == screen_start = "program"

(* The numbers syscall_handler accepts.                                    *)
number_accepted(num) == num \in 1 .. 10
-----------------------------------------------------------------------------
(* Each test as the calls it makes.                                        *)
NEG_FD  == -1073741823
BIG_FD  == 1073741823
BIG_NUM == 1073741823
NEG_NUM == -1073741823

Call(op, arg) == [op |-> op, arg |-> arg]
ForFds(op, first) ==
  [k \in 1 .. MAX_FILE_DESCRIPTORS - first |-> Call(op, first + k - 1)]

err_neg_fd == <<Call("read", NEG_FD), Call("write", NEG_FD), Call("close", NEG_FD)>>
err_big_fd == <<Call("read", BIG_FD), Call("write", BIG_FD), Call("close", BIG_FD)>>
err_open_lots ==
  [k \in 1 .. MAX_FILE_DESCRIPTORS - 1 |-> Call("open", dot)] \o ForFds("close", 2)
err_open == <<Call("open", helloo), Call("open", shel), Call("open", <<>>)>>
err_unopened == ForFds("close", 0) \o ForFds("read", 2) \o ForFds("write", 2)
err_vidmap == <<Call("vidmap", "null"), Call("vidmap", "kernel")>>
err_stdin_out == <<Call("write", 0), Call("read", 1)>>
err_syscall_num ==
  <<Call("number", BIG_NUM), Call("number", NEG_NUM), Call("number", 0)>>

(* The file system has the directory itself, and no file of the names that *)
(* the tests expect not to be there.                                       *)
ASSUME UserProgramsAssumption ==
  /\ BUFSIZE \in Nat \ {0}
  /\ MAX_FILE_DESCRIPTORS <= BIG_FD
  /\ \A fname \in {dot, helloo, shel} : IsName(fname)
  /\ \E i \in 1 .. Len(directory_entries) :
       read_dentry_by_name(dot, i) /\ directory_entries[i].file_type <= FILE_FT
  /\ \A i \in 1 .. Len(directory_entries) :
       directory_entries[i].file_name \notin {helloo, shel, <<>>}

Tests == <<err_neg_fd, err_big_fd, err_open_lots, err_open, err_unopened,
           err_vidmap, err_stdin_out, err_syscall_num>>
LOTS == 3

Succeeds(c) ==
  CASE c.op = "open"   -> open_succeeds(c.arg)
    [] c.op = "close"  -> close_succeeds(c.arg)
    [] c.op = "read"   -> read_succeeds(c.arg)
    [] c.op = "write"  -> write_succeeds(c.arg)
    [] c.op = "vidmap" -> vidmap_succeeds(c.arg)
    [] c.op = "number" -> number_accepted(c.arg)

(* What the call does to the open files: only an open and a close that     *)
(* succeed change something, the reads that could being errors.            *)
Effect(c) ==
  CASE c.op = "open"  /\ Succeeds(c) -> syscall_open(c.arg)
    [] c.op = "close" /\ Succeeds(c) -> syscall_close(c.arg)
    [] OTHER -> UNCHANGED vars
-----------------------------------------------------------------------------
Running == test # <<>> \/ copier # "none"

ProgramsInit ==
  /\ Init
  /\ test = <<>> /\ pos = 0 /\ cnt = 0 /\ fail = FALSE
  /\ copier = "none" /\ cfd = 0 /\ out = <<>>

(* The next call of the first test.                                        *)
err_call ==
  /\ test # <<>> /\ pos < Len(Tests[Head(test)])
  /\ LET c == Tests[Head(test)][pos + 1] IN
     /\ Effect(c)
     /\ IF Head(test) = LOTS
          THEN /\ cnt' = IF c.op = "open" /\ ~Succeeds(c) THEN cnt + 1 ELSE cnt
               /\ UNCHANGED fail
          ELSE fail' = (fail \/ Succeeds(c)) /\ UNCHANGED cnt
  /\ pos' = pos + 1
  /\ UNCHANGED <<test, copyVars>>

(* The end of a test: the next one starts or, after the last, the program  *)
(* halts.                                                                  *)
err_returns ==
  /\ test # <<>> /\ pos = Len(Tests[Head(test)])
  /\ fail' = (fail \/ (Head(test) = LOTS /\ cnt # 1))
  /\ test' = Tail(test) /\ pos' = 0 /\ cnt' = 0
  /\ IF Len(test) > 1 THEN UNCHANGED vars ELSE halt_program
  /\ UNCHANGED copyVars

(* syserr runs the test that the first character of the line selects, or   *)
(* all of them.                                                            *)
syserr(select) ==
  /\ test' = IF select = 0 THEN [k \in 1 .. Len(Tests) |-> k] ELSE <<select>>
  /\ pos' = 0 /\ cnt' = 0 /\ fail' = FALSE
  /\ UNCHANGED copyVars
-----------------------------------------------------------------------------
(* cat opens its argument and ls the directory; they halt if that fails.   *)
copy_opens(fname) ==
  /\ copier = "open"
  /\ IF open_succeeds(fname)
       THEN /\ syscall_open(fname)
            /\ copier' = "read"
            /\ cfd' = CHOOSE fd \in Fds : LowestFree(fd)
       ELSE halt_program /\ copier' = "none" /\ UNCHANGED cfd
  /\ out' = <<>>
  /\ UNCHANGED errVars

(* A read and the write of what it returned, until it returns 0.  The read *)
(* of the clock returns 0 after its tick.  A directory's name always fits. *)
copy_reads ==
  /\ copier = "read"
  /\ IF syscall_read_returns_0(cfd, BUFSIZE)
       THEN copier' = "eof" /\ UNCHANGED <<vars, out>>
       ELSE /\ syscall_read(cfd, BUFSIZE)
            /\ out' = out \o SubSeq(got'[cfd], Len(got[cfd]) + 1, Len(got'[cfd]))
            /\ UNCHANGED copier
  /\ UNCHANGED <<cfd, errVars>>

(* main returns without closing the file.                                  *)
copy_returns ==
  /\ copier = "eof" /\ copier' = "none"
  /\ halt_program
  /\ UNCHANGED <<cfd, out, errVars>>

(* The start of a process, which may be one of the three.                  *)
execute ==
  /\ syscall_execute
  /\ \/ UNCHANGED <<errVars, copyVars>>
     \/ \E select \in 0 .. Len(Tests) : syserr(select)
     \/ copier' = "open" /\ UNCHANGED <<cfd, out, errVars>>

(* The steps of another program.                                           *)
other ==
  /\ ~Running
  /\ \/ \E fname \in Names : syscall_open(fname)
     \/ \E fd \in Fds : syscall_close(fd)
     \/ \E fd \in Fds, nbytes \in Lengths : syscall_read(fd, nbytes)
     \/ halt_program
  /\ UNCHANGED <<errVars, copyVars>>

ProgramsNext ==
  \/ err_call \/ err_returns
  \/ \E fname \in Names : copy_opens(fname)
  \/ copy_reads \/ copy_returns
  \/ execute \/ other

ProgramsSpec == ProgramsInit /\ [][ProgramsNext]_<<vars, errVars, copyVars>>
-----------------------------------------------------------------------------
(* Every test of ece391syserr.c passes, whatever the programs before it in *)
(* the same slot opened, read and left open: "Nothing should be able to be *)
(* closed" (err_unopened) rests on what halt did to the array.             *)
SysErrPasses == ~fail

(* When the read returns 0, cat has written the whole file and ls every    *)
(* entry of the directory, once each and in order.                         *)
CopiesWhole ==
  copier = "eof" =>
    LET f == fa[cfd]
        length == CASE f.fops = "file" -> file_length[f.inode]
                    [] f.fops = "dir"  -> Len(directory_entries)
                    [] f.fops = "rtc"  -> 0
    IN  out = [k \in 1 .. length |-> <<f.fops, f.inode, k - 1>>]
=============================================================================
