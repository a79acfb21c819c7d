---------------------------- MODULE Descriptors ----------------------------
(***************************************************************************)
(* The open files of the processes that use one slot, one after another:   *)
(* the array fa of the PCB, the system calls open, close and read on it    *)
(* (kernel/syscall.c), the operations on files and directories they reach  *)
(* (fs/fs.c), the lookup of a name (fs/ece391_fs.c), and what starting and *)
(* halting a process does to the array (arch/x86/task.c).  The system      *)
(* calls run with interrupts off and only touch the caller's own PCB, so   *)
(* that each is a step and one slot is enough.                             *)
(*                                                                         *)
(* write changes nothing here, nor does a read of the keyboard or of the   *)
(* clock: those are Terminal's and Rtc's.  A call whose buffer is not in   *)
(* the program's page returns -1 and changes nothing.                      *)
(***************************************************************************)
EXTENDS Integers, Sequences

CONSTANTS
  MAX_FILE_DESCRIPTORS,  \* 8
  MAX_FILE_NAME_LENGTH,  \* 32
  directory_entries,     \* of the boot block, a sequence of records
                         \* [file_name, file_type, inode_num]
  file_length,           \* of each inode
  Names,                 \* the names programs open, sequences of characters
  Lengths                \* the lengths programs read, which do not wrap when
                         \* added to a position (see ReadData)

(* The file types, which are the indices of fops_table.                    *)
RTC_FT       == 0
DIRECTORY_FT == 1
FILE_FT      == 2
fops_table   == <<"rtc", "dir", "file">>

ASSUME DescriptorsAssumption ==
  /\ MAX_FILE_DESCRIPTORS \in Nat /\ MAX_FILE_DESCRIPTORS >= 2
  /\ MAX_FILE_NAME_LENGTH \in Nat
  /\ Lengths \subseteq Nat
  /\ file_length \in [DOMAIN file_length -> Nat]

(* Names hold no NUL, and are at most as long as the directory has room    *)
(* for: longer ones are compared by their first characters.                *)
IsName(s) ==
  /\ Len(s) \in 0 .. MAX_FILE_NAME_LENGTH
  /\ s = [k \in 1 .. Len(s) |-> s[k]]
  /\ \A k \in 1 .. Len(s) : s[k] # "NUL"

ASSUME DirectoryAssumption ==
  /\ Len(directory_entries) \in Nat
  /\ \A i \in 1 .. Len(directory_entries) :
       /\ directory_entries[i].file_type \in Nat
       /\ directory_entries[i].inode_num \in Nat
       /\ IsName(directory_entries[i].file_name)
  /\ \A fname \in Names : IsName(fname)

Fds == 0 .. MAX_FILE_DESCRIPTORS - 1

VARIABLES
  in_use,  \* a process has the slot
  root,    \* it is the slot of a root shell
  fa,      \* the PCB's file array: [flags, fops, inode, file_position]
  name,    \* history: the name each descriptor was opened with
  got      \* history: what was read through it, in order

vars == <<in_use, root, fa, name, got>>

Free(fd) == ~fa[fd].flags

Smaller(m, n) == IF m < n THEN m ELSE n
-----------------------------------------------------------------------------
(* stdin and stdout; the inode is left as it was.                          *)
open_stdin_and_stdout(a) ==
  [fd \in Fds |->
     IF fd \in {0, 1}
       THEN [a[fd] EXCEPT !.flags = TRUE, !.file_position = 0,
                          !.fops = IF fd = 0 THEN "stdin" ELSE "stdout"]
       ELSE a[fd]]

(* The PCB in RAM that starts as zeros.                                    *)
ZeroArray ==
  [fd \in Fds |-> [flags |-> FALSE, fops |-> "NULL", inode |-> 0,
                   file_position |-> 0]]

Init ==
  /\ root \in BOOLEAN
  /\ in_use = root
  /\ fa = IF root THEN open_stdin_and_stdout(ZeroArray) ELSE ZeroArray
  /\ name = [fd \in Fds |-> <<>>]
  /\ got = [fd \in Fds |-> <<>>]

(* strncmp finds no difference in the first MAX_FILE_NAME_LENGTH           *)
(* characters; a shorter name ends with a NUL and is padded with NULs.     *)
SameName(s1, s2) ==
  LET At(s, k) == IF k <= Len(s) THEN s[k] ELSE "NUL" IN
  \A k \in 1 .. MAX_FILE_NAME_LENGTH : At(s1, k) = At(s2, k)

by_prefix_bug(fname) ==  \* a name that continues an entry's matches it
  {i \in 1 .. Len(directory_entries) :
     \A k \in 1 .. Smaller(Len(fname), Len(directory_entries[i].file_name)) :
       fname[k] = directory_entries[i].file_name[k]}

Matches(fname) ==
  {i \in 1 .. Len(directory_entries) :
     SameName(fname, directory_entries[i].file_name)}

(* i is the first entry that matches.                                      *)
read_dentry_by_name(fname, i) ==
  i \in Matches(fname) /\ \A j \in Matches(fname) : i <= j

LowestFree(fd) == fd \in Fds /\ Free(fd) /\ \A f \in Fds : Free(f) => fd <= f

syscall_open_bug(fname) ==  \* the position is left as it was
  \E fd \in Fds, i \in 1 .. Len(directory_entries) :
    LET dentry == directory_entries[i] IN
    /\ in_use /\ LowestFree(fd) /\ read_dentry_by_name(fname, i)
    /\ dentry.file_type <= FILE_FT
    /\ fa' = [fa EXCEPT ![fd].flags = TRUE, ![fd].inode = dentry.inode_num,
                        ![fd].fops = fops_table[dentry.file_type + 1]]
    /\ name' = [name EXCEPT ![fd] = fname]
    /\ got' = [got EXCEPT ![fd] = <<>>]
    /\ UNCHANGED <<in_use, root>>

(* An open that succeeds.  The others (no free descriptor, no such file,   *)
(* no such type) return -1 and change nothing.                             *)
syscall_open(fname) ==
  \E fd \in Fds, i \in 1 .. Len(directory_entries) :
    LET dentry == directory_entries[i] IN
    /\ in_use /\ LowestFree(fd) /\ read_dentry_by_name(fname, i)
    /\ dentry.file_type <= FILE_FT
    /\ fa' = [fa EXCEPT ![fd] = [flags |-> TRUE, inode |-> dentry.inode_num,
                                 fops |-> fops_table[dentry.file_type + 1],
                                 file_position |-> 0]]
    /\ name' = [name EXCEPT ![fd] = fname]
    /\ got' = [got EXCEPT ![fd] = <<>>]
    /\ UNCHANGED <<in_use, root>>

(* The descriptors close succeeds for: stdin and stdout define no close.   *)
Closes(fd) == fa[fd].flags /\ fa[fd].fops \in {"rtc", "dir", "file"}

syscall_close(fd) ==
  /\ in_use /\ Closes(fd)
  /\ fa' = [fa EXCEPT ![fd].flags = FALSE]
  /\ UNCHANGED <<in_use, root, name, got>>

read_data_bug(inode, offset, length) ==  \* capped, whatever the offset is
  IF offset >= file_length[inode] THEN 0 ELSE Smaller(length, file_length[inode])

(* The result of read_data (ReadData's ReturnsWhatIsLeft), or -1.          *)
read_data(inode, offset, length) ==
  CASE inode \notin DOMAIN file_length -> -1
    [] inode \in DOMAIN file_length /\ offset >= file_length[inode] -> 0
    [] OTHER -> Smaller(length, file_length[inode] - offset)

file_read(fd, nbytes) ==
  LET f == fa[fd]
      res == read_data(f.inode, f.file_position, nbytes)
  IN
  /\ f.fops = "file" /\ res >= 0
  /\ fa' = [fa EXCEPT ![fd].file_position = f.file_position + res]
  /\ got' = [got EXCEPT ![fd] =
       got[fd] \o [k \in 1 .. res |-> <<"file", f.inode, f.file_position + k - 1>>]]

(* One entry's name each time, however much of it fits in the buffer; at   *)
(* the end, 0 and no change.                                               *)
dir_read(fd, nbytes) ==
  LET f == fa[fd] IN
  /\ f.fops = "dir" /\ f.file_position < Len(directory_entries)
  /\ fa' = [fa EXCEPT ![fd].file_position = f.file_position + 1]
  /\ got' = [got EXCEPT ![fd] =
       Append(got[fd], <<"dir", f.inode, f.file_position>>)]

syscall_read(fd, nbytes) ==
  /\ in_use /\ fa[fd].flags
  /\ file_read(fd, nbytes) \/ dir_read(fd, nbytes)
  /\ UNCHANGED <<in_use, root, name>>

syscall_execute ==
  /\ ~in_use
  /\ in_use' = TRUE
  /\ fa' = open_stdin_and_stdout(fa)
  /\ UNCHANGED <<root, name, got>>

close_all_bug ==  \* the last descriptor is not closed
  [fd \in Fds |-> IF Closes(fd) /\ fd < MAX_FILE_DESCRIPTORS - 1
                    THEN [fa[fd] EXCEPT !.flags = FALSE] ELSE fa[fd]]

(* The file array after syscall_close of every descriptor.                 *)
CloseAll ==
  [fd \in Fds |-> IF Closes(fd) THEN [fa[fd] EXCEPT !.flags = FALSE] ELSE fa[fd]]

(* A root shell starts again at once; another slot becomes free.           *)
halt_program ==
  /\ in_use
  /\ in_use' = root
  /\ fa' = IF root THEN open_stdin_and_stdout(CloseAll) ELSE CloseAll
  /\ UNCHANGED <<root, name, got>>

Next ==
  \/ \E fname \in Names : syscall_open(fname)
  \/ \E fd \in Fds : syscall_close(fd)
  \/ \E fd \in Fds, nbytes \in Lengths : syscall_read(fd, nbytes)
  \/ syscall_execute
  \/ halt_program

Spec == Init /\ [][Next]_vars
-----------------------------------------------------------------------------
Inodes == {directory_entries[i].inode_num : i \in 1 .. Len(directory_entries)}

(* The file array keeps its shape, and no position passes the end of its   *)
(* file.                                                                   *)
TypeOK ==
  /\ in_use \in BOOLEAN /\ root \in BOOLEAN
  /\ fa \in [Fds -> [flags : BOOLEAN,
                     fops : {"NULL", "stdin", "stdout", "rtc", "dir", "file"},
                     inode : Inodes \cup {0}, file_position : Nat]]
  /\ \A fd \in Fds : ~Free(fd) /\ fa[fd].fops = "file" =>
       fa[fd].file_position <= file_length[fa[fd].inode]
  /\ DOMAIN name = Fds /\ DOMAIN got = Fds

(* A live process always has its keyboard and its screen on descriptors 0  *)
(* and 1: no sequence of calls closes or replaces them, in any process     *)
(* that the slot is used for.                                              *)
StandardStreams ==
  in_use => /\ fa[0].flags /\ fa[0].fops = "stdin"
            /\ fa[1].flags /\ fa[1].fops = "stdout"

(* No open file is inherited through the slot: a slot that is free has no  *)
(* descriptor above 1 in use, though the start of a process clears none.   *)
NothingInherited == ~in_use => \A fd \in Fds \ {0, 1} : Free(fd)

(* Reads through a descriptor return the bytes of a file, or the entries   *)
(* of the directory, from the first on, each once and in order, though the *)
(* descriptor was used for something else before.                          *)
ReadsInOrder ==
  \A fd \in Fds :
    ~Free(fd) /\ fa[fd].fops \in {"file", "dir"} =>
      /\ fa[fd].file_position = Len(got[fd])
      /\ \A k \in 1 .. Len(got[fd]) :
           got[fd][k] = <<fa[fd].fops, fa[fd].inode, k - 1>>

(* "test with string that matches filename with additional character"      *)
(* (syscalls/ece391syserr.c) expects open to fail: a descriptor stands for *)
(* the directory entry that has exactly the name it was opened with.       *)
OpensWhatWasNamed ==
  \A fd \in Fds \ {0, 1} :
    ~Free(fd) =>
      \E i \in 1 .. Len(directory_entries) :
        /\ directory_entries[i].file_name = name[fd]
        /\ directory_entries[i].inode_num = fa[fd].inode
        /\ fops_table[directory_entries[i].file_type + 1] = fa[fd].fops
=============================================================================
