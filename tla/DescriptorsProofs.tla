-------------------------- MODULE DescriptorsProofs --------------------------
(***************************************************************************)
(* The invariants of Descriptors, for any number of descriptors, any       *)
(* directory and any calls of the programs that use the slot, and what     *)
(* cat, ls and syserr (UserPrograms) rely on.                              *)
(***************************************************************************)
EXTENDS UserPrograms, SequenceTheorems, TLAPS

Kinds == {"NULL", "stdin", "stdout", "rtc", "dir", "file"}

(* An element of the file array.                                           *)
File == [flags : BOOLEAN, fops : Kinds, inode : Nat, file_position : Nat]

(* What can be read: a byte of a file or an entry of the directory.        *)
Element == {"file", "dir"} \X Nat \X Nat

(* The shape of the array and of the history.                              *)
Shape ==
  /\ in_use \in BOOLEAN /\ root \in BOOLEAN
  /\ fa \in [Fds -> File]
  /\ DOMAIN name = Fds
  /\ got \in [Fds -> Seq(Element)]

(* What is open above 1 has a close, so that halting closes all of it.     *)
OthersClosable == \A fd \in Fds \ {0, 1} : ~Free(fd) => Closes(fd)

(* No position is behind the end of its file.                              *)
PositionsInside ==
  \A fd \in Fds : ~Free(fd) =>
    /\ fa[fd].fops = "file" /\ fa[fd].inode \in DOMAIN file_length =>
         fa[fd].file_position <= file_length[fa[fd].inode]
    /\ fa[fd].fops = "dir" => fa[fd].file_position <= Len(directory_entries)

IInv ==
  /\ Shape /\ OthersClosable /\ PositionsInside
  /\ StandardStreams /\ NothingInherited /\ ReadsInOrder /\ OpensWhatWasNamed
-----------------------------------------------------------------------------
LEMMA FdFacts == Fds \subseteq Nat /\ 0 \in Fds /\ 1 \in Fds
BY DescriptorsAssumption DEF Fds

(* strncmp over the room for a name tells all names apart.                 *)
LEMMA SameNameIsEqual ==
  ASSUME NEW s1, NEW s2, IsName(s1), IsName(s2), SameName(s1, s2)
  PROVE  s1 = s2
<1>1. ASSUME NEW s, NEW r, IsName(s), IsName(r), SameName(s, r),
             Len(s) < Len(r)
      PROVE  FALSE
  <2>1. /\ Len(s) + 1 \in 1 .. MAX_FILE_NAME_LENGTH
        /\ Len(s) + 1 \in 1 .. Len(r)
        /\ ~(Len(s) + 1 <= Len(s))
    BY <1>1, DescriptorsAssumption DEF IsName
  <2>2. r[Len(s) + 1] = "NUL"
    BY <1>1, <2>1 DEF SameName
  <2> QED BY <1>1, <2>1, <2>2, Zenon DEF IsName
<1>2. SameName(s2, s1)
  BY Zenon DEF SameName
<1>3. Len(s1) = Len(s2)
  <2>1. Len(s1) \in Nat /\ Len(s2) \in Nat
    BY DescriptorsAssumption DEF IsName
  <2>2. ~(Len(s1) < Len(s2))
    BY <1>1, Zenon
  <2>3. ~(Len(s2) < Len(s1))
    BY <1>1, <1>2, Zenon
  <2> QED BY <2>1, <2>2, <2>3
<1>4. \A k \in 1 .. Len(s1) : s1[k] = s2[k]
  <2> TAKE k \in 1 .. Len(s1)
  <2>1. k \in 1 .. MAX_FILE_NAME_LENGTH /\ k <= Len(s1) /\ k <= Len(s2)
    BY <1>3, DescriptorsAssumption DEF IsName
  <2> QED BY <2>1, Zenon DEF SameName
<1> QED BY <1>3, <1>4, Zenon DEF IsName
-----------------------------------------------------------------------------
(* Starting a process touches only the first two descriptors, and halting  *)
(* one closes all others.                                                  *)
LEMMA StreamsOpened ==
  ASSUME NEW a, a \in [Fds -> File]
  PROVE  /\ open_stdin_and_stdout(a) \in [Fds -> File]
         /\ open_stdin_and_stdout(a)[0].flags
         /\ open_stdin_and_stdout(a)[0].fops = "stdin"
         /\ open_stdin_and_stdout(a)[1].flags
         /\ open_stdin_and_stdout(a)[1].fops = "stdout"
         /\ \A fd \in Fds \ {0, 1} : open_stdin_and_stdout(a)[fd] = a[fd]
<1> DEFINE Stream(fd) ==
             [a[fd] EXCEPT !.flags = TRUE, !.file_position = 0,
                           !.fops = IF fd = 0 THEN "stdin" ELSE "stdout"]
<1>1. ASSUME NEW fd \in Fds
      PROVE  /\ Stream(fd) \in File
             /\ Stream(fd).flags
             /\ Stream(fd).fops = IF fd = 0 THEN "stdin" ELSE "stdout"
  BY Zenon DEF File, Kinds
<1>2. open_stdin_and_stdout(a) =
        [fd \in Fds |-> IF fd \in {0, 1} THEN Stream(fd) ELSE a[fd]]
  BY Zenon DEF open_stdin_and_stdout
<1> HIDE DEF Stream
<1>3. open_stdin_and_stdout(a) \in [Fds -> File]
  BY <1>1, <1>2
<1>4. /\ open_stdin_and_stdout(a)[0] = Stream(0)
      /\ open_stdin_and_stdout(a)[1] = Stream(1)
      /\ \A fd \in Fds \ {0, 1} : open_stdin_and_stdout(a)[fd] = a[fd]
  BY <1>2, FdFacts, Zenon
<1> QED BY <1>1, <1>3, <1>4, FdFacts

LEMMA AllClosed ==
  ASSUME IInv
  PROVE  /\ CloseAll \in [Fds -> File]
         /\ \A fd \in Fds \ {0, 1} : ~CloseAll[fd].flags
         /\ \A fd \in Fds : CloseAll[fd].flags => CloseAll[fd] = fa[fd]
<1>1. \A fd \in Fds :
        /\ [fa[fd] EXCEPT !.flags = FALSE]
             \in File
        /\ [fa[fd] EXCEPT !.flags = FALSE].flags = FALSE
  BY Zenon DEF IInv, Shape, File
<1> QED BY <1>1, Zenon DEF IInv, Shape, CloseAll, OthersClosable, Free
-----------------------------------------------------------------------------
LEMMA InitIInv == Init => IInv
<1> SUFFICES ASSUME Init PROVE IInv
  BY Zenon
<1>1. /\ ZeroArray \in [Fds -> File]
      /\ \A fd \in Fds : ~ZeroArray[fd].flags /\ ZeroArray[fd].file_position = 0
  BY Zenon DEF ZeroArray, File, Kinds
<1>2. Shape
  BY <1>1, StreamsOpened DEF Init, Shape
<1>3. \A fd \in Fds \ {0, 1} : Free(fd)
  BY <1>1, StreamsOpened DEF Init, Free
<1>4. StandardStreams /\ \A fd \in {0, 1} : ~Free(fd) => fa[fd].fops \in {"stdin", "stdout"}
  BY <1>1, StreamsOpened, FdFacts DEF Init, Free, StandardStreams
<1> QED
  BY <1>2, <1>3, <1>4
 , Zenon DEF IInv, OthersClosable, NothingInherited, ReadsInOrder, OpensWhatWasNamed,
      PositionsInside

(* A step that changes only descriptors that are free afterwards, or that  *)
(* hold stdin and stdout, keeps what is said of open files.                *)
LEMMA OthersKept ==
  ASSUME IInv, UNCHANGED <<name, got>>,
         \A fd \in Fds : fa'[fd].flags =>
           \/ fa'[fd] = fa[fd]
           \/ fd \in {0, 1} /\ fa'[fd].fops \in {"stdin", "stdout"}
  PROVE  OthersClosable' /\ PositionsInside' /\ ReadsInOrder' /\ OpensWhatWasNamed'
<1>1. OthersClosable'
  BY Zenon DEF IInv, OthersClosable, Closes, Free
<1>2. ReadsInOrder'
  BY DEF IInv, ReadsInOrder, Free
<1>3. OpensWhatWasNamed'
  BY DEF IInv, OpensWhatWasNamed, Free
<1>4. PositionsInside'
  BY Zenon DEF IInv, PositionsInside, Free
<1> QED BY <1>1, <1>2, <1>3, <1>4, Zenon

LEMMA ExecuteKeeps == IInv /\ syscall_execute => IInv'
<1> SUFFICES ASSUME IInv, syscall_execute PROVE IInv'
  BY Zenon
<1> DEFINE a == open_stdin_and_stdout(fa)
<1>1. fa \in [Fds -> File]
  BY Zenon DEF IInv, Shape
<1>2. Shape' /\ StandardStreams' /\ NothingInherited'
  BY <1>1, StreamsOpened
 , Zenon DEF IInv, Shape, syscall_execute, StandardStreams, NothingInherited
<1>3. \A fd \in Fds : fa'[fd].flags =>
        \/ fa'[fd] = fa[fd]
        \/ fd \in {0, 1} /\ fa'[fd].fops \in {"stdin", "stdout"}
  BY <1>1, StreamsOpened DEF syscall_execute
<1>4. OthersClosable' /\ PositionsInside' /\ ReadsInOrder' /\ OpensWhatWasNamed'
  BY <1>3, OthersKept, Zenon DEF syscall_execute
<1> QED BY <1>2, <1>4, Zenon DEF IInv

LEMMA HaltKeeps == IInv /\ halt_program => IInv'
<1> SUFFICES ASSUME IInv, halt_program PROVE IInv'
  OBVIOUS
<1>1. Shape' /\ StandardStreams'
  BY AllClosed, StreamsOpened, Zenon DEF IInv, Shape, halt_program, StandardStreams
<1>2. \A fd \in Fds \ {0, 1} : ~fa'[fd].flags
  BY AllClosed, StreamsOpened DEF halt_program
<1>3. \A fd \in Fds : fa'[fd].flags =>
        \/ fa'[fd] = fa[fd]
        \/ fd \in {0, 1} /\ fa'[fd].fops \in {"stdin", "stdout"}
  BY <1>2, AllClosed, StreamsOpened DEF halt_program
<1>4. OthersClosable' /\ PositionsInside' /\ ReadsInOrder' /\ OpensWhatWasNamed'
  BY <1>3, OthersKept, Zenon DEF halt_program
<1> QED BY <1>1, <1>2, <1>4, Zenon DEF IInv, NothingInherited, Free

LEMMA CloseKeeps == \A fd \in Fds : IInv /\ syscall_close(fd) => IInv'
<1> SUFFICES ASSUME NEW d \in Fds, IInv, syscall_close(d) PROVE IInv'
  BY Zenon
<1>1. /\ [fa[d] EXCEPT !.flags = FALSE] \in File
      /\ ~[fa[d] EXCEPT !.flags = FALSE].flags
  BY Zenon DEF IInv, Shape, File
<1>2. fa' = [fa EXCEPT ![d] = [fa[d] EXCEPT !.flags = FALSE]]
  BY Zenon DEF syscall_close
<1>3. Shape'
  BY <1>1, <1>2, Zenon DEF IInv, Shape, syscall_close
<1>4. d \notin {0, 1}
  BY Zenon DEF IInv, syscall_close, StandardStreams, Closes
<1>5. StandardStreams' /\ NothingInherited'
  BY <1>2, <1>4, FdFacts
 , Zenon DEF IInv, Shape, syscall_close, StandardStreams, NothingInherited
<1>6. \A fd \in Fds : fa'[fd].flags => fa'[fd] = fa[fd]
  BY <1>1, <1>2, Zenon DEF IInv, Shape
<1>7. OthersClosable' /\ PositionsInside' /\ ReadsInOrder' /\ OpensWhatWasNamed'
  BY <1>6, OthersKept, Zenon DEF syscall_close
<1> QED BY <1>3, <1>5, <1>7, Zenon DEF IInv

LEMMA SmallType == \A n \in Nat : n <= 2 => n \in {0, 1, 2}
OBVIOUS

LEMMA OpenKeeps ==
  ASSUME NEW fname, IsName(fname), IInv, syscall_open(fname)
  PROVE  IInv'
<1>1. PICK d \in Fds, i \in 1 .. Len(directory_entries) :
        /\ in_use /\ LowestFree(d) /\ read_dentry_by_name(fname, i)
        /\ directory_entries[i].file_type <= FILE_FT
        /\ fa' = [fa EXCEPT ![d] =
             [flags |-> TRUE, inode |-> directory_entries[i].inode_num,
              fops |-> fops_table[directory_entries[i].file_type + 1],
              file_position |-> 0]]
        /\ name' = [name EXCEPT ![d] = fname]
        /\ got' = [got EXCEPT ![d] = <<>>]
        /\ UNCHANGED <<in_use, root>>
  BY Zenon DEF syscall_open
<1> DEFINE f == [flags |-> TRUE, inode |-> directory_entries[i].inode_num,
                 fops |-> fops_table[directory_entries[i].file_type + 1],
                 file_position |-> 0]
<1>2. f.fops \in {"rtc", "dir", "file"} /\ f \in File
  <2>1. directory_entries[i].file_type \in {0, 1, 2}
    <3>1. directory_entries[i].file_type \in Nat
      BY <1>1, DirectoryAssumption, Zenon
    <3>2. directory_entries[i].file_type <= 2
      BY <1>1, Zenon DEF FILE_FT
    <3> QED BY <3>1, <3>2, SmallType, Zenon
  <2>2. f.fops \in {"rtc", "dir", "file"}
    BY <2>1 DEF fops_table
  <2> QED BY <2>2, DirectoryAssumption, Zenon DEF File, Kinds
<1>3. fa'[d] = f /\ name'[d] = fname /\ got'[d] = <<>>
  BY <1>1, Zenon DEF IInv, Shape
<1>4. \A fd \in Fds \ {d} :
        fa'[fd] = fa[fd] /\ name'[fd] = name[fd] /\ got'[fd] = got[fd]
  BY <1>1, Zenon DEF IInv, Shape
<1>5. d \notin {0, 1}
  BY <1>1, Zenon DEF IInv, StandardStreams, LowestFree, Free
<1>6. directory_entries[i].file_name = fname
  BY <1>1, SameNameIsEqual, DirectoryAssumption, Zenon DEF read_dentry_by_name, Matches
<1>7. Shape'
  <2>1. got' \in [Fds -> Seq(Element)]
    BY <1>1 DEF IInv, Shape
  <2> QED BY <1>1, <1>2, <2>1, Zenon DEF IInv, Shape
<1>8. f.flags /\ f.file_position = 0 /\ f.inode = directory_entries[i].inode_num
      /\ f.fops = fops_table[directory_entries[i].file_type + 1]
  BY Zenon
<1> HIDE DEF f
<1>9. OthersClosable'
  BY <1>2, <1>3, <1>4, Zenon DEF IInv, OthersClosable, Closes, Free
<1>10. StandardStreams' /\ NothingInherited'
  BY <1>1, <1>4, <1>5, FdFacts, Zenon DEF IInv, StandardStreams, NothingInherited
<1>11. ReadsInOrder'
  <2>1. fa'[d].file_position = Len(got'[d]) /\ 1 .. Len(got'[d]) = {}
    <3>1. Len(<<>>) = 0 /\ 1 .. 0 = {}
      OBVIOUS
    <3> QED BY <1>3, <1>8, <3>1, Zenon
  <2>2. ASSUME NEW fd \in Fds \ {d}, ~Free(fd)', fa'[fd].fops \in {"file", "dir"}
        PROVE  /\ fa'[fd].file_position = Len(got'[fd])
               /\ \A k \in 1 .. Len(got'[fd]) :
                    got'[fd][k] = <<fa'[fd].fops, fa'[fd].inode, k - 1>>
    <3>1. fa'[fd] = fa[fd] /\ got'[fd] = got[fd]
      BY <1>4, Zenon
    <3>2. ~Free(fd)
      BY <2>2, <3>1, Zenon DEF Free
    <3> QED BY <2>2, <3>1, <3>2, Zenon DEF IInv, ReadsInOrder
  <2> QED BY <2>1, <2>2, Zenon DEF ReadsInOrder
<1>12. OpensWhatWasNamed'
  BY <1>3, <1>4, <1>6, <1>8 DEF IInv, OpensWhatWasNamed, Free
<1>13. PositionsInside'
  <2>1. /\ f.inode \in DOMAIN file_length => 0 <= file_length[f.inode]
        /\ 0 <= Len(directory_entries)
    BY DescriptorsAssumption, DirectoryAssumption
  <2> QED BY <1>3, <1>4, <1>8, <2>1 DEF IInv, PositionsInside, Free
<1> QED BY <1>7, <1>9, <1>10, <1>11, <1>12, <1>13, Zenon DEF IInv
-----------------------------------------------------------------------------
(* Facts on records and sequences that reading needs.                      *)
LEMMA PositionMoved ==
  ASSUME NEW f \in File, NEW n \in Nat
  PROVE  LET g == [f EXCEPT !.file_position = f.file_position + n] IN
         /\ g \in File /\ g.flags = f.flags
         /\ g.fops = f.fops /\ g.inode = f.inode
         /\ g.file_position = f.file_position + n
BY DEF File

LEMMA Continued ==
  ASSUME NEW s \in Seq(Element), NEW n \in Nat, NEW m \in [1 .. n -> Element]
  PROVE  /\ s \o m \in Seq(Element) /\ Len(s) \in Nat
         /\ Len(s \o m) = Len(s) + n
         /\ \A k \in 1 .. Len(s) : (s \o m)[k] = s[k]
         /\ \A k \in 1 .. n : (s \o m)[Len(s) + k] = m[k]
<1>1. m \in Seq(Element) /\ Len(m) = n
  OBVIOUS
<1>2. Len(s) \in Nat
  BY LenProperties, Zenon
<1>3. /\ s \o m \in Seq(Element)
      /\ Len(s \o m) = Len(s) + n
      /\ \A i \in 1 .. Len(s) + n :
           (s \o m)[i] = IF i <= Len(s) THEN s[i] ELSE m[i - Len(s)]
  BY <1>1, ConcatProperties, Zenon
<1>4. \A k \in 1 .. Len(s) : (s \o m)[k] = s[k]
  BY <1>2, <1>3
<1>5. ASSUME NEW k \in 1 .. n PROVE (s \o m)[Len(s) + k] = m[k]
  <2>1. /\ Len(s) + k \in 1 .. Len(s) + n /\ ~(Len(s) + k <= Len(s))
        /\ Len(s) + k - Len(s) = k
    BY <1>2
  <2> QED BY <1>3, <2>1
<1> QED BY <1>2, <1>3, <1>4, <1>5, Zenon

LEMMA InOrderToo ==
  ASSUME NEW g, NEW l \in Nat, NEW n \in Nat, NEW kind, NEW inode,
         \A k \in 1 .. l : g[k] = <<kind, inode, k - 1>>,
         \A k \in 1 .. n : g[l + k] = <<kind, inode, l + k - 1>>
  PROVE  \A k \in 1 .. l + n : g[k] = <<kind, inode, k - 1>>
<1> TAKE k \in 1 .. l + n
<1>1. CASE k <= l
  BY <1>1
<1>2. CASE k > l
  <2> DEFINE i == k - l
  <2>1. i \in 1 .. n /\ k = l + i
    BY <1>2
  <2> HIDE DEF i
  <2>2. g[l + i] = <<kind, inode, l + i - 1>>
    BY <2>1, Zenon
  <2> QED BY <2>1, <2>2
<1> QED BY <1>1, <1>2

(* Reading: the position moves on by n, and what was read is continued by  *)
(* the n elements at the positions passed.                                 *)
LEMMA ReadOn ==
  ASSUME IInv, NEW d \in Fds, NEW n \in Nat, NEW g \in Seq(Element),
         in_use, fa[d].flags, fa[d].fops \in {"file", "dir"},
         Len(g) = Len(got[d]) + n,
         \A k \in 1 .. Len(got[d]) : g[k] = got[d][k],
         \A k \in 1 .. n : g[Len(got[d]) + k] =
           <<fa[d].fops, fa[d].inode, fa[d].file_position + k - 1>>,
         fa' = [fa EXCEPT ![d].file_position = fa[d].file_position + n],
         got' = [got EXCEPT ![d] = g],
         fa[d].fops = "file" /\ fa[d].inode \in DOMAIN file_length =>
           fa[d].file_position + n <= file_length[fa[d].inode],
         fa[d].fops = "dir" => fa[d].file_position + n <= Len(directory_entries),
         UNCHANGED <<in_use, root, name>>
  PROVE  IInv'
<1> DEFINE f == [fa[d] EXCEPT !.file_position = fa[d].file_position + n]
<1>1. /\ f \in File /\ f.flags = fa[d].flags
      /\ f.fops = fa[d].fops /\ f.inode = fa[d].inode
      /\ f.file_position = fa[d].file_position + n
  <2>1. fa[d] \in File
    BY Zenon DEF IInv, Shape
  <2> QED BY <2>1, PositionMoved, Zenon
<1>2. Len(got[d]) \in Nat
  BY LenProperties, Zenon DEF IInv, Shape
<1>3. /\ fa' = [fa EXCEPT ![d] = f] /\ fa'[d] = f /\ got'[d] = g
      /\ \A fd \in Fds \ {d} : fa'[fd] = fa[fd] /\ got'[fd] = got[fd]
  BY Zenon DEF IInv, Shape
<1> HIDE DEF f
<1>4. Shape'
  BY <1>1, <1>3, Zenon DEF IInv, Shape
<1>5. /\ fa[d].file_position = Len(got[d])
      /\ \A k \in 1 .. Len(got[d]) : got[d][k] = <<fa[d].fops, fa[d].inode, k - 1>>
  BY Zenon DEF IInv, ReadsInOrder, Free
<1>6. \A k \in 1 .. Len(g) : g[k] = <<fa[d].fops, fa[d].inode, k - 1>>
  <2> DEFINE l == Len(got[d])
             kind == fa[d].fops
             inode == fa[d].inode
  <2>1. l \in Nat /\ Len(g) = l + n
    BY <1>2, Zenon
  <2>2. \A k \in 1 .. l : g[k] = <<kind, inode, k - 1>>
    BY <1>5, Zenon
  <2>3. \A k \in 1 .. n : g[l + k] = <<kind, inode, l + k - 1>>
    BY <1>5, Zenon
  <2> HIDE DEF l, kind, inode
  <2>4. \A k \in 1 .. l + n : g[k] = <<kind, inode, k - 1>>
    BY <2>1, <2>2, <2>3, InOrderToo, Zenon
  <2> QED BY <2>1, <2>4, Zenon DEF kind, inode
<1>7. ReadsInOrder'
  <2>1. fa'[d].file_position = Len(g)
    BY <1>1, <1>3, <1>5, Zenon
  <2>2. ASSUME NEW fd \in Fds, ~Free(fd)', fa'[fd].fops \in {"file", "dir"}
        PROVE  /\ fa'[fd].file_position = Len(got'[fd])
               /\ \A k \in 1 .. Len(got'[fd]) :
                    got'[fd][k] = <<fa'[fd].fops, fa'[fd].inode, k - 1>>
    <3>1. CASE fd = d
      <4>1. fa'[d].fops = fa[d].fops /\ fa'[d].inode = fa[d].inode
        BY <1>1, <1>3, Zenon
      <4>2. got'[d] = g
        BY <1>3, Zenon
      <4> QED BY <1>6, <2>1, <3>1, <4>1, <4>2
    <3>2. CASE fd # d
      BY <1>3, <2>2, <3>2 DEF IInv, ReadsInOrder, Free
    <3> QED BY <3>1, <3>2, Zenon
  <2> QED BY <2>2, Zenon DEF ReadsInOrder
<1>8. \A fd \in Fds : /\ fa'[fd].flags = fa[fd].flags
                      /\ fa'[fd].fops = fa[fd].fops
                      /\ fa'[fd].inode = fa[fd].inode
  BY <1>1, <1>3
<1>9. OthersClosable' /\ StandardStreams' /\ NothingInherited'
  BY <1>8, FdFacts
  DEF IInv, OthersClosable, StandardStreams, NothingInherited, Closes, Free
<1>10. OpensWhatWasNamed'
  BY <1>8 DEF IInv, OpensWhatWasNamed, Free
<1>11. PositionsInside'
  BY <1>1, <1>3, <1>8 DEF IInv, PositionsInside, Free
<1> QED BY <1>4, <1>7, <1>9, <1>10, <1>11, Zenon DEF IInv

(* What read_data returns: a file that exists is read to its end at most,  *)
(* and nothing is returned only at the end.                                *)
LEMMA ReadDataFacts ==
  ASSUME NEW i, NEW o \in Nat, NEW n \in Nat, read_data(i, o, n) >= 0
  PROVE  /\ i \in DOMAIN file_length /\ file_length[i] \in Nat
         /\ read_data(i, o, n) \in Nat
         /\ o <= file_length[i] => o + read_data(i, o, n) <= file_length[i]
         /\ read_data(i, o, n) = 0 /\ n # 0 => o >= file_length[i]
<1>1. i \in DOMAIN file_length
  <2>1. ~(-1 >= 0)
    OBVIOUS
  <2> QED BY <2>1, Zenon DEF read_data
<1>2. file_length[i] \in Nat
  BY <1>1, DescriptorsAssumption, Zenon
<1>3. /\ o >= file_length[i] => read_data(i, o, n) = 0
      /\ ~(o >= file_length[i]) =>
           \/ n < file_length[i] - o /\ read_data(i, o, n) = n
           \/ ~(n < file_length[i] - o)
              /\ read_data(i, o, n) = file_length[i] - o
  BY <1>1, Zenon DEF read_data, Smaller
<1> DEFINE l == file_length[i]
           r == read_data(i, o, n)
<1> HIDE DEF l, r
<1>4. /\ l \in Nat /\ o >= l => r = 0
      /\ ~(o >= l) => \/ n < l - o /\ r = n
                      \/ ~(n < l - o) /\ r = l - o
  BY <1>2, <1>3, Zenon DEF l, r
<1>5. r \in Nat /\ (o <= l => o + r <= l) /\ (r = 0 /\ n # 0 => o >= l)
  BY <1>2, <1>4 DEF l
<1> QED BY <1>1, <1>2, <1>5, Zenon DEF l, r

LEMMA FileReadKeeps ==
  ASSUME IInv, NEW d \in Fds, NEW nbytes \in Nat,
         in_use, fa[d].flags, file_read(d, nbytes),
         UNCHANGED <<in_use, root, name>>
  PROVE  IInv'
<1> DEFINE res == read_data(fa[d].inode, fa[d].file_position, nbytes)
           more == [k \in 1 .. res |->
                      <<"file", fa[d].inode, fa[d].file_position + k - 1>>]
<1>1. /\ fa[d].fops = "file" /\ res >= 0
      /\ fa' = [fa EXCEPT ![d].file_position = fa[d].file_position + res]
      /\ got' = [got EXCEPT ![d] = got[d] \o more]
  BY Zenon DEF file_read
<1>2. fa[d].file_position \in Nat /\ fa[d].inode \in Nat /\ got[d] \in Seq(Element)
  BY Zenon DEF IInv, Shape, File
<1>4. /\ res \in Nat
      /\ fa[d].file_position <= file_length[fa[d].inode] =>
           fa[d].file_position + res <= file_length[fa[d].inode]
  BY <1>1, <1>2, ReadDataFacts, Zenon
<1> HIDE DEF res
<1>5. ASSUME NEW k \in 1 .. res
      PROVE  <<"file", fa[d].inode, fa[d].file_position + k - 1>> \in Element
  <2>1. fa[d].file_position + k - 1 \in Nat
    BY <1>2, <1>4
  <2> QED BY <1>2, <2>1, Zenon DEF Element
<1>6. /\ more \in [1 .. res -> Element]
      /\ \A k \in 1 .. res :
           more[k] = <<"file", fa[d].inode, fa[d].file_position + k - 1>>
  BY <1>4, <1>5, Zenon
<1> HIDE DEF more
<1>7. /\ got[d] \o more \in Seq(Element)
      /\ Len(got[d] \o more) = Len(got[d]) + res
      /\ \A k \in 1 .. Len(got[d]) : (got[d] \o more)[k] = got[d][k]
      /\ \A k \in 1 .. res : (got[d] \o more)[Len(got[d]) + k] = more[k]
  BY <1>2, <1>4, <1>6, Continued
<1>8. \A k \in 1 .. res : (got[d] \o more)[Len(got[d]) + k] =
        <<fa[d].fops, fa[d].inode, fa[d].file_position + k - 1>>
  BY <1>1, <1>6, <1>7, Zenon
<1>9. fa[d].fops \in {"file", "dir"} /\ fa[d].fops # "dir"
  BY <1>1, Zenon
<1>10. fa[d].inode \in DOMAIN file_length =>
         fa[d].file_position + res <= file_length[fa[d].inode]
  BY <1>1, <1>4, Zenon DEF IInv, PositionsInside, Free
<1> QED BY <1>1, <1>4, <1>7, <1>8, <1>9, <1>10, ReadOn, Zenon

LEMMA DirReadKeeps ==
  ASSUME IInv, NEW d \in Fds, NEW nbytes \in Nat,
         in_use, fa[d].flags, dir_read(d, nbytes),
         UNCHANGED <<in_use, root, name>>
  PROVE  IInv'
<1> DEFINE e == <<"dir", fa[d].inode, fa[d].file_position>>
<1>1. /\ fa[d].fops = "dir"
      /\ fa' = [fa EXCEPT ![d].file_position = fa[d].file_position + 1]
      /\ got' = [got EXCEPT ![d] = Append(got[d], e)]
  BY Zenon DEF dir_read
<1>2. fa[d].file_position \in Nat /\ fa[d].inode \in Nat /\ got[d] \in Seq(Element)
  BY DEF IInv, Shape, File
<1>3. e \in Element
  BY <1>2, Zenon DEF Element
<1>4. e = <<fa[d].fops, fa[d].inode, fa[d].file_position + 1 - 1>>
  BY <1>1, <1>2
<1> HIDE DEF e
<1>5. /\ Append(got[d], e) \in Seq(Element)
      /\ Len(Append(got[d], e)) = Len(got[d]) + 1
      /\ \A i \in 1 .. Len(got[d]) : Append(got[d], e)[i] = got[d][i]
      /\ Append(got[d], e)[Len(got[d]) + 1] = e
  BY <1>2, <1>3, AppendProperties
<1>6. \A k \in 1 .. 1 : Append(got[d], e)[Len(got[d]) + k] =
        <<fa[d].fops, fa[d].inode, fa[d].file_position + k - 1>>
  BY <1>4, <1>5
<1>7. fa[d].file_position + 1 <= Len(directory_entries)
  BY <1>2, DirectoryAssumption DEF dir_read
<1> QED BY <1>1, <1>5, <1>6, <1>7, ReadOn, ZenonT(30)

LEMMA ReadKeeps ==
  \A fd \in Fds, nbytes \in Nat : IInv /\ syscall_read(fd, nbytes) => IInv'
BY FileReadKeeps, DirReadKeeps, Zenon DEF syscall_read
-----------------------------------------------------------------------------
LEMMA StutterKeeps == IInv /\ UNCHANGED vars => IInv'
BY DEF vars, IInv, Shape, OthersClosable, PositionsInside, StandardStreams,
       NothingInherited, ReadsInOrder, OpensWhatWasNamed, Free, Closes

LEMMA NextKeeps == IInv /\ [Next]_vars => IInv'
<1> SUFFICES ASSUME IInv, [Next]_vars PROVE IInv'
  BY Zenon
<1>1. CASE UNCHANGED vars
  BY <1>1, StutterKeeps, Zenon
<1>2. CASE Next
  BY <1>2, DescriptorsAssumption, DirectoryAssumption, OpenKeeps, CloseKeeps,
     ReadKeeps, ExecuteKeeps, HaltKeeps, Zenon DEF Next
<1> QED BY <1>1, <1>2, Zenon

LEMMA Invariance == Spec => []IInv
BY InitIInv, NextKeeps, PTL DEF Spec

(* Whatever calls the programs make, one after another in the same slot,   *)
(* reads through a descriptor return a file or the directory from its      *)
(* start, in order: open resets the position (syscall_open).               *)
THEOREM InOrder == Spec => []ReadsInOrder
<1>1. IInv => ReadsInOrder
  BY Zenon DEF IInv
<1> QED BY <1>1, Invariance, PTL

(* A descriptor stands for the directory entry with exactly the name that  *)
(* was given: no prefix and no continuation of it (read_dentry_by_name).   *)
THEOREM RightFile == Spec => []OpensWhatWasNamed
<1>1. IInv => OpensWhatWasNamed
  BY Zenon DEF IInv
<1> QED BY <1>1, Invariance, PTL

(* A live process has its keyboard and screen on descriptors 0 and 1, and  *)
(* starts with nothing else open, though starting it clears no descriptor  *)
(* of the process before (halt_program closes them).                       *)
THEOREM CleanStart == Spec => [](StandardStreams /\ NothingInherited)
<1>1. IInv => StandardStreams /\ NothingInherited
  BY Zenon DEF IInv
<1> QED BY <1>1, Invariance, PTL

-----------------------------------------------------------------------------
(* The user programs.                                                      *)
(* What cat or ls has written is what it has read.                         *)
CopyInv ==
  /\ copier \in {"none", "open", "read", "eof"}
  /\ copier # "none" => in_use /\ test = <<>>
  /\ copier \in {"read", "eof"} =>
       /\ cfd \in Fds \ {0, 1} /\ ~Free(cfd)
       /\ out = IF fa[cfd].fops = "rtc" THEN <<>> ELSE got[cfd]
  /\ copier = "eof" => syscall_read_returns_0(cfd, BUFSIZE)

(* Between its tests syserr has nothing open; err_open_lots first opens    *)
(* the descriptors from 2 on and then closes them in the same order.       *)
NoneOpen == \A fd \in Fds \ {0, 1} : Free(fd)
LotsOpened(n) == \A fd \in Fds \ {0, 1} : Free(fd) <=> fd >= 2 + n
LotsClosed(n) == \A fd \in Fds \ {0, 1} : Free(fd) <=> fd < 2 + n
LotsInv ==
  IF pos <= MAX_FILE_DESCRIPTORS - 2
    THEN cnt = 0 /\ LotsOpened(pos)
    ELSE cnt = 1 /\ LotsClosed(pos - (MAX_FILE_DESCRIPTORS - 1))

ErrInv ==
  /\ fail = FALSE
  /\ test \in Seq(1 .. 8)
  /\ test # <<>> =>
       /\ in_use /\ copier = "none"
       /\ pos \in 0 .. Len(Tests[Head(test)])
       /\ IF Head(test) = LOTS THEN LotsInv ELSE NoneOpen /\ cnt = 0

UserInv == IInv /\ CopyInv /\ ErrInv

-----------------------------------------------------------------------------
(* An open that succeeds takes the lowest free descriptor.                 *)
LEMMA OneLowest ==
  ASSUME NEW d \in Fds, LowestFree(d)
  PROVE  (CHOOSE fd \in Fds : LowestFree(fd)) = d
<1>1. \A fd \in Fds : LowestFree(fd) => fd = d
  BY FdFacts DEF LowestFree
<1> QED BY <1>1, Zenon

LEMMA OpensOne ==
  ASSUME IInv, NEW fname, syscall_open(fname)
  PROVE  \E d \in Fds \ {0, 1} :
           /\ LowestFree(d) /\ fa'[d].flags /\ got'[d] = <<>>
           /\ \A fd \in Fds \ {d} : fa'[fd] = fa[fd]
<1>1. PICK d \in Fds, i \in 1 .. Len(directory_entries) :
        /\ in_use /\ LowestFree(d)
        /\ fa' = [fa EXCEPT ![d] =
             [flags |-> TRUE, inode |-> directory_entries[i].inode_num,
              fops |-> fops_table[directory_entries[i].file_type + 1],
              file_position |-> 0]]
        /\ got' = [got EXCEPT ![d] = <<>>]
  BY Zenon DEF syscall_open
<1>2. d \notin {0, 1}
  BY <1>1, Zenon DEF IInv, StandardStreams, LowestFree, Free
<1>3. fa'[d].flags /\ got'[d] = <<>> /\ \A fd \in Fds \ {d} : fa'[fd] = fa[fd]
  BY <1>1, Zenon DEF IInv, Shape
<1> QED BY <1>1, <1>2, <1>3, Zenon

(* A read through d appends to what was read.                              *)
LEMMA ReadAppends ==
  ASSUME IInv, NEW d \in Fds, NEW n \in Nat, syscall_read(d, n)
  PROVE  /\ fa'[d].flags /\ fa'[d].fops = fa[d].fops /\ fa[d].fops \in {"file", "dir"}
         /\ got[d] \in Seq(Element)
         /\ \E more \in Seq(Element) : got'[d] = got[d] \o more
<1>1. /\ fa[d] \in File /\ fa \in [Fds -> File] /\ got[d] \in Seq(Element)
      /\ fa[d].flags /\ got \in [Fds -> Seq(Element)]
  BY Zenon DEF IInv, Shape, syscall_read
<1>2. CASE file_read(d, n)
  <2> DEFINE res == read_data(fa[d].inode, fa[d].file_position, n)
             more == [k \in 1 .. res |->
                        <<"file", fa[d].inode, fa[d].file_position + k - 1>>]
  <2>1. /\ fa[d].fops = "file" /\ res >= 0
        /\ fa' = [fa EXCEPT ![d].file_position = fa[d].file_position + res]
        /\ got' = [got EXCEPT ![d] = got[d] \o more]
    BY <1>2, Zenon DEF file_read
  <2>2. fa[d].file_position \in Nat /\ fa[d].inode \in Nat
    BY <1>1, ZenonT(30) DEF File
  <2>3. res \in Nat
    BY <2>1, <2>2, ReadDataFacts, Zenon
  <2> HIDE DEF res
  <2>4. more \in Seq(Element)
    <3>1. ASSUME NEW k \in 1 .. res
          PROVE  <<"file", fa[d].inode, fa[d].file_position + k - 1>> \in Element
      <4>1. fa[d].file_position + k - 1 \in Nat
        BY <2>2, <2>3
      <4> QED BY <2>2, <4>1, Zenon DEF Element
    <3> QED BY <2>3, <3>1
  <2>5. fa'[d] = [fa[d] EXCEPT !.file_position = fa[d].file_position + res]
    BY <1>1, <2>1, Zenon
  <2>6. fa'[d].flags /\ fa'[d].fops = fa[d].fops
    BY <1>1, <2>5 DEF File
  <2> HIDE DEF more
  <2> QED BY <1>1, <2>1, <2>4, <2>6, Zenon
<1>3. CASE dir_read(d, n)
  <2> DEFINE e == <<"dir", fa[d].inode, fa[d].file_position>>
  <2>1. /\ fa[d].fops = "dir"
        /\ fa' = [fa EXCEPT ![d].file_position = fa[d].file_position + 1]
        /\ got' = [got EXCEPT ![d] = Append(got[d], e)]
    BY <1>3, Zenon DEF dir_read
  <2>2. fa[d].file_position \in Nat /\ fa[d].inode \in Nat
    BY <1>1 DEF File
  <2>3. e \in Element
    BY <2>2, Zenon DEF Element
  <2> HIDE DEF e
  <2>4. Append(got[d], e) = got[d] \o <<e>> /\ <<e>> \in Seq(Element)
    BY <1>1, <2>3
  <2>5. fa'[d] = [fa[d] EXCEPT !.file_position = fa[d].file_position + 1]
    BY <1>1, <2>1, Zenon
  <2>6. fa'[d].flags /\ fa'[d].fops = fa[d].fops
    BY <1>1, <2>5 DEF File
  <2> QED BY <1>1, <2>1, <2>4, <2>6, Zenon
<1> QED BY <1>2, <1>3, Zenon DEF syscall_read

(* What follows a prefix is the rest.                                      *)
LEMMA RestOf ==
  ASSUME NEW s \in Seq(Element), NEW m \in Seq(Element)
  PROVE  SubSeq(s \o m, Len(s) + 1, Len(s \o m)) = m
<1> DEFINE u == s \o m
           v == SubSeq(u, Len(s) + 1, Len(u))
<1>1. /\ u \in Seq(Element) /\ Len(u) = Len(s) + Len(m)
      /\ \A i \in 1 .. Len(s) + Len(m) : u[i] = IF i <= Len(s) THEN s[i] ELSE m[i - Len(s)]
  BY ConcatProperties, Zenon
<1>2. Len(s) \in Nat /\ Len(m) \in Nat
  BY LenProperties, Zenon
<1> HIDE DEF u
<1>3. /\ v \in Seq(Element) /\ Len(v) = Len(m)
      /\ \A i \in 1 .. Len(m) : v[i] = u[Len(s) + i]
  <2>1. v = [i \in 1 .. (Len(u) - (Len(s) + 1) + 1) |-> u[i + (Len(s) + 1) - 1]]
    BY <1>1, <1>2
  <2> QED BY <1>1, <1>2, <2>1
<1>4. ASSUME NEW i \in 1 .. Len(m) PROVE v[i] = m[i]
  <2>1. Len(s) + i \in 1 .. Len(s) + Len(m) /\ ~(Len(s) + i <= Len(s)) /\ (Len(s) + i) - Len(s) = i
    BY <1>2
  <2>2. u[Len(s) + i] = m[Len(s) + i - Len(s)]
    BY <1>1, <2>1
  <2> QED BY <1>3, <2>1, <2>2
<1> HIDE DEF v
<1>5. v = m
  BY <1>3, <1>4, SeqEqual, Zenon
<1> QED BY <1>5, Zenon DEF u, v

-----------------------------------------------------------------------------
(* cat and ls.                                                             *)
LEMMA CopyOpensKeeps ==
  ASSUME UserInv, NEW fname \in Names, copy_opens(fname)
  PROVE  UserInv'
<1>1. IInv /\ in_use /\ test = <<>> /\ copier = "open" /\ IsName(fname)
  BY DirectoryAssumption, Zenon DEF UserInv, CopyInv, copy_opens
<1>2. ErrInv'
  BY <1>1, Zenon DEF UserInv, ErrInv, copy_opens, errVars
<1>3. CASE open_succeeds(fname)
  <2>1. /\ syscall_open(fname) /\ copier' = "read" /\ out' = <<>>
        /\ cfd' = (CHOOSE fd \in Fds : LowestFree(fd)) /\ UNCHANGED test
    BY <1>3, Zenon DEF copy_opens, errVars
  <2>2. PICK d \in Fds \ {0, 1} :
          LowestFree(d) /\ fa'[d].flags /\ got'[d] = <<>>
    BY <1>1, <2>1, OpensOne, Zenon
  <2>3. cfd' = d
    BY <2>1, <2>2, OneLowest, Zenon
  <2>4. in_use'
    BY <1>1, <2>1, Zenon DEF syscall_open
  <2>5. CopyInv'
    BY <1>1, <2>1, <2>2, <2>3, <2>4, Zenon DEF CopyInv, Free
  <2> QED BY <1>1, <1>2, <2>1, <2>5, OpenKeeps, Zenon DEF UserInv
<1>4. CASE ~open_succeeds(fname)
  <2>1. halt_program /\ copier' = "none"
    BY <1>4, Zenon DEF copy_opens
  <2>2. CopyInv'
    BY <2>1, Zenon DEF CopyInv
  <2> QED BY <1>1, <1>2, <2>1, <2>2, HaltKeeps, Zenon DEF UserInv
<1> QED BY <1>3, <1>4, Zenon

LEMMA CopyReadsKeeps ==
  ASSUME UserInv, copy_reads
  PROVE  UserInv'
<1>1. /\ IInv /\ in_use /\ test = <<>> /\ copier = "read"
      /\ cfd \in Fds \ {0, 1} /\ ~Free(cfd) /\ UNCHANGED <<cfd, test, pos, cnt, fail>>
      /\ out = IF fa[cfd].fops = "rtc" THEN <<>> ELSE got[cfd]
  BY Zenon DEF UserInv, CopyInv, copy_reads, errVars
<1>2. ErrInv'
  BY <1>1, Zenon DEF UserInv, ErrInv
<1>3. CASE syscall_read_returns_0(cfd, BUFSIZE)
  <2>1. copier' = "eof" /\ UNCHANGED vars /\ UNCHANGED out
    BY <1>3, Zenon DEF copy_reads
  <2>2. syscall_read_returns_0(cfd, BUFSIZE)'
    BY <1>1, <1>3, <2>1, Zenon DEF syscall_read_returns_0, vars
  <2>3. CopyInv'
    BY <1>1, <2>1, <2>2, Zenon DEF CopyInv, vars, Free
  <2> QED BY <1>1, <1>2, <2>1, <2>3, StutterKeeps, Zenon DEF UserInv
<1>4. CASE ~syscall_read_returns_0(cfd, BUFSIZE)
  <2>1. /\ syscall_read(cfd, BUFSIZE) /\ UNCHANGED copier
        /\ out' = out \o SubSeq(got'[cfd], Len(got[cfd]) + 1, Len(got'[cfd]))
    BY <1>4, Zenon DEF copy_reads
  <2>2. BUFSIZE \in Nat
    BY UserProgramsAssumption, Zenon
  <2>3. /\ fa'[cfd].flags /\ fa'[cfd].fops = fa[cfd].fops /\ fa[cfd].fops \in {"file", "dir"}
        /\ got[cfd] \in Seq(Element)
        /\ \E more \in Seq(Element) : got'[cfd] = got[cfd] \o more
    BY <1>1, <2>1, <2>2, ReadAppends, Zenon
  <2>4. PICK more \in Seq(Element) : got'[cfd] = got[cfd] \o more
    BY <2>3, Zenon
  <2>5. SubSeq(got'[cfd], Len(got[cfd]) + 1, Len(got'[cfd])) = more
    BY <2>3, <2>4, RestOf, ZenonT(30)
  <2>6. out' = got'[cfd]
    BY <1>1, <2>1, <2>3, <2>4, <2>5, Zenon
  <2>7. in_use'
    BY <1>1, <2>1, Zenon DEF syscall_read
  <2>8. CopyInv'
    BY <1>1, <2>1, <2>3, <2>6, <2>7, Zenon DEF CopyInv, Free
  <2> QED BY <1>1, <1>2, <2>1, <2>2, <2>8, ReadKeeps, Zenon DEF UserInv
<1> QED BY <1>3, <1>4, Zenon

LEMMA CopyReturnsKeeps ==
  ASSUME UserInv, copy_returns
  PROVE  UserInv'
<1>1. IInv /\ test = <<>> /\ copier' = "none" /\ halt_program /\ UNCHANGED <<test, pos, cnt, fail>>
  BY Zenon DEF UserInv, CopyInv, copy_returns, errVars
<1>2. ErrInv' /\ CopyInv'
  BY <1>1, Zenon DEF UserInv, ErrInv, CopyInv
<1> QED BY <1>1, <1>2, HaltKeeps, Zenon DEF UserInv

LEMMA WholeSequence ==
  ASSUME NEW s \in Seq(Element), NEW kind, NEW inode,
         \A k \in 1 .. Len(s) : s[k] = <<kind, inode, k - 1>>
  PROVE  s = [k \in 1 .. Len(s) |-> <<kind, inode, k - 1>>]
<1>1. s = [k \in 1 .. Len(s) |-> s[k]]
  BY LenProperties, Zenon
<1> QED BY <1>1, Zenon

(* When the read returns 0, the position is at the end.                    *)
LEMMA CopiedWhole ==
  ASSUME UserInv
  PROVE  CopiesWhole
<1> SUFFICES ASSUME copier = "eof" PROVE CopiesWhole
  BY Zenon DEF CopiesWhole
<1> DEFINE f == fa[cfd]
<1>1. /\ IInv /\ cfd \in Fds \ {0, 1} /\ ~Free(cfd) /\ syscall_read_returns_0(cfd, BUFSIZE)
      /\ out = IF f.fops = "rtc" THEN <<>> ELSE got[cfd]
  BY Zenon DEF UserInv, CopyInv
<1>2. /\ f \in File /\ got[cfd] \in Seq(Element) /\ f.fops \in {"rtc", "dir", "file"}
      /\ f.file_position \in Nat
  BY <1>1, Zenon DEF IInv, Shape, OthersClosable, Closes, File
<1>3. f.fops \in {"file", "dir"} =>
        /\ f.file_position = Len(got[cfd])
        /\ \A k \in 1 .. Len(got[cfd]) : got[cfd][k] = <<f.fops, f.inode, k - 1>>
  BY <1>1, Zenon DEF IInv, ReadsInOrder
<1>4. CASE f.fops = "rtc"
  <2>1. out = <<>> /\ [k \in 1 .. 0 |-> <<f.fops, f.inode, k - 1>>] = <<>>
    BY <1>1, <1>4
  <2> QED BY <1>4, <2>1, Zenon DEF CopiesWhole
<1>5. CASE f.fops = "dir"
  <2> DEFINE n == Len(directory_entries)
  <2>1. n \in Nat /\ f.file_position = n
    BY <1>1, <1>2, <1>5, DirectoryAssumption
       DEF syscall_read_returns_0, IInv, PositionsInside
  <2>2. out = got[cfd] /\ Len(out) = n
    BY <1>1, <1>3, <1>5, <2>1, Zenon
  <2>3. out = [k \in 1 .. n |-> <<f.fops, f.inode, k - 1>>]
    <3> DEFINE g == got[cfd]
               kind == f.fops
               inode == f.inode
    <3>1. g \in Seq(Element) /\ \A k \in 1 .. Len(g) : g[k] = <<kind, inode, k - 1>>
      BY <1>2, <1>3, <1>5, Zenon
    <3>2. out = g /\ Len(g) = n
      BY <2>2, Zenon
    <3> HIDE DEF g, kind, inode, n
    <3>3. g = [k \in 1 .. Len(g) |-> <<kind, inode, k - 1>>]
      BY <3>1, WholeSequence, ZenonT(30)
    <3>4. out = [k \in 1 .. n |-> <<kind, inode, k - 1>>]
      BY <3>2, <3>3, Zenon
    <3> QED BY <3>4, Zenon DEF kind, inode
  <2> QED BY <1>5, <2>3, Zenon DEF CopiesWhole
<1>6. CASE f.fops = "file"
  <2> DEFINE n == file_length[f.inode]
  <2>1. read_data(f.inode, f.file_position, BUFSIZE) = 0
    BY <1>1, <1>6, Zenon DEF syscall_read_returns_0
  <2>2. BUFSIZE \in Nat /\ BUFSIZE # 0 /\ 0 >= 0
    BY UserProgramsAssumption
  <2>3. f.inode \in DOMAIN file_length /\ n \in Nat
    BY <1>2, <2>1, <2>2, ReadDataFacts, Zenon
  <2>4. f.file_position >= n
    BY <1>2, <2>1, <2>2, ReadDataFacts, Zenon
  <2>5. f.file_position <= n
    BY <1>1, <1>6, <2>3, Zenon DEF IInv, PositionsInside
  <2>6. f.file_position = n
    BY <1>2, <2>3, <2>4, <2>5
  <2>7. out = got[cfd] /\ Len(out) = n
    BY <1>1, <1>3, <1>6, <2>6, Zenon
  <2>8. out = [k \in 1 .. n |-> <<f.fops, f.inode, k - 1>>]
    <3> DEFINE g == got[cfd]
               kind == f.fops
               inode == f.inode
    <3>1. g \in Seq(Element) /\ \A k \in 1 .. Len(g) : g[k] = <<kind, inode, k - 1>>
      BY <1>2, <1>3, <1>6, Zenon
    <3>2. out = g /\ Len(g) = n
      BY <2>7, Zenon
    <3> HIDE DEF g, kind, inode, n
    <3>3. g = [k \in 1 .. Len(g) |-> <<kind, inode, k - 1>>]
      BY <3>1, WholeSequence, Zenon
    <3>4. out = [k \in 1 .. n |-> <<kind, inode, k - 1>>]
      BY <3>2, <3>3, Zenon
    <3> QED BY <3>4, Zenon DEF kind, inode
  <2> QED BY <1>6, <2>8, Zenon DEF CopiesWhole
<1> QED BY <1>2, <1>4, <1>5, <1>6, Zenon

-----------------------------------------------------------------------------
(* syserr.  The calls that its tests other than err_open_lots make.        *)
Failing ==
  [op : {"read", "write", "close"}, arg : {NEG_FD, BIG_FD}]
    \cup [op : {"close"}, arg : Fds]
    \cup [op : {"read", "write"}, arg : Fds \ {0, 1}]
    \cup [op : {"open"}, arg : {helloo, shel, <<>>}]
    \cup [op : {"vidmap"}, arg : {"null", "kernel"}]
    \cup {Call("write", 0), Call("read", 1)}
    \cup [op : {"number"}, arg : {BIG_NUM, NEG_NUM, 0}]

LEMMA CallsSeq ==
  ASSUME NEW n \in Nat, NEW S, NEW f, DOMAIN f = 1 .. n, f = [k \in 1 .. n |-> f[k]],
         \A k \in 1 .. n : f[k] \in S
  PROVE  f \in Seq(S) /\ Len(f) = n
OBVIOUS

LEMMA ForFdsSeq ==
  ASSUME NEW op, NEW first \in {0, 2}, NEW S,
         \A fd \in Fds : fd >= first => Call(op, fd) \in S
  PROVE  /\ ForFds(op, first) \in Seq(S)
         /\ Len(ForFds(op, first)) = MAX_FILE_DESCRIPTORS - first
         /\ \A k \in 1 .. MAX_FILE_DESCRIPTORS - first :
              ForFds(op, first)[k] = Call(op, first + k - 1)
<1> DEFINE f == ForFds(op, first)
           n == MAX_FILE_DESCRIPTORS - first
<1>1. n \in Nat
  BY DescriptorsAssumption
<1>2. DOMAIN f = 1 .. n /\ f = [k \in 1 .. n |-> f[k]]
  BY Zenon DEF ForFds
<1>3. \A k \in 1 .. n : f[k] = Call(op, first + k - 1)
  BY Zenon DEF ForFds
<1>4. ASSUME NEW k \in 1 .. n PROVE f[k] \in S
  <2>1. first + k - 1 \in Fds /\ first + k - 1 >= first
    BY DescriptorsAssumption DEF Fds
  <2> QED BY <1>3, <2>1, Zenon
<1> HIDE DEF f, n
<1>5. f \in Seq(S) /\ Len(f) = n
  BY <1>1, <1>2, <1>4, CallsSeq, Zenon
<1> QED BY <1>3, <1>5, Zenon DEF f, n

LEMMA TestsFail ==
  ASSUME NEW t \in 1 .. 8, t # LOTS
  PROVE  Tests[t] \in Seq(Failing)
<1>1. t \in {1, 2, 4, 5, 6, 7, 8}
  BY DEF LOTS
<1>2. err_neg_fd \in Seq(Failing) /\ err_big_fd \in Seq(Failing)
  <2>1. \A op \in {"read", "write", "close"}, fd \in {NEG_FD, BIG_FD} : Call(op, fd) \in Failing
    BY Zenon DEF Failing, Call
  <2> QED BY <2>1 DEF err_neg_fd, err_big_fd
<1>3. err_open \in Seq(Failing)
  <2>1. \A fname \in {helloo, shel, <<>>} : Call("open", fname) \in Failing
    BY Zenon DEF Failing, Call
  <2> QED BY <2>1 DEF err_open
<1>4. err_unopened \in Seq(Failing)
  <2>1. ForFds("close", 0) \in Seq(Failing)
    <3>1. \A fd \in Fds : Call("close", fd) \in Failing
      BY Zenon DEF Failing, Call
    <3> QED BY <3>1, ForFdsSeq, Zenon
  <2>2. ASSUME NEW op \in {"read", "write"} PROVE ForFds(op, 2) \in Seq(Failing)
    <3>1. ASSUME NEW fd \in Fds, fd >= 2 PROVE Call(op, fd) \in Failing
      BY <3>1 DEF Failing, Call
    <3> QED BY <3>1, ForFdsSeq, Zenon
  <2> QED BY <2>1, <2>2, ConcatProperties, Zenon DEF err_unopened
<1>5. err_vidmap \in Seq(Failing)
  <2>1. \A a \in {"null", "kernel"} : Call("vidmap", a) \in Failing
    BY Zenon DEF Failing, Call
  <2> QED BY <2>1 DEF err_vidmap
<1>6. err_stdin_out \in Seq(Failing)
  <2>1. Call("write", 0) \in Failing /\ Call("read", 1) \in Failing
    BY Zenon DEF Failing
  <2> QED BY <2>1 DEF err_stdin_out
<1>7. err_syscall_num \in Seq(Failing)
  <2>1. \A n \in {BIG_NUM, NEG_NUM, 0} : Call("number", n) \in Failing
    BY Zenon DEF Failing, Call
  <2> QED BY <2>1 DEF err_syscall_num
<1>8. /\ Tests[1] = err_neg_fd /\ Tests[2] = err_big_fd /\ Tests[4] = err_open
      /\ Tests[5] = err_unopened /\ Tests[6] = err_vidmap /\ Tests[7] = err_stdin_out
      /\ Tests[8] = err_syscall_num
  BY Zenon DEF Tests
<1> QED BY <1>1, <1>2, <1>3, <1>4, <1>5, <1>6, <1>7, <1>8, Zenon

(* With nothing open all of them fail.                                     *)
LEMMA NoFileOfThatName ==
  ASSUME NEW fname \in {helloo, shel, <<>>}
  PROVE  ~open_succeeds(fname)
<1>1. IsName(fname)
  <2>1. IsName(<<>>)
    BY DescriptorsAssumption DEF IsName
  <2> QED BY <2>1, UserProgramsAssumption, Zenon
<1> SUFFICES ASSUME NEW i \in 1 .. Len(directory_entries), read_dentry_by_name(fname, i)
             PROVE  FALSE
  BY Zenon DEF open_succeeds
<1>2. directory_entries[i].file_name = fname
  BY <1>1, SameNameIsEqual, DirectoryAssumption, Zenon DEF read_dentry_by_name, Matches
<1> QED BY <1>2, UserProgramsAssumption, Zenon

LEMMA CallFails ==
  ASSUME IInv, in_use, NoneOpen, NEW c \in Failing
  PROVE  ~Succeeds(c)
<1>1. /\ fa[0].fops = "stdin" /\ fa[1].fops = "stdout" /\ 0 \in Fds /\ 1 \in Fds
      /\ \A fd \in Fds \ {0, 1} : ~fa[fd].flags
  BY FdFacts, Zenon DEF IInv, StandardStreams, NoneOpen, Free
<1>2. NEG_FD \notin Fds /\ BIG_FD \notin Fds
  BY DescriptorsAssumption, UserProgramsAssumption DEF NEG_FD, BIG_FD, Fds
<1>3. ASSUME c.op \in {"read", "write", "close"}, c.arg \in {NEG_FD, BIG_FD} PROVE ~Succeeds(c)
  BY <1>2, <1>3, Zenon
     DEF Succeeds, read_succeeds, write_succeeds, close_succeeds, InRange
<1>4. ASSUME c.op = "close", c.arg \in Fds PROVE ~Succeeds(c)
  BY <1>1, <1>4 DEF Succeeds, close_succeeds, Closes
<1>5. ASSUME c.op \in {"read", "write"}, c.arg \in Fds \ {0, 1} PROVE ~Succeeds(c)
  BY <1>1, <1>5, Zenon DEF Succeeds, read_succeeds, write_succeeds
<1>6. ASSUME c.op = "open", c.arg \in {helloo, shel, <<>>} PROVE ~Succeeds(c)
  BY <1>6, NoFileOfThatName DEF Succeeds
<1>7. ASSUME c.op = "vidmap", c.arg \in {"null", "kernel"} PROVE ~Succeeds(c)
  BY <1>7 DEF Succeeds, vidmap_succeeds
<1>8. ASSUME (c.op = "write" /\ c.arg = 0) \/ (c.op = "read" /\ c.arg = 1) PROVE ~Succeeds(c)
  BY <1>1, <1>8, Zenon DEF Succeeds, read_succeeds, write_succeeds
<1>9. ASSUME c.op = "number", c.arg \in {BIG_NUM, NEG_NUM, 0} PROVE ~Succeeds(c)
  BY <1>9 DEF Succeeds, number_accepted, BIG_NUM, NEG_NUM
<1> QED BY <1>3, <1>4, <1>5, <1>6, <1>7, <1>8, <1>9 DEF Failing, Call

(* err_open_lots is M - 1 opens and M - 2 closes.                          *)
LEMMA LotsCalls ==
  LET M == MAX_FILE_DESCRIPTORS IN
  /\ Len(Tests[LOTS]) = 2 * M - 3
  /\ \A k \in 1 .. M - 1 : Tests[LOTS][k] = Call("open", dot)
  /\ \A k \in M .. 2 * M - 3 : Tests[LOTS][k] = Call("close", 2 + (k - M))
<1> DEFINE M == MAX_FILE_DESCRIPTORS
           S == {Call("open", dot)} \cup {Call("close", fd) : fd \in Fds}
           s == [k \in 1 .. M - 1 |-> Call("open", dot)]
           u == ForFds("close", 2)
<1>1. M \in Nat /\ M >= 2
  BY DescriptorsAssumption
<1>2. /\ s \in Seq(S) /\ Len(s) = M - 1
      /\ \A k \in 1 .. M - 1 : s[k] = Call("open", dot)
  <2>1. /\ M - 1 \in Nat /\ DOMAIN s = 1 .. M - 1 /\ s = [k \in 1 .. M - 1 |-> s[k]]
        /\ \A k \in 1 .. M - 1 : s[k] = Call("open", dot)
    BY <1>1
  <2>2. \A k \in 1 .. M - 1 : s[k] \in S
    BY <2>1
  <2> HIDE DEF s, S
  <2> QED BY <2>1, <2>2, CallsSeq
<1>3. /\ u \in Seq(S) /\ Len(u) = M - 2
      /\ \A k \in 1 .. M - 2 : u[k] = Call("close", 2 + k - 1)
  <2>1. \A fd \in Fds : fd >= 2 => Call("close", fd) \in S
    OBVIOUS
  <2> HIDE DEF S
  <2> QED BY <2>1, ForFdsSeq
<1>4. Tests[LOTS] = s \o u
  BY Zenon DEF Tests, LOTS, err_open_lots
<1> HIDE DEF s, u, S, M
<1>5. /\ Len(s \o u) = Len(s) + Len(u)
      /\ \A i \in 1 .. Len(s) + Len(u) :
           (s \o u)[i] = IF i <= Len(s) THEN s[i] ELSE u[i - Len(s)]
  BY <1>2, <1>3, ConcatProperties, SMTT(30)
<1>6. Len(Tests[LOTS]) = 2 * M - 3
  BY <1>1, <1>2, <1>3, <1>4, <1>5
<1>7. ASSUME NEW k \in 1 .. M - 1 PROVE Tests[LOTS][k] = Call("open", dot)
  BY <1>1, <1>2, <1>3, <1>4, <1>5
<1>8. ASSUME NEW k \in M .. 2 * M - 3 PROVE Tests[LOTS][k] = Call("close", 2 + (k - M))
  <2>1. /\ k \in 1 .. Len(s) + Len(u) /\ ~(k <= Len(s)) /\ k - Len(s) \in 1 .. M - 2
        /\ 2 + (k - Len(s)) - 1 = 2 + (k - M)
    BY <1>1, <1>2, <1>3
  <2>2. Tests[LOTS][k] = u[k - Len(s)]
    BY <1>4, <1>5, <2>1
  <2>3. u[k - Len(s)] = Call("close", 2 + (k - Len(s)) - 1)
    BY <1>3, <2>1
  <2> QED BY <2>1, <2>2, <2>3
<1> QED BY <1>6, <1>7, <1>8 DEF M

LEMMA TestLength == \A t \in 1 .. 8 : Len(Tests[t]) \in Nat
<1> SUFFICES ASSUME NEW t \in 1 .. 8 PROVE Len(Tests[t]) \in Nat
  OBVIOUS
<1>1. CASE t = LOTS
  BY <1>1, LotsCalls, DescriptorsAssumption
<1>2. CASE t # LOTS
  <2>1. Tests[t] \in Seq(Failing)
    BY <1>2, TestsFail, SMTT(30)
  <2> QED BY <2>1, LenProperties
<1> QED BY <1>1, <1>2

(* A call of a test that is not err_open_lots.                             *)
LEMMA ErrCallFails ==
  ASSUME UserInv, err_call, Head(test) # LOTS
  PROVE  UserInv'
<1> DEFINE t == Head(test)
           c == Tests[t][pos + 1]
<1>1. /\ IInv /\ fail = FALSE /\ in_use /\ copier = "none" /\ test \in Seq(1 .. 8) /\ test # <<>>
      /\ pos \in 0 .. Len(Tests[t]) /\ NoneOpen /\ cnt = 0
  BY DEF UserInv, ErrInv, err_call
<1>2. /\ pos < Len(Tests[t]) /\ Effect(c) /\ fail' = (fail \/ Succeeds(c))
      /\ UNCHANGED <<cnt, test, copier, cfd, out>> /\ pos' = pos + 1
  BY DEF err_call, copyVars
<1>3. t \in 1 .. 8
  BY <1>1
<1>4. Tests[t] \in Seq(Failing) /\ Len(Tests[t]) \in Nat
  BY <1>3, TestsFail, TestLength, Zenon
<1>5. c \in Failing
  <2> HIDE DEF t
  <2>1. pos + 1 \in 1 .. Len(Tests[t])
    BY <1>1, <1>2, <1>4
  <2> QED BY <1>4, <2>1, ElementOfSeq
<1> HIDE DEF c
<1>6. ~Succeeds(c)
  BY <1>1, <1>5, CallFails
<1>7. UNCHANGED vars
  BY <1>2, <1>6 DEF Effect
<1>8. fail' = FALSE
  BY <1>1, <1>2, <1>6, Zenon
<1>9. IInv' /\ NoneOpen' /\ in_use'
  BY <1>1, <1>7, StutterKeeps DEF NoneOpen, Free, vars
<1>10. pos' \in 0 .. Len(Tests[t])
  BY <1>1, <1>2, <1>4
<1>11. ErrInv'
  BY <1>1, <1>2, <1>8, <1>9, <1>10 DEF ErrInv
<1>12. CopyInv'
  BY <1>1, <1>2 DEF CopyInv
<1> QED BY <1>9, <1>11, <1>12 DEF UserInv

(* A call of err_open_lots: the opens take the descriptors from 2 on until *)
(* none is left, and the last of them fails.                               *)
LEMMA LotsOpenKeeps ==
  ASSUME UserInv, err_call, Head(test) = LOTS, pos < MAX_FILE_DESCRIPTORS - 1
  PROVE  IInv' /\ in_use' /\ LotsInv'
<1> DEFINE M == MAX_FILE_DESCRIPTORS
           c == Call("open", dot)
<1>1. /\ IInv /\ in_use /\ pos \in 0 .. M - 2 /\ cnt = 0 /\ LotsOpened(pos) /\ M \in Nat /\ M >= 2
  <2>1. M \in Nat /\ M >= 2
    BY DescriptorsAssumption
  <2>2. pos \in Nat
    BY <2>1, LotsCalls DEF UserInv, ErrInv, err_call
  <2> QED BY <2>1, <2>2 DEF UserInv, ErrInv, LotsInv, err_call
<1>2. Tests[LOTS][pos + 1] = c
  <2>1. pos + 1 \in 1 .. M - 1
    BY <1>1
  <2> QED BY <2>1, LotsCalls
<1>3. /\ Effect(c) /\ pos' = pos + 1
      /\ cnt' = IF ~Succeeds(c) THEN cnt + 1 ELSE cnt
  BY <1>2 DEF err_call, Call
<1>4. Succeeds(c) <=> \E fd \in Fds : LowestFree(fd)
  BY UserProgramsAssumption DEF Succeeds, open_succeeds, Call
<1>5. CASE pos < M - 2
  <2>1. 2 + pos \in Fds \ {0, 1}
    BY <1>1, <1>5 DEF Fds
  <2>2. \A f \in Fds : Free(f) => 2 + pos <= f
    BY <1>1 DEF LotsOpened, IInv, StandardStreams, Free
  <2>3. LowestFree(2 + pos)
    BY <1>1, <2>1, <2>2 DEF LowestFree, LotsOpened
  <2>4. Succeeds(c)
    BY <1>4, <2>1, <2>3
  <2>5. syscall_open(dot)
    BY <1>3, <2>4 DEF Effect, Call
  <2>6. IInv'
    BY <1>1, <2>5, OpenKeeps, UserProgramsAssumption
  <2>7. PICK d \in Fds \ {0, 1} :
          LowestFree(d) /\ fa'[d].flags /\ \A fd \in Fds \ {d} : fa'[fd] = fa[fd]
    BY <1>1, <2>5, OpensOne
  <2>8. d = 2 + pos
    <3>1. d <= 2 + pos /\ 2 + pos <= d /\ d \in Nat
      BY <2>1, <2>3, <2>7, FdFacts, Zenon DEF LowestFree
    <3> QED BY <1>1, <3>1
  <2>9. ASSUME NEW fd \in Fds \ {0, 1} PROVE Free(fd)' <=> fd >= 2 + pos'
    <3>1. CASE fd = d
      <4>1. ~Free(fd)' /\ ~(fd >= 2 + pos')
        BY <1>1, <1>3, <2>7, <2>8, <3>1 DEF Free
      <4> QED BY <4>1
    <3>2. CASE fd # d
      <4>1. Free(fd)' <=> Free(fd)
        BY <2>7, <3>2 DEF Free
      <4>2. fd >= 2 + pos <=> fd >= 2 + pos'
        BY <1>1, <1>3, <2>8, <3>2, FdFacts, SMTT(30)
      <4> QED BY <1>1, <4>1, <4>2 DEF LotsOpened
    <3> QED BY <3>1, <3>2
  <2>10. in_use'
    BY <1>1, <2>5 DEF syscall_open
  <2>11. cnt' = 0 /\ pos' <= M - 2
    BY <1>1, <1>3, <1>5, <2>4
  <2>12. LotsInv'
    BY <2>9, <2>11 DEF LotsInv, LotsOpened
  <2> QED BY <2>6, <2>10, <2>12
<1>6. CASE pos = M - 2
  <2>1. \A fd \in Fds : ~Free(fd)
    <3>1. \A fd \in Fds : ~(fd >= 2 + pos)
      BY <1>1, <1>6 DEF Fds
    <3> QED BY <1>1, <3>1 DEF LotsOpened, IInv, StandardStreams, Free
  <2>2. ~Succeeds(c)
    BY <1>4, <2>1 DEF LowestFree
  <2>3. UNCHANGED vars
    BY <1>3, <2>2 DEF Effect, Call
  <2>4. cnt' = 1 /\ pos' = M - 1 /\ ~(pos' <= M - 2) /\ pos' - (M - 1) = 0
    BY <1>1, <1>3, <1>6, <2>2
  <2>5. ASSUME NEW fd \in Fds \ {0, 1} PROVE Free(fd)' <=> fd < 2 + 0
    BY <2>1, <2>3, FdFacts DEF Free, vars
  <2>6. LotsInv'
    BY <2>4, <2>5 DEF LotsInv, LotsClosed
  <2> QED BY <1>1, <2>3, <2>6, StutterKeeps DEF vars
<1> QED BY <1>1, <1>5, <1>6

(* Its closes then succeed, one descriptor after the other.                *)
LEMMA LotsCloseKeeps ==
  ASSUME UserInv, err_call, Head(test) = LOTS, ~(pos < MAX_FILE_DESCRIPTORS - 1)
  PROVE  IInv' /\ in_use' /\ LotsInv'
<1> DEFINE M == MAX_FILE_DESCRIPTORS
           fd1 == 2 + ((pos + 1) - M)
           c == Call("close", fd1)
<1>1. M \in Nat /\ M >= 2
  BY DescriptorsAssumption
<1>2. pos \in M - 1 .. 2 * M - 4
  <2>1. pos \in 0 .. Len(Tests[LOTS]) /\ pos < Len(Tests[LOTS])
    BY DEF UserInv, ErrInv, err_call
  <2>2. Len(Tests[LOTS]) = 2 * M - 3
    BY LotsCalls
  <2> QED BY <1>1, <2>1, <2>2
<1>3. IInv /\ in_use /\ cnt = 1 /\ LotsClosed(pos - (M - 1))
  BY <1>1, <1>2 DEF UserInv, ErrInv, LotsInv, err_call
<1>4. Tests[LOTS][pos + 1] = c
  <2>1. pos + 1 \in M .. 2 * M - 3
    BY <1>1, <1>2
  <2>2. \A k \in M .. 2 * M - 3 : Tests[LOTS][k] = Call("close", 2 + (k - M))
    BY LotsCalls
  <2>3. Tests[LOTS][pos + 1] = Call("close", 2 + ((pos + 1) - M))
    <3> HIDE DEF M
    <3> QED BY <2>1, <2>2
  <2> QED BY <2>3 DEF M
<1>5. Effect(c) /\ pos' = pos + 1 /\ cnt' = cnt
  BY <1>4 DEF err_call, Call
<1>6. /\ fd1 \in Fds \ {0, 1} /\ fd1 = 2 + (pos - (M - 1))
      /\ 2 + (pos' - (M - 1)) = fd1 + 1 /\ ~(pos' <= M - 2)
  BY <1>1, <1>2, <1>5 DEF Fds
<1> HIDE DEF fd1
<1>7. ~Free(fd1) /\ \A fd \in Fds \ {0, 1} : Free(fd) <=> fd < fd1
  BY <1>3, <1>6, FdFacts DEF LotsClosed
<1>8. Succeeds(c)
  BY <1>3, <1>6, <1>7 DEF IInv, OthersClosable, Succeeds, close_succeeds, Call
<1>9. syscall_close(fd1)
  BY <1>5, <1>8 DEF Effect, Call
<1>10. IInv' /\ in_use'
  BY <1>3, <1>6, <1>9, CloseKeeps, Zenon DEF syscall_close
<1>11. ~fa'[fd1].flags /\ \A fd \in Fds \ {fd1} : fa'[fd] = fa[fd]
  <2>1. fa \in [Fds -> File] /\ fa[fd1] \in File
    BY <1>3, <1>6 DEF IInv, Shape
  <2>2. fa' = [fa EXCEPT ![fd1] = [fa[fd1] EXCEPT !.flags = FALSE]]
    BY <1>9 DEF syscall_close
  <2>3. ~[fa[fd1] EXCEPT !.flags = FALSE].flags
    BY <2>1 DEF File
  <2> QED BY <1>6, <2>1, <2>2, <2>3
<1>12. ASSUME NEW fd \in Fds \ {0, 1} PROVE Free(fd)' <=> fd < fd1 + 1
  <2>1. CASE fd = fd1
    BY <1>6, <1>11, <2>1, FdFacts DEF Free
  <2>2. CASE fd # fd1
    <3>1. Free(fd)' <=> Free(fd)
      BY <1>11, <2>2 DEF Free
    <3>2. fd < fd1 <=> fd < fd1 + 1
      BY <1>6, <2>2, FdFacts
    <3> QED BY <1>7, <3>1, <3>2
  <2> QED BY <2>1, <2>2
<1>13. LotsInv'
  BY <1>3, <1>5, <1>6, <1>12 DEF LotsInv, LotsClosed
<1> QED BY <1>10, <1>13

LEMMA ErrCallKeeps ==
  ASSUME UserInv, err_call
  PROVE  UserInv'
<1>1. CASE Head(test) # LOTS
  BY <1>1, ErrCallFails
<1>2. CASE Head(test) = LOTS
  <2>1. IInv' /\ in_use' /\ LotsInv'
    BY <1>2, LotsOpenKeeps, LotsCloseKeeps
  <2>2. /\ fail = FALSE /\ copier = "none" /\ test \in Seq(1 .. 8) /\ test # <<>>
        /\ pos \in 0 .. Len(Tests[LOTS]) /\ pos < Len(Tests[LOTS])
        /\ UNCHANGED <<fail, test, copier, cfd, out>> /\ pos' = pos + 1
    BY <1>2 DEF UserInv, ErrInv, err_call, copyVars
  <2>3. pos' \in 0 .. Len(Tests[LOTS])
    <3>1. Len(Tests[LOTS]) \in Nat
      BY TestLength DEF LOTS
    <3> QED BY <2>2, <3>1
  <2>4. ErrInv'
    BY <1>2, <2>1, <2>2, <2>3 DEF ErrInv
  <2>5. CopyInv'
    BY <2>2 DEF CopyInv
  <2> QED BY <2>1, <2>4, <2>5 DEF UserInv
<1> QED BY <1>1, <1>2

-----------------------------------------------------------------------------
(* A test starts with nothing open.                                        *)
LEMMA TestStarts ==
  ASSUME NEW t \in 1 .. 8, NoneOpen', pos' = 0, cnt' = 0
  PROVE  /\ pos' \in 0 .. Len(Tests[t])
         /\ IF t = LOTS THEN LotsInv' ELSE NoneOpen' /\ cnt' = 0
<1>1. pos' \in 0 .. Len(Tests[t])
  BY TestLength, SMTT(30)
<1>2. pos' <= MAX_FILE_DESCRIPTORS - 2
  BY DescriptorsAssumption
<1>3. LotsOpened(pos)'
  BY FdFacts DEF LotsOpened, NoneOpen
<1> QED BY <1>1, <1>2, <1>3 DEF LotsInv

LEMMA ErrReturnsKeeps ==
  ASSUME UserInv, err_returns
  PROVE  UserInv'
<1> DEFINE t == Head(test)
<1>1. /\ IInv /\ fail = FALSE /\ in_use /\ copier = "none" /\ test \in Seq(1 .. 8) /\ test # <<>>
      /\ pos = Len(Tests[t]) /\ IF t = LOTS THEN LotsInv ELSE NoneOpen /\ cnt = 0
      /\ fail' = (fail \/ (t = LOTS /\ cnt # 1)) /\ test' = Tail(test) /\ pos' = 0 /\ cnt' = 0
      /\ IF Len(test) > 1 THEN UNCHANGED vars ELSE halt_program
      /\ UNCHANGED <<copier, cfd, out>>
  BY DEF UserInv, ErrInv, err_returns, copyVars
<1>2. NoneOpen /\ (t = LOTS => cnt = 1)
  <2>1. CASE t = LOTS
    <3> DEFINE M == MAX_FILE_DESCRIPTORS
    <3>1. M \in Nat /\ M >= 2 /\ pos = 2 * M - 3
      BY <1>1, <2>1, LotsCalls, DescriptorsAssumption
    <3>2. CASE M = 2
      \* one open, which fails, and no close
      <4>1. pos = 1 /\ cnt = 1
        BY <1>1, <2>1, <3>1, <3>2 DEF LotsInv
      <4>2. Fds \ {0, 1} = {}
        BY <3>2 DEF Fds
      <4> QED BY <4>1, <4>2 DEF NoneOpen
    <3>3. CASE M > 2
      <4>1. cnt = 1 /\ LotsClosed(M - 2)
        <5>1. ~(pos <= M - 2) /\ pos - (M - 1) = M - 2
          BY <3>1, <3>3
        <5> QED BY <1>1, <2>1, <5>1 DEF LotsInv
      <4>2. \A fd \in Fds : fd < 2 + (M - 2)
        BY <3>1 DEF Fds
      <4> QED BY <4>1, <4>2 DEF LotsClosed, NoneOpen
    <3> QED BY <3>1, <3>2, <3>3
  <2> QED BY <1>1, <2>1
<1>3. fail' = FALSE
  BY <1>1, <1>2, Zenon
<1>4. Tail(test) \in Seq(1 .. 8) /\ Len(Tail(test)) = Len(test) - 1 /\ Len(test) \in Nat
  BY <1>1
<1>5. CopyInv'
  BY <1>1 DEF CopyInv
<1>6. CASE Len(test) > 1
  <2>1. UNCHANGED vars /\ test' # <<>>
    <3> DEFINE r == Tail(test)
    <3>1. Len(r) # 0
      BY <1>4, <1>6, SMTT(30)
    <3> HIDE DEF r
    <3>2. r # <<>>
      BY <3>1
    <3>3. test' # <<>>
      BY <1>1, <3>2 DEF r
    <3> QED BY <1>1, <1>6, <3>3
  <2>2. IInv' /\ in_use' /\ NoneOpen'
    BY <1>1, <1>2, <2>1, StutterKeeps DEF vars, NoneOpen, Free
  <2>3. Head(test') \in 1 .. 8
    BY <1>1, <1>4, <2>1
  <2>4. /\ pos' \in 0 .. Len(Tests[Head(test')])
        /\ IF Head(test') = LOTS THEN LotsInv' ELSE NoneOpen' /\ cnt' = 0
    <3> DEFINE u == Head(test')
    <3>1. u \in 1 .. 8 /\ pos' = 0 /\ cnt' = 0
      BY <1>1, <2>3, Zenon
    <3> HIDE DEF u
    <3>2. PICK v \in 1 .. 8 : v = u
      BY <3>1
    <3>3. /\ pos' \in 0 .. Len(Tests[v])
          /\ IF v = LOTS THEN LotsInv' ELSE NoneOpen' /\ cnt' = 0
      BY <3>1, <2>2, TestStarts, Zenon
    <3> QED BY <3>2, <3>3 DEF u
  <2>5. ErrInv'
    BY <1>1, <1>3, <1>4, <2>1, <2>2, <2>4, SMTT(30) DEF ErrInv
  <2> QED BY <1>5, <2>2, <2>5 DEF UserInv
<1>7. CASE ~(Len(test) > 1)
  <2>1. halt_program /\ test' = <<>>
    BY <1>1, <1>4, <1>7
  <2>2. ErrInv'
    BY <1>1, <1>3, <1>4, <2>1 DEF ErrInv
  <2> QED BY <1>1, <1>5, <2>1, <2>2, HaltKeeps, SMTT(30) DEF UserInv
<1> QED BY <1>6, <1>7

LEMMA ExecuteStarts ==
  ASSUME UserInv, execute
  PROVE  UserInv'
<1>1. /\ IInv /\ syscall_execute /\ ~in_use /\ in_use' /\ test = <<>> /\ copier = "none"
      /\ fail = FALSE
  BY DEF UserInv, CopyInv, ErrInv, execute, syscall_execute
<1>2. IInv'
  BY <1>1, ExecuteKeeps
<1>3. CASE UNCHANGED <<errVars, copyVars>>
  BY <1>1, <1>2, <1>3 DEF UserInv, CopyInv, ErrInv, errVars, copyVars
<1>4. CASE copier' = "open" /\ UNCHANGED <<cfd, out, errVars>>
  BY <1>1, <1>2, <1>4 DEF UserInv, CopyInv, ErrInv, errVars
<1>5. ASSUME NEW select \in 0 .. Len(Tests), syserr(select) PROVE UserInv'
  <2>1. Len(Tests) = 8
    BY DEF Tests
  <2>2. /\ test' = IF select = 0 THEN [k \in 1 .. 8 |-> k] ELSE <<select>>
        /\ pos' = 0 /\ cnt' = 0 /\ fail' = FALSE /\ copier' = "none"
    BY <1>1, <1>5, <2>1 DEF syserr, copyVars
  <2>3. test' \in Seq(1 .. 8) /\ Head(test') \in 1 .. 8
    <3>1. CASE select = 0
      <4>1. test' = [k \in 1 .. 8 |-> k]
        BY <2>2, <3>1
      <4> QED BY <4>1
    <3>2. CASE select # 0
      <4>1. test' = <<select>> /\ select \in 1 .. 8
        BY <2>1, <2>2, <3>2
      <4> QED BY <4>1
    <3> QED BY <3>1, <3>2
  <2>4. NoneOpen'
    <3>1. \A fd \in Fds \ {0, 1} : ~fa[fd].flags
      BY <1>1 DEF IInv, NothingInherited, Free
    <3>2. fa' = open_stdin_and_stdout(fa) /\ fa \in [Fds -> File]
      BY <1>1 DEF syscall_execute, IInv, Shape
    <3> QED BY <3>1, <3>2, StreamsOpened DEF NoneOpen, Free
  <2>5. PICK v \in 1 .. 8 : v = Head(test')
    BY <2>3
  <2>6. /\ pos' \in 0 .. Len(Tests[v])
        /\ IF v = LOTS THEN LotsInv' ELSE NoneOpen' /\ cnt' = 0
    BY <2>2, <2>4, TestStarts, Zenon
  <2>7. ErrInv'
    BY <1>1, <2>2, <2>3, <2>5, <2>6 DEF ErrInv
  <2>8. CopyInv'
    BY <2>2 DEF CopyInv
  <2> QED BY <1>2, <2>7, <2>8 DEF UserInv
<1> QED BY <1>3, <1>4, <1>5 DEF execute

LEMMA OtherKeeps ==
  ASSUME UserInv, other
  PROVE  UserInv'
<1>1. IInv /\ test = <<>> /\ copier = "none" /\ UNCHANGED <<errVars, copyVars>>
  BY DEF UserInv, other, Running
<1>2. IInv'
  <2>1. ASSUME NEW fname \in Names, syscall_open(fname) PROVE IInv'
    BY <1>1, <2>1, OpenKeeps, DirectoryAssumption
  <2>2. ASSUME NEW fd \in Fds, NEW nbytes \in Lengths, syscall_read(fd, nbytes) PROVE IInv'
    BY <1>1, <2>2, ReadKeeps, DescriptorsAssumption
  <2> QED BY <1>1, <2>1, <2>2, CloseKeeps, HaltKeeps DEF other
<1>3. CopyInv' /\ ErrInv'
  BY <1>1 DEF UserInv, CopyInv, ErrInv, errVars, copyVars
<1> QED BY <1>2, <1>3 DEF UserInv

userVars == <<vars, errVars, copyVars>>

LEMMA UserNextKeeps == UserInv /\ [ProgramsNext]_userVars => UserInv'
<1> SUFFICES ASSUME UserInv, [ProgramsNext]_userVars PROVE UserInv'
  OBVIOUS
<1>1. ASSUME ProgramsNext PROVE UserInv'
  BY <1>1, ErrCallKeeps, ErrReturnsKeeps, CopyOpensKeeps, CopyReadsKeeps, CopyReturnsKeeps,
     ExecuteStarts, OtherKeeps DEF ProgramsNext
<1>2. ASSUME UNCHANGED userVars PROVE UserInv'
  <2>1. UNCHANGED vars /\ UNCHANGED <<test, pos, cnt, fail, copier, cfd, out>>
    BY <1>2 DEF userVars, errVars, copyVars
  <2>2. IInv'
    BY <2>1, StutterKeeps DEF UserInv
  <2>3. CopyInv'
    BY <2>1 DEF UserInv, CopyInv, vars, Free, syscall_read_returns_0
  <2>4. ErrInv'
    BY <2>1 DEF UserInv, ErrInv, vars, LotsInv, LotsOpened, LotsClosed, NoneOpen, Free
  <2> QED BY <2>2, <2>3, <2>4 DEF UserInv
<1> QED BY <1>1, <1>2

LEMMA UserInvariance == ProgramsSpec => []UserInv
<1>1. ProgramsInit => UserInv
  BY InitIInv DEF ProgramsInit, UserInv, CopyInv, ErrInv
<1> QED BY <1>1, UserNextKeeps, PTL DEF ProgramsSpec, userVars

(* Every test of syserr passes, whatever the programs that had the slot    *)
(* before did: its calls are made on the array that halt_program and       *)
(* execute left.                                                           *)
THEOREM TestsPass == ProgramsSpec => []SysErrPasses
<1>1. UserInv => SysErrPasses
  BY DEF UserInv, ErrInv, SysErrPasses
<1> QED BY <1>1, UserInvariance, PTL

(* When its read returns 0, cat has written all of its file and ls all of  *)
(* the directory, whatever the length of its reads (copy_reads).           *)
THEOREM WholeFileCopied == ProgramsSpec => []CopiesWhole
<1>1. UserInv => CopiesWhole
  BY CopiedWhole
<1> QED BY <1>1, UserInvariance, PTL

(* What is true of programs that make any calls is true of these three.    *)
THEOREM ProgramsKeepDescriptors ==
  ProgramsSpec => [](StandardStreams /\ NothingInherited /\ ReadsInOrder /\ OpensWhatWasNamed)
<1>1. UserInv => StandardStreams /\ NothingInherited /\ ReadsInOrder /\ OpensWhatWasNamed
  BY DEF UserInv, IInv
<1> QED BY <1>1, UserInvariance, PTL
=============================================================================
