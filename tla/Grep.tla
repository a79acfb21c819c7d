-------------------------------- MODULE Grep --------------------------------
(***************************************************************************)
(* The search program (syscalls/ece391grep.c), from the line typed at the  *)
(* shell (ece391shell.c) through parse_command and getargs to the lines it *)
(* prints, with the string functions it calls (ece391support.c).  The      *)
(* files are opened, read and closed as Descriptors and ReadData have it:  *)
(* a read gives the next bytes, as many as there are and fit.  Files are   *)
(* texts, without NULs.                                                    *)
(***************************************************************************)
EXTENDS Integers, Sequences

CONSTANTS
  BUFSIZE,   \* 1024
  Patterns,  \* the patterns typed, sequences of characters
  Texts      \* the contents of the file

ASSUME GrepAssumption ==
  /\ BUFSIZE \in Nat \ {0}
  /\ \A s \in Patterns \cup Texts :
       s \in Seq(STRING) /\ \A k \in 1 .. Len(s) : s[k] # "NUL"

(* "nl", "sp" and "NUL" are characters; "?" stands for any other byte that *)
(* the stack happens to hold.                                              *)
Garbage == {"?", "nl"}

(* The directory: the names that start with a dot are passed over.         *)
directory == <<".", "rtc", "file">>

VARIABLES
  gpc,         \* the step of grep
  search,      \* the pattern, as a sequence
  pattern,     \* history: the pattern that was typed
  text,        \* the contents of "file"
  clean,       \* history: data did not start with a newline after its end
  dir_pos,     \* the number of entries read from the directory
  fd_pos,      \* the position in the open file
  data,        \* the buffer, data[0 .. BUFSIZE]
  last,        \* the end of what is in it
  line_start,
  read_cnt,    \* what the last read returned
  printed      \* the lines printed

grepVars == <<gpc, search, pattern, text, clean, dir_pos, fd_pos, data, last,
              line_start, read_cnt, printed>>
-----------------------------------------------------------------------------
(* The shell drops the newline of the line it has read.                    *)
shell_command(line) ==
  IF line # <<>> /\ line[Len(line)] = "nl" THEN SubSeq(line, 1, Len(line) - 1) ELSE line

(* The program's name ends at the first space, and the rest of the line    *)
(* after that space is its arguments.                                      *)
parse_command(command) ==
  LET spaces == {i \in 1 .. Len(command) : command[i] = "sp"}
      index  == CHOOSE i \in spaces : \A j \in spaces : i <= j
  IN  IF spaces = {} THEN [name |-> command, args |-> <<>>]
      ELSE [name |-> SubSeq(command, 1, index - 1),
            args |-> SubSeq(command, index + 1, Len(command))]

(* The arguments, with their NUL, have to fit.                             *)
getargs_succeeds(args, nbytes) == nbytes >= Len(args) + 1
-----------------------------------------------------------------------------
(* The length of the string at start.                                      *)
ece391_strlen(d, start) ==
  (CHOOSE k \in start .. BUFSIZE :
     d[k] = "NUL" /\ \A j \in start .. k - 1 : d[j] # "NUL") - start

StringAt(d, start) ==
  [k \in 1 .. ece391_strlen(d, start) |-> d[start + k - 1]]

(* A copy from src down to dst, up to and including the NUL.               *)
ece391_strcpy(d, dst, src) ==
  LET n == ece391_strlen(d, src) IN
  [k \in 0 .. BUFSIZE |->
     IF k \in dst .. dst + n THEN d[src + k - dst] ELSE d[k]]

(* The result is 0: s, which holds no NUL, is what d has from start on.    *)
ece391_strncmp_equal(d, start, s) ==
  \A k \in 1 .. Len(s) : start + k - 1 <= BUFSIZE /\ d[start + k - 1] = s[k]

GrepInit ==
  /\ pattern \in Patterns
  /\ LET typed == <<"g", "r", "e", "p", "sp">> \o pattern \o <<"nl">> IN
       /\ search = parse_command(shell_command(typed)).args
       /\ gpc = IF getargs_succeeds(search, BUFSIZE) THEN "main" ELSE "failed"
  /\ text \in Texts
  /\ clean = TRUE /\ dir_pos = 0 /\ fd_pos = 0
  /\ data = [k \in 0 .. BUFSIZE |-> "?"]
  /\ last = 0 /\ line_start = 0 /\ read_cnt = 0 /\ printed = <<>>

(* main reads the next entry; do_one_file opens it, with a buffer that     *)
(* holds whatever is there.                                                *)
main ==
  /\ gpc = "main"
  /\ IF dir_pos = Len(directory)
       THEN gpc' = "done" /\ UNCHANGED <<dir_pos, fd_pos, data, last, clean>>
       ELSE /\ dir_pos' = dir_pos + 1
            /\ IF directory[dir_pos + 1] = "."
                 THEN UNCHANGED <<gpc, fd_pos, data, last, clean>>
                 ELSE /\ gpc' = "read" /\ fd_pos' = 0 /\ last' = 0
                      /\ \E g, h \in Garbage :
                           /\ data' = [k \in 0 .. BUFSIZE |->
                                         IF k < BUFSIZE THEN g ELSE h]
                           /\ clean' = (h # "nl")
  /\ UNCHANGED <<search, pattern, text, line_start, read_cnt, printed>>

Lesser(m, n) == IF m < n THEN m ELSE n

(* The read of the clock returns 0.                                        *)
Contents == IF directory[dir_pos] = "rtc" THEN <<>> ELSE text

read ==
  /\ gpc = "read" /\ gpc' = "line"
  /\ LET n == Lesser(BUFSIZE - last, Len(Contents) - fd_pos) IN
     /\ read_cnt' = n /\ last' = last + n /\ fd_pos' = fd_pos + n
     /\ data' = [k \in 0 .. BUFSIZE |->
                   IF k \in last .. last + n - 1
                     THEN Contents[fd_pos + k - last + 1] ELSE data[k]]
  /\ line_start' = 0
  /\ UNCHANGED <<search, pattern, text, clean, dir_pos, printed>>

(* The end of the line that starts at line_start, or of the data.          *)
line_end ==
  CHOOSE k \in line_start .. BUFSIZE :
    /\ k >= last \/ data[k] = "nl"
    /\ \A j \in line_start .. k - 1 : j < last /\ data[j] # "nl"

Partial == data[line_end] # "nl" /\ read_cnt # 0 /\ line_start # 0

carry_bug ==  \* the rest of the line is dropped
  /\ gpc = "line" /\ Partial
  /\ gpc' = "read" /\ last' = 0
  /\ UNCHANGED <<data, search, pattern, text, clean, dir_pos, fd_pos, line_start,
                 read_cnt, printed>>

(* The start of a line whose end is not there yet is moved to the start of *)
(* the buffer.                                                             *)
carry ==
  /\ gpc = "line" /\ Partial
  /\ data' = ece391_strcpy([data EXCEPT ![line_end] = "NUL"], 0, line_start)
  /\ last' = last - line_start /\ gpc' = "read"
  /\ UNCHANGED <<search, pattern, text, clean, dir_pos, fd_pos, line_start, read_cnt,
                 printed>>

(* A line is searched, and printed if it holds the pattern.                *)
search_line ==
  /\ gpc = "line" /\ ~Partial
  /\ data' = [data EXCEPT ![line_end] = "NUL"]
  /\ printed' = IF \E check \in line_start .. line_end - 1 :
                     /\ search # <<>> /\ search[1] = data'[check]
                     /\ ece391_strncmp_equal(data', check, search)
                  THEN Append(printed, StringAt(data', line_start))
                  ELSE printed
  /\ line_start' = line_end + 1
  /\ IF line_start' < last THEN UNCHANGED <<gpc, last>>
     ELSE last' = 0 /\ gpc' = IF read_cnt = 0 THEN "main" ELSE "read"
  /\ UNCHANGED <<search, pattern, text, clean, dir_pos, fd_pos, read_cnt>>

GrepNext == main \/ read \/ carry \/ search_line
GrepSpec == GrepInit /\ [][GrepNext]_grepVars
-----------------------------------------------------------------------------
(* The places where the lines of the text start, and the one where the     *)
(* line that starts at p ends.                                             *)
Starts == {p \in 1 .. Len(text) + 1 : p = 1 \/ text[p - 1] = "nl"}
End(p) ==
  CHOOSE e \in p .. Len(text) + 1 :
    /\ e = Len(text) + 1 \/ text[e] = "nl"
    /\ \A j \in p .. e - 1 : text[j] # "nl"
Line(p) == SubSeq(text, p, End(p) - 1)

Holds(line) ==
  \E k \in 0 .. Len(line) - Len(pattern) :
    \A j \in 1 .. Len(pattern) : line[k + j] = pattern[j]

Matching   == {p \in Starts : Holds(Line(p))}
ShortLines == \A p \in Starts : End(p) - p < BUFSIZE

(* grep prints the lines that hold the pattern, each once, whole and in    *)
(* order, wherever the ends of the buffer fall in the text.  It needs      *)
(* lines shorter than the buffer, and no newline in the byte after it when *)
(* do_one_file starts, a byte that is read though it was never written.    *)
FindsTheLines ==
  gpc = "done" /\ clean /\ pattern # <<>> /\ ShortLines =>
    \E at \in [1 .. Len(printed) -> Matching] :
      /\ \A i, j \in 1 .. Len(printed) : i < j => at[i] < at[j]
      /\ \A p \in Matching : \E i \in 1 .. Len(printed) : at[i] = p
      /\ \A i \in 1 .. Len(printed) : printed[i] = Line(at[i])
=============================================================================
