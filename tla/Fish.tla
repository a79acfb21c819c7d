-------------------------------- MODULE Fish --------------------------------
(***************************************************************************)
(* The fish program: add_frames turns two text files into blinking         *)
(* characters, reading both one byte at a time, and main then waits for    *)
(* ticks and makes ioctl calls.  main makes one call of each kind at fixed *)
(* places; here it makes any calls in any order.  The files are those of   *)
(* the file system image, reduced to a few short texts.                    *)
(***************************************************************************)
EXTENDS Blink, FiniteSets

CONSTANTS
  Texts,    \* contents of frame0.txt and frame1.txt
  COLUMNS,  \* characters of a screen row (80)
  OFFSET,   \* the column the frames start in (40)
  LENGTH    \* on_length and off_length of the frames (15)

ASSUME FishAssumption ==
  OFFSET \in Nat \ {0} /\ COLUMNS \in Nat /\ Texts \subseteq Seq(STRING)

NEWLINE == "newline"
SHORT   == 65536  \* the values of an unsigned short, which location is

VARIABLES
  pc,          \* where the program is
  file, pos,   \* what is open on fd0 and fd1, and the file positions
  c, eof,      \* c0, c1 and eof0, eof1
  row, col

fishVars == <<pc, file, pos, c, eof, row, col>>
vars     == <<blinkVars, fishVars>>

Fds == {0, 1}

Init ==
  /\ BlinkInit
  /\ file \in [Fds -> Texts]
  /\ pc = "frames"
  /\ pos = [f \in Fds |-> 0]
  /\ c = [f \in Fds |-> "0"]
  /\ eof = [f \in Fds |-> FALSE]
  /\ row = 0 /\ col = 0

-----------------------------------------------------------------------------
(* What ece391_read leaves in c[f]: nothing is read behind a newline, and  *)
(* the end of the file counts as one.                                      *)
AtEnd(f) == c[f] # NEWLINE /\ pos[f] = Len(file[f])
Byte(f)  == IF c[f] = NEWLINE \/ AtEnd(f) THEN NEWLINE ELSE file[f][pos[f] + 1]

Blank(ch) == ch = SPACE \/ ch = NEWLINE
Glyph(ch) == IF ch = NEWLINE THEN SPACE ELSE ch

frame_column_bug ==  \* a blank of one file hides the other's character
  LET b == [f \in Fds |-> Byte(f)] IN
  /\ pc = "frames"
  /\ b # [f \in Fds |-> NEWLINE]
  /\ c' = b
  /\ pos' = [f \in Fds |-> IF c[f] = NEWLINE \/ AtEnd(f) THEN pos[f] ELSE pos[f] + 1]
  /\ eof' = [f \in Fds |-> eof[f] \/ AtEnd(f)]
  /\ IF \E f \in Fds : Blank(b[f])
       THEN UNCHANGED blinkVars
       ELSE mp1_ioctl_add([location |-> (row * COLUMNS + col + OFFSET) % SHORT,
                           on_char |-> Glyph(b[0]), off_char |-> Glyph(b[1]),
                           on_length |-> LENGTH, off_length |-> LENGTH])
  /\ col' = col + 1
  /\ UNCHANGED <<pc, file, row>>

(* add_frames, one column: a byte of each file whose line has not ended.   *)
frame_column ==
  LET b == [f \in Fds |-> Byte(f)] IN
  /\ pc = "frames"
  /\ b # [f \in Fds |-> NEWLINE]
  /\ c' = b
  /\ pos' = [f \in Fds |-> IF c[f] = NEWLINE \/ AtEnd(f) THEN pos[f] ELSE pos[f] + 1]
  /\ eof' = [f \in Fds |-> eof[f] \/ AtEnd(f)]
  /\ IF \A f \in Fds : Blank(b[f])
       THEN UNCHANGED blinkVars
       ELSE mp1_ioctl_add([location |-> (row * COLUMNS + col + OFFSET) % SHORT,
                           on_char |-> Glyph(b[0]), off_char |-> Glyph(b[1]),
                           on_length |-> LENGTH, off_length |-> LENGTH])
  /\ col' = col + 1
  /\ UNCHANGED <<pc, file, row>>

(* add_frames, the end of a row in both files; the frames are complete at  *)
(* the end of both.  A file that has ended keeps its newline.              *)
frame_row ==
  /\ pc = "frames"
  /\ \A f \in Fds : Byte(f) = NEWLINE
  /\ LET ends == [f \in Fds |-> eof[f] \/ AtEnd(f)] IN
     /\ eof' = ends
     /\ pc' = IF \A f \in Fds : ends[f] THEN "ready" ELSE "frames"
     /\ c' = [f \in Fds |-> IF ends[f] THEN NEWLINE ELSE "0"]
  /\ pos' = [f \in Fds |-> IF c[f] = NEWLINE \/ AtEnd(f) THEN pos[f] ELSE pos[f] + 1]
  /\ row' = row + 1
  /\ col' = 0
  /\ UNCHANGED <<file, blinkVars>>

(* add_frames returns; its variables are gone.                             *)
frames_done ==
  /\ pc = "ready"
  /\ pc' = "main"
  /\ file' = [f \in Fds |-> << >>]
  /\ pos' = [f \in Fds |-> 0]
  /\ row' = 0 /\ col' = 0
  /\ UNCHANGED <<c, eof, blinkVars>>

tick == pc = "main" /\ mp1_rtc_tasklet /\ UNCHANGED fishVars

add(l) == /\ pc = "main"
          /\ mp1_ioctl_add([location |-> l, on_char |-> "I", off_char |-> "M",
                            on_length |-> ON_LENGTH, off_length |-> OFF_LENGTH])
          /\ UNCHANGED fishVars

sync(l1, l2) == pc = "main" /\ mp1_ioctl_sync(l1, l2) /\ UNCHANGED fishVars

remove(l) == pc = "main" /\ mp1_ioctl_remove(l) /\ UNCHANGED fishVars

Next ==
  \/ frame_column \/ frame_row \/ frames_done
  \/ tick
  \/ \E l \in Locations : add(l) \/ remove(l)
  \/ \E l1, l2 \in Locations : sync(l1, l2)

Spec == Init /\ [][Next]_vars

-----------------------------------------------------------------------------
(* The place of a character of a text: its row and its column.             *)
Newlines(text, p) == {q \in 1 .. p - 1 : text[q] = NEWLINE}
Row(text, p)      == Cardinality(Newlines(text, p))
Column(text, p)   == Cardinality({q \in 1 .. p - 1 : \A n \in Newlines(text, p) : n < q})
Place(text, p)    == <<Row(text, p), Column(text, p)>>

(* The character of a text at a place.                                     *)
At(text, place) ==
  LET here == {p \in 1 .. Len(text) : text[p] # NEWLINE /\ Place(text, p) = place}
  IN  IF here = {} THEN SPACE ELSE text[CHOOSE p \in here : TRUE]

(* Reading order, the location of a place on the screen, and the places    *)
(* where one of two texts is not blank.                                    *)
Before(a, b)    == a[1] < b[1] \/ (a[1] = b[1] /\ a[2] < b[2])
Location(place) == place[1] * COLUMNS + place[2] + OFFSET
Picture(f0, f1) ==
  LET n == Len(f0) + Len(f1) IN
  {place \in (0 .. n) \X (0 .. n) :
     /\ Location(place) < SCREEN
     /\ At(f0, place) # SPACE \/ At(f1, place) # SPACE}

(* No location of a character is cut off by its type: one of 2^16 would be *)
(* 0, which marks a free element, and those above it would be places of    *)
(* the screen.  The image's files have 11 lines of at most 24 characters:  *)
(* their locations are below 1000.                                         *)
ASSUME TextsAssumption ==
  \A text \in Texts : \A p \in 1 .. Len(text) :
    ~Blank(text[p]) => Location(Place(text, p)) < SHORT

(* The elements in the order in which they were added.                     *)
Added == [i \in 1 .. Len(List) |-> blink_array[List[Len(List) + 1 - i]]]

(* add_frames lines up the rows and columns of the two files although one  *)
(* may have shorter lines, fewer lines or no newline at the end: what      *)
(* blinks is every place where one of them is not blank, with the          *)
(* characters that the two have there, in reading order and as far as      *)
(* there are elements.                                                     *)
FramesMerged ==
  pc = "ready" =>
    LET n       == Len(List)
        added   == Added
        picture == Picture(file[0], file[1])
    IN
    \E at \in [1 .. n -> picture] :
      /\ \A i, j \in 1 .. n : i < j => Before(at[i], at[j])
      /\ \A place \in picture :
           \/ \E i \in 1 .. n : at[i] = place
           \/ n = NODES /\ \A i \in 1 .. n : Before(at[i], place)
      /\ \A i \in 1 .. n : /\ added[i].location = Location(at[i])
                           /\ added[i].on_char = At(file[0], at[i])
                           /\ added[i].off_char = At(file[1], at[i])
=============================================================================
