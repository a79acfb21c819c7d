-------------------------------- MODULE Blink --------------------------------
(***************************************************************************)
(* The fish program's blinking characters: the linked list in blink_array, *)
(* the ioctl calls that change it (blink.S) and the tasklet that fish runs *)
(* after every RTC read.  The program has one thread, so a call is a step. *)
(* RTC_FIND, which fish never calls, reads the list and changes nothing.   *)
(* Lengths are below 2^15: the tasklet compares countdowns as signed.      *)
(***************************************************************************)
EXTENDS Integers, Sequences

CONSTANTS
  NODES,      \* elements of blink_array (80*25)
  SCREEN,     \* characters on the screen (80*25)
  Locations,  \* the locations the calls of main are made with
  ON_LENGTH, OFF_LENGTH  \* the lengths of the element main adds

(* Location 0 marks a free element of blink_array, so fish uses others.    *)
ASSUME BlinkAssumption ==
  /\ NODES \in Nat /\ SCREEN \in Nat
  /\ Locations \subseteq Nat \ {0}
  /\ ON_LENGTH \in Nat /\ OFF_LENGTH \in Nat

NULL  == 0
SPACE == "space"

VARIABLES
  blink_array,    \* the elements of the list, and the free ones
  mp1_list_head,
  screen,         \* the characters of the video page
  synced,         \* history: <<from, to>> in step since mp1_ioctl_sync
  unshown         \* history: elements whose place was drawn over by a sync or by
                  \* an element since removed, and that have not toggled since

blinkVars == <<blink_array, mp1_list_head, screen, synced, unshown>>

(* An element of blink_array as mp1_free leaves it.                        *)
Zero == [location |-> 0, on_char |-> 0, off_char |-> 0, on_length |-> 0,
         off_length |-> 0, countdown |-> 0, status |-> 0, next |-> NULL]

BlinkInit ==
  /\ blink_array = [n \in 1 .. NODES |-> Zero]
  /\ mp1_list_head = NULL
  /\ screen = [l \in 0 .. SCREEN - 1 |-> SPACE]
  /\ synced = {}
  /\ unshown = {}

-----------------------------------------------------------------------------
follow(n) == IF n = NULL THEN NULL ELSE blink_array[n].next

(* The elements in list order: where next leads from the head, as far as   *)
(* NULL.  (It is followed to NODES elements at most.)                      *)
List ==
  LET node[i \in 1 .. NODES] == IF i = 1 THEN mp1_list_head ELSE follow(node[i - 1])
      ends == {i \in 1 .. NODES : node[i] = NULL}
  IN  SubSeq(node, 1, IF ends = {} THEN NODES
                      ELSE (CHOOSE i \in ends : \A j \in ends : i <= j) - 1)

Elements == LET list == List IN {list[i] : i \in 1 .. Len(list)}

(* The first element with the location, or NULL.                           *)
mp1_find_helper(location) ==
  LET list == List
      at   == {i \in 1 .. Len(list) : blink_array[list[i]].location = location}
  IN  IF at = {} THEN NULL ELSE list[CHOOSE i \in at : \A j \in at : i <= j]

malloc_bug == IF NODES = 0 THEN NULL ELSE 1

(* The first free element, or NULL.                                        *)
mp1_malloc ==
  LET free == {n \in 1 .. NODES : blink_array[n].location = 0} IN
  IF free = {} THEN NULL ELSE CHOOSE n \in free : \A m \in free : n <= m

mp1_poke(location, ch) == screen' = [screen EXCEPT ![location] = ch]

(* RTC_ADD: a copy of the caller's structure, on, becomes the first        *)
(* element of the list.                                                    *)
mp1_ioctl_add(s) ==
  LET n == mp1_malloc IN
  \/ /\ s.location >= SCREEN \/ n = NULL
     /\ UNCHANGED blinkVars
  \/ /\ s.location < SCREEN /\ n # NULL
     /\ blink_array' = [blink_array EXCEPT ![n] =
          [location |-> s.location, on_char |-> s.on_char,
           off_char |-> s.off_char, on_length |-> s.on_length,
           off_length |-> s.off_length, countdown |-> s.on_length,
           status |-> 1, next |-> mp1_list_head]]
     /\ mp1_list_head' = n
     /\ mp1_poke(s.location, s.on_char)
     /\ UNCHANGED <<synced, unshown>>

(* Link the predecessor of n, or the head, past n, and free n.             *)
Unlink(n) ==
  LET next == blink_array[n].next
      prev == {m \in Elements : blink_array[m].next = n}
  IN
  /\ mp1_list_head' = IF mp1_list_head = n THEN next ELSE mp1_list_head
  /\ blink_array' = [m \in 1 .. NODES |->
       IF m = n THEN Zero
       ELSE IF m \in prev /\ mp1_list_head # n
              THEN [blink_array[m] EXCEPT !.next = next]
       ELSE blink_array[m]]

(* RTC_REMOVE.                                                             *)
mp1_ioctl_remove(location) ==
  LET n == mp1_find_helper(location) IN
  \/ n = NULL /\ UNCHANGED blinkVars
  \/ /\ n # NULL
     /\ Unlink(n)
     /\ synced' = {p \in synced : p[1] # n /\ p[2] # n}
     /\ unshown' = (unshown \ {n}) \cup
          {m \in Elements \ {n} : blink_array[m].location = location}
     /\ UNCHANGED screen

copy_rates_bug(from, to) ==  \* the countdown is not copied
  [to EXCEPT !.on_length = from.on_length, !.off_length = from.off_length,
             !.status = from.status]

(* Element to with the rate and the phase of from.                         *)
CopyRates(from, to) ==
  [to EXCEPT !.on_length = from.on_length, !.off_length = from.off_length,
             !.countdown = from.countdown, !.status = from.status]

(* RTC_SYNC: the second element takes over the rate and the phase of the   *)
(* first.  The off character is shown whatever the status: testb leaves    *)
(* the sign flag clear, so cmovl never moves.                              *)
mp1_ioctl_sync(l1, l2) ==
  LET from == mp1_find_helper(l1)
      to   == mp1_find_helper(l2)
  IN
  \/ (from = NULL \/ to = NULL) /\ UNCHANGED blinkVars
  \/ /\ from # NULL /\ to # NULL
     /\ blink_array' = [blink_array EXCEPT
          ![to] = CopyRates(blink_array[from], blink_array[to])]
     /\ mp1_poke(blink_array[to].location, blink_array[to].off_char)
     /\ synced' = IF from = to THEN synced
                  ELSE {p \in synced : p[1] # to /\ p[2] # to} \cup {<<from, to>>}
     /\ unshown' = unshown \cup {to}
     /\ UNCHANGED mp1_list_head

-----------------------------------------------------------------------------
(* One element after its countdown has been decremented: toggled when the  *)
(* countdown has run out.                                                  *)
Expired(n) == blink_array[n].countdown - 1 <= 0

Toggle(e) ==
  [e EXCEPT !.countdown = IF e.status = 1 THEN e.off_length ELSE e.on_length,
            !.status = 1 - @]

shown_bug(e) == e.on_char

Shown(e) == IF e.status = 1 THEN e.off_char ELSE e.on_char

(* One pass over the list.  Of two elements at one location the later one  *)
(* in the list is drawn last.                                              *)
mp1_rtc_tasklet ==
  LET list     == List
      elements == Elements
      due      == {n \in elements : Expired(n)}
      Due(l)   == {i \in 1 .. Len(list) :
                     list[i] \in due /\ blink_array[list[i]].location = l}
  IN
  /\ blink_array' = [n \in 1 .. NODES |->
       IF n \in due THEN Toggle(blink_array[n])
       ELSE IF n \in elements THEN [blink_array[n] EXCEPT !.countdown = @ - 1]
       ELSE blink_array[n]]
  /\ screen' = [l \in 0 .. SCREEN - 1 |->
       LET here == Due(l) IN
       IF here = {} THEN screen[l]
       ELSE Shown(blink_array[list[CHOOSE i \in here : \A j \in here : j <= i]])]
  /\ unshown' = unshown \ due
  /\ UNCHANGED <<mp1_list_head, synced>>

-----------------------------------------------------------------------------
(* The list never loses, repeats or leaks an element: next leads from the  *)
(* head through exactly the elements that mp1_malloc regards as allocated, *)
(* each once, and ends.                                                    *)
ListIntact ==
  LET list == List IN
  /\ Elements = {n \in 1 .. NODES : blink_array[n].location # 0}
  /\ \A i, j \in 1 .. Len(list) : list[i] = list[j] => i = j
  /\ list # << >> => blink_array[list[Len(list)]].next = NULL

(* Two elements that were synchronised switch at the same ticks until one  *)
(* of them is removed or synchronised with another, whatever happens to    *)
(* the rest of the list.                                                   *)
SyncedTogether ==
  \A p \in synced :
    /\ blink_array[p[1]].status = blink_array[p[2]].status
    /\ blink_array[p[1]].countdown = blink_array[p[2]].countdown

(* The screen shows the character of an element's phase, unless another    *)
(* element shares its location, or until its next toggle after a sync or   *)
(* after the other element was removed.                                    *)
ScreenFollowsStatus ==
  LET elements == Elements IN
  \A n \in elements \ unshown :
    LET e == blink_array[n] IN
    \/ screen[e.location] = IF e.status = 1 THEN e.on_char ELSE e.off_char
    \/ \E m \in elements \ {n} : blink_array[m].location = e.location
==============================================================================
