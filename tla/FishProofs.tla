----------------------------- MODULE FishProofs -----------------------------
(***************************************************************************)
(* What Blink and Fish say of fish's list of blinking characters, for any  *)
(* number of elements, any screen, any texts and any calls in any order.   *)
(***************************************************************************)
EXTENDS Fish, SequenceTheorems, FiniteSetTheorems, WellFoundedInduction, TLAPS

(* L enumerates the m elements of the list from the head on, and these are *)
(* the elements in use.                                                    *)
Links(m, L, array, head) ==
  /\ m \in Nat /\ L \in [1 .. m -> 1 .. NODES]
  /\ \A i, j \in 1 .. m : L[i] = L[j] => i = j
  /\ head = IF m = 0 THEN NULL ELSE L[1]
  /\ \A i \in 1 .. m : array[L[i]].next = IF i = m THEN NULL ELSE L[i + 1]
  /\ \A n \in 1 .. NODES : array[n].location # 0 <=> \E i \in 1 .. m : L[i] = n
Linked(m, L) == Links(m, L, blink_array, mp1_list_head)

Allocated == {n \in 1 .. NODES : blink_array[n].location # 0}

IsElement(e) ==
  /\ e = [location |-> e.location, on_char |-> e.on_char, off_char |-> e.off_char,
          on_length |-> e.on_length, off_length |-> e.off_length,
          countdown |-> e.countdown, status |-> e.status, next |-> e.next]
  /\ e.location \in Nat /\ e.status \in {0, 1}

SameRates(e, f) ==
  /\ e.status = f.status /\ e.countdown = f.countdown
  /\ e.on_length = f.on_length /\ e.off_length = f.off_length

Phase(e) == IF e.status = 1 THEN e.on_char ELSE e.off_char

(* The inductive invariant.  That synchronised elements stay in step needs *)
(* their lengths too; ListIntact and ScreenFollowsStatus follow from what  *)
(* is said here of the elements in use, without mention of List.           *)
ArrayInv ==
  /\ blink_array = [n \in 1 .. NODES |-> blink_array[n]]
  /\ \A n \in 1 .. NODES : IsElement(blink_array[n])
  /\ \A n \in Allocated : blink_array[n].location < SCREEN
  /\ screen = [l \in 0 .. SCREEN - 1 |-> screen[l]]

LinkInv == \E m, L : Linked(m, L)

SyncInv ==
  \A p \in synced : /\ p[1] \in Allocated /\ p[2] \in Allocated
                    /\ SameRates(blink_array[p[1]], blink_array[p[2]])

ScreenInv ==
  \A n \in Allocated \ unshown :
    \/ screen[blink_array[n].location] = Phase(blink_array[n])
    \/ \E k \in Allocated \ {n} : blink_array[k].location = blink_array[n].location

BlinkInv == ArrayInv /\ LinkInv /\ SyncInv /\ ScreenInv
-----------------------------------------------------------------------------
(* Sets of numbers have a least and, when bounded, a greatest element.     *)
LEMMA HasLeast ==
  ASSUME NEW S, S \subseteq Nat, S # {}
  PROVE  \E m \in S : \A n \in S : m <= n
<1> DEFINE R == {ss \in Nat \X Nat : ss[1] < ss[2]}
<1>1. IsWellFoundedOn(R, Nat)
  BY NatLessThanWellFounded, Zenon DEF OpToRel
<1> HIDE DEF R
<1>2. PICK m \in S : \A n \in S : ~(<<n, m>> \in R)
  BY <1>1, WFMin, Zenon
<1>3. ASSUME NEW n \in S PROVE m <= n
  <2>1. ~(<<n, m>> \in R) /\ n \in Nat /\ m \in Nat
    BY <1>2, Zenon
  <2>2. ~(n < m)
    BY <2>1, Zenon DEF R
  <2> QED BY <2>1, <2>2
<1> QED BY <1>3, Zenon

LEMMA HasGreatest ==
  ASSUME NEW S, NEW k \in Nat, S \subseteq 1 .. k, S # {}
  PROVE  \E m \in S : \A n \in S : n <= m
<1> DEFINE T == {k - n : n \in S}
<1>1. T \subseteq Nat /\ T # {}
  <2>1. \A n \in S : k - n \in Nat
    OBVIOUS
  <2> QED BY <2>1, Zenon
<1>2. PICK l \in T : \A n \in T : l <= n
  BY <1>1, HasLeast, Zenon
<1>3. PICK m \in S : l = k - m
  BY Zenon
<1>4. ASSUME NEW n \in S PROVE n <= m
  <2>1. k - m <= k - n
    BY <1>2, <1>3, Zenon
  <2> QED BY <2>1
<1> QED BY <1>4, Zenon

(* A list has no more elements than there are: where different places      *)
(* hold different numbers from 1 to n, there are at most n places.         *)
Distinct(m, n, f) ==
  f \in [1 .. m -> 1 .. n] /\ \A i, j \in 1 .. m : f[i] = f[j] => i = j

LEMMA AtMostAll ==
  \A n \in Nat : \A m \in Nat : \A f : Distinct(m, n, f) => m <= n
<1> DEFINE Fits(n) == \A m \in Nat : \A f : Distinct(m, n, f) => m <= n
           S == {n \in Nat : ~Fits(n)}
<1> SUFFICES ASSUME S # {} PROVE FALSE
  BY Zenon
<1>1. S \subseteq Nat
  BY Zenon
<1> HIDE DEF S
<1>2. PICK n \in S : \A k \in S : n <= k
  BY <1>1, HasLeast, Zenon
<1> USE DEF S
<1>3. n \in Nat /\ ~Fits(n)
  BY <1>2, Zenon
<1>4. PICK m \in Nat : \E f : Distinct(m, n, f) /\ n < m
  BY <1>3
<1> PICK f : Distinct(m, n, f) /\ n < m
  BY <1>4, Zenon
<1>5. m \in 1 .. m /\ m - 1 \in Nat /\ f[m] \in 1 .. n
  BY <1>3, <1>4 DEF Distinct
<1>6. n - 1 \in Nat /\ n - 1 < n
  BY <1>3, <1>5
<1>7. Fits(n - 1)
  BY <1>2, <1>6
<1> DEFINE g == [i \in 1 .. m - 1 |-> IF f[i] = n THEN f[m] ELSE f[i]]
<1>8. \A i \in 1 .. m - 1 : i \in 1 .. m /\ i # m
  BY <1>4
<1>9. \A i \in 1 .. m - 1 : f[i] \in 1 .. n /\ f[i] # f[m]
  BY <1>4, <1>5, <1>8, Zenon DEF Distinct
<1>10. ASSUME NEW i \in 1 .. m - 1 PROVE g[i] \in 1 .. n - 1
  BY <1>3, <1>5, <1>9
<1>11. ASSUME NEW i \in 1 .. m - 1, NEW j \in 1 .. m - 1, g[i] = g[j] PROVE i = j
  <2>1. f[i] = f[j]
    BY <1>9, <1>11, Zenon
  <2> QED BY <1>4, <1>8, <2>1, Zenon DEF Distinct
<1>12. Distinct(m - 1, n - 1, g)
  <2>1. g \in [1 .. m - 1 -> 1 .. n - 1]
    BY <1>10, Zenon
  <2> HIDE DEF g
  <2> QED BY <1>11, <2>1, Zenon DEF Distinct
<1>13. m - 1 <= n - 1
  BY <1>5, <1>7, <1>12, Zenon
<1> QED BY <1>3, <1>4, <1>13

LEMMA NotLonger ==
  ASSUME NEW m, NEW L, Linked(m, L)
  PROVE  m <= NODES
<1>1. m \in Nat /\ NODES \in Nat /\ Distinct(m, NODES, L)
  BY BlinkAssumption, Zenon DEF Linked, Links, Distinct
<1> QED BY <1>1, AtMostAll, Zenon

(* List is that enumeration.                                               *)
Nodes(f) == f = [i \in 1 .. NODES |-> IF i = 1 THEN mp1_list_head ELSE follow(f[i - 1])]

LEMMA NodesAre ==
  ASSUME NEW m, NEW L, Linked(m, L)
  PROVE  \A f : Nodes(f) => \A i \in 1 .. NODES : f[i] = IF i <= m THEN L[i] ELSE NULL
<1> SUFFICES ASSUME NEW f, Nodes(f)
             PROVE  \A i \in 1 .. NODES : f[i] = IF i <= m THEN L[i] ELSE NULL
  BY Zenon
<1>1. m \in Nat /\ NODES \in Nat /\ L \in [1 .. m -> 1 .. NODES]
  BY BlinkAssumption, Zenon DEF Linked, Links
<1>2. \A i \in 1 .. NODES : f[i] = IF i = 1 THEN mp1_list_head ELSE follow(f[i - 1])
  BY Zenon DEF Nodes
<1> DEFINE P(i) == f[i] = IF i <= m THEN L[i] ELSE NULL
           S == {i \in 1 .. NODES : ~P(i)}
<1> SUFFICES ASSUME S # {} PROVE FALSE
  BY Zenon
<1>3. S \subseteq Nat
  BY <1>1
<1> HIDE DEF S
<1>4. PICK i \in S : \A j \in S : i <= j
  BY <1>3, HasLeast, Zenon
<1> USE DEF S
<1>5. i \in 1 .. NODES /\ ~P(i)
  BY <1>4, Zenon
<1>6. CASE i = 1
  <2>1. f[i] = mp1_list_head
    BY <1>2, <1>5, <1>6, Zenon
  <2> QED BY <1>1, <1>5, <1>6, <2>1 DEF Linked, Links
<1>7. CASE i # 1
  <2>1. i - 1 \in 1 .. NODES /\ i - 1 < i
    BY <1>1, <1>5, <1>7
  <2>2. P(i - 1)
    BY <1>4, <2>1
  <2>3. f[i] = follow(f[i - 1])
    BY <1>2, <1>5, <1>7, Zenon
  <2>4. CASE i - 1 <= m
    <3>1. f[i - 1] = L[i - 1] /\ L[i - 1] \in 1 .. NODES
      BY <1>1, <2>1, <2>2, <2>4
    <3>2. f[i] = blink_array[L[i - 1]].next
      BY <1>1, <2>3, <3>1 DEF follow, NULL
    <3>3. f[i] = IF i - 1 = m THEN NULL ELSE L[(i - 1) + 1]
      BY <2>1, <2>4, <3>2 DEF Linked, Links
    <3> QED BY <1>1, <1>5, <2>4, <3>3
  <2>5. CASE ~(i - 1 <= m)
    <3>1. f[i - 1] = NULL
      BY <2>2, <2>5, Zenon
    <3>2. f[i] = NULL
      BY <2>3, <3>1, Zenon DEF follow
    <3> QED BY <1>1, <1>5, <2>5, <3>2
  <2> QED BY <2>4, <2>5, Zenon
<1> QED BY <1>6, <1>7, Zenon

LEMMA ListIs ==
  ASSUME NEW m, NEW L, Linked(m, L)
  PROVE  /\ List \in Seq(1 .. NODES) /\ Len(List) = m
         /\ \A i \in 1 .. m : List[i] = L[i]
<1> DEFINE g == [i \in 1 .. NODES |-> IF i <= m THEN L[i] ELSE NULL]
           F == CHOOSE f : Nodes(f)
           ends == {i \in 1 .. NODES : F[i] = NULL}
           k == IF ends = {} THEN NODES
                ELSE (CHOOSE i \in ends : \A j \in ends : i <= j) - 1
<1>1. /\ m \in Nat /\ NODES \in Nat /\ L \in [1 .. m -> 1 .. NODES] /\ m <= NODES
      /\ mp1_list_head = IF m = 0 THEN NULL ELSE L[1]
      /\ \A i \in 1 .. m : blink_array[L[i]].next = IF i = m THEN NULL ELSE L[i + 1]
  BY BlinkAssumption, NotLonger, Zenon DEF Linked, Links
<1>2. Nodes(g)
  <2>1. ASSUME NEW i \in 1 .. NODES
        PROVE  g[i] = IF i = 1 THEN mp1_list_head ELSE follow(g[i - 1])
    <3>1. CASE i = 1
      BY <1>1, <3>1
    <3>2. CASE i # 1 /\ i - 1 <= m
      <4>1. i - 1 \in 1 .. m /\ i - 1 \in 1 .. NODES
        BY <1>1, <3>2
      <4>2. g[i - 1] = L[i - 1] /\ L[i - 1] \in 1 .. NODES
        BY <1>1, <4>1
      <4>3. follow(g[i - 1]) = IF i - 1 = m THEN NULL ELSE L[(i - 1) + 1]
        BY <1>1, <4>1, <4>2 DEF follow, NULL
      <4> QED BY <1>1, <3>2, <4>3
    <3>3. CASE i # 1 /\ ~(i - 1 <= m)
      <4>1. g[i - 1] = NULL
        BY <1>1, <3>3
      <4> QED BY <1>1, <3>3, <4>1 DEF follow
    <3> QED BY <3>1, <3>2, <3>3, Zenon
  <2>2. g = [i \in 1 .. NODES |-> g[i]]
    BY Zenon
  <2> HIDE DEF g
  <2>3. g = [i \in 1 .. NODES |-> IF i = 1 THEN mp1_list_head ELSE follow(g[i - 1])]
    BY <2>1, <2>2, Zenon
  <2> QED BY <2>3, Zenon DEF Nodes
<1>3. Nodes(F)
  BY <1>2, Zenon
<1>4. List = SubSeq(F, 1, k)
  BY Zenon DEF List, Nodes
<1> HIDE DEF F
<1>5. \A i \in 1 .. NODES : F[i] = IF i <= m THEN L[i] ELSE NULL
  BY <1>3, NodesAre, Zenon
<1>6. ends = {i \in 1 .. NODES : i > m}
  BY <1>1, <1>5 DEF NULL
<1> HIDE DEF ends
<1>7. k = m
  <2>1. CASE m = NODES
    BY <1>1, <1>6, <2>1
  <2>2. CASE m # NODES
    <3>1. m + 1 \in ends /\ \A j \in ends : m + 1 <= j
      BY <1>1, <1>6, <2>2
    <3>2. \A i \in ends : (\A j \in ends : i <= j) => i = m + 1
      BY <1>1, <1>6, <3>1
    <3> DEFINE least == CHOOSE i \in ends : \A j \in ends : i <= j
    <3>3. least = m + 1
      BY <3>1, <3>2, Zenon
    <3>4. k = least - 1
      BY <3>1, Zenon
    <3> HIDE DEF least
    <3> QED BY <1>1, <3>3, <3>4
  <2> QED BY <2>1, <2>2, Zenon
<1> HIDE DEF k
<1>8. \A i \in 1 .. m : F[i] \in 1 .. NODES /\ F[i] = L[i]
  BY <1>1, <1>5
<1>9. /\ SubSeq(F, 1, m) \in Seq(1 .. NODES)
      /\ Len(SubSeq(F, 1, m)) = IF 1 <= m THEN m - 1 + 1 ELSE 0
      /\ \A i \in 1 .. m - 1 + 1 : SubSeq(F, 1, m)[i] = F[1 + i - 1]
  BY <1>1, <1>8, SubSeqProperties
<1>10. m - 1 + 1 = m /\ \A i \in 1 .. m : 1 + i - 1 = i
  BY <1>1
<1>11. Len(SubSeq(F, 1, m)) = m /\ \A i \in 1 .. m : SubSeq(F, 1, m)[i] = F[i]
  BY <1>1, <1>9, <1>10
<1> QED BY <1>4, <1>7, <1>8, <1>9, <1>11, Zenon

LEMMA ElementsAre == LinkInv => Elements = Allocated
<1> SUFFICES ASSUME NEW m, NEW L, Linked(m, L) PROVE Elements = Allocated
  BY Zenon DEF LinkInv
<1>1. Len(List) = m /\ \A i \in 1 .. m : List[i] = L[i]
  BY ListIs, Zenon
<1>2. Elements = {L[i] : i \in 1 .. m}
  BY <1>1, Zenon DEF Elements
<1> QED BY <1>2 DEF Allocated, Linked, Links
-----------------------------------------------------------------------------
LEMMA FindsOne ==
  ASSUME LinkInv, NEW l
  PROVE  \/ mp1_find_helper(l) = NULL
         \/ /\ mp1_find_helper(l) \in Allocated
            /\ blink_array[mp1_find_helper(l)].location = l
<1>1. PICK m, L : Linked(m, L)
  BY Zenon DEF LinkInv
<1> DEFINE at == {i \in 1 .. Len(List) : blink_array[List[i]].location = l}
<1>2. m \in Nat /\ Len(List) = m /\ \A i \in 1 .. m : List[i] = L[i]
  <2>1. m \in Nat
    BY <1>1, Zenon DEF Linked, Links
  <2> QED BY <1>1, <2>1, ListIs, Zenon
<1>3. at \subseteq Nat
  BY <1>2
<1>4. ASSUME NEW i \in at PROVE List[i] \in Allocated /\ blink_array[List[i]].location = l
  <2>1. i \in 1 .. m /\ List[i] = L[i] /\ blink_array[List[i]].location = l
    BY <1>2, Zenon
  <2> QED BY <1>1, <2>1, Zenon DEF Linked, Links, Allocated
<1>5. mp1_find_helper(l) = IF at = {} THEN NULL
                           ELSE List[CHOOSE i \in at : \A j \in at : i <= j]
  BY Zenon DEF mp1_find_helper
<1> HIDE DEF at
<1>6. at # {} => \E i \in at : \A j \in at : i <= j
  BY <1>3, HasLeast, Zenon
<1>7. at # {} => (CHOOSE i \in at : \A j \in at : i <= j) \in at
  BY <1>6, Zenon
<1> QED BY <1>4, <1>5, <1>7, Zenon

LEMMA MallocFinds ==
  \/ mp1_malloc = NULL
  \/ mp1_malloc \in 1 .. NODES /\ blink_array[mp1_malloc].location = 0
<1> DEFINE free == {n \in 1 .. NODES : blink_array[n].location = 0}
<1>1. free \subseteq Nat
  OBVIOUS
<1>2. mp1_malloc = IF free = {} THEN NULL
                   ELSE CHOOSE n \in free : \A k \in free : n <= k
  BY Zenon DEF mp1_malloc
<1> HIDE DEF free
<1>3. free # {} => \E n \in free : \A k \in free : n <= k
  BY <1>1, HasLeast, Zenon
<1>4. free # {} => mp1_malloc \in free
  BY <1>2, <1>3, Zenon
<1> QED BY <1>2, <1>4, Zenon DEF free

LEMMA InitBlinkInv == BlinkInit => BlinkInv
<1> SUFFICES ASSUME BlinkInit PROVE BlinkInv
  BY Zenon
<1>1. ASSUME NEW n \in 1 .. NODES PROVE blink_array[n] = Zero
  BY Zenon DEF BlinkInit
<1>2. Zero.location = 0 /\ IsElement(Zero)
  BY Zenon DEF Zero, IsElement
<1>3. Allocated = {}
  BY <1>1, <1>2, Zenon DEF Allocated
<1>4. ArrayInv
  BY <1>1, <1>2, <1>3, Zenon DEF BlinkInit, ArrayInv
<1>5. LinkInv
  <2> DEFINE L == [i \in 1 .. 0 |-> 1]
  <2>1. L \in [1 .. 0 -> 1 .. NODES] /\ 1 .. 0 = {} /\ 0 \in Nat
    OBVIOUS
  <2> HIDE DEF L
  <2>2. Linked(0, L)
    BY <1>1, <1>2, <2>1, Zenon DEF Linked, Links, BlinkInit
  <2> QED BY <2>2, Zenon DEF LinkInv
<1> QED BY <1>3, <1>4, <1>5, Zenon DEF BlinkInit, BlinkInv, SyncInv, ScreenInv

(* Calls that find nothing to do.                                          *)
LEMMA BlinkUnchanged == BlinkInv /\ UNCHANGED blinkVars => BlinkInv'
<1> SUFFICES ASSUME BlinkInv, UNCHANGED blinkVars PROVE BlinkInv'
  BY Zenon
<1>1. UNCHANGED <<blink_array, mp1_list_head, screen, synced, unshown>>
  BY Zenon DEF blinkVars
<1>2. Allocated' = Allocated
  BY <1>1, Zenon DEF Allocated
<1>3. LinkInv'
  <2>1. PICK m, L : Linked(m, L)
    BY Zenon DEF BlinkInv, LinkInv
  <2>2. Linked(m, L)'
    BY <1>1, <2>1, Zenon DEF Linked, Links
  <2> QED BY <2>2, Zenon DEF LinkInv
<1>4. ArrayInv'
  BY <1>1, <1>2, Zenon DEF BlinkInv, ArrayInv
<1>5. SyncInv'
  BY <1>1, <1>2, Zenon DEF BlinkInv, SyncInv
<1>6. ScreenInv'
  BY <1>1, <1>2 DEF BlinkInv, ScreenInv
<1> QED BY <1>3, <1>4, <1>5, <1>6, Zenon DEF BlinkInv
-----------------------------------------------------------------------------
(* An element before all others makes the list longer by one.              *)
LEMMA AddLinks ==
  ASSUME NEW m, NEW L, Linked(m, L), NEW M,
         NEW n \in 1 .. NODES, blink_array[n].location = 0, mp1_list_head' = n,
         blink_array'[n].location # 0, blink_array'[n].next = mp1_list_head,
         \A k \in 1 .. NODES : k # n => blink_array'[k] = blink_array[k],
         M = [i \in 1 .. m + 1 |-> IF i = 1 THEN n ELSE L[i - 1]]
  PROVE  Linked(m + 1, M)'
<1>1. /\ m \in Nat /\ L \in [1 .. m -> 1 .. NODES]
      /\ \A i, j \in 1 .. m : L[i] = L[j] => i = j
      /\ mp1_list_head = IF m = 0 THEN NULL ELSE L[1]
      /\ \A i \in 1 .. m : blink_array[L[i]].next = IF i = m THEN NULL ELSE L[i + 1]
      /\ \A k \in 1 .. NODES :
           blink_array[k].location # 0 <=> \E i \in 1 .. m : L[i] = k
  BY Zenon DEF Linked, Links
<1>2. \A i \in 1 .. m : L[i] # n /\ L[i] \in 1 .. NODES
  BY <1>1
<1>3. M[1] = n /\ \A i \in 1 .. m : M[i + 1] = L[i]
  BY <1>1
<1>4. M \in [1 .. m + 1 -> 1 .. NODES]
  BY <1>1, SMTT(30)
<1>5. \A i \in 1 .. m + 1 : i = 1 \/ (i - 1 \in 1 .. m /\ M[i] = L[i - 1])
  BY <1>1
<1>6. \A i, j \in 1 .. m + 1 : M[i] = M[j] => i = j
  BY <1>1, <1>2, <1>3, <1>5, SMTT(30)
<1>7. ASSUME NEW i \in 1 .. m + 1
      PROVE  blink_array'[M[i]].next = IF i = m + 1 THEN NULL ELSE M[i + 1]
  <2>1. CASE i = 1
    BY <1>1, <1>3, <2>1
  <2>2. CASE i # 1
    <3>1. i - 1 \in 1 .. m /\ M[i] = L[i - 1]
      BY <1>5, <2>2, Zenon
    <3>2. blink_array'[M[i]] = blink_array[L[i - 1]]
      BY <1>2, <3>1, Zenon
    <3>3. blink_array[L[i - 1]].next = IF i - 1 = m THEN NULL ELSE L[(i - 1) + 1]
      BY <1>1, <3>1, Zenon
    <3>4. i # m + 1 => M[i + 1] = L[i]
      <4>1. i # m + 1 => i \in 1 .. m
        BY <1>1
      <4> QED BY <1>3, <4>1, Zenon
    <3> QED BY <1>1, <3>1, <3>2, <3>3, <3>4
  <2> QED BY <2>1, <2>2, Zenon
<1>8. ASSUME NEW k \in 1 .. NODES
      PROVE  blink_array'[k].location # 0 <=> \E i \in 1 .. m + 1 : M[i] = k
  <2>1. CASE k = n
    BY <1>1, <1>3, <2>1
  <2>2. CASE k # n
    <3>1. blink_array'[k].location # 0 <=> \E i \in 1 .. m : L[i] = k
      BY <1>1, <2>2
    <3>2. (\E i \in 1 .. m : L[i] = k) <=> \E i \in 1 .. m + 1 : M[i] = k
      <4>1. \A i \in 1 .. m : i + 1 \in 1 .. m + 1
        BY <1>1
      <4> QED BY <1>3, <1>5, <2>2, <4>1
    <3> QED BY <3>1, <3>2, Zenon
  <2> QED BY <2>1, <2>2, Zenon
<1>9. m + 1 \in Nat /\ m + 1 # 0
  BY <1>1
<1> QED BY <1>3, <1>4, <1>6, <1>7, <1>8, <1>9, Zenon DEF Linked, Links

(* RTC_ADD puts an element that was free before all others.                *)
LEMMA AddKeeps ==
  ASSUME BlinkInv, NEW s, mp1_ioctl_add(s), s.location \in Nat \ {0}
  PROVE  BlinkInv'
<1> PICK n : n = mp1_malloc
  BY Zenon
<1> PICK l : l = s.location
  BY Zenon
<1> PICK e : e = [location |-> l, on_char |-> s.on_char,
                  off_char |-> s.off_char, on_length |-> s.on_length,
                  off_length |-> s.off_length, countdown |-> s.on_length,
                  status |-> 1, next |-> mp1_list_head]
  BY Zenon
<1>1. CASE UNCHANGED blinkVars
  BY <1>1, BlinkUnchanged
<1>2. CASE ~UNCHANGED blinkVars
  <2>1. /\ l < SCREEN /\ n # NULL /\ l \in Nat \ {0}
        /\ blink_array' = [blink_array EXCEPT ![n] = e]
        /\ mp1_list_head' = n
        /\ screen' = [screen EXCEPT ![l] = s.on_char]
        /\ UNCHANGED <<synced, unshown>>
    BY <1>2, Zenon DEF mp1_ioctl_add, mp1_poke
  <2>2. n \in 1 .. NODES /\ blink_array[n].location = 0 /\ n \notin Allocated
    BY <2>1, MallocFinds, Zenon DEF Allocated
  <2>3. /\ e.location = l /\ e.on_char = s.on_char /\ e.status = 1
        /\ e.next = mp1_list_head /\ IsElement(e)
    BY <2>1, Zenon DEF IsElement
  <2>4. /\ blink_array = [k \in 1 .. NODES |-> blink_array[k]]
        /\ \A k \in 1 .. NODES : IsElement(blink_array[k])
        /\ \A k \in Allocated : blink_array[k].location < SCREEN
        /\ screen = [k \in 0 .. SCREEN - 1 |-> screen[k]]
    BY Zenon DEF BlinkInv, ArrayInv
  <2> HIDE DEF IsElement
  <2>5. blink_array'[n] = e /\ \A k \in 1 .. NODES : k # n => blink_array'[k] = blink_array[k]
    BY <2>1, <2>2, <2>4
  <2>6. Allocated' = Allocated \cup {n}
    BY <2>1, <2>2, <2>3, <2>5 DEF Allocated
  <2>7. /\ screen' = [k \in 0 .. SCREEN - 1 |-> screen'[k]]
        /\ screen'[l] = s.on_char
        /\ \A k \in 0 .. SCREEN - 1 : k # l => screen'[k] = screen[k]
    <3>1. l \in 0 .. SCREEN - 1
      BY <2>1, BlinkAssumption
    <3> QED BY <2>1, <2>4, <3>1, Zenon
  <2>8. ArrayInv'
    <3>1. blink_array' = [k \in 1 .. NODES |-> blink_array'[k]]
      BY <2>1, <2>4, Zenon
    <3>2. \A k \in 1 .. NODES : IsElement(blink_array'[k])
      BY <2>3, <2>4, <2>5, Zenon
    <3>3. \A k \in Allocated' : blink_array'[k].location < SCREEN
      BY <2>1, <2>2, <2>3, <2>4, <2>5, <2>6 DEF Allocated
    <3> QED BY <2>7, <3>1, <3>2, <3>3, Zenon DEF ArrayInv
  <2>9. LinkInv'
    <3>1. PICK m, L : Linked(m, L)
      BY Zenon DEF BlinkInv, LinkInv
    <3> PICK M : M = [i \in 1 .. m + 1 |-> IF i = 1 THEN n ELSE L[i - 1]]
      BY Zenon
    <3>2. blink_array'[n].location # 0
      BY <2>1, <2>3, <2>5, SMTT(30)
    <3>3. Linked(m + 1, M)'
      BY <2>1, <2>2, <2>3, <2>5, <3>1, <3>2, AddLinks
    <3> QED BY <3>3, Zenon DEF LinkInv
  <2>10. SyncInv'
    <3>1. \A k \in Allocated : blink_array'[k] = blink_array[k]
      BY <2>2, <2>5, Zenon DEF Allocated
    <3> QED BY <2>1, <2>6, <3>1, Zenon DEF BlinkInv, SyncInv
  <2>11. ScreenInv'
    <3> SUFFICES ASSUME NEW k \in Allocated' \ unshown'
                 PROVE  \/ screen'[blink_array'[k].location] = Phase(blink_array'[k])
                        \/ \E j \in Allocated' \ {k} :
                             blink_array'[j].location = blink_array'[k].location
      BY Zenon DEF ScreenInv
    <3>1. CASE k = n
      BY <2>3, <2>5, <2>7, <3>1, SMTT(30) DEF Phase
    <3>2. CASE k # n /\ blink_array[k].location = l
      BY <2>3, <2>5, <2>6, <3>2 DEF Allocated
    <3>3. CASE k # n /\ blink_array[k].location # l
      <4>1. k \in Allocated /\ k \notin unshown /\ blink_array'[k] = blink_array[k]
        BY <2>1, <2>5, <2>6, <3>3, Zenon DEF Allocated
      <4>2. blink_array[k].location \in 0 .. SCREEN - 1
        BY <2>4, <4>1, BlinkAssumption DEF Allocated, IsElement
      <4>3. screen'[blink_array[k].location] = screen[blink_array[k].location]
        BY <2>7, <3>3, <4>2, Zenon
      <4>4. CASE screen[blink_array[k].location] = Phase(blink_array[k])
        BY <4>1, <4>3, <4>4, Zenon
      <4>5. ASSUME NEW j \in Allocated \ {k}, blink_array[j].location = blink_array[k].location
            PROVE  \E i \in Allocated' \ {k} :
                     blink_array'[i].location = blink_array'[k].location
        <5>1. j # n /\ j \in 1 .. NODES
          BY <2>2, <4>5, Zenon DEF Allocated
        <5> QED BY <2>5, <2>6, <4>1, <4>5, <5>1, Zenon
      <4> QED BY <4>1, <4>4, <4>5, Zenon DEF BlinkInv, ScreenInv
    <3> QED BY <3>1, <3>2, <3>3, Zenon
  <2> QED BY <2>8, <2>9, <2>10, <2>11 DEF BlinkInv
<1> QED BY <1>1, <1>2, Zenon

-----------------------------------------------------------------------------
(* RTC_REMOVE takes the element out of the list wherever it is.            *)
LEMMA UnlinkKeeps ==
  ASSUME ArrayInv, LinkInv, NEW n \in Allocated, Unlink(n)
  PROVE  /\ LinkInv'
         /\ blink_array' = [k \in 1 .. NODES |-> blink_array'[k]]
         /\ blink_array'[n] = Zero
         /\ \A k \in 1 .. NODES : k # n =>
              \/ blink_array'[k] = blink_array[k]
              \/ \E v : blink_array'[k] = [blink_array[k] EXCEPT !.next = v]
<1> PICK next : next = blink_array[n].next
  BY Zenon
<1> PICK prev : prev = {k \in Elements : blink_array[k].next = n}
  BY Zenon
<1>1. n \in 1 .. NODES /\ blink_array[n].location # 0
  BY Zenon DEF Allocated
<1>2. Elements = Allocated
  BY ElementsAre, Zenon
<1>3. /\ mp1_list_head' = IF mp1_list_head = n THEN next ELSE mp1_list_head
      /\ blink_array' = [k \in 1 .. NODES |->
           IF k = n THEN Zero
           ELSE IF k \in prev /\ mp1_list_head # n
                  THEN [blink_array[k] EXCEPT !.next = next]
           ELSE blink_array[k]]
  BY Zenon DEF Unlink
<1>4. /\ blink_array' = [k \in 1 .. NODES |-> blink_array'[k]]
      /\ blink_array'[n] = Zero
      /\ \A k \in 1 .. NODES : k # n =>
           blink_array'[k] = IF k \in prev /\ mp1_list_head # n
                               THEN [blink_array[k] EXCEPT !.next = next]
                               ELSE blink_array[k]
  BY <1>1, <1>3, Zenon
<1>5. ASSUME NEW k \in 1 .. NODES, k # n
      PROVE  /\ blink_array'[k].location = blink_array[k].location
             /\ blink_array'[k].next = IF k \in prev /\ mp1_list_head # n
                                         THEN next ELSE blink_array[k].next
  <2>1. IsElement(blink_array[k])
    BY Zenon DEF ArrayInv
  <2>2. PICK e : e = blink_array[k]
    BY Zenon
  <2>3. e = [location |-> e.location, on_char |-> e.on_char, off_char |-> e.off_char,
             on_length |-> e.on_length, off_length |-> e.off_length,
             countdown |-> e.countdown, status |-> e.status, next |-> e.next]
    BY <2>1, <2>2, Zenon DEF IsElement
  <2>4. /\ [e EXCEPT !.next = next].location = e.location
        /\ [e EXCEPT !.next = next].next = next
    BY <2>3, Zenon
  <2> QED BY <1>4, <1>5, <2>2, <2>4, Zenon
<1>6. PICK m, L : Linked(m, L)
  BY Zenon DEF LinkInv
<1>7. /\ m \in Nat /\ L \in [1 .. m -> 1 .. NODES]
      /\ \A i, j \in 1 .. m : L[i] = L[j] => i = j
      /\ mp1_list_head = IF m = 0 THEN NULL ELSE L[1]
      /\ \A i \in 1 .. m : blink_array[L[i]].next = IF i = m THEN NULL ELSE L[i + 1]
      /\ \A k \in 1 .. NODES :
           blink_array[k].location # 0 <=> \E i \in 1 .. m : L[i] = k
  BY <1>6, Zenon DEF Linked, Links
<1>8. PICK d \in 1 .. m : L[d] = n
  BY <1>1, <1>7, Zenon
<1>9. /\ m \in Nat \ {0} /\ m - 1 \in Nat
      /\ mp1_list_head = L[1] /\ 1 \in 1 .. m
      /\ next = IF d = m THEN NULL ELSE L[d + 1]
      /\ \A i \in 1 .. m : L[i] \in 1 .. NODES /\ (L[i] = n <=> i = d)
  <2>1. m \in Nat \ {0} /\ m - 1 \in Nat /\ 1 \in 1 .. m
    BY <1>7, <1>8
  <2>2. mp1_list_head = L[1]
    BY <1>7, <2>1, Zenon
  <2>3. next = IF d = m THEN NULL ELSE L[d + 1]
    BY <1>7, <1>8, Zenon
  <2>4. \A i \in 1 .. m : L[i] \in 1 .. NODES /\ (L[i] = n <=> i = d)
    BY <1>7, <1>8, Zenon
  <2> QED BY <2>1, <2>2, <2>3, <2>4, Zenon
<1> PICK M : M = [i \in 1 .. m - 1 |-> IF i < d THEN L[i] ELSE L[i + 1]]
  BY Zenon
<1>10. ASSUME NEW i \in 1 .. m - 1
       PROVE  /\ i \in 1 .. m /\ i + 1 \in 1 .. m
              /\ M[i] = IF i < d THEN L[i] ELSE L[i + 1]
              /\ M[i] \in 1 .. NODES /\ M[i] # n
  BY <1>7, <1>8, <1>9, SMTT(30)
<1>11. M \in [1 .. m - 1 -> 1 .. NODES]
  BY <1>10, Zenon
<1>12. \A i, j \in 1 .. m - 1 : M[i] = M[j] => i = j
  <2> SUFFICES ASSUME NEW i \in 1 .. m - 1, NEW j \in 1 .. m - 1, M[i] = M[j]
               PROVE  i = j
    BY Zenon
  <2>1. CASE i < d /\ j < d
    BY <1>7, <1>10, <2>1
  <2>2. CASE i < d /\ ~(j < d)
    <3>1. L[i] = L[j + 1] /\ i \in 1 .. m /\ j + 1 \in 1 .. m
      BY <1>10, <2>2, Zenon
    <3>2. i = j + 1
      BY <1>7, <3>1, Zenon
    <3> QED BY <2>2, <3>2
  <2>3. CASE ~(i < d) /\ j < d
    <3>1. L[i + 1] = L[j] /\ j \in 1 .. m /\ i + 1 \in 1 .. m
      BY <1>10, <2>3, Zenon
    <3>2. i + 1 = j
      BY <1>7, <3>1, Zenon
    <3> QED BY <2>3, <3>2
  <2>4. CASE ~(i < d) /\ ~(j < d)
    <3>1. L[i + 1] = L[j + 1] /\ j + 1 \in 1 .. m /\ i + 1 \in 1 .. m
      BY <1>10, <2>4, Zenon
    <3>2. i + 1 = j + 1
      BY <1>7, <3>1, Zenon
    <3> QED BY <3>2
  <2> QED BY <2>1, <2>2, <2>3, <2>4, Zenon
<1>13. mp1_list_head' = IF m - 1 = 0 THEN NULL ELSE M[1]
  <2>1. CASE d = 1
    <3>1. mp1_list_head' = IF 1 = m THEN NULL ELSE L[1 + 1]
      BY <1>3, <1>8, <1>9, <2>1, Zenon
    <3> QED BY <1>9, <1>10, <2>1, <3>1
  <2>2. CASE d # 1
    <3>1. mp1_list_head' = L[1] /\ 1 < d /\ 1 \in 1 .. m - 1
      BY <1>3, <1>8, <1>9, <2>2, SMTT(30)
    <3> QED BY <1>9, <1>10, <3>1
  <2> QED BY <2>1, <2>2, Zenon
<1>14. ASSUME NEW i \in 1 .. m, i # d
       PROVE  /\ L[i] \in prev <=> i + 1 = d
              /\ mp1_list_head # n <=> d # 1
              /\ blink_array'[L[i]].next = IF i + 1 = d THEN next
                                           ELSE IF i = m THEN NULL ELSE L[i + 1]
  <2>1. L[i] \in Allocated /\ L[i] \in 1 .. NODES /\ L[i] # n
    BY <1>7, <1>9, <1>14, Zenon DEF Allocated
  <2>2. blink_array[L[i]].next = IF i = m THEN NULL ELSE L[i + 1]
    BY <1>7, Zenon
  <2>3. L[i] \in prev <=> i + 1 = d
    <3>1. L[i] \in prev <=> (IF i = m THEN NULL ELSE L[i + 1]) = n
      BY <1>2, <2>1, <2>2, Zenon
    <3>2. CASE i = m
      <4>1. n # NULL
        BY <1>1 DEF NULL
      <4> QED BY <1>7, <1>8, <3>1, <3>2, <4>1, SMTT(30)
    <3>3. CASE i # m
      <4>1. i + 1 \in 1 .. m
        BY <1>7, <3>3
      <4> QED BY <1>9, <3>1, <3>3, <4>1, Zenon
    <3> QED BY <3>2, <3>3, Zenon
  <2>4. mp1_list_head # n <=> d # 1
    BY <1>9, Zenon
  <2>5. i + 1 = d => d # 1
    BY <1>7
  <2> QED BY <1>5, <2>1, <2>2, <2>3, <2>4, <2>5, SMTT(30)
<1>15. ASSUME NEW i \in 1 .. m - 1
       PROVE  blink_array'[M[i]].next = IF i = m - 1 THEN NULL ELSE M[i + 1]
  <2>0. i \in 1 .. m /\ i + 1 \in 1 .. m /\ (i # m - 1 => i + 1 \in 1 .. m - 1)
    BY <1>7
  <2>1. CASE i + 1 < d
    <3>1. M[i] = L[i] /\ M[i + 1] = L[i + 1] /\ i # m /\ i # m - 1 /\ i # d /\ i + 1 # d
      BY <1>7, <1>10, <2>0, <2>1, SMTT(30)
    <3> QED BY <1>14, <2>0, <3>1, Zenon
  <2>2. CASE i + 1 = d
    <3>1. M[i] = L[i] /\ i # d
      BY <1>7, <1>10, <2>2
    <3>2. blink_array'[M[i]].next = next
      BY <1>14, <2>0, <2>2, <3>1, Zenon
    <3>3. i # m - 1 => M[i + 1] = L[d + 1]
      BY <1>10, <2>0, <2>2, SMTT(30)
    <3> QED BY <1>7, <1>9, <2>2, <3>2, <3>3, SMTT(30)
  <2>3. CASE i + 1 > d
    <3>1. M[i] = L[i + 1] /\ i + 1 # d /\ (i + 1) + 1 # d
      BY <1>7, <1>10, <2>3
    <3>2. blink_array'[L[i + 1]].next = IF i + 1 = m THEN NULL ELSE L[(i + 1) + 1]
      BY <1>14, <2>0, <3>1, Zenon
    <3>3. i # m - 1 => M[i + 1] = L[(i + 1) + 1]
      BY <1>10, <2>0, <2>3
    <3> QED BY <1>7, <3>1, <3>2, <3>3, SMTT(30)
  <2> QED BY <1>7, <2>1, <2>2, <2>3, SMTT(30)
<1>16. ASSUME NEW k \in 1 .. NODES
       PROVE  blink_array'[k].location # 0 <=> \E i \in 1 .. m - 1 : M[i] = k
  <2>1. CASE k = n
    <3>1. Zero.location = 0
      BY Zenon DEF Zero
    <3> QED BY <1>4, <1>10, <2>1, <3>1
  <2>2. CASE k # n
    <3>1. blink_array'[k].location # 0 <=> \E i \in 1 .. m : L[i] = k
      BY <1>5, <1>7, <2>2, Zenon
    <3>2. ASSUME NEW i \in 1 .. m, L[i] = k PROVE \E j \in 1 .. m - 1 : M[j] = k
      <4>1. CASE i < d
        <5>1. i \in 1 .. m - 1 /\ M[i] = L[i]
          BY <1>7, <1>10, <4>1
        <5> QED BY <3>2, <5>1, Zenon
      <4>2. CASE i > d
        <5>1. i - 1 \in 1 .. m - 1 /\ ~(i - 1 < d) /\ (i - 1) + 1 = i
          BY <1>7, <4>2
        <5>2. M[i - 1] = L[i]
          BY <1>10, <5>1, Zenon
        <5> QED BY <3>2, <5>1, <5>2, Zenon
      <4>3. i # d
        BY <1>8, <2>2, <3>2, Zenon
      <4> QED BY <1>7, <4>1, <4>2, <4>3
    <3>3. ASSUME NEW i \in 1 .. m - 1, M[i] = k PROVE \E j \in 1 .. m : L[j] = k
      BY <1>10, <3>3, Zenon
    <3> QED BY <3>1, <3>2, <3>3, Zenon
  <2> QED BY <2>1, <2>2, Zenon
<1>17. Linked(m - 1, M)'
  BY <1>9, <1>11, <1>12, <1>13, <1>15, <1>16, Zenon DEF Linked, Links
<1>18. LinkInv'
  BY <1>17, Zenon DEF LinkInv
<1> QED BY <1>4, <1>18, Zenon

(* An element keeps its fields when its link changes.                      *)
LEMMA NextKeeps ==
  ASSUME NEW e, IsElement(e), NEW v
  PROVE  LET f == [e EXCEPT !.next = v] IN
         /\ IsElement(f) /\ SameRates(e, f) /\ Phase(f) = Phase(e)
         /\ f.location = e.location
<1> DEFINE g == [location |-> e.location, on_char |-> e.on_char, off_char |-> e.off_char,
                 on_length |-> e.on_length, off_length |-> e.off_length,
                 countdown |-> e.countdown, status |-> e.status, next |-> v]
<1>1. [e EXCEPT !.next = v] = g
  BY DEF IsElement
<1>2. /\ g.location = e.location /\ g.on_char = e.on_char /\ g.off_char = e.off_char
      /\ g.on_length = e.on_length /\ g.off_length = e.off_length
      /\ g.countdown = e.countdown /\ g.status = e.status /\ g.next = v
  BY Zenon
<1>3. g = [location |-> g.location, on_char |-> g.on_char, off_char |-> g.off_char,
           on_length |-> g.on_length, off_length |-> g.off_length,
           countdown |-> g.countdown, status |-> g.status, next |-> g.next]
  BY Zenon
<1> HIDE DEF g
<1>4. IsElement(g)
  BY <1>2, <1>3, Zenon DEF IsElement
<1> QED BY <1>1, <1>2, <1>4, Zenon DEF SameRates, Phase

LEMMA RemoveKeeps ==
  ASSUME BlinkInv, NEW l, mp1_ioctl_remove(l)
  PROVE  BlinkInv'
<1> PICK n : n = mp1_find_helper(l)
  BY Zenon
<1>1. CASE UNCHANGED blinkVars
  BY <1>1, BlinkUnchanged, Zenon
<1>2. CASE ~UNCHANGED blinkVars
  <2>1. /\ n # NULL /\ Unlink(n) /\ UNCHANGED screen
        /\ synced' = {p \in synced : p[1] # n /\ p[2] # n}
        /\ unshown' = (unshown \ {n}) \cup
             {k \in Elements \ {n} : blink_array[k].location = l}
    BY <1>2, Zenon DEF mp1_ioctl_remove
  <2>2. ArrayInv /\ LinkInv /\ Elements = Allocated
    BY ElementsAre, Zenon DEF BlinkInv
  <2>3. n \in Allocated /\ n \in 1 .. NODES /\ blink_array[n].location = l
    BY <2>1, <2>2, FindsOne, Zenon DEF Allocated
  <2>4. /\ LinkInv'
        /\ blink_array' = [k \in 1 .. NODES |-> blink_array'[k]]
        /\ blink_array'[n] = Zero
        /\ \A k \in 1 .. NODES : k # n =>
             \/ blink_array'[k] = blink_array[k]
             \/ \E v : blink_array'[k] = [blink_array[k] EXCEPT !.next = v]
    BY <2>1, <2>2, <2>3, UnlinkKeeps, Zenon
  <2>5. ASSUME NEW k \in 1 .. NODES, k # n
        PROVE  /\ IsElement(blink_array'[k]) /\ SameRates(blink_array[k], blink_array'[k])
               /\ Phase(blink_array'[k]) = Phase(blink_array[k])
               /\ blink_array'[k].location = blink_array[k].location
    <3>1. IsElement(blink_array[k])
      BY <2>2, Zenon DEF ArrayInv
    <3>2. CASE blink_array'[k] = blink_array[k]
      BY <3>1, <3>2, Zenon DEF SameRates
    <3>3. ASSUME NEW v, blink_array'[k] = [blink_array[k] EXCEPT !.next = v]
          PROVE  /\ IsElement(blink_array'[k]) /\ SameRates(blink_array[k], blink_array'[k])
                 /\ Phase(blink_array'[k]) = Phase(blink_array[k])
                 /\ blink_array'[k].location = blink_array[k].location
      BY <3>1, <3>3, NextKeeps
    <3> QED BY <2>4, <2>5, <3>2, <3>3, Zenon
  <2>6. Allocated' = Allocated \ {n}
    <3>1. Zero.location = 0
      BY Zenon DEF Zero
    <3> QED BY <2>4, <2>5, <3>1, Zenon DEF Allocated
  <2>7. \A k \in Allocated' : k \in Allocated /\ k # n /\ k \in 1 .. NODES
    BY <2>6, Zenon DEF Allocated
  <2>8. ArrayInv'
    <3>1. IsElement(Zero)
      BY Zenon DEF IsElement, Zero
    <3>2. \A k \in 1 .. NODES : IsElement(blink_array'[k])
      BY <2>4, <2>5, <3>1, Zenon
    <3>3. \A k \in Allocated' : blink_array'[k].location < SCREEN
      BY <2>2, <2>5, <2>7, ZenonT(30) DEF ArrayInv
    <3> QED BY <2>1, <2>2, <2>4, <3>2, <3>3, Zenon DEF ArrayInv
  <2>9. SyncInv'
    <3> SUFFICES ASSUME NEW p \in synced'
                 PROVE  /\ p[1] \in Allocated' /\ p[2] \in Allocated'
                        /\ SameRates(blink_array'[p[1]], blink_array'[p[2]])
      BY Zenon DEF SyncInv
    <3>1. /\ p[1] \in Allocated /\ p[2] \in Allocated /\ p[1] # n /\ p[2] # n
          /\ SameRates(blink_array[p[1]], blink_array[p[2]])
      BY <2>1, Zenon DEF BlinkInv, SyncInv
    <3>2. p[1] \in Allocated' /\ p[2] \in Allocated'
      BY <2>6, <3>1, Zenon
    <3> QED BY <2>5, <2>7, <3>1, <3>2 DEF SameRates
  <2>10. ScreenInv'
    <3> SUFFICES ASSUME NEW k \in Allocated' \ unshown'
                 PROVE  \/ screen'[blink_array'[k].location] = Phase(blink_array'[k])
                        \/ \E j \in Allocated' \ {k} :
                             blink_array'[j].location = blink_array'[k].location
      BY Zenon DEF ScreenInv
    <3>1. /\ k \in Allocated /\ k # n /\ k \in 1 .. NODES /\ k \notin unshown
          /\ blink_array[k].location # l
      BY <2>1, <2>2, <2>7, Zenon
    <3>2. CASE screen[blink_array[k].location] = Phase(blink_array[k])
      BY <2>1, <2>5, <3>1, <3>2, Zenon
    <3>3. ASSUME NEW j \in Allocated \ {k}, blink_array[j].location = blink_array[k].location
          PROVE  \E i \in Allocated' \ {k} :
                   blink_array'[i].location = blink_array'[k].location
      <4>1. j # n /\ j \in 1 .. NODES
        BY <2>3, <3>1, <3>3, Zenon DEF Allocated
      <4>2. j \in Allocated' \ {k}
        BY <2>6, <4>1, Zenon
      <4> QED BY <2>5, <3>1, <3>3, <4>1, <4>2, Zenon
    <3> QED BY <3>1, <3>2, <3>3, Zenon DEF BlinkInv, ScreenInv
  <2> QED BY <2>4, <2>8, <2>9, <2>10, Zenon DEF BlinkInv
<1> QED BY <1>1, <1>2, Zenon
-----------------------------------------------------------------------------
(* Steps that change neither a location nor a link keep the list.          *)
LEMMA SameLinks ==
  ASSUME LinkInv, UNCHANGED mp1_list_head,
         \A k \in 1 .. NODES : /\ blink_array'[k].location = blink_array[k].location
                               /\ blink_array'[k].next = blink_array[k].next
  PROVE  LinkInv' /\ Allocated' = Allocated
<1>1. PICK m, L : Linked(m, L)
  BY Zenon DEF LinkInv
<1>2. Linked(m, L)'
  BY <1>1, Zenon DEF Linked, Links
<1>3. Allocated' = Allocated
  BY Zenon DEF Allocated
<1> QED BY <1>2, <1>3, Zenon DEF LinkInv

LEMMA CopyKeeps ==
  ASSUME NEW e, IsElement(e), NEW f, IsElement(f)
  PROVE  LET g == CopyRates(f, e) IN
         /\ IsElement(g) /\ SameRates(f, g)
         /\ g.location = e.location /\ g.next = e.next
<1> DEFINE g == [location |-> e.location, on_char |-> e.on_char, off_char |-> e.off_char,
                 on_length |-> f.on_length, off_length |-> f.off_length,
                 countdown |-> f.countdown, status |-> f.status, next |-> e.next]
<1>1. CopyRates(f, e) = g
  <2> PICK a : a = e.location BY Zenon
  <2> PICK b : b = e.on_char BY Zenon
  <2> PICK d : d = e.off_char BY Zenon
  <2> PICK x : x = e.on_length BY Zenon
  <2> PICK y : y = e.off_length BY Zenon
  <2> PICK z : z = e.countdown BY Zenon
  <2> PICK s : s = e.status BY Zenon
  <2> PICK w : w = e.next BY Zenon
  <2>1. e = [location |-> a, on_char |-> b, off_char |-> d, on_length |-> x,
             off_length |-> y, countdown |-> z, status |-> s, next |-> w]
    BY Zenon DEF IsElement
  <2> PICK x1 : x1 = f.on_length BY Zenon
  <2> PICK y1 : y1 = f.off_length BY Zenon
  <2> PICK z1 : z1 = f.countdown BY Zenon
  <2> PICK s1 : s1 = f.status BY Zenon
  <2> PICK e1 : e1 = [e EXCEPT !.on_length = x1] BY Zenon
  <2> PICK e2 : e2 = [e1 EXCEPT !.off_length = y1] BY Zenon
  <2> PICK e3 : e3 = [e2 EXCEPT !.countdown = z1] BY Zenon
  <2>2. CopyRates(f, e) = [e3 EXCEPT !.status = s1]
    BY Zenon DEF CopyRates
  <2>3. e1 = [location |-> a, on_char |-> b, off_char |-> d, on_length |-> x1,
             off_length |-> y, countdown |-> z, status |-> s, next |-> w]
    BY <2>1, Zenon
  <2>4. e2 = [location |-> a, on_char |-> b, off_char |-> d, on_length |-> x1,
             off_length |-> y1, countdown |-> z, status |-> s, next |-> w]
    BY <2>3, ZenonT(30)
  <2>5. e3 = [location |-> a, on_char |-> b, off_char |-> d, on_length |-> x1,
             off_length |-> y1, countdown |-> z1, status |-> s, next |-> w]
    BY <2>4, ZenonT(30)
  <2> PICK e4 : e4 = [e3 EXCEPT !.status = s1] BY Zenon
  <2>6. e4 = [location |-> a, on_char |-> b, off_char |-> d, on_length |-> x1,
             off_length |-> y1, countdown |-> z1, status |-> s1, next |-> w]
    BY <2>5, ZenonT(30)
  <2>7. CopyRates(f, e) = e4
    BY <2>2, Zenon
  <2> QED BY <2>6, <2>7, Zenon
<1>2. /\ g.location = e.location /\ g.on_char = e.on_char /\ g.off_char = e.off_char
      /\ g.on_length = f.on_length /\ g.off_length = f.off_length
      /\ g.countdown = f.countdown /\ g.status = f.status /\ g.next = e.next
  BY Zenon
<1>3. g = [location |-> g.location, on_char |-> g.on_char, off_char |-> g.off_char,
           on_length |-> g.on_length, off_length |-> g.off_length,
           countdown |-> g.countdown, status |-> g.status, next |-> g.next]
  BY Zenon
<1> HIDE DEF g
<1>4. IsElement(g)
  BY <1>2, <1>3, Zenon DEF IsElement
<1> QED BY <1>1, <1>2, <1>4, Zenon DEF SameRates

LEMMA SyncKeeps ==
  ASSUME BlinkInv, NEW l1, NEW l2, mp1_ioctl_sync(l1, l2)
  PROVE  BlinkInv'
<1> PICK from : from = mp1_find_helper(l1)
  BY Zenon
<1> PICK to : to = mp1_find_helper(l2)
  BY Zenon
<1>1. CASE UNCHANGED blinkVars
  BY <1>1, BlinkUnchanged, Zenon
<1>2. CASE ~UNCHANGED blinkVars
  <2> PICK g : g = CopyRates(blink_array[from], blink_array[to])
    BY Zenon
  <2> PICK l : l = blink_array[to].location
    BY Zenon
  <2>1. /\ from # NULL /\ to # NULL
        /\ blink_array' = [blink_array EXCEPT ![to] = g]
        /\ screen' = [screen EXCEPT ![l] = blink_array[to].off_char]
        /\ synced' = IF from = to THEN synced
                     ELSE {p \in synced : p[1] # to /\ p[2] # to} \cup {<<from, to>>}
        /\ unshown' = unshown \cup {to}
        /\ UNCHANGED mp1_list_head
    BY <1>2, Zenon DEF mp1_ioctl_sync, mp1_poke
  <2>2. ArrayInv /\ LinkInv /\ SyncInv /\ ScreenInv
    BY Zenon DEF BlinkInv
  <2>3. /\ from \in Allocated /\ to \in Allocated
        /\ from \in 1 .. NODES /\ to \in 1 .. NODES
    BY <2>1, <2>2, FindsOne, Zenon DEF Allocated
  <2>4. IsElement(blink_array[from]) /\ IsElement(blink_array[to])
    BY <2>2, <2>3, Zenon DEF ArrayInv
  <2>5. /\ IsElement(g) /\ SameRates(blink_array[from], g)
        /\ g.location = l /\ g.next = blink_array[to].next
    BY <2>4, CopyKeeps, Zenon
  <2>6. /\ blink_array' = [k \in 1 .. NODES |-> blink_array'[k]]
        /\ blink_array'[to] = g
        /\ \A k \in 1 .. NODES : k # to => blink_array'[k] = blink_array[k]
    <3>1. blink_array = [k \in 1 .. NODES |-> blink_array[k]]
      BY <2>2, Zenon DEF ArrayInv
    <3> QED BY <2>1, <2>3, <3>1, Zenon
  <2>7. \A k \in 1 .. NODES : /\ blink_array'[k].location = blink_array[k].location
                              /\ blink_array'[k].next = blink_array[k].next
    BY <2>5, <2>6, Zenon
  <2>8. LinkInv' /\ Allocated' = Allocated
    BY <2>1, <2>2, <2>7, SameLinks
  <2>9. /\ screen' = [k \in 0 .. SCREEN - 1 |-> screen'[k]]
        /\ \A k \in 0 .. SCREEN - 1 : k # l => screen'[k] = screen[k]
    <3>1. screen = [k \in 0 .. SCREEN - 1 |-> screen[k]]
      BY <2>2, Zenon DEF ArrayInv
    <3> QED BY <2>1, <3>1, Zenon
  <2>10. ArrayInv'
    <3>1. \A k \in 1 .. NODES : IsElement(blink_array'[k])
      BY <2>2, <2>5, <2>6, Zenon DEF ArrayInv
    <3>2. \A k \in Allocated' : blink_array'[k].location < SCREEN
      BY <2>2, <2>7, <2>8, Zenon DEF ArrayInv, Allocated
    <3> QED BY <2>6, <2>9, <3>1, <3>2, Zenon DEF ArrayInv
  <2>11. SyncInv'
    <3>0. ASSUME NEW p \in synced, p[1] # to, p[2] # to
          PROVE  /\ p[1] \in Allocated /\ p[2] \in Allocated
                 /\ SameRates(blink_array'[p[1]], blink_array'[p[2]])
      BY <2>2, <2>6, <3>0, Zenon DEF SyncInv, Allocated
    <3>1. CASE from # to
      <4> SUFFICES ASSUME NEW p \in synced'
                   PROVE  /\ p[1] \in Allocated /\ p[2] \in Allocated
                          /\ SameRates(blink_array'[p[1]], blink_array'[p[2]])
        BY <2>8, Zenon DEF SyncInv
      <4>1. CASE p \in synced /\ p[1] # to /\ p[2] # to
        BY <3>0, <4>1, Zenon
      <4>2. CASE p = <<from, to>>
        <5>1. p[1] = from /\ p[2] = to
          BY <4>2, Zenon
        <5> QED BY <2>3, <2>5, <2>6, <3>1, <5>1
      <4> QED BY <2>1, <3>1, <4>1, <4>2, Zenon
    <3>2. CASE from = to
      \* the element is copied to itself
      <4>1. \A k \in 1 .. NODES : SameRates(blink_array[k], blink_array'[k])
        BY <2>5, <2>6, <3>2, Zenon DEF SameRates
      <4>2. synced' = synced
        BY <2>1, <3>2, Zenon
      <4>3. ASSUME NEW p \in synced
            PROVE  /\ p[1] \in Allocated /\ p[2] \in Allocated
                   /\ SameRates(blink_array'[p[1]], blink_array'[p[2]])
        <5>1. /\ p[1] \in Allocated /\ p[2] \in Allocated
              /\ SameRates(blink_array[p[1]], blink_array[p[2]])
          BY <2>2, Zenon DEF SyncInv
        <5>2. p[1] \in 1 .. NODES /\ p[2] \in 1 .. NODES
          BY <5>1, Zenon DEF Allocated
        <5> QED BY <4>1, <5>1, <5>2, Zenon DEF SameRates
      <4> QED BY <2>8, <4>2, <4>3, Zenon DEF SyncInv
    <3> QED BY <3>1, <3>2, Zenon
  <2>12. ScreenInv'
    <3> SUFFICES ASSUME NEW k \in Allocated \ unshown'
                 PROVE  \/ screen'[blink_array'[k].location] = Phase(blink_array'[k])
                        \/ \E j \in Allocated \ {k} :
                             blink_array'[j].location = blink_array'[k].location
      BY <2>8, Zenon DEF ScreenInv
    <3>1. k # to /\ k \notin unshown /\ k \in 1 .. NODES /\ blink_array'[k] = blink_array[k]
      BY <2>1, <2>6, Zenon DEF Allocated
    <3>2. CASE blink_array[k].location = l
      BY <2>3, <2>5, <2>6, <3>1, <3>2, SMTT(30)
    <3>3. CASE blink_array[k].location # l
      <4>1. blink_array[k].location \in 0 .. SCREEN - 1
        <5>1. IsElement(blink_array[k]) /\ blink_array[k].location < SCREEN
          BY <2>2, <3>1, Zenon DEF ArrayInv
        <5> QED BY <5>1, BlinkAssumption DEF IsElement
      <4>2. screen'[blink_array[k].location] = screen[blink_array[k].location]
        BY <2>9, <3>3, <4>1, Zenon
      <4>3. \A j \in Allocated : blink_array'[j].location = blink_array[j].location
        BY <2>7, Zenon DEF Allocated
      <4>4. \/ screen[blink_array[k].location] = Phase(blink_array[k])
            \/ \E j \in Allocated \ {k} : blink_array[j].location = blink_array[k].location
        BY <2>2, <3>1, Zenon DEF ScreenInv
      <4> QED BY <3>1, <4>2, <4>3, <4>4, SMTT(30)
    <3> QED BY <3>2, <3>3, Zenon
  <2> QED BY <2>8, <2>10, <2>11, <2>12, Zenon DEF BlinkInv
<1> QED BY <1>1, <1>2, Zenon
-----------------------------------------------------------------------------
(* What the tasklet makes of an element.                                   *)
LEMMA ToggleKeeps ==
  ASSUME NEW e, IsElement(e)
  PROVE  LET f == Toggle(e) IN
         /\ IsElement(f) /\ f.location = e.location /\ f.next = e.next
         /\ f.on_length = e.on_length /\ f.off_length = e.off_length
         /\ f.countdown = IF e.status = 1 THEN e.off_length ELSE e.on_length
         /\ f.status = 1 - e.status
         /\ Phase(f) = Shown(e)
<1> PICK z : z = IF e.status = 1 THEN e.off_length ELSE e.on_length
  BY Zenon
<1> PICK s : s = 1 - e.status
  BY Zenon
<1> DEFINE g == [location |-> e.location, on_char |-> e.on_char, off_char |-> e.off_char,
                 on_length |-> e.on_length, off_length |-> e.off_length,
                 countdown |-> z, status |-> s, next |-> e.next]
<1>0. e.status \in {0, 1} /\ s \in {0, 1} /\ (s = 1 <=> e.status # 1)
  BY DEF IsElement
<1>1. Toggle(e) = g
  <2>1. Toggle(e) = [e EXCEPT !.countdown = z, !.status = s]
    BY Zenon DEF Toggle, IsElement
  <2> QED BY <2>1, Zenon DEF IsElement
<1>2. /\ g.location = e.location /\ g.on_char = e.on_char /\ g.off_char = e.off_char
      /\ g.on_length = e.on_length /\ g.off_length = e.off_length
      /\ g.countdown = z /\ g.status = s /\ g.next = e.next
  BY Zenon
<1>3. g = [location |-> g.location, on_char |-> g.on_char, off_char |-> g.off_char,
           on_length |-> g.on_length, off_length |-> g.off_length,
           countdown |-> g.countdown, status |-> g.status, next |-> g.next]
  BY Zenon
<1> HIDE DEF g
<1>4. IsElement(g)
  BY <1>0, <1>2, <1>3, Zenon DEF IsElement
<1>5. Phase(g) = Shown(e)
  BY <1>0, <1>2, Zenon DEF Phase, Shown
<1> QED BY <1>1, <1>2, <1>4, <1>5, Zenon

LEMMA CountKeeps ==
  ASSUME NEW e, IsElement(e)
  PROVE  LET f == [e EXCEPT !.countdown = @ - 1] IN
         /\ IsElement(f) /\ f.location = e.location /\ f.next = e.next
         /\ f.on_length = e.on_length /\ f.off_length = e.off_length
         /\ f.countdown = e.countdown - 1
         /\ f.status = e.status
         /\ Phase(f) = Phase(e)
<1> PICK z : z = e.countdown - 1
  BY Zenon
<1> DEFINE g == [location |-> e.location, on_char |-> e.on_char, off_char |-> e.off_char,
                 on_length |-> e.on_length, off_length |-> e.off_length,
                 countdown |-> z, status |-> e.status, next |-> e.next]
<1>1. [e EXCEPT !.countdown = @ - 1] = g
  BY DEF IsElement
<1>2. /\ g.location = e.location /\ g.on_char = e.on_char /\ g.off_char = e.off_char
      /\ g.on_length = e.on_length /\ g.off_length = e.off_length
      /\ g.countdown = z /\ g.status = e.status /\ g.next = e.next
  BY Zenon
<1>3. g = [location |-> g.location, on_char |-> g.on_char, off_char |-> g.off_char,
           on_length |-> g.on_length, off_length |-> g.off_length,
           countdown |-> g.countdown, status |-> g.status, next |-> g.next]
  BY Zenon
<1> HIDE DEF g
<1>4. IsElement(g)
  BY <1>2, <1>3, Zenon DEF IsElement
<1> QED BY <1>1, <1>2, <1>4, Zenon DEF Phase

LEMMA TaskletKeeps ==
  ASSUME BlinkInv, mp1_rtc_tasklet
  PROVE  BlinkInv'
<1> PICK due : due = {n \in Allocated : Expired(n)}
  BY Zenon
<1>1. ArrayInv /\ LinkInv /\ SyncInv /\ ScreenInv /\ Elements = Allocated
  BY ElementsAre, Zenon DEF BlinkInv
<1>2. PICK m, L : Linked(m, L)
  BY <1>1, Zenon DEF LinkInv
<1>3. m \in Nat /\ Len(List) = m /\ \A i \in 1 .. m : List[i] = L[i]
  <2>1. m \in Nat
    BY <1>2, Zenon DEF Linked, Links
  <2> QED BY <1>2, <2>1, ListIs, Zenon
<1> DEFINE Here(l) == {i \in 1 .. m : L[i] \in due /\ blink_array[L[i]].location = l}
<1>4. /\ blink_array' = [n \in 1 .. NODES |->
           IF n \in due THEN Toggle(blink_array[n])
           ELSE IF n \in Allocated THEN [blink_array[n] EXCEPT !.countdown = @ - 1]
           ELSE blink_array[n]]
      /\ unshown' = unshown \ due
      /\ UNCHANGED <<mp1_list_head, synced>>
  BY <1>1, Zenon DEF mp1_rtc_tasklet
<1>5. screen' = [l \in 0 .. SCREEN - 1 |->
        IF Here(l) = {} THEN screen[l]
        ELSE Shown(blink_array[L[CHOOSE i \in Here(l) : \A j \in Here(l) : j <= i]])]
  <2> DEFINE Due(l) == {i \in 1 .. Len(List) :
                          List[i] \in due /\ blink_array[List[i]].location = l}
  <2>1. screen' = [l \in 0 .. SCREEN - 1 |->
          IF Due(l) = {} THEN screen[l]
          ELSE Shown(blink_array[List[CHOOSE i \in Due(l) : \A j \in Due(l) : j <= i]])]
    BY <1>1 DEF mp1_rtc_tasklet
  <2>2. ASSUME NEW l
        PROVE  /\ Due(l) = Here(l)
               /\ Here(l) # {} =>
                    LET k == CHOOSE i \in Here(l) : \A j \in Here(l) : j <= i IN
                    k \in Here(l) /\ k \in 1 .. m /\ List[k] = L[k]
    <3>1. Due(l) = Here(l)
      BY <1>3, Zenon
    <3>2. ASSUME Here(l) # {}
          PROVE  \E i \in Here(l) : \A j \in Here(l) : j <= i
      <4>1. Here(l) \subseteq 1 .. m
        BY Zenon
      <4> HIDE DEF Here
      <4> QED BY <1>3, <3>2, <4>1, HasGreatest, Zenon
    <3>3. ASSUME Here(l) # {}
          PROVE  (CHOOSE i \in Here(l) : \A j \in Here(l) : j <= i) \in Here(l)
      <4> HIDE DEF Here
      <4> QED BY <3>2, <3>3, Zenon
    <3>4. \A i \in Here(l) : i \in 1 .. m /\ List[i] = L[i]
      BY <1>3, Zenon
    <3> HIDE DEF Due, Here
    <3> QED BY <3>1, <3>3, <3>4, Zenon
  <2> HIDE DEF Due, Here
  <2>3. ASSUME NEW l \in 0 .. SCREEN - 1
        PROVE  screen'[l] =
                 IF Here(l) = {} THEN screen[l]
                 ELSE Shown(blink_array[L[CHOOSE i \in Here(l) : \A j \in Here(l) : j <= i]])
    <3>1. CASE Here(l) = {}
      BY <2>1, <2>2, <3>1, Zenon
    <3>2. CASE Here(l) # {}
      <4> PICK k : k = CHOOSE i \in Here(l) : \A j \in Here(l) : j <= i
        BY Zenon
      <4>1. Due(l) = Here(l) /\ List[k] = L[k]
        BY <2>2, <3>2, Zenon
      <4>2. screen'[l] =
              Shown(blink_array[List[CHOOSE i \in Due(l) : \A j \in Due(l) : j <= i]])
        BY <2>1, <3>2, <4>1, Zenon
      <4>3. screen'[l] = Shown(blink_array[List[k]])
        BY <4>1, <4>2, Zenon
      <4> QED BY <3>2, <4>1, <4>3, Zenon
    <3> QED BY <3>1, <3>2, Zenon
  <2> QED BY <2>1, <2>3, Zenon
<1>6. ASSUME NEW n \in Allocated
      PROVE  n \in 1 .. NODES /\ \E i \in 1 .. m : L[i] = n
  BY <1>2, Zenon DEF Allocated, Linked, Links
<1>7. ASSUME NEW i \in 1 .. m PROVE L[i] \in Allocated
  BY <1>2, Zenon DEF Allocated, Linked, Links
<1>8. ASSUME NEW n \in 1 .. NODES
      PROVE  /\ IsElement(blink_array'[n])
             /\ blink_array'[n].location = blink_array[n].location
             /\ blink_array'[n].next = blink_array[n].next
             /\ n \in due => Phase(blink_array'[n]) = Shown(blink_array[n])
             /\ n \notin due => Phase(blink_array'[n]) = Phase(blink_array[n])
  <2>1. IsElement(blink_array[n])
    BY <1>1, Zenon DEF ArrayInv
  <2>2. CASE n \in due
    BY <1>4, <2>1, <2>2, ToggleKeeps, Zenon
  <2>3. CASE n \notin due /\ n \in Allocated
    BY <1>4, <2>1, <2>3, CountKeeps, Zenon
  <2>4. CASE n \notin due /\ n \notin Allocated
    BY <1>4, <2>1, <2>4, Zenon
  <2> QED BY <2>2, <2>3, <2>4, Zenon
<1>9. LinkInv' /\ Allocated' = Allocated
  BY <1>1, <1>4, <1>8, SameLinks, Zenon
<1>10. \A n \in Allocated : blink_array[n].location \in 0 .. SCREEN - 1
  <2>1. \A n \in Allocated : IsElement(blink_array[n]) /\ blink_array[n].location < SCREEN
    BY <1>1, <1>6, Zenon DEF ArrayInv
  <2>2. \A n \in Allocated : blink_array[n].location \in Nat
    BY <2>1, Zenon DEF IsElement
  <2>3. SCREEN \in Nat
    BY BlinkAssumption, Zenon
  <2> QED BY <2>1, <2>2, <2>3
<1>11. ArrayInv'
  <2>1. /\ blink_array' = [n \in 1 .. NODES |-> blink_array'[n]]
        /\ screen' = [l \in 0 .. SCREEN - 1 |-> screen'[l]]
    <3> HIDE DEF Here
    <3> QED BY <1>4, <1>5
  <2>2. \A n \in Allocated' : blink_array'[n].location < SCREEN
    BY <1>1, <1>6, <1>8, <1>9, Zenon DEF ArrayInv
  <2> QED BY <1>8, <2>1, <2>2, Zenon DEF ArrayInv
<1>12. SyncInv'
  <2> SUFFICES ASSUME NEW p \in synced
               PROVE  /\ p[1] \in Allocated /\ p[2] \in Allocated
                      /\ SameRates(blink_array'[p[1]], blink_array'[p[2]])
    BY <1>4, <1>9, Zenon DEF SyncInv
  <2> PICK a : a = p[1]
    BY Zenon
  <2> PICK b : b = p[2]
    BY Zenon
  <2>1. a \in Allocated /\ b \in Allocated /\ SameRates(blink_array[a], blink_array[b])
    BY <1>1, Zenon DEF SyncInv
  <2>2. a \in 1 .. NODES /\ b \in 1 .. NODES
    BY <1>6, <2>1, Zenon
  <2>3. IsElement(blink_array[a]) /\ IsElement(blink_array[b])
    BY <1>1, <2>2, Zenon DEF ArrayInv
  <2>4. a \in due <=> b \in due
    BY <2>1, ZenonT(30) DEF Expired, SameRates
  <2>5. CASE a \in due
    <3>1. blink_array'[a] = Toggle(blink_array[a]) /\ blink_array'[b] = Toggle(blink_array[b])
      BY <1>4, <2>2, <2>4, <2>5, Zenon
    <3> QED BY <2>1, <2>3, <3>1, ToggleKeeps DEF SameRates
  <2>6. CASE a \notin due
    <3>1. /\ blink_array'[a] = [blink_array[a] EXCEPT !.countdown = @ - 1]
          /\ blink_array'[b] = [blink_array[b] EXCEPT !.countdown = @ - 1]
      BY <1>4, <2>1, <2>2, <2>4, <2>6, Zenon
    <3> QED BY <2>1, <2>3, <3>1, CountKeeps DEF SameRates
  <2> QED BY <2>1, <2>5, <2>6, Zenon
<1>13. ScreenInv'
  <2> SUFFICES ASSUME NEW n \in Allocated, n \notin unshown \ due
               PROVE  \/ screen'[blink_array'[n].location] = Phase(blink_array'[n])
                      \/ \E k \in Allocated \ {n} :
                           blink_array'[k].location = blink_array'[n].location
    BY <1>4, <1>9, Zenon DEF ScreenInv
  <2> PICK l : l = blink_array[n].location
    BY Zenon
  <2>1. n \in 1 .. NODES /\ l \in 0 .. SCREEN - 1 /\ blink_array'[n].location = l
    BY <1>6, <1>8, <1>10, Zenon
  <2>2. \A k \in Allocated : blink_array'[k].location = blink_array[k].location
    BY <1>6, <1>8, Zenon
  <2> DEFINE last == CHOOSE i \in Here(l) : \A j \in Here(l) : j <= i
  <2>3. screen'[l] = IF Here(l) = {} THEN screen[l] ELSE Shown(blink_array[L[last]])
    <3> HIDE DEF Here
    <3> QED BY <1>5, <2>1, Zenon
  <2>4. ASSUME Here(l) # {}
        PROVE  /\ L[last] \in Allocated /\ blink_array[L[last]].location = l
               /\ L[last] \in due
    <3>1. Here(l) \subseteq 1 .. m
      BY Zenon
    <3>2. \E i \in Here(l) : \A j \in Here(l) : j <= i
      <4> HIDE DEF Here
      <4> QED BY <1>3, <2>4, <3>1, HasGreatest
    <3>3. last \in Here(l)
      <4> HIDE DEF Here
      <4> QED BY <3>2, Zenon
    <3> HIDE DEF last
    <3>4. last \in 1 .. m /\ L[last] \in due /\ blink_array[L[last]].location = l
      BY <3>3, Zenon
    <3> QED BY <1>7, <3>4, Zenon
  <2>0. n \in due => Here(l) # {}
    BY <1>6, Zenon
  <2> HIDE DEF Here, last
  <2>5. CASE n \in due
    <3>1. Here(l) # {}
      BY <2>0, <2>5, ZenonT(30)
    <3>2. CASE L[last] = n
      BY <1>8, <2>1, <2>3, <2>5, <3>1, <3>2, SMTT(30)
    <3>3. CASE L[last] # n
      BY <2>1, <2>2, <2>4, <3>1, <3>3, ZenonT(30)
    <3> QED BY <3>2, <3>3, Zenon
  <2>6. CASE n \notin due
    <3>1. CASE Here(l) = {}
      <4>1. \/ screen[l] = Phase(blink_array[n])
            \/ \E k \in Allocated \ {n} : blink_array[k].location = l
        BY <1>1, <2>6, Zenon DEF ScreenInv
      <4>2. Phase(blink_array'[n]) = Phase(blink_array[n])
        BY <1>8, <2>1, <2>6
      <4> QED BY <2>1, <2>2, <2>3, <3>1, <4>1, <4>2, Zenon
    <3>2. CASE Here(l) # {}
      <4>1. L[last] # n
        BY <2>4, <2>6, <3>2
      <4> QED BY <2>1, <2>2, <2>4, <3>2, <4>1, Zenon
    <3> QED BY <3>1, <3>2, Zenon
  <2> QED BY <2>5, <2>6, Zenon
<1> QED BY <1>9, <1>11, <1>12, <1>13, Zenon DEF BlinkInv
-----------------------------------------------------------------------------
(* The places of the characters of a text, one after the other.            *)
LEMMA FirstPlace ==
  ASSUME NEW text
  PROVE  Place(text, 1) = <<0, 0>>
<1>1. 1 .. 1 - 1 = {}
  OBVIOUS
<1>2. Newlines(text, 1) = {} /\ {q \in 1 .. 1 - 1 : \A n \in Newlines(text, 1) : n < q} = {}
  BY <1>1, Zenon DEF Newlines
<1> QED BY <1>2, FS_EmptySet, Zenon DEF Place, Row, Column

(* Rows and columns are numbers, at most as many as characters before.     *)
LEMMA PlaceTypes ==
  ASSUME NEW text, NEW p \in Nat \ {0}
  PROVE  /\ Row(text, p) \in 0 .. p - 1 /\ Column(text, p) \in 0 .. p - 1
         /\ Row(text, p) \in Nat /\ Column(text, p) \in Nat
         /\ IsFiniteSet(Newlines(text, p))
         /\ IsFiniteSet({q \in 1 .. p - 1 : \A n \in Newlines(text, p) : n < q})
<1> DEFINE I == 1 .. p - 1
           C == {q \in I : \A n \in Newlines(text, p) : n < q}
<1>1. IsFiniteSet(I) /\ Cardinality(I) = p - 1
  <2>1. 1 \in Int /\ p - 1 \in Int /\ (1 > p - 1 => p - 1 = 0) /\ (p - 1) - 1 + 1 = p - 1
    OBVIOUS
  <2> QED BY <2>1, FS_Interval
<1>2. Newlines(text, p) \subseteq I /\ C \subseteq I
  BY Zenon DEF Newlines
<1> HIDE DEF I
<1>3. /\ IsFiniteSet(Newlines(text, p)) /\ Cardinality(Newlines(text, p)) <= Cardinality(I)
      /\ IsFiniteSet(C) /\ Cardinality(C) <= Cardinality(I)
  <2> HIDE DEF C
  <2> QED BY <1>1, <1>2, FS_Subset, Zenon
<1>4. Cardinality(Newlines(text, p)) \in Nat /\ Cardinality(C) \in Nat
  BY <1>3, FS_CardinalityType, Zenon
<1>5. Row(text, p) = Cardinality(Newlines(text, p)) /\ Column(text, p) = Cardinality(C)
  BY Zenon DEF Row, Column, I
<1> HIDE DEF C
<1>6. Row(text, p) \in 0 .. p - 1 /\ Column(text, p) \in 0 .. p - 1
  BY <1>1, <1>3, <1>4, <1>5
<1> QED BY <1>3, <1>4, <1>5, <1>6, Zenon DEF C, I

(* After a newline comes the first place of the next row, after any other  *)
(* character the next place of its row.                                    *)
LEMMA NextPlace ==
  ASSUME NEW text, NEW p \in Nat \ {0}
  PROVE  Place(text, p + 1) = IF text[p] = NEWLINE THEN <<Row(text, p) + 1, 0>>
                              ELSE <<Row(text, p), Column(text, p) + 1>>
<1> DEFINE C(k) == {q \in 1 .. k - 1 : \A n \in Newlines(text, k) : n < q}
<1>1. /\ IsFiniteSet(Newlines(text, p)) /\ IsFiniteSet(C(p))
      /\ p \notin Newlines(text, p) /\ p \notin C(p)
  <2>1. p \notin 1 .. p - 1
    OBVIOUS
  <2>2. IsFiniteSet(Newlines(text, p)) /\ IsFiniteSet(C(p))
    BY PlaceTypes, Zenon
  <2> QED BY <2>1, <2>2, Zenon DEF Newlines
<1>2. \A q : q \in 1 .. (p + 1) - 1 <=> q \in 1 .. p - 1 \/ q = p
  OBVIOUS
<1>3. /\ Row(text, p) = Cardinality(Newlines(text, p)) /\ Column(text, p) = Cardinality(C(p))
      /\ Row(text, p + 1) = Cardinality(Newlines(text, p + 1))
      /\ Column(text, p + 1) = Cardinality(C(p + 1))
  BY Zenon DEF Row, Column
<1>4. CASE text[p] = NEWLINE
  <2>1. Newlines(text, p + 1) = Newlines(text, p) \cup {p}
    BY <1>2, <1>4, Zenon DEF Newlines
  <2>2. C(p + 1) = {}
    <3>1. ASSUME NEW q \in C(p + 1) PROVE FALSE
      <4>1. q \in 1 .. (p + 1) - 1 /\ p < q
        BY <2>1, Zenon
      <4> QED BY <4>1
    <3> QED BY <3>1, Zenon
  <2>3. Cardinality(Newlines(text, p) \cup {p}) = Cardinality(Newlines(text, p)) + 1
    BY <1>1, FS_AddElement, Zenon
  <2> HIDE DEF C
  <2> QED BY <1>3, <1>4, <2>1, <2>2, <2>3, FS_EmptySet, Zenon DEF Place
<1>5. CASE text[p] # NEWLINE
  <2>1. Newlines(text, p + 1) = Newlines(text, p)
    BY <1>2, <1>5, Zenon DEF Newlines
  <2>2. \A n \in Newlines(text, p) : n < p
    BY DEF Newlines
  <2>3. C(p + 1) = C(p) \cup {p}
    BY <1>2, <2>1, <2>2, Zenon
  <2>4. Cardinality(C(p) \cup {p}) = Cardinality(C(p)) + 1
    BY <1>1, FS_AddElement, Zenon
  <2> HIDE DEF C
  <2> QED BY <1>3, <1>5, <2>1, <2>3, <2>4, Zenon DEF Place
<1> QED BY <1>4, <1>5, Zenon

(* Reading order is a strict total order of the places.                    *)
Places == Nat \X Nat

LEMMA BeforeFacts ==
  /\ \A a, b, d \in Places : Before(a, b) /\ Before(b, d) => Before(a, d)
  /\ \A a, b \in Places : Before(a, b) => a # b /\ ~Before(b, a)
  /\ \A a, b \in Places : Before(a, b) \/ a = b \/ Before(b, a)
<1>1. ASSUME NEW a \in Places, NEW b \in Places, NEW d \in Places, Before(a, b), Before(b, d)
      PROVE  Before(a, d)
  BY <1>1 DEF Places, Before
<1>2. ASSUME NEW a \in Places, NEW b \in Places, Before(a, b)
      PROVE  a # b /\ ~Before(b, a)
  BY <1>2 DEF Places, Before
<1>3. ASSUME NEW a \in Places, NEW b \in Places
      PROVE  Before(a, b) \/ a = b \/ Before(b, a)
  BY DEF Places, Before
<1> QED BY <1>1, <1>2, <1>3, Zenon

(* Later characters have later places.                                     *)
LEMMA PlacesGrow ==
  ASSUME NEW text, NEW p \in Nat \ {0}, NEW q \in Nat, p < q
  PROVE  Before(Place(text, p), Place(text, q))
<1> DEFINE S == {n \in Nat : p < n /\ ~Before(Place(text, p), Place(text, n))}
<1> SUFFICES ASSUME S # {} PROVE FALSE
  BY Zenon
<1>1. S \subseteq Nat
  BY Zenon
<1> HIDE DEF S
<1>2. PICK n \in S : \A k \in S : n <= k
  BY <1>1, HasLeast, Zenon
<1> DEFINE k == n - 1
<1>3. /\ n \in Nat /\ p < n /\ ~Before(Place(text, p), Place(text, n))
  BY <1>2, Zenon DEF S
<1>4. n \in Nat \ {0} /\ k \in Nat \ {0} /\ k + 1 = n /\ p <= k /\ k \notin S
  BY <1>2, <1>3
<1> HIDE DEF k
<1>5. /\ Row(text, k) \in Nat /\ Column(text, k) \in Nat
      /\ Row(text, p) \in Nat /\ Column(text, p) \in Nat
      /\ Row(text, n) \in Nat /\ Column(text, n) \in Nat
  BY <1>3, <1>4, PlaceTypes, Zenon
<1>6. Before(Place(text, k), Place(text, n))
  <2>1. Place(text, n) = IF text[k] = NEWLINE THEN <<Row(text, k) + 1, 0>>
                         ELSE <<Row(text, k), Column(text, k) + 1>>
    BY <1>4, NextPlace, Zenon
  <2>2. Place(text, k) = <<Row(text, k), Column(text, k)>>
    BY Zenon DEF Place
  <2> QED BY <1>5, <2>1, <2>2 DEF Before
<1>7. p = k \/ Before(Place(text, p), Place(text, k))
  BY <1>4 DEF S
<1>8. Place(text, p) \in Places /\ Place(text, k) \in Places /\ Place(text, n) \in Places
  BY <1>5, Zenon DEF Place, Places
<1> QED BY <1>3, <1>6, <1>7, <1>8, BeforeFacts, Zenon
-----------------------------------------------------------------------------
(* The character at a place.                                               *)
LEMMA AtIs ==
  ASSUME NEW text, Len(text) \in Nat, NEW place
  PROVE  /\ \A p \in 1 .. Len(text) :
              text[p] # NEWLINE /\ Place(text, p) = place => At(text, place) = text[p]
         /\ (\A p \in 1 .. Len(text) : text[p] = NEWLINE \/ Place(text, p) # place)
              => At(text, place) = SPACE
<1> DEFINE here == {p \in 1 .. Len(text) : text[p] # NEWLINE /\ Place(text, p) = place}
<1>1. At(text, place) = IF here = {} THEN SPACE ELSE text[CHOOSE p \in here : TRUE]
  BY Zenon DEF At
<1>2. ASSUME NEW p \in here, NEW q \in here PROVE p = q
  <2>1. /\ p \in Nat \ {0} /\ q \in Nat \ {0} /\ p \in Nat /\ q \in Nat
        /\ Place(text, p) = Place(text, q)
    OBVIOUS
  <2>2. Row(text, p) \in Nat /\ Column(text, p) \in Nat
    BY <2>1, PlaceTypes, Zenon
  <2>3. ~Before(Place(text, p), Place(text, q)) /\ ~Before(Place(text, q), Place(text, p))
    <3>1. Place(text, p) \in Places
      BY <2>2, Zenon DEF Place, Places
    <3> QED BY <2>1, <3>1, BeforeFacts, Zenon
  <2>4. ~(p < q) /\ ~(q < p)
    BY <2>1, <2>3, PlacesGrow, Zenon
  <2> QED BY <2>1, <2>4
<1>3. ASSUME NEW p \in here PROVE At(text, place) = text[p]
  <2>1. (CHOOSE q \in here : TRUE) \in here
    BY Zenon
  <2> HIDE DEF here
  <2> QED BY <1>1, <1>2, <2>1, Zenon
<1> QED BY <1>1, <1>3, Zenon

(* A line that has ended has no character to the right of its end.         *)
LEMMA LineOver ==
  ASSUME NEW text, Len(text) \in Nat, NEW r \in Nat, NEW k \in Nat, NEW j \in Nat, k <= j,
         NEW q \in 1 .. Len(text), text[q] = NEWLINE, Row(text, q) = r, Column(text, q) <= k
  PROVE  At(text, <<r, j>>) = SPACE
<1>0. q \in Nat \ {0} /\ q + 1 \in Nat \ {0} /\ q \in Nat /\ q + 1 \in Nat
  OBVIOUS
<1>1. Place(text, q) = <<r, Column(text, q)>> /\ Place(text, q + 1) = <<r + 1, 0>>
  BY <1>0, NextPlace, Zenon DEF Place
<1>2. Column(text, q) \in Nat
  BY <1>0, PlaceTypes, Zenon
<1>3. ASSUME NEW p \in 1 .. Len(text), text[p] # NEWLINE, Place(text, p) = <<r, j>>
      PROVE  FALSE
  <2>1. p \in Nat \ {0} /\ p \in Nat /\ (p < q \/ p = q + 1 \/ q + 1 < p)
    <3>1. p # q
      BY <1>3
    <3> QED BY <3>1
  <2>2. CASE p < q
    <3>1. Before(<<r, j>>, <<r, Column(text, q)>>)
      BY <1>0, <1>1, <1>3, <2>1, <2>2, PlacesGrow, Zenon
    <3> QED BY <1>2, <3>1 DEF Before
  <2>3. CASE p = q + 1
    <3>1. <<r, j>> = <<r + 1, 0>>
      BY <1>1, <1>3, <2>3, Zenon
    <3> QED BY <3>1
  <2>4. CASE q + 1 < p
    <3>1. Before(<<r + 1, 0>>, <<r, j>>)
      BY <1>0, <1>1, <1>3, <2>1, <2>4, PlacesGrow, Zenon
    <3> QED BY <3>1 DEF Before
  <2> QED BY <2>1, <2>2, <2>3, <2>4, Zenon
<1> QED BY <1>3, AtIs, Zenon

(* Nor has a text at or after its end.                                     *)
LEMMA TextOver ==
  ASSUME NEW text, Len(text) \in Nat, NEW place, ~Before(place, Place(text, Len(text) + 1))
  PROVE  At(text, place) = SPACE
<1>1. ASSUME NEW p \in 1 .. Len(text), Place(text, p) = place
      PROVE  FALSE
  <2>1. p \in Nat \ {0} /\ Len(text) + 1 \in Nat /\ p < Len(text) + 1
    OBVIOUS
  <2>2. Before(Place(text, p), Place(text, Len(text) + 1))
    BY <2>1, PlacesGrow, Zenon
  <2> QED BY <1>1, <2>2, Zenon
<1> QED BY <1>1, AtIs, Zenon
-----------------------------------------------------------------------------
(* One of the files as add_frames has read it: ch was the last byte,       *)
(* ended says that the end was met, and here is the place the two files    *)
(* are at.                                                                 *)
ReadTo(text, p, ch, ended, here) ==
  /\ p \in 0 .. Len(text)
  /\ ended => ch = NEWLINE /\ p = Len(text) /\ Before(Place(text, p + 1), here)
  /\ ~ended /\ ch # NEWLINE => Place(text, p + 1) = here
  /\ ~ended /\ ch = NEWLINE => /\ p # 0 /\ text[p] = NEWLINE
                               /\ Row(text, p) = here[1] /\ Column(text, p) < here[2]

NextByte(text, p, ch) == IF ch = NEWLINE \/ p = Len(text) THEN NEWLINE ELSE text[p + 1]
NextPos(text, p, ch)  == IF ch = NEWLINE \/ p = Len(text) THEN p ELSE p + 1
Ends(text, p, ch, ended) == ended \/ (ch # NEWLINE /\ p = Len(text))

(* The byte read next is the character at that place; after the end of the *)
(* line there are no more characters in the row.                           *)
LEMMA ByteRead ==
  ASSUME NEW text, Len(text) \in Nat, NEW p, NEW ch, NEW ended \in BOOLEAN,
         NEW r \in Nat, NEW k \in Nat, ReadTo(text, p, ch, ended, <<r, k>>)
  PROVE  /\ NextByte(text, p, ch) # NEWLINE =>
              /\ p \in 0 .. Len(text) - 1 /\ Place(text, p + 1) = <<r, k>>
              /\ At(text, <<r, k>>) = NextByte(text, p, ch)
              /\ r \in 0 .. Len(text) /\ k \in 0 .. Len(text)
         /\ NextByte(text, p, ch) = NEWLINE =>
              \A j \in Nat : k <= j => At(text, <<r, j>>) = SPACE
<1>0. <<r, k>>[1] = r /\ <<r, k>>[2] = k
  OBVIOUS
<1>1. /\ p \in 0 .. Len(text)
      /\ ended => ch = NEWLINE /\ p = Len(text) /\ Before(Place(text, p + 1), <<r, k>>)
      /\ ~ended /\ ch # NEWLINE => Place(text, p + 1) = <<r, k>>
      /\ ~ended /\ ch = NEWLINE => /\ p # 0 /\ text[p] = NEWLINE
                                   /\ Row(text, p) = r /\ Column(text, p) < k
  BY <1>0, Zenon DEF ReadTo
<1>2. /\ p \in Nat /\ p + 1 \in Nat \ {0} /\ Len(text) + 1 \in Nat \ {0}
      /\ (p # Len(text) => p + 1 \in 1 .. Len(text) /\ p \in 0 .. Len(text) - 1)
      /\ (p # 0 => p \in 1 .. Len(text) /\ p \in Nat \ {0})
  BY <1>1
<1>3. /\ Row(text, p + 1) \in 0 .. (p + 1) - 1 /\ Column(text, p + 1) \in 0 .. (p + 1) - 1
      /\ Place(text, p + 1) = <<Row(text, p + 1), Column(text, p + 1)>>
  BY <1>2, PlaceTypes, Zenon DEF Place
<1>4. ASSUME NextByte(text, p, ch) # NEWLINE
      PROVE  /\ p \in 0 .. Len(text) - 1 /\ Place(text, p + 1) = <<r, k>>
             /\ At(text, <<r, k>>) = NextByte(text, p, ch)
             /\ r \in 0 .. Len(text) /\ k \in 0 .. Len(text)
  <2>1. ch # NEWLINE /\ p # Len(text) /\ NextByte(text, p, ch) = text[p + 1] /\ ~ended
    BY <1>1, <1>4, Zenon DEF NextByte
  <2>2. Place(text, p + 1) = <<r, k>> /\ p + 1 \in 1 .. Len(text) /\ p \in 0 .. Len(text) - 1
    BY <1>1, <1>2, <2>1, Zenon
  <2>3. At(text, <<r, k>>) = text[p + 1]
    BY <1>4, <2>1, <2>2, AtIs, Zenon
  <2>4. Row(text, p + 1) = r /\ Column(text, p + 1) = k
    BY <1>3, <2>2
  <2>5. r \in 0 .. Len(text) /\ k \in 0 .. Len(text)
    BY <1>2, <1>3, <2>2, <2>4
  <2> QED BY <2>1, <2>2, <2>3, <2>5, Zenon
<1>5. ASSUME NextByte(text, p, ch) = NEWLINE, NEW j \in Nat, k <= j
      PROVE  At(text, <<r, j>>) = SPACE
  <2>0. ~Before(<<r, j>>, <<r, k>>)
    BY <1>5 DEF Before
  <2>1. CASE ended
    <3> DEFINE a == Row(text, p + 1)
               b == Column(text, p + 1)
    <3>1. /\ Place(text, Len(text) + 1) = <<a, b>> /\ Before(<<a, b>>, <<r, k>>)
      BY <1>1, <1>3, <2>1, Zenon
    <3>2. a \in Nat /\ b \in Nat
      BY <1>2, <1>3
    <3> HIDE DEF a, b
    <3>3. ~Before(<<r, j>>, <<a, b>>)
      BY <1>5, <3>1, <3>2 DEF Before
    <3> QED BY <3>1, <3>3, TextOver, Zenon
  <2>2. CASE ~ended /\ ch # NEWLINE /\ p = Len(text)
    BY <1>1, <2>0, <2>2, TextOver, Zenon
  <2>3. CASE ~ended /\ ch # NEWLINE /\ p # Len(text)
    <3>1. text[p + 1] = NEWLINE /\ p + 1 \in 1 .. Len(text) /\ Place(text, p + 1) = <<r, k>>
      BY <1>1, <1>2, <1>5, <2>3, Zenon DEF NextByte
    <3>2. Row(text, p + 1) = r /\ Column(text, p + 1) <= k
      BY <1>3, <3>1
    <3> QED BY <1>5, <3>1, <3>2, LineOver, Zenon
  <2>4. CASE ~ended /\ ch = NEWLINE
    <3>1. p \in 1 .. Len(text) /\ text[p] = NEWLINE /\ Row(text, p) = r /\ p \in Nat \ {0}
      BY <1>1, <1>2, <2>4, Zenon
    <3>2. Column(text, p) <= k
      <4>1. Column(text, p) < k /\ Column(text, p) \in 0 .. p - 1
        BY <1>1, <2>4, <3>1, PlaceTypes, Zenon
      <4> QED BY <3>1, <4>1
    <3> QED BY <1>5, <3>1, <3>2, LineOver, Zenon
  <2> QED BY <2>1, <2>2, <2>3, <2>4, Zenon
<1> QED BY <1>4, <1>5, Zenon

(* The two halves of ByteRead.                                             *)
LEMMA CharRead ==
  ASSUME NEW text, Len(text) \in Nat, NEW p, NEW ch, NEW ended \in BOOLEAN,
         NEW r \in Nat, NEW k \in Nat, ReadTo(text, p, ch, ended, <<r, k>>),
         NextByte(text, p, ch) # NEWLINE
  PROVE  /\ p \in 0 .. Len(text) - 1 /\ Place(text, p + 1) = <<r, k>>
         /\ At(text, <<r, k>>) = NextByte(text, p, ch)
         /\ r \in 0 .. Len(text) /\ k \in 0 .. Len(text)
  BY ByteRead

LEMMA LineRead ==
  ASSUME NEW text, Len(text) \in Nat, NEW p, NEW ch, NEW ended \in BOOLEAN,
         NEW r \in Nat, NEW k \in Nat, ReadTo(text, p, ch, ended, <<r, k>>),
         NextByte(text, p, ch) = NEWLINE, NEW j \in Nat, k <= j
  PROVE  At(text, <<r, j>>) = SPACE
  BY ByteRead

(* A file that was read up to a place has, after the column, been read up  *)
(* to the next one.                                                        *)
LEMMA ColumnRead ==
  ASSUME NEW text, Len(text) \in Nat, NEW p, NEW ch, NEW ended \in BOOLEAN,
         NEW r \in Nat, NEW k \in Nat, ReadTo(text, p, ch, ended, <<r, k>>)
  PROVE  ReadTo(text, NextPos(text, p, ch), NextByte(text, p, ch), Ends(text, p, ch, ended),
                <<r, k + 1>>)
<1> DEFINE P == NextPos(text, p, ch)
           B == NextByte(text, p, ch)
           E == Ends(text, p, ch, ended)
<1>0. <<r, k>>[1] = r /\ <<r, k>>[2] = k /\ <<r, k + 1>>[1] = r /\ <<r, k + 1>>[2] = k + 1
  OBVIOUS
<1>1. /\ p \in 0 .. Len(text)
      /\ ended => ch = NEWLINE /\ p = Len(text) /\ Before(Place(text, p + 1), <<r, k>>)
      /\ ~ended /\ ch # NEWLINE => Place(text, p + 1) = <<r, k>>
      /\ ~ended /\ ch = NEWLINE => /\ p # 0 /\ text[p] = NEWLINE
                                   /\ Row(text, p) = r /\ Column(text, p) < k
  BY <1>0, Zenon DEF ReadTo
<1>2. p \in Nat /\ p + 1 \in Nat \ {0} /\ (p # 0 => p \in Nat \ {0})
  BY <1>1
<1>3. /\ Row(text, p + 1) \in Nat /\ Column(text, p + 1) \in Nat
      /\ Place(text, p + 1) = <<Row(text, p + 1), Column(text, p + 1)>>
  BY <1>2, PlaceTypes, Zenon DEF Place
<1>4. CASE ended \/ (ch # NEWLINE /\ p = Len(text))
  <2>1. P = p /\ B = NEWLINE /\ E /\ p = Len(text)
    BY <1>1, <1>4, Zenon DEF NextPos, NextByte, Ends
  <2>2. Before(Place(text, p + 1), <<r, k + 1>>)
    <3>1. Before(Place(text, p + 1), <<r, k>>) \/ Place(text, p + 1) = <<r, k>>
      BY <1>1, <1>4, Zenon
    <3> QED BY <1>3, <3>1 DEF Before
  <2> HIDE DEF P, B, E
  <2> QED BY <1>1, <2>1, <2>2, Zenon DEF ReadTo, P, B, E
<1>5. CASE ~ended /\ ch = NEWLINE
  <2>1. P = p /\ B = NEWLINE /\ ~E
    BY <1>5, Zenon DEF NextPos, NextByte, Ends
  <2>2. Column(text, p) < k + 1
    <3>1. Column(text, p) < k /\ Column(text, p) \in 0 .. p - 1
      BY <1>1, <1>2, <1>5, PlaceTypes, Zenon
    <3> QED BY <1>2, <3>1
  <2> HIDE DEF P, B, E
  <2> QED BY <1>0, <1>1, <1>5, <2>1, <2>2, Zenon DEF ReadTo, P, B, E
<1>6. CASE ~ended /\ ch # NEWLINE /\ p # Len(text)
  <2>1. P = p + 1 /\ B = text[p + 1] /\ ~E /\ Place(text, p + 1) = <<r, k>>
    BY <1>1, <1>6, Zenon DEF NextPos, NextByte, Ends
  <2>2. p + 1 \in 0 .. Len(text) /\ p + 1 # 0
    BY <1>1, <1>6
  <2>3. Row(text, p + 1) = r /\ Column(text, p + 1) = k
    BY <1>3, <2>1
  <2>4. text[p + 1] # NEWLINE => Place(text, (p + 1) + 1) = <<r, k + 1>>
    BY <1>2, <2>3, NextPlace, Zenon
  <2>5. Column(text, p + 1) < k + 1
    BY <2>3
  <2> HIDE DEF P, B, E
  <2> QED BY <1>0, <2>1, <2>2, <2>3, <2>4, <2>5, Zenon DEF ReadTo, P, B, E
<1> QED BY <1>4, <1>5, <1>6, Zenon

(* Likewise after the newline that both files have come to.                *)
LEMMA RowRead ==
  ASSUME NEW text, Len(text) \in Nat, NEW p, NEW ch, NEW ended \in BOOLEAN,
         NEW r \in Nat, NEW k \in Nat, ReadTo(text, p, ch, ended, <<r, k>>),
         NextByte(text, p, ch) = NEWLINE
  PROVE  ReadTo(text, NextPos(text, p, ch),
                IF Ends(text, p, ch, ended) THEN NEWLINE ELSE "0",
                Ends(text, p, ch, ended), <<r + 1, 0>>)
<1> DEFINE P == NextPos(text, p, ch)
           E == Ends(text, p, ch, ended)
<1>0. "0" # NEWLINE
  BY DEF NEWLINE
<1>1. /\ ReadTo(text, P, NEWLINE, E, <<r, k + 1>>)
  BY ColumnRead, Zenon
<1> HIDE DEF P, E
<1>2. <<r, k + 1>>[1] = r
  OBVIOUS
<1>3. /\ P \in 0 .. Len(text)
      /\ E => P = Len(text) /\ Before(Place(text, P + 1), <<r, k + 1>>)
      /\ ~E => P # 0 /\ text[P] = NEWLINE /\ Row(text, P) = r
  BY <1>1, <1>2, Zenon DEF ReadTo
<1>4. P + 1 \in Nat \ {0} /\ (P # 0 => P \in Nat \ {0})
  BY <1>3
<1>5. ~E => Place(text, P + 1) = <<r + 1, 0>>
  BY <1>3, <1>4, NextPlace, Zenon
<1>6. E => Before(Place(text, P + 1), <<r + 1, 0>>)
  <2>1. /\ Row(text, P + 1) \in Nat /\ Column(text, P + 1) \in Nat
        /\ Place(text, P + 1) = <<Row(text, P + 1), Column(text, P + 1)>>
    BY <1>4, PlaceTypes, Zenon DEF Place
  <2> QED BY <1>3, <2>1 DEF Before
<1>7. ReadTo(text, P, IF E THEN NEWLINE ELSE "0", E, <<r + 1, 0>>)
  BY <1>0, <1>3, <1>5, <1>6, Zenon DEF ReadTo
<1> QED BY <1>7, Zenon DEF P, E
-----------------------------------------------------------------------------
(* The state's bytes and ends are those of ReadTo.                         *)
LEMMA BytesAre ==
  \A f : /\ Byte(f) = NextByte(file[f], pos[f], c[f])
         /\ (c[f] = NEWLINE \/ AtEnd(f)) <=> (c[f] = NEWLINE \/ pos[f] = Len(file[f]))
         /\ (eof[f] \/ AtEnd(f)) <=> Ends(file[f], pos[f], c[f], eof[f])
  BY Zenon DEF Byte, AtEnd, NextByte, Ends

(* add_frames reads the two files in step: each up to the same place, or   *)
(* to the end of a line or of the file before it.                          *)
ReadInv ==
  /\ row \in Nat /\ col \in Nat
  /\ pc \in {"frames", "ready"} =>
       \A f \in Fds : /\ file[f] \in Texts /\ eof[f] \in BOOLEAN
                      /\ ReadTo(file[f], pos[f], c[f], eof[f], <<row, col>>)
  /\ pc = "ready" => \A f \in Fds : eof[f]

LEMMA InitRead == Init => ReadInv
<1> SUFFICES ASSUME Init PROVE ReadInv
  BY Zenon
<1>1. /\ pc = "frames" /\ row = 0 /\ col = 0
      /\ \A f \in Fds : file[f] \in Texts /\ pos[f] = 0 /\ c[f] = "0" /\ eof[f] = FALSE
  BY Zenon DEF Init
<1>2. \A f \in Fds : file[f] \in Texts /\ Len(file[f]) \in Nat
  BY <1>1, FishAssumption, LenProperties, Zenon
<1>3. \A f \in Fds : ReadTo(file[f], pos[f], c[f], eof[f], <<row, col>>)
  <2>1. "0" # NEWLINE /\ 0 + 1 = 1
    BY DEF NEWLINE
  <2>2. \A n \in Nat : 0 \in 0 .. n
    OBVIOUS
  <2> QED BY <1>1, <1>2, <2>1, <2>2, FirstPlace, ZenonT(30) DEF ReadTo
<1>4. pc # "ready" /\ row \in Nat /\ col \in Nat
  BY <1>1
<1> QED BY <1>1, <1>3, <1>4, ZenonT(30) DEF ReadInv

LEMMA ColumnReadInv ==
  ASSUME ReadInv, frame_column
  PROVE  ReadInv'
<1> DEFINE next == <<row, col + 1>>
           b(f) == NextByte(file[f], pos[f], c[f])
<1>1. /\ pc = "frames" /\ pc' = "frames" /\ file' = file /\ row' = row /\ col' = col + 1
      /\ \A f \in Fds : /\ c'[f] = Byte(f)
                        /\ pos'[f] = IF c[f] = NEWLINE \/ AtEnd(f) THEN pos[f] ELSE pos[f] + 1
                        /\ eof'[f] = (eof[f] \/ AtEnd(f))
  BY Zenon DEF frame_column
<1>2. \A f \in Fds : /\ c'[f] = b(f)
                    /\ pos'[f] = NextPos(file[f], pos[f], c[f])
                    /\ eof'[f] = Ends(file[f], pos[f], c[f], eof[f])
  <2>1. \A f \in Fds : c'[f] = b(f)
    BY <1>1, BytesAre, Zenon
  <2>2. \A f \in Fds : pos'[f] = NextPos(file[f], pos[f], c[f])
    BY <1>1, BytesAre, Zenon DEF NextPos
  <2>3. \A f \in Fds : eof'[f] = Ends(file[f], pos[f], c[f], eof[f])
    BY <1>1, Zenon DEF Ends, AtEnd
  <2> QED BY <2>1, <2>2, <2>3, Zenon
<1>3. /\ row \in Nat /\ col \in Nat
      /\ \A f \in Fds : /\ file[f] \in Texts /\ eof[f] \in BOOLEAN
                        /\ ReadTo(file[f], pos[f], c[f], eof[f], <<row, col>>)
  BY <1>1, Zenon DEF ReadInv
<1>4. \A f \in Fds : Len(file[f]) \in Nat
  BY <1>3, FishAssumption, LenProperties, Zenon
<1>5. \A f \in Fds : /\ file'[f] \in Texts /\ eof'[f] \in BOOLEAN
                    /\ ReadTo(file'[f], pos'[f], c'[f], eof'[f], <<row', col'>>)
  <2> SUFFICES ASSUME NEW f \in Fds
               PROVE  /\ file'[f] \in Texts /\ eof'[f] \in BOOLEAN
                      /\ ReadTo(file'[f], pos'[f], c'[f], eof'[f], <<row', col'>>)
    BY Zenon
  <2>1. ReadTo(file[f], NextPos(file[f], pos[f], c[f]), b(f),
               Ends(file[f], pos[f], c[f], eof[f]), next)
    BY <1>3, <1>4, ColumnRead, Zenon
  <2>2. Ends(file[f], pos[f], c[f], eof[f]) \in BOOLEAN
    BY Zenon DEF Ends
  <2> QED BY <1>1, <1>2, <1>3, <2>1, <2>2, ZenonT(30)
<1>6. pc' # "ready" /\ row' \in Nat /\ col' \in Nat
  BY <1>1, <1>3
<1> QED BY <1>5, <1>6, Zenon DEF ReadInv

LEMMA RowReadInv ==
  ASSUME ReadInv, frame_row
  PROVE  ReadInv'
<1> DEFINE next == <<row + 1, 0>>
           P(f) == NextPos(file[f], pos[f], c[f])
           E(f) == Ends(file[f], pos[f], c[f], eof[f])
<1>1. /\ pc = "frames" /\ file' = file /\ row' = row + 1 /\ col' = 0
      /\ pc' = "ready" => \A f \in Fds : eof[f] \/ AtEnd(f)
      /\ \A f \in Fds : /\ Byte(f) = NEWLINE
                        /\ c'[f] = IF eof[f] \/ AtEnd(f) THEN NEWLINE ELSE "0"
                        /\ pos'[f] = IF c[f] = NEWLINE \/ AtEnd(f) THEN pos[f] ELSE pos[f] + 1
                        /\ eof'[f] = (eof[f] \/ AtEnd(f))
  BY Zenon DEF frame_row
<1>2. \A f \in Fds : /\ NextByte(file[f], pos[f], c[f]) = NEWLINE
                    /\ c'[f] = (IF E(f) THEN NEWLINE ELSE "0")
                    /\ pos'[f] = P(f)
                    /\ eof'[f] = E(f)
  <2>1. \A f \in Fds : NextByte(file[f], pos[f], c[f]) = NEWLINE
    BY <1>1, BytesAre, Zenon
  <2>2. \A f \in Fds : pos'[f] = P(f)
    BY <1>1, BytesAre, Zenon DEF NextPos
  <2>3. \A f \in Fds : eof'[f] = E(f)
    BY <1>1, Zenon DEF Ends, AtEnd
  <2>4. \A f \in Fds : c'[f] = (IF E(f) THEN NEWLINE ELSE "0")
    BY <1>1, BytesAre, Zenon
  <2> QED BY <2>1, <2>2, <2>3, <2>4, ZenonT(30)
<1>3. /\ row \in Nat /\ col \in Nat
      /\ \A f \in Fds : /\ file[f] \in Texts /\ eof[f] \in BOOLEAN
                        /\ ReadTo(file[f], pos[f], c[f], eof[f], <<row, col>>)
  BY <1>1, Zenon DEF ReadInv
<1>4. \A f \in Fds : Len(file[f]) \in Nat
  BY <1>3, FishAssumption, LenProperties, Zenon
<1>5. \A f \in Fds : /\ file'[f] \in Texts /\ eof'[f] \in BOOLEAN
                    /\ ReadTo(file'[f], pos'[f], c'[f], eof'[f], <<row', col'>>)
  <2> SUFFICES ASSUME NEW f \in Fds
               PROVE  /\ file'[f] \in Texts /\ eof'[f] \in BOOLEAN
                      /\ ReadTo(file'[f], pos'[f], c'[f], eof'[f], <<row', col'>>)
    BY Zenon
  <2>1. ReadTo(file[f], P(f), IF E(f) THEN NEWLINE ELSE "0", E(f), next)
    BY <1>2, <1>3, <1>4, RowRead, ZenonT(30)
  <2>2. E(f) \in BOOLEAN
    BY Zenon DEF Ends
  <2> HIDE DEF P, E
  <2> QED BY <1>1, <1>2, <1>3, <2>1, <2>2, ZenonT(30)
<1>6. row' \in Nat /\ col' \in Nat
  BY <1>1, <1>3
<1>7. pc' = "ready" => \A f \in Fds : eof'[f]
  BY <1>1, Zenon
<1> QED BY <1>5, <1>6, <1>7, Zenon DEF ReadInv

(* The program past add_frames reads no more.                              *)
LEMMA OtherReadInv ==
  ASSUME ReadInv, [Next]_vars, ~frame_column, ~frame_row
  PROVE  ReadInv'
<1>0. "main" \notin {"frames", "ready"} /\ "main" # "ready" /\ 0 \in Nat
  OBVIOUS
<1>1. CASE frames_done
  <2>1. pc' = "main" /\ row' = 0 /\ col' = 0
    BY <1>1, Zenon DEF frames_done
  <2> QED BY <1>0, <2>1, Zenon DEF ReadInv
<1>2. CASE UNCHANGED fishVars
  BY <1>2, Zenon DEF fishVars, ReadInv
<1>3. UNCHANGED vars => UNCHANGED fishVars
  BY Zenon DEF vars
<1> QED BY <1>1, <1>2, <1>3, Zenon DEF Next, tick, add, sync, remove

(* The location of a character that is not blank is below SHORT, so that   *)
(* the element gets it whole.                                              *)
LEMMA LocationFits ==
  ASSUME ReadInv, pc = "frames", NEW f \in Fds, ~Blank(Byte(f))
  PROVE  /\ (row * COLUMNS + col + OFFSET) % SHORT = row * COLUMNS + col + OFFSET
         /\ row * COLUMNS + col + OFFSET \in Nat \ {0}
<1> DEFINE text == file[f]
           p == pos[f]
<1>1. /\ row \in Nat /\ col \in Nat /\ text \in Texts /\ eof[f] \in BOOLEAN
      /\ ReadTo(text, p, c[f], eof[f], <<row, col>>)
  BY Zenon DEF ReadInv
<1>2. Len(text) \in Nat
  BY <1>1, FishAssumption, LenProperties, Zenon
<1>3. Byte(f) = NextByte(text, p, c[f]) /\ NextByte(text, p, c[f]) # NEWLINE
  BY BytesAre, Zenon DEF Blank
<1> HIDE DEF text, p
<1>4. p \in 0 .. Len(text) - 1 /\ Place(text, p + 1) = <<row, col>>
  BY <1>1, <1>2, <1>3, CharRead, SMTT(30)
<1>5. Byte(f) = text[p + 1]
  BY <1>3, Zenon DEF NextByte
<1>6. p + 1 \in 1 .. Len(text)
  BY <1>2, <1>4
<1>7. Location(<<row, col>>) < SHORT
  BY <1>1, <1>4, <1>5, <1>6, TextsAssumption, Zenon
<1>8. Location(<<row, col>>) = row * COLUMNS + col + OFFSET
  BY DEF Location
<1>9. PICK x \in Nat : x = row * COLUMNS
  BY <1>1, FishAssumption
<1>10. x + col + OFFSET \in Nat \ {0} /\ x + col + OFFSET < SHORT
  BY <1>1, <1>7, <1>8, <1>9, FishAssumption
<1>11. \A n \in Nat : n < SHORT => n % SHORT = n
  BY DEF SHORT
<1> QED BY <1>9, <1>10, <1>11, Zenon
-----------------------------------------------------------------------------
(* With what is read, what is added keeps the list, the pairs and the      *)
(* screen as they should be.                                               *)
FishInv == BlinkInv /\ ReadInv

LEMMA InitFish == Init => FishInv
BY InitBlinkInv, InitRead, Zenon DEF Init, FishInv

LEMMA StepFish == FishInv /\ [Next]_vars => FishInv'
<1> SUFFICES ASSUME FishInv, [Next]_vars PROVE FishInv'
  BY Zenon
<1>0. BlinkInv /\ ReadInv
  BY Zenon DEF FishInv
<1>r. ReadInv'
  BY <1>0, ColumnReadInv, RowReadInv, OtherReadInv, Zenon
<1> SUFFICES BlinkInv'
  BY <1>r, Zenon DEF FishInv
<1>1. CASE frame_column
  <2>1. CASE \A f \in Fds : Blank(Byte(f))
    <3>1. UNCHANGED blinkVars
      BY <1>1, <2>1, Zenon DEF frame_column
    <3> QED BY <1>0, <3>1, BlinkUnchanged, Zenon
  <2>2. CASE ~\A f \in Fds : Blank(Byte(f))
    <3> PICK s : s = [location |-> (row * COLUMNS + col + OFFSET) % SHORT,
                      on_char |-> Glyph(Byte(0)), off_char |-> Glyph(Byte(1)),
                      on_length |-> LENGTH, off_length |-> LENGTH]
      BY Zenon
    <3>1. mp1_ioctl_add(s) /\ pc = "frames"
      BY <1>1, <2>2, Zenon DEF frame_column, Fds
    <3>2. s.location \in Nat \ {0}
      <4>1. s.location = (row * COLUMNS + col + OFFSET) % SHORT
        BY Zenon
      <4> QED BY <1>0, <2>2, <3>1, <4>1, LocationFits, Zenon
    <3> QED BY <1>0, <3>1, <3>2, AddKeeps, Zenon
  <2> QED BY <2>1, <2>2, Zenon
<1>2. CASE frame_row
  BY <1>0, <1>2, BlinkUnchanged, Zenon DEF frame_row
<1>3. CASE frames_done
  BY <1>0, <1>3, BlinkUnchanged, Zenon DEF frames_done
<1>4. CASE tick
  BY <1>0, <1>4, TaskletKeeps, Zenon DEF tick
<1>5. ASSUME NEW l \in Locations, add(l) PROVE BlinkInv'
  <2> PICK s : s = [location |-> l, on_char |-> "I", off_char |-> "M",
                    on_length |-> ON_LENGTH, off_length |-> OFF_LENGTH]
    BY Zenon
  <2>1. mp1_ioctl_add(s)
    BY <1>5, Zenon DEF add
  <2>2. s.location \in Nat \ {0}
    BY BlinkAssumption, Zenon
  <2> QED BY <1>0, <2>1, <2>2, AddKeeps, Zenon
<1>6. ASSUME NEW l \in Locations, remove(l) PROVE BlinkInv'
  BY <1>0, <1>6, RemoveKeeps DEF remove
<1>7. ASSUME NEW l1 \in Locations, NEW l2 \in Locations, sync(l1, l2) PROVE BlinkInv'
  BY <1>0, <1>7, SyncKeeps DEF sync
<1>8. CASE UNCHANGED vars
  BY <1>0, <1>8, BlinkUnchanged DEF vars
<1> QED BY <1>1, <1>2, <1>3, <1>4, <1>5, <1>6, <1>7, <1>8, Zenon DEF Next

(* What mp1_ioctl_add, _remove and _sync and the tasklet keep of the list, *)
(* the pairs in step and the screen, whatever add_frames and main do.      *)
THEOREM FishInvariant == Spec => []FishInv
BY InitFish, StepFish, PTL DEF Spec

(* mp1_ioctl_add and mp1_ioctl_remove never lose, repeat or leak an        *)
(* element: next leads from the head through the elements in use, each     *)
(* once, whatever is added and removed in whatever order.                  *)
THEOREM ListKept == Spec => []ListIntact
<1>1. FishInv => ListIntact
  <2> SUFFICES ASSUME FishInv PROVE ListIntact
    BY Zenon
  <2>1. LinkInv /\ Elements = Allocated
    BY ElementsAre, Zenon DEF FishInv, BlinkInv
  <2>2. PICK m, L : Linked(m, L)
    BY <2>1, Zenon DEF LinkInv
  <2>3. /\ m \in Nat /\ List \in Seq(1 .. NODES) /\ Len(List) = m
        /\ \A i \in 1 .. m : List[i] = L[i]
    <3>1. m \in Nat
      BY <2>2 DEF Linked, Links
    <3> QED BY <2>2, <3>1, ListIs
  <2>4. \A i, j \in 1 .. Len(List) : List[i] = List[j] => i = j
    BY <2>2, <2>3 DEF Linked, Links
  <2>5. List # << >> => blink_array[List[Len(List)]].next = NULL
    <3> SUFFICES ASSUME List # << >> PROVE blink_array[List[m]].next = NULL
      BY <2>3, Zenon
    <3>1. m \in 1 .. m
      BY <2>3, EmptySeq
    <3> QED BY <2>2, <2>3, <3>1 DEF Linked, Links
  <2> QED BY <2>1, <2>4, <2>5, Zenon DEF ListIntact, Allocated
<1> QED BY <1>1, FishInvariant, PTL

(* mp1_ioctl_sync keeps its promise: the two elements switch at the same   *)
(* ticks from then on, until one is removed or synchronised again.         *)
THEOREM SyncKept == Spec => []SyncedTogether
<1>1. FishInv => SyncedTogether
  BY Zenon DEF FishInv, BlinkInv, SyncInv, SameRates, SyncedTogether
<1> QED BY <1>1, FishInvariant, PTL

(* The tasklet and mp1_ioctl_add keep the screen in step with the phases   *)
(* of the elements.                                                        *)
THEOREM ScreenKept == Spec => []ScreenFollowsStatus
<1>1. FishInv => ScreenFollowsStatus
  <2> SUFFICES ASSUME FishInv PROVE ScreenFollowsStatus
    OBVIOUS
  <2>1. LinkInv /\ ScreenInv /\ Elements = Allocated
    BY ElementsAre, Zenon DEF FishInv, BlinkInv
  <2> QED BY <2>1, Zenon DEF ScreenInv, Phase, ScreenFollowsStatus
<1> QED BY <1>1, FishInvariant, PTL
-----------------------------------------------------------------------------
(* The first m elements added are those of the picture before upto, as far *)
(* as there are elements.                                                  *)
IsDrawn(at, picture, f0, f1, m, added, upto) ==
  /\ at \in [1 .. m -> picture]
  /\ \A i, j \in 1 .. m : i < j => Before(at[i], at[j])
  /\ \A place \in picture : Before(place, upto) =>
       \/ \E i \in 1 .. m : at[i] = place
       \/ m = NODES /\ \A i \in 1 .. m : Before(at[i], place)
  /\ \A i \in 1 .. m : /\ Before(at[i], upto)
                       /\ added[i].location = Location(at[i])
                       /\ added[i].on_char = At(f0, at[i])
                       /\ added[i].off_char = At(f1, at[i])
Drawn(picture, f0, f1, m, added, upto) ==
  \E at : IsDrawn(at, picture, f0, f1, m, added, upto)

(* Nothing is before the first place.                                      *)
LEMMA DrawnNone ==
  ASSUME NEW picture, picture \subseteq Places, NEW f0, NEW f1, NEW added
  PROVE  Drawn(picture, f0, f1, 0, added, <<0, 0>>)
<1>1. 1 .. 0 = {} /\ 0 \in Nat
  OBVIOUS
<1>2. \A place \in Places : ~Before(place, <<0, 0>>)
  BY DEF Places, Before
<1> DEFINE at == [i \in 1 .. 0 |-> <<0, 0>>]
<1>3. at \in [1 .. 0 -> picture]
  BY <1>1
<1> HIDE DEF at
<1>4. IsDrawn(at, picture, f0, f1, 0, added, <<0, 0>>)
  BY <1>1, <1>2, <1>3, Zenon DEF IsDrawn
<1> QED BY <1>4, Zenon DEF Drawn

(* The next places are not in the picture, or there is no room for them.   *)
LEMMA DrawnSkip ==
  ASSUME NEW picture, picture \subseteq Places, NEW f0, NEW f1, NEW m \in Nat, NEW added,
         NEW upto \in Places, NEW next \in Places, Before(upto, next),
         Drawn(picture, f0, f1, m, added, upto),
         \A place \in picture : Before(place, next) =>
           Before(place, upto) \/ (place = upto /\ m = NODES)
  PROVE  Drawn(picture, f0, f1, m, added, next)
<1>1. PICK at : IsDrawn(at, picture, f0, f1, m, added, upto)
  BY Zenon DEF Drawn
<1>2. \A i \in 1 .. m : at[i] \in Places /\ Before(at[i], upto)
  BY <1>1, Zenon DEF IsDrawn
<1>3. \A i \in 1 .. m : Before(at[i], next)
  BY <1>2, BeforeFacts, Zenon
<1>4. ASSUME NEW place \in picture, Before(place, next)
      PROVE  \/ \E i \in 1 .. m : at[i] = place
             \/ m = NODES /\ \A i \in 1 .. m : Before(at[i], place)
  BY <1>1, <1>2, <1>4, Zenon DEF IsDrawn
<1>5. IsDrawn(at, picture, f0, f1, m, added, next)
  BY <1>1, <1>3, <1>4, Zenon DEF IsDrawn
<1> QED BY <1>5, Zenon DEF Drawn

(* The next place is in the picture, and its element was added.            *)
LEMMA DrawnAdd ==
  ASSUME NEW picture, picture \subseteq Places, NEW f0, NEW f1, NEW m \in Nat, m # NODES,
         NEW added, NEW more, NEW upto \in picture, NEW next \in Places, Before(upto, next),
         Drawn(picture, f0, f1, m, added, upto),
         \A place \in picture : Before(place, next) => Before(place, upto) \/ place = upto,
         \A i \in 1 .. m : more[i] = added[i],
         more[m + 1].location = Location(upto), more[m + 1].on_char = At(f0, upto),
         more[m + 1].off_char = At(f1, upto)
  PROVE  Drawn(picture, f0, f1, m + 1, more, next)
<1>1. PICK at : IsDrawn(at, picture, f0, f1, m, added, upto)
  BY Zenon DEF Drawn
<1> DEFINE at2 == [i \in 1 .. m + 1 |-> IF i = m + 1 THEN upto ELSE at[i]]
<1>2. /\ \A i \in 1 .. m + 1 : i # m + 1 => i \in 1 .. m
      /\ \A i \in 1 .. m : i \in 1 .. m + 1 /\ i # m + 1
      /\ m + 1 \in 1 .. m + 1
      /\ \A j \in 1 .. m + 1 : ~(m + 1 < j)
  OBVIOUS
<1>3. at2[m + 1] = upto /\ \A i \in 1 .. m : at2[i] = at[i]
  BY <1>2, Zenon
<1>4. at2 \in [1 .. m + 1 -> picture]
  BY <1>1, <1>2, Zenon DEF IsDrawn
<1> HIDE DEF at2
<1>5. \A i \in 1 .. m : at[i] \in Places /\ Before(at[i], upto)
  BY <1>1, Zenon DEF IsDrawn
<1>6. \A i, j \in 1 .. m + 1 : i < j => Before(at2[i], at2[j])
  <2> SUFFICES ASSUME NEW i \in 1 .. m + 1, NEW j \in 1 .. m + 1, i < j
               PROVE  Before(at2[i], at2[j])
    BY Zenon
  <2>1. i \in 1 .. m
    BY <1>2, Zenon
  <2>2. CASE j = m + 1
    BY <1>3, <1>5, <2>1, <2>2, Zenon
  <2>3. CASE j \in 1 .. m
    BY <1>1, <1>3, <2>1, <2>3, Zenon DEF IsDrawn
  <2> QED BY <1>2, <2>2, <2>3, Zenon
<1>7. \A i \in 1 .. m + 1 : Before(at2[i], next)
  <2>1. \A i \in 1 .. m : Before(at[i], next)
    BY <1>5, BeforeFacts, Zenon
  <2> QED BY <1>2, <1>3, <2>1, Zenon
<1>8. \A i \in 1 .. m + 1 : /\ more[i].location = Location(at2[i])
                            /\ more[i].on_char = At(f0, at2[i])
                            /\ more[i].off_char = At(f1, at2[i])
  BY <1>1, <1>2, <1>3, Zenon DEF IsDrawn
<1>9. ASSUME NEW place \in picture, Before(place, next)
      PROVE  \E i \in 1 .. m + 1 : at2[i] = place
  <2>1. CASE place = upto
    BY <1>2, <1>3, <2>1, Zenon
  <2>2. CASE Before(place, upto)
    <3>1. PICK i \in 1 .. m : at[i] = place
      BY <1>1, <2>2, Zenon DEF IsDrawn
    <3> QED BY <1>2, <1>3, <3>1, Zenon
  <2> QED BY <1>9, <2>1, <2>2, Zenon
<1>10. IsDrawn(at2, picture, f0, f1, m + 1, more, next)
  BY <1>4, <1>6, <1>7, <1>8, <1>9, Zenon DEF IsDrawn
<1> QED BY <1>10, Zenon DEF Drawn
-----------------------------------------------------------------------------
(* What ListIs says, in the next state too.                                *)
ListOK ==
  \A m, L : Links(m, L, blink_array, mp1_list_head) =>
    Len(List) = m /\ \A i \in 1 .. m : List[i] = L[i]

LEMMA ListFacts == ListOK
  BY ListIs, Zenon DEF ListOK, Linked

LEMMA ListFactsNext ==
  ASSUME NEW m, NEW L, Linked(m, L)'
  PROVE  Len(List') = m /\ \A i \in 1 .. m : List'[i] = L[i]
<1>1. ListOK'
  BY ListFacts, PTL
<1>2. Links(m, L, blink_array', mp1_list_head')
  BY Zenon DEF Linked
<1> QED BY <1>1, <1>2, Zenon DEF ListOK

(* The list is as long as blink_array only when no element is free.        *)
LEMMA RoomLeft ==
  ASSUME NEW m, NEW L, Linked(m, L)
  PROVE  mp1_malloc = NULL <=> m = NODES
<1>1. /\ m \in Nat /\ NODES \in Nat /\ L \in [1 .. m -> 1 .. NODES]
      /\ \A i, j \in 1 .. m : L[i] = L[j] => i = j
      /\ \A n \in 1 .. NODES : blink_array[n].location # 0 <=> \E i \in 1 .. m : L[i] = n
  BY BlinkAssumption, Zenon DEF Linked, Links
<1>2. m <= NODES
  BY NotLonger
<1>3. mp1_malloc = NULL <=> \A n \in 1 .. NODES : blink_array[n].location # 0
  <2> DEFINE free == {n \in 1 .. NODES : blink_array[n].location = 0}
  <2>1. mp1_malloc = NULL => free = {}
    <3>1. mp1_malloc = IF free = {} THEN NULL
                       ELSE CHOOSE n \in free : \A k \in free : n <= k
      BY Zenon DEF mp1_malloc
    <3>2. free # {} => \E n \in free : \A k \in free : n <= k
      <4>1. free \subseteq Nat
        OBVIOUS
      <4> HIDE DEF free
      <4> QED BY <4>1, HasLeast, Zenon
    <3>3. free # {} => mp1_malloc \in free
      <4> HIDE DEF free
      <4> QED BY <3>1, <3>2, Zenon
    <3> QED BY <3>3 DEF NULL
  <2>2. free = {} => mp1_malloc = NULL
    BY Zenon DEF mp1_malloc
  <2> QED BY <2>1, <2>2, Zenon
<1>4. ASSUME \A n \in 1 .. NODES : blink_array[n].location # 0 PROVE m = NODES
  <2> DEFINE g == [n \in 1 .. NODES |-> CHOOSE i \in 1 .. m : L[i] = n]
  <2>1. \A n \in 1 .. NODES : g[n] \in 1 .. m /\ L[g[n]] = n
    BY <1>1, <1>4, Zenon
  <2>2. g \in [1 .. NODES -> 1 .. m]
    BY <2>1, Zenon
  <2> HIDE DEF g
  <2>3. Distinct(NODES, m, g)
    BY <2>1, <2>2, Zenon DEF Distinct
  <2>4. NODES <= m
    BY <1>1, <2>3, AtMostAll, Zenon
  <2> QED BY <1>1, <1>2, <2>4
<1>5. ASSUME m = NODES, NEW n \in 1 .. NODES, blink_array[n].location = 0 PROVE FALSE
  <2> DEFINE h == [i \in 1 .. m + 1 |-> IF i = m + 1 THEN n ELSE L[i]]
  <2>1. \A i \in 1 .. m : L[i] # n
    BY <1>1, <1>5, Zenon
  <2>2. \A i \in 1 .. m + 1 : i # m + 1 => i \in 1 .. m
    BY <1>1
  <2>3. h \in [1 .. m + 1 -> 1 .. NODES]
    BY <1>1, <2>2, Zenon
  <2>4. \A i, j \in 1 .. m + 1 : h[i] = h[j] => i = j
    BY <1>1, <2>1, <2>2, Zenon
  <2> HIDE DEF h
  <2>5. Distinct(m + 1, NODES, h) /\ m + 1 \in Nat
    BY <1>1, <2>3, <2>4 DEF Distinct
  <2>6. m + 1 <= NODES
    BY <1>1, <2>5, AtMostAll, Zenon
  <2> QED BY <1>1, <1>5, <2>6
<1> QED BY <1>3, <1>4, <1>5, Zenon

(* The list is the same when the elements and the head are.                *)
LEMMA SameList ==
  ASSUME BlinkInv, UNCHANGED <<blink_array, mp1_list_head>>
  PROVE  Len(List') = Len(List) /\ Added' = Added
<1>1. PICK m, L : Linked(m, L)
  BY Zenon DEF BlinkInv, LinkInv
<1>2. Linked(m, L)'
  BY <1>1, Zenon DEF Linked, Links
<1>3. m \in Nat
  BY <1>1, Zenon DEF Linked, Links
<1>4. Len(List) = m /\ \A i \in 1 .. m : List[i] = L[i]
  BY <1>1, ListIs, Zenon
<1>5. Len(List') = m /\ \A i \in 1 .. m : List'[i] = L[i]
  BY <1>2, ListFactsNext, Zenon
<1>6. /\ Added = [i \in 1 .. m |-> blink_array[List[m + 1 - i]]]
      /\ Added' = [i \in 1 .. m |-> blink_array[List'[m + 1 - i]]]
  BY <1>4, <1>5, Zenon DEF Added
<1>7. \A i \in 1 .. m : List'[m + 1 - i] = List[m + 1 - i]
  <2>1. \A i \in 1 .. m : m + 1 - i \in 1 .. m
    BY <1>3
  <2> QED BY <1>4, <1>5, <2>1, Zenon
<1> QED BY <1>4, <1>5, <1>6, <1>7, Zenon

(* The list is finite.                                                     *)
LEMMA LengthIs == BlinkInv => Len(List) \in Nat
<1> SUFFICES ASSUME BlinkInv PROVE Len(List) \in Nat
  BY Zenon
<1>1. PICK m, L : Linked(m, L)
  BY Zenon DEF BlinkInv, LinkInv
<1>2. m \in Nat
  BY <1>1, Zenon DEF Linked, Links
<1> QED BY <1>1, <1>2, ListIs, Zenon

(* RTC_ADD adds the element behind those added before, unless there is no  *)
(* room on the screen or in blink_array.                                   *)
LEMMA ListAdded ==
  ASSUME BlinkInv, NEW s, mp1_ioctl_add(s), s.location \in Nat \ {0}
  PROVE  /\ Len(List) \in Nat
         /\ \/ /\ Len(List') = Len(List) /\ Added' = Added
               /\ s.location >= SCREEN \/ Len(List) = NODES
            \/ /\ s.location < SCREEN /\ Len(List) # NODES
               /\ Len(List') = Len(List) + 1
               /\ \A i \in 1 .. Len(List) : Added'[i] = Added[i]
               /\ Added'[Len(List) + 1].location = s.location
               /\ Added'[Len(List) + 1].on_char = s.on_char
               /\ Added'[Len(List) + 1].off_char = s.off_char
<1> PICK n : n = mp1_malloc
  BY Zenon
<1> PICK e : e = [location |-> s.location, on_char |-> s.on_char,
                  off_char |-> s.off_char, on_length |-> s.on_length,
                  off_length |-> s.off_length, countdown |-> s.on_length,
                  status |-> 1, next |-> mp1_list_head]
  BY Zenon
<1>1. PICK m, L : Linked(m, L)
  BY Zenon DEF BlinkInv, LinkInv
<1>2. /\ m \in Nat /\ Len(List) = m /\ \A i \in 1 .. m : List[i] = L[i] /\ L[i] \in 1 .. NODES
  <2>1. m \in Nat /\ L \in [1 .. m -> 1 .. NODES]
    BY <1>1, Zenon DEF Linked, Links
  <2> QED BY <1>1, <2>1, ListIs, Zenon
<1>3. CASE s.location >= SCREEN \/ n = NULL
  <2>0. ~(s.location >= SCREEN /\ s.location < SCREEN)
    BY BlinkAssumption
  <2>1. UNCHANGED <<blink_array, mp1_list_head>>
    BY <1>3, <2>0, Zenon DEF mp1_ioctl_add, blinkVars
  <2>2. Len(List') = Len(List) /\ Added' = Added
    BY <2>1, SameList, Zenon
  <2>3. n = NULL => m = NODES
    BY <1>1, RoomLeft, Zenon
  <2> QED BY <1>2, <1>3, <2>2, <2>3, ZenonT(30)
<1>4. CASE ~(s.location >= SCREEN) /\ n # NULL
  <2>1. /\ s.location < SCREEN /\ n \in 1 .. NODES /\ blink_array[n].location = 0
        /\ blink_array' = [blink_array EXCEPT ![n] = e]
        /\ mp1_list_head' = n
    BY <1>4, MallocFinds, Zenon DEF mp1_ioctl_add
  <2>2. m # NODES
    BY <1>1, <1>4, RoomLeft, Zenon
  <2>3. blink_array'[n] = e /\ \A k \in 1 .. NODES : k # n => blink_array'[k] = blink_array[k]
    <3>1. blink_array = [k \in 1 .. NODES |-> blink_array[k]]
      BY Zenon DEF BlinkInv, ArrayInv
    <3> QED BY <2>1, <3>1, Zenon
  <2>4. /\ e.location = s.location /\ e.on_char = s.on_char /\ e.off_char = s.off_char
        /\ e.next = mp1_list_head
    BY Zenon
  <2> PICK M : M = [i \in 1 .. m + 1 |-> IF i = 1 THEN n ELSE L[i - 1]]
    BY ZenonT(30)
  <2>5. Linked(m + 1, M)'
    BY <1>1, <2>1, <2>3, <2>4, AddLinks, SMTT(30)
  <2>6. Len(List') = m + 1 /\ \A i \in 1 .. m + 1 : List'[i] = M[i]
    BY <2>5, ListFactsNext, ZenonT(30)
  <2>7. M[1] = n /\ \A i \in 1 .. m : M[i + 1] = L[i] /\ L[i] # n
    <3>1. \A i \in 1 .. m : L[i] # n
      BY <1>1, <2>1, Zenon DEF Linked, Links
    <3> QED BY <1>2, <3>1
  <2>8. Added = [i \in 1 .. m |-> blink_array[List[m + 1 - i]]]
    BY <1>2, Zenon DEF Added
  <2>9. Added' = [i \in 1 .. m + 1 |-> blink_array'[List'[(m + 1) + 1 - i]]]
    BY <2>6, Zenon DEF Added
  <2>10. Added'[m + 1] = e
    <3>1. m + 1 \in 1 .. m + 1 /\ (m + 1) + 1 - (m + 1) = 1 /\ 1 \in 1 .. m + 1
      BY <1>2, SMTT(30)
    <3>2. Added'[m + 1] = blink_array'[List'[1]]
      BY <2>9, <3>1
    <3> QED BY <2>3, <2>6, <2>7, <3>1, <3>2, ZenonT(30)
  <2>11. ASSUME NEW i \in 1 .. m PROVE Added'[i] = Added[i]
    <3> DEFINE j == m + 1 - i
    <3>1. j \in 1 .. m /\ (m + 1) + 1 - i = j + 1 /\ j + 1 \in 1 .. m + 1 /\ i \in 1 .. m + 1
      BY <1>2, SMTT(30)
    <3>2. Added'[i] = blink_array'[List'[j + 1]] /\ Added[i] = blink_array[List[j]]
      BY <2>8, <2>9, <3>1, SMTT(30)
    <3> HIDE DEF j
    <3>3. List'[j + 1] = L[j] /\ List[j] = L[j] /\ L[j] # n /\ L[j] \in 1 .. NODES
      BY <1>2, <2>6, <2>7, <3>1, ZenonT(30)
    <3> QED BY <2>3, <3>2, <3>3, ZenonT(30)
  <2> QED BY <1>2, <2>1, <2>2, <2>4, <2>6, <2>10, <2>11, ZenonT(30)
<1> QED BY <1>3, <1>4, Zenon
-----------------------------------------------------------------------------
(* What is in the picture before the place that the files are read up to   *)
(* has been added.                                                         *)
FramesInv ==
  pc \in {"frames", "ready"} =>
    Drawn(Picture(file[0], file[1]), file[0], file[1], Len(List), Added, <<row, col>>)

(* What is in the picture.                                                 *)
LEMMA PictureIs ==
  ASSUME NEW f0, NEW f1, Len(f0) \in Nat, Len(f1) \in Nat
  PROVE  /\ Picture(f0, f1) \subseteq Places
         /\ \A r \in Nat, k \in Nat :
              <<r, k>> \in Picture(f0, f1) <=>
                /\ r <= Len(f0) + Len(f1) /\ k <= Len(f0) + Len(f1)
                /\ Location(<<r, k>>) < SCREEN
                /\ At(f0, <<r, k>>) # SPACE \/ At(f1, <<r, k>>) # SPACE
<1> DEFINE n == Len(f0) + Len(f1)
           Q(place) == /\ Location(place) < SCREEN
                       /\ At(f0, place) # SPACE \/ At(f1, place) # SPACE
<1>1. Picture(f0, f1) = {place \in (0 .. n) \X (0 .. n) : Q(place)}
  BY Zenon DEF Picture
<1>2. n \in Nat
  OBVIOUS
<1> HIDE DEF n, Q
<1>3. (0 .. n) \X (0 .. n) \subseteq Places
  BY <1>2 DEF Places
<1>4. ASSUME NEW r \in Nat, NEW k \in Nat
      PROVE  <<r, k>> \in (0 .. n) \X (0 .. n) <=> r <= n /\ k <= n
  BY <1>2
<1> QED BY <1>1, <1>3, <1>4, Zenon DEF n, Q

(* A column adds an element exactly when its place is in the picture and an *)
(* element of blink_array is free.                                         *)
LEMMA ColumnKeeps ==
  ASSUME FishInv, FramesInv, frame_column
  PROVE  FramesInv'
<1> DEFINE here == <<row, col>>
           next == <<row, col + 1>>
           m == Len(List)
           picture == Picture(file[0], file[1])
           b(f) == NextByte(file[f], pos[f], c[f])
<1>1. /\ pc = "frames" /\ pc' = "frames" /\ file' = file /\ row' = row /\ col' = col + 1
  BY Zenon DEF frame_column
<1>3. /\ row \in Nat /\ col \in Nat /\ BlinkInv /\ 0 \in Fds /\ 1 \in Fds
      /\ \A f \in Fds : /\ file[f] \in Texts /\ eof[f] \in BOOLEAN
                        /\ ReadTo(file[f], pos[f], c[f], eof[f], here)
      /\ Drawn(picture, file[0], file[1], m, Added, here)
  BY <1>1, Zenon DEF FishInv, ReadInv, FramesInv, Fds
<1>4. \A f \in Fds : Len(file[f]) \in Nat
  BY <1>3, FishAssumption, LenProperties, Zenon
<1>6. \A f \in Fds : At(file[f], here) = Glyph(b(f))
  <2> SUFFICES ASSUME NEW f \in Fds PROVE At(file[f], here) = Glyph(b(f))
    BY Zenon
  <2>0. /\ Len(file[f]) \in Nat /\ eof[f] \in BOOLEAN /\ row \in Nat /\ col \in Nat
        /\ ReadTo(file[f], pos[f], c[f], eof[f], <<row, col>>)
    BY <1>3, <1>4, Zenon
  <2>1. CASE b(f) # NEWLINE
    <3>1. At(file[f], <<row, col>>) = NextByte(file[f], pos[f], c[f])
      BY <2>0, <2>1, CharRead
    <3> QED BY <2>1, <3>1, ZenonT(30) DEF Glyph
  <2>2. CASE b(f) = NEWLINE
    <3>1. col <= col
      BY <2>0, SMTT(30)
    <3>2. At(file[f], <<row, col>>) = SPACE
      BY <2>0, <2>2, <3>1, LineRead, ZenonT(30)
    <3> QED BY <2>2, <3>2, Zenon DEF Glyph
  <2> QED BY <2>1, <2>2, Zenon
<1>7. /\ picture \subseteq Places /\ here \in Places /\ next \in Places /\ Before(here, next)
      /\ \A place \in picture : Before(place, next) => Before(place, here) \/ place = here
  <2>1. picture \subseteq Places
    BY <1>3, <1>4, PictureIs, Zenon
  <2>2. ASSUME NEW place \in Places, Before(place, next)
        PROVE  Before(place, here) \/ place = here
    BY <1>3, <2>2, SMTT(30) DEF Before, Places
  <2>3. here \in Places /\ next \in Places /\ Before(here, next)
    BY <1>3 DEF Before, Places
  <2> QED BY <2>1, <2>2, <2>3, Zenon
<1> HIDE DEF b, picture, m
<1>8. m \in Nat /\ Drawn(picture, file[0], file[1], m', Added', next)
  <2>0. here \in picture <=>
          /\ row <= Len(file[0]) + Len(file[1]) /\ col <= Len(file[0]) + Len(file[1])
          /\ Location(here) < SCREEN
          /\ At(file[0], here) # SPACE \/ At(file[1], here) # SPACE
    BY <1>3, <1>4, PictureIs, Zenon DEF picture
  <2>1. CASE \A f \in Fds : Blank(b(f))
    <3>1. UNCHANGED <<blink_array, mp1_list_head>>
      BY <2>1, BytesAre, Zenon DEF frame_column, blinkVars, b
    <3>2. m' = m /\ Added' = Added
      BY <1>3, <3>1, SameList, Zenon DEF m
    <3>3. here \notin picture
      BY <1>3, <1>6, <2>0, <2>1, ZenonT(30) DEF Blank, Glyph
    <3>4. m \in Nat
      BY <1>3, LengthIs, Zenon DEF m
    <3>5. Drawn(picture, file[0], file[1], m, Added, next)
      BY <1>3, <1>7, <3>3, <3>4, DrawnSkip, ZenonT(30)
    <3> QED BY <3>2, <3>4, <3>5, Zenon
  <2>2. CASE ~\A f \in Fds : Blank(b(f))
    <3>0. PICK s : s = [location |-> (row * COLUMNS + col + OFFSET) % SHORT,
                        on_char |-> Glyph(Byte(0)), off_char |-> Glyph(Byte(1)),
                        on_length |-> LENGTH, off_length |-> LENGTH]
      BY Zenon
    <3>1. mp1_ioctl_add(s)
      BY <2>2, <3>0, BytesAre, ZenonT(30) DEF frame_column, Fds, b
    <3>f. /\ (row * COLUMNS + col + OFFSET) % SHORT = row * COLUMNS + col + OFFSET
          /\ row * COLUMNS + col + OFFSET \in Nat \ {0}
      <4>1. PICK f \in Fds : ~Blank(Byte(f))
        BY <2>2, BytesAre, ZenonT(30) DEF b
      <4> QED BY <1>1, <4>1, LocationFits, Zenon DEF FishInv
    <3>2. /\ s.location = Location(here) /\ s.on_char = At(file[0], here)
          /\ s.off_char = At(file[1], here)
      <4>1. s.location = row * COLUMNS + col + OFFSET
        BY <3>0, <3>f, ZenonT(30)
      <4>2. s.location = Location(here)
        BY <4>1 DEF Location
      <4>3. s.on_char = Glyph(b(0)) /\ s.off_char = Glyph(b(1))
        BY <3>0, BytesAre, ZenonT(30) DEF b
      <4> QED BY <1>3, <1>6, <4>2, <4>3, ZenonT(30)
    <3>3. s.location \in Nat \ {0}
      BY <3>0, <3>f, ZenonT(30)
    <3>4. \/ m' = m /\ Added' = Added /\ (s.location >= SCREEN \/ m = NODES)
          \/ /\ s.location < SCREEN /\ m # NODES /\ m' = m + 1
             /\ \A i \in 1 .. m : Added'[i] = Added[i]
             /\ Added'[m + 1].location = s.location
             /\ Added'[m + 1].on_char = s.on_char /\ Added'[m + 1].off_char = s.off_char
      BY <1>3, <3>1, <3>3, ListAdded, ZenonT(30) DEF m
    <3>5. m \in Nat
      BY <1>3, LengthIs, Zenon DEF m
    <3>6. CASE m' = m /\ Added' = Added /\ (s.location >= SCREEN \/ m = NODES)
      <4>1. here \in picture => m = NODES
        <5>1. s.location >= SCREEN => ~(Location(here) < SCREEN)
          BY <3>2, <3>3, BlinkAssumption
        <5> QED BY <2>0, <3>6, <5>1, ZenonT(30)
      <4>2. Drawn(picture, file[0], file[1], m, Added, next)
        BY <1>3, <1>7, <3>5, <4>1, DrawnSkip, ZenonT(30)
      <4> QED BY <3>5, <3>6, <4>2, Zenon
    <3>7. CASE /\ s.location < SCREEN /\ m # NODES /\ m' = m + 1
               /\ \A i \in 1 .. m : Added'[i] = Added[i]
               /\ Added'[m + 1].location = s.location
               /\ Added'[m + 1].on_char = s.on_char /\ Added'[m + 1].off_char = s.off_char
      <4>1. PICK f \in Fds : ~Blank(b(f))
        BY <2>2, Zenon
      <4>2. At(file[f], here) # SPACE /\ b(f) # NEWLINE
        BY <1>6, <4>1, ZenonT(30) DEF Blank, Glyph
      <4>3. row \in 0 .. Len(file[f]) /\ col \in 0 .. Len(file[f])
        <5>1. /\ Len(file[f]) \in Nat /\ eof[f] \in BOOLEAN /\ row \in Nat /\ col \in Nat
              /\ ReadTo(file[f], pos[f], c[f], eof[f], <<row, col>>)
              /\ NextByte(file[f], pos[f], c[f]) # NEWLINE
          BY <1>3, <1>4, <4>2, ZenonT(30) DEF b
        <5> QED BY <5>1, CharRead
      <4>4. row <= Len(file[0]) + Len(file[1]) /\ col <= Len(file[0]) + Len(file[1])
        <5>1. f = 0 \/ f = 1
          BY Zenon DEF Fds
        <5>2. Len(file[0]) \in Nat /\ Len(file[1]) \in Nat /\ row \in Nat /\ col \in Nat
          BY <1>3, <1>4, ZenonT(30)
        <5>3. row <= Len(file[f]) /\ col <= Len(file[f])
          BY <4>3
        <5>4. \/ row <= Len(file[0]) /\ col <= Len(file[0])
              \/ row <= Len(file[1]) /\ col <= Len(file[1])
          BY <5>1, <5>3, ZenonT(30)
        <5>5. \A a, x, y \in Nat : a <= x \/ a <= y => a <= x + y
          OBVIOUS
        <5> QED BY <5>2, <5>4, <5>5, ZenonT(30)
      <4>5. here \in picture
        <5>1. f = 0 \/ f = 1
          BY Zenon DEF Fds
        <5> QED BY <2>0, <3>2, <3>7, <4>2, <4>4, <5>1, ZenonT(30)
      <4>6. /\ Added'[m + 1].location = Location(here)
            /\ Added'[m + 1].on_char = At(file[0], here)
            /\ Added'[m + 1].off_char = At(file[1], here)
        BY <3>2, <3>7, Zenon
      <4>7. Drawn(picture, file[0], file[1], m + 1, Added', next)
        <5> HIDE DEF here, next
        <5> QED BY <1>3, <1>7, <3>5, <3>7, <4>5, <4>6, DrawnAdd, ZenonT(30)
      <4> QED BY <3>5, <3>7, <4>7, Zenon
    <3> QED BY <3>4, <3>6, <3>7, Zenon
  <2> QED BY <2>1, <2>2, Zenon
<1>9. Drawn(Picture(file'[0], file'[1]), file'[0], file'[1], Len(List'), Added', <<row', col'>>)
  BY <1>1, <1>8, Zenon DEF picture, m
<1> QED BY <1>9, Zenon DEF FramesInv

(* The end of a row skips places that are blank in both files.             *)
LEMMA RowKeeps ==
  ASSUME FishInv, FramesInv, frame_row
  PROVE  FramesInv'
<1> DEFINE here == <<row, col>>
           next == <<row + 1, 0>>
           picture == Picture(file[0], file[1])
<1>1. /\ pc = "frames" /\ pc' \in {"frames", "ready"} /\ file' = file
      /\ row' = row + 1 /\ col' = 0
      /\ UNCHANGED <<blink_array, mp1_list_head>>
      /\ \A f \in Fds : Byte(f) = NEWLINE
  BY Zenon DEF frame_row, blinkVars
<1>2. \A f \in Fds : NextByte(file[f], pos[f], c[f]) = NEWLINE
  BY <1>1, BytesAre, Zenon
<1>3. /\ row \in Nat /\ col \in Nat /\ BlinkInv /\ 0 \in Fds /\ 1 \in Fds
      /\ \A f \in Fds : /\ file[f] \in Texts /\ eof[f] \in BOOLEAN
                        /\ ReadTo(file[f], pos[f], c[f], eof[f], here)
      /\ Drawn(picture, file[0], file[1], Len(List), Added, here)
  BY <1>1, Zenon DEF FishInv, ReadInv, FramesInv, Fds
<1>4. \A f \in Fds : Len(file[f]) \in Nat
  BY <1>3, FishAssumption, LenProperties, Zenon
<1>6. \A f \in Fds : \A j \in Nat : col <= j => At(file[f], <<row, j>>) = SPACE
  <2> SUFFICES ASSUME NEW f \in Fds, NEW j \in Nat, col <= j
               PROVE  At(file[f], <<row, j>>) = SPACE
    BY Zenon
  <2>1. /\ Len(file[f]) \in Nat /\ eof[f] \in BOOLEAN /\ row \in Nat /\ col \in Nat
        /\ ReadTo(file[f], pos[f], c[f], eof[f], <<row, col>>)
        /\ NextByte(file[f], pos[f], c[f]) = NEWLINE
    BY <1>2, <1>3, <1>4, Zenon
  <2> QED BY <2>1, LineRead
<1>7. picture \subseteq Places /\ here \in Places /\ next \in Places /\ Before(here, next)
  <2>1. picture \subseteq Places
    BY <1>3, <1>4, PictureIs, ZenonT(30)
  <2>2. here \in Places /\ next \in Places /\ Before(here, next)
    BY <1>3 DEF Before, Places
  <2> QED BY <2>1, <2>2, Zenon
<1>8. ASSUME NEW place \in picture, Before(place, next) PROVE Before(place, here)
  <2>0. place \in Places
    BY <1>7, Zenon
  <2>1. PICK r \in Nat, k \in Nat : place = <<r, k>>
    BY <2>0 DEF Places
  <2>2. Before(place, here) \/ (r = row /\ col <= k)
    BY <1>3, <1>8, <2>1 DEF Before
  <2>3. At(file[0], place) # SPACE \/ At(file[1], place) # SPACE
    BY <1>3, <1>4, <2>1, PictureIs, ZenonT(30)
  <2> QED BY <1>3, <1>6, <2>1, <2>2, <2>3, ZenonT(30)
<1> HIDE DEF picture
<1>9. Drawn(picture, file[0], file[1], Len(List), Added, next)
  BY <1>3, <1>7, <1>8, LengthIs, DrawnSkip, ZenonT(30)
<1>10. Drawn(Picture(file'[0], file'[1]), file'[0], file'[1], Len(List'), Added', <<row', col'>>)
  BY <1>1, <1>3, <1>9, SameList, ZenonT(30) DEF picture
<1> QED BY <1>10, Zenon DEF FramesInv

LEMMA InitFrames == Init => FramesInv
<1> SUFFICES ASSUME Init PROVE FramesInv
  BY Zenon
<1>1. /\ pc = "frames" /\ row = 0 /\ col = 0 /\ BlinkInit /\ 0 \in Fds /\ 1 \in Fds
      /\ \A f \in Fds : file[f] \in Texts
  BY Zenon DEF Init, Fds
<1>2. \A f \in Fds : Len(file[f]) \in Nat
  BY <1>1, FishAssumption, LenProperties, Zenon
<1>4. Len(List) = 0
  <2>0. Zero.location = 0
    BY Zenon DEF Zero
  <2>1. \A n \in 1 .. NODES : blink_array[n].location = 0
    BY <1>1, <2>0, Zenon DEF BlinkInit
  <2>2. PICK m, L : Linked(m, L)
    BY <1>1, InitBlinkInv, Zenon DEF BlinkInv, LinkInv
  <2>3. m \in Nat /\ L \in [1 .. m -> 1 .. NODES] /\ \A i \in 1 .. m : L[i] \in 1 .. NODES
    BY <2>2, Zenon DEF Linked, Links
  <2>4. \A i \in 1 .. m : FALSE
    BY <2>1, <2>2, <2>3, ZenonT(30) DEF Linked, Links
  <2>5. m = 0
    BY <2>3, <2>4
  <2> QED BY <2>2, <2>5, ListIs, Zenon
<1>5. Drawn(Picture(file[0], file[1]), file[0], file[1], Len(List), Added, <<row, col>>)
  BY <1>1, <1>2, <1>4, PictureIs, DrawnNone, Zenon
<1> QED BY <1>5, Zenon DEF FramesInv

LEMMA StepFrames == FishInv /\ FramesInv /\ [Next]_vars => FramesInv'
<1> SUFFICES ASSUME FishInv, FramesInv, [Next]_vars PROVE FramesInv'
  BY Zenon
<1>1. CASE pc' \notin {"frames", "ready"}
  BY <1>1, Zenon DEF FramesInv
<1>2. CASE frame_column
  BY <1>2, ColumnKeeps, Zenon
<1>3. CASE frame_row
  BY <1>3, RowKeeps, Zenon
<1>4. CASE pc' \in {"frames", "ready"} /\ ~frame_column /\ ~frame_row
  <2>1. UNCHANGED vars
    <3>1. "main" \notin {"frames", "ready"}
      OBVIOUS
    <3> QED BY <1>4, <3>1, Zenon DEF Next, frames_done, tick, add, sync, remove, fishVars
  <2>2. UNCHANGED <<blink_array, mp1_list_head>> /\ UNCHANGED fishVars
    BY <2>1, Zenon DEF vars, blinkVars
  <2> QED BY <2>2, SameList, Zenon DEF FishInv, FramesInv, fishVars
<1> QED BY <1>1, <1>2, <1>3, <1>4, Zenon

(* The picture that add_frames builds (FramesMerged) is that of the two    *)
(* files, for texts of any length and shape whose characters have          *)
(* locations that fit in an unsigned short, and however many elements      *)
(* there are.                                                              *)
THEOREM FramesKept == Spec => []FramesMerged
<1>1. FishInv /\ FramesInv => FramesMerged
  <2> SUFFICES ASSUME FishInv, FramesInv, pc = "ready" PROVE FramesMerged
    BY Zenon DEF FramesMerged
  <2> DEFINE picture == Picture(file[0], file[1])
             n == Len(List)
  <2>1. /\ 0 \in Fds /\ 1 \in Fds /\ row \in Nat /\ col \in Nat
        /\ \A f \in Fds : /\ file[f] \in Texts /\ eof[f]
                          /\ ReadTo(file[f], pos[f], c[f], eof[f], <<row, col>>)
        /\ Drawn(picture, file[0], file[1], n, Added, <<row, col>>)
    BY Zenon DEF FishInv, ReadInv, FramesInv, Fds
  <2>2. \A f \in Fds : /\ Len(file[f]) \in Nat
                      /\ Before(Place(file[f], Len(file[f]) + 1), <<row, col>>)
    BY <2>1, FishAssumption, LenProperties, ZenonT(30) DEF ReadTo
  <2>3. ASSUME NEW place \in picture PROVE Before(place, <<row, col>>)
    <3>0. place \in Places
      BY <2>1, <2>2, PictureIs, Zenon
    <3>1. PICK r \in Nat, k \in Nat : place = <<r, k>>
      BY <3>0 DEF Places
    <3>2. PICK f \in Fds : At(file[f], place) # SPACE
      BY <2>1, <2>2, <3>1, PictureIs, Zenon
    <3> DEFINE x == Row(file[f], Len(file[f]) + 1)
               y == Column(file[f], Len(file[f]) + 1)
    <3>3. Place(file[f], Len(file[f]) + 1) = <<x, y>>
      BY Zenon DEF Place
    <3>4. x \in Nat /\ y \in Nat
      <4>1. Len(file[f]) + 1 \in Nat \ {0}
        BY <2>2
      <4> QED BY <4>1, PlaceTypes, Zenon
    <3> HIDE DEF x, y
    <3>5. Before(<<r, k>>, <<x, y>>)
      BY <2>2, <3>1, <3>2, <3>3, TextOver, Zenon
    <3>6. Before(<<x, y>>, <<row, col>>)
      BY <2>2, <3>3, Zenon
    <3> QED BY <2>1, <3>1, <3>4, <3>5, <3>6, SMTT(30) DEF Before
  <2>4. PICK at : IsDrawn(at, picture, file[0], file[1], n, Added, <<row, col>>)
    BY <2>1, Zenon DEF Drawn
  <2> HIDE DEF picture, n
  <2> QED BY <2>3, <2>4, Zenon DEF FramesMerged, IsDrawn, picture, n
<1> QED BY <1>1, FishInvariant, InitFrames, StepFrames, PTL DEF Spec
=============================================================================
