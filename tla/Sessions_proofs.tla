--------------------------- MODULE Sessions_proofs ---------------------------
(***************************************************************************)
(* Proofs about Sessions, for lists of any length.                         *)
(*                                                                         *)
(* The sessions are a recursive function, whose value for a number is      *)
(* found by induction.  The induction is over a set of numbers, and comes  *)
(* from the well-foundedness of the order on them.                         *)
(***************************************************************************)
EXTENDS Sessions, FiniteSetTheorems, WellFoundedInduction, TLAPS

LEMMA LeastNumber ==
    ASSUME NEW T \in SUBSET Nat, T # {}
    PROVE  \E n \in T : \A m \in T : n <= m
<1> DEFINE R == {p \in Nat \X Nat : p[1] < p[2]}
<1>1. IsWellFoundedOn(R, Nat)
  BY NatLessThanWellFounded DEF OpToRel
<1>2. \A x, y \in Nat : x < y => <<x, y>> \in R
  OBVIOUS
<1> HIDE DEF R
<1>3. \E x \in T : \A y \in T : ~(<<y, x>> \in R)
  BY <1>1, WFMin
<1>4. PICK x \in T : \A y \in T : ~(<<y, x>> \in R)
  BY <1>3
<1>5. ASSUME NEW y \in T PROVE x <= y
  <2>1. x \in Nat /\ y \in Nat OBVIOUS
  <2>2. ~(y < x)
    BY <1>2, <1>4, <2>1
  <2> QED BY <2>1, <2>2
<1> QED BY <1>5

(* Induction: a set that has 0 and with each number the next has all. *)
LEMMA AllNumbers ==
    ASSUME NEW T, 0 \in T, \A n \in Nat : n \in T => n + 1 \in T
    PROVE  Nat \subseteq T
<1> SUFFICES ASSUME Nat \ T # {} PROVE FALSE
  OBVIOUS
<1>1. PICK n \in Nat \ T : \A m \in Nat \ T : n <= m
  BY LeastNumber
<1>2. n # 0
  OBVIOUS
<1>3. n - 1 \in Nat /\ n - 1 < n
  BY <1>2
<1>4. n - 1 \in T
  BY <1>1, <1>3
<1>5. n - 1 + 1 \in T
  BY <1>3, <1>4
<1> QED BY <1>5

-----------------------------------------------------------------------------
(* The sorted list. *)
LEMMA ListsHaveEvents ==
    ASSUME NEW list \in Seq(ListEvent)
    PROVE  /\ Len(list) \in Nat
           /\ DOMAIN list = 1 .. Len(list)
           /\ \A i \in 1 .. Len(list) : list[i] \in ListEvent
OBVIOUS

(* Each event has a place of its own. *)
LEMMA PlacesAreNumbers ==
    ASSUME NEW list \in Seq(ListEvent), NEW i \in 1 .. Len(list)
    PROVE  /\ NotAfter(list, i) \in SUBSET (1 .. Len(list))
           /\ IsFiniteSet(NotAfter(list, i))
           /\ Place(list, i) \in 1 .. Len(list)
<1>0. IsFiniteSet(1 .. Len(list)) /\ Cardinality(1 .. Len(list)) = Len(list)
  BY ListsHaveEvents, FS_Interval
<1>1. NotAfter(list, i) \in SUBSET (1 .. Len(list)) /\ i \in NotAfter(list, i)
  BY ListsHaveEvents DEF NotAfter
<1>2. /\ IsFiniteSet(NotAfter(list, i))
      /\ Cardinality(NotAfter(list, i)) <= Len(list)
  BY <1>0, <1>1, FS_Subset
<1>3. /\ Cardinality(NotAfter(list, i)) \in Nat
      /\ Cardinality(NotAfter(list, i)) # 0
  BY <1>1, <1>2, FS_CardinalityType, FS_EmptySet
<1> QED BY <1>1, <1>2, <1>3, ListsHaveEvents DEF Place

LEMMA EarlierHasLessPlace ==
    ASSUME NEW list \in Seq(ListEvent),
           NEW i \in 1 .. Len(list), NEW j \in 1 .. Len(list), i # j,
           i \in NotAfter(list, j)
    PROVE  Place(list, i) < Place(list, j)
<1>0. /\ list[i].ts \in Nat /\ list[j].ts \in Nat
      /\ \A k \in 1 .. Len(list) : list[k].ts \in Nat
  BY ListsHaveEvents DEF ListEvent
<1>1. NotAfter(list, i) \subseteq NotAfter(list, j)
  BY <1>0, ListsHaveEvents DEF NotAfter
<1>2. j \in NotAfter(list, j) /\ j \notin NotAfter(list, i)
  BY <1>0, ListsHaveEvents DEF NotAfter
<1>3. Place(list, i) <= Place(list, j) /\ Place(list, i) # Place(list, j)
  BY <1>1, <1>2, PlacesAreNumbers, FS_Subset DEF Place
<1>4. Place(list, i) \in Nat /\ Place(list, j) \in Nat
  BY PlacesAreNumbers
<1> QED BY <1>3, <1>4

LEMMA OneIsNotAfter ==
    ASSUME NEW list \in Seq(ListEvent),
           NEW i \in 1 .. Len(list), NEW j \in 1 .. Len(list)
    PROVE  i \in NotAfter(list, j) \/ j \in NotAfter(list, i)
<1>0. list[i].ts \in Nat /\ list[j].ts \in Nat
  BY ListsHaveEvents DEF ListEvent
<1> QED BY <1>0, ListsHaveEvents DEF NotAfter

LEMMA EachPlaceIsTaken ==
    ASSUME NEW list \in Seq(ListEvent)
    PROVE  /\ \A n \in 1 .. Len(list) :
                 \E i \in 1 .. Len(list) : Place(list, i) = n
           /\ \A i, j \in 1 .. Len(list) :
                 Place(list, i) = Place(list, j) => i = j
<1> DEFINE N == 1 .. Len(list)
           place == [i \in N |-> Place(list, i)]
<1>1. \A i, j \in N : Place(list, i) = Place(list, j) => i = j
  <2> SUFFICES ASSUME NEW i \in N, NEW j \in N, i # j
               PROVE  Place(list, i) # Place(list, j)
    OBVIOUS
  <2>1. Place(list, i) \in Nat /\ Place(list, j) \in Nat
    BY PlacesAreNumbers
  <2> QED BY <2>1, OneIsNotAfter, EarlierHasLessPlace
<1>2. place \in [N -> N]
  BY PlacesAreNumbers
<1>3. place \in Injection(N, N)
  BY <1>1, <1>2 DEF Injection, IsInjective
<1>4. IsFiniteSet(N)
  BY ListsHaveEvents, FS_Interval
<1>5. place \in Surjection(N, N)
  BY <1>3, <1>4, FS_Injection
<1>6. \A n \in N : \E i \in N : place[i] = n
  BY <1>5 DEF Surjection
<1> QED BY <1>1, <1>6

(* The sorted list is the list in another order, newest first. *)
LEMMA ListIsSorted ==
    ASSUME NEW list \in Seq(ListEvent)
    PROVE  LET sorted == SortedEvents(list) IN
           /\ sorted \in Seq(ListEvent) /\ Len(sorted) = Len(list)
           /\ ToSet(sorted) = ToSet(list)
           /\ \A m, n \in 1 .. Len(list) : m <= n => sorted[m].ts >= sorted[n].ts
<1> DEFINE sorted == SortedEvents(list)
           N == 1 .. Len(list)
           At(n) == CHOOSE i \in DOMAIN list : Place(list, i) = n
<1>0. Len(list) \in Nat /\ DOMAIN list = N /\ \A i \in N : list[i] \in ListEvent
  BY ListsHaveEvents
<1>1. \A n \in N : At(n) \in N /\ Place(list, At(n)) = n /\ sorted[n] = list[At(n)]
  <2> TAKE n \in N
  <2>1. \E i \in DOMAIN list : Place(list, i) = n
    BY <1>0, EachPlaceIsTaken
  <2> QED BY <1>0, <2>1 DEF SortedEvents
<1>2. sorted = [n \in N |-> list[At(n)]]
  BY <1>0 DEF SortedEvents
<1> HIDE DEF At, sorted
<1>3. sorted \in [N -> ListEvent]
  BY <1>0, <1>1, <1>2
<1>4. sorted \in Seq(ListEvent) /\ Len(sorted) = Len(list) /\ DOMAIN sorted = N
  BY <1>0, <1>3
<1>5. \A i \in N : sorted[Place(list, i)] = list[i]
  <2> TAKE i \in N
  <2>1. Place(list, i) \in N
    BY PlacesAreNumbers
  <2>2. Place(list, At(Place(list, i))) = Place(list, i)
        /\ At(Place(list, i)) \in N
    BY <1>1, <2>1
  <2>3. At(Place(list, i)) = i
    BY <2>2, EachPlaceIsTaken
  <2> QED BY <1>1, <2>1, <2>3
<1>6. ToSet(sorted) = ToSet(list)
  <2>1. ToSet(sorted) \subseteq ToSet(list)
    BY <1>0, <1>1, <1>4 DEF ToSet
  <2>2. ToSet(list) \subseteq ToSet(sorted)
    BY <1>0, <1>4, <1>5, PlacesAreNumbers DEF ToSet
  <2> QED BY <2>1, <2>2
<1>7. ASSUME NEW m \in N, NEW n \in N, m <= n
      PROVE  sorted[m].ts >= sorted[n].ts
  <2>1. /\ At(m) \in N /\ At(n) \in N
        /\ Place(list, At(m)) = m /\ Place(list, At(n)) = n
    BY <1>1
  <2>2. list[At(m)].ts \in Nat /\ list[At(n)].ts \in Nat
    BY <2>1, <1>0 DEF ListEvent
  <2>3. CASE At(m) = At(n)
    BY <2>2, <2>3, <1>1
  <2>4. CASE At(m) # At(n)
    <3>1. At(n) \notin NotAfter(list, At(m))
      <4> SUFFICES ASSUME At(n) \in NotAfter(list, At(m)) PROVE FALSE
        OBVIOUS
      <4>1. Place(list, At(n)) < Place(list, At(m))
        BY <2>1, <2>4, EarlierHasLessPlace
      <4> QED BY <4>1, <2>1, <1>7
    <3>2. At(m) \in NotAfter(list, At(n))
      BY <3>1, <2>1, OneIsNotAfter
    <3> QED BY <3>2, <2>2, <1>1 DEF NotAfter
  <2> QED BY <2>3, <2>4
<1> QED BY <1>4, <1>6, <1>7 DEF sorted

-----------------------------------------------------------------------------
(* The recursive function of the sessions: there is one up to each number. *)
UpTo(sorted, m, g) ==
    g = [n \in 0 .. m |->
            IF n = 0 THEN {} ELSE WithSessionOf(sorted, n, g[n - 1])]

LEMMA SessionsExist ==
    ASSUME NEW sorted, NEW m \in Nat
    PROVE  \E g : UpTo(sorted, m, g)
<1> DEFINE T == {n \in Nat : \E g : UpTo(sorted, n, g)}
<1>1. 0 \in T
  <2>1. UpTo(sorted, 0, [n \in 0 .. 0 |-> {}])
    BY DEF UpTo
  <2> QED BY <2>1
<1>2. ASSUME NEW n \in Nat, n \in T PROVE n + 1 \in T
  <2>1. PICK g : UpTo(sorted, n, g)
    BY <1>2
  <2> DEFINE h == [k \in 0 .. n + 1 |->
                      IF k = n + 1 THEN WithSessionOf(sorted, k, g[n]) ELSE g[k]]
  <2>2. \A k \in 0 .. n + 1 :
           h[k] = IF k = 0 THEN {} ELSE WithSessionOf(sorted, k, h[k - 1])
    <3> TAKE k \in 0 .. n + 1
    <3>1. CASE k = n + 1
      <4>1. k # 0 /\ k - 1 = n /\ n \in 0 .. n + 1 /\ n # n + 1
        BY <3>1
      <4>2. h[n] = g[n]
        BY <4>1
      <4> QED BY <3>1, <4>1, <4>2
    <3>2. CASE k # n + 1
      <4>1. k \in 0 .. n /\ h[k] = g[k]
        BY <3>2
      <4>2. g[k] = IF k = 0 THEN {} ELSE WithSessionOf(sorted, k, g[k - 1])
        BY <2>1, <4>1 DEF UpTo
      <4>3. k # 0 => (k - 1 \in 0 .. n + 1 /\ k - 1 # n + 1)
        BY <4>1
      <4>4. k # 0 => h[k - 1] = g[k - 1]
        BY <4>3
      <4> QED BY <4>1, <4>2, <4>4
    <3> QED BY <3>1, <3>2
  <2> DEFINE r == [k \in 0 .. n + 1 |->
                      IF k = 0 THEN {} ELSE WithSessionOf(sorted, k, h[k - 1])]
  <2>3. h = r
    <3>1. \A k \in 0 .. n + 1 : h[k] = r[k]
      BY <2>2
    <3> QED BY <3>1
  <2> HIDE DEF h
  <2>4. UpTo(sorted, n + 1, h)
    BY <2>3 DEF UpTo
  <2> QED BY <2>4
<1> HIDE DEF T
<1>3. m \in T
  BY <1>1, <1>2, AllNumbers
<1> QED BY <1>3 DEF T

LEMMA SessionsByNumber ==
    ASSUME NEW sorted, Len(sorted) \in Nat
    PROVE  /\ SessionsUpTo(sorted)[0] = {}
           /\ \A n \in 1 .. Len(sorted) :
                 SessionsUpTo(sorted)[n]
                    = WithSessionOf(sorted, n, SessionsUpTo(sorted)[n - 1])
<1>1. UpTo(sorted, Len(sorted), SessionsUpTo(sorted))
  BY SessionsExist DEF UpTo, SessionsUpTo
<1>2. \A n \in 0 .. Len(sorted) :
         SessionsUpTo(sorted)[n]
            = IF n = 0 THEN {}
              ELSE WithSessionOf(sorted, n, SessionsUpTo(sorted)[n - 1])
  BY <1>1 DEF UpTo
<1> QED BY <1>2

-----------------------------------------------------------------------------
(* Of a sorted list: the events of the window that are related are all found
   before the first that is out of it. *)
Sorted(sorted) ==
    /\ sorted \in Seq(ListEvent)
    /\ \A m, n \in 1 .. Len(sorted) : m <= n => sorted[m].ts >= sorted[n].ts

LEMMA CompanionsJoin ==
    ASSUME NEW sorted, Sorted(sorted), NEW i \in 1 .. Len(sorted), NEW used,
           NEW j \in Companions(sorted, i, used)
    PROVE  /\ j \in 1 .. Len(sorted) /\ i < j /\ j \notin used
           /\ Joins(sorted[j], sorted[i])
<1>1. /\ j \in i + 1 .. Len(sorted) /\ j \notin used
      /\ IsRelated(sorted[i], sorted[j])
      /\ InTime(sorted[i], sorted[j])
  <2>1. /\ j \in i + 1 .. Len(sorted) /\ j \notin used
        /\ IsRelated(sorted[i], sorted[j])
        /\ \A k \in i + 1 .. j : k \in used \/ InTime(sorted[i], sorted[k])
    BY DEF Companions
  <2>2. j \in i + 1 .. j
    BY <2>1, ListsHaveEvents DEF Sorted
  <2> QED BY <2>1, <2>2
<1>2. j \in 1 .. Len(sorted) /\ i < j
  BY <1>1, ListsHaveEvents DEF Sorted
<1>3. sorted[i].ts >= sorted[j].ts
  BY <1>2, ListsHaveEvents DEF Sorted
<1>4. sorted[i].ts \in Nat /\ sorted[j].ts \in Nat
  BY <1>2, ListsHaveEvents DEF Sorted, ListEvent
<1>5. sorted[i].ts - sorted[j].ts \in 0 .. TIME_WINDOW
  BY <1>1, <1>3, <1>4 DEF InTime, TIME_WINDOW
<1>6. Joins(sorted[j], sorted[i])
  BY <1>1, <1>5 DEF Joins, IsRelated
<1> QED BY <1>1, <1>2, <1>6

LEMMA JoiningAreCompanions ==
    ASSUME NEW sorted, Sorted(sorted), NEW i \in 1 .. Len(sorted), NEW used,
           NEW j \in 1 .. Len(sorted), i < j, j \notin used,
           Joins(sorted[j], sorted[i])
    PROVE  j \in Companions(sorted, i, used)
<1>1. \A k \in i + 1 .. j : InTime(sorted[i], sorted[k])
  <2> TAKE k \in i + 1 .. j
  <2>1. k \in 1 .. Len(sorted) /\ i <= k /\ k <= j
    BY ListsHaveEvents DEF Sorted
  <2>2. sorted[i].ts >= sorted[k].ts /\ sorted[k].ts >= sorted[j].ts
    BY <2>1 DEF Sorted
  <2>3. /\ sorted[i].ts \in Nat /\ sorted[j].ts \in Nat /\ sorted[k].ts \in Nat
    BY <2>1, ListsHaveEvents DEF Sorted, ListEvent
  <2>4. sorted[i].ts - sorted[j].ts <= 5
    BY <2>3 DEF Joins, TIME_WINDOW
  <2> QED BY <2>2, <2>3, <2>4 DEF InTime, TIME_WINDOW
<1>2. IsRelated(sorted[i], sorted[j])
  BY DEF Joins, IsRelated
<1>3. j \in i + 1 .. Len(sorted)
  BY ListsHaveEvents DEF Sorted
<1> QED BY <1>1, <1>2, <1>3 DEF Companions

LEMMA JoinsItself ==
    ASSUME NEW sorted, Sorted(sorted), NEW i \in 1 .. Len(sorted)
    PROVE  Joins(sorted[i], sorted[i])
<1>1. sorted[i].ts \in Nat
  BY ListsHaveEvents DEF Sorted, ListEvent
<1> QED BY <1>1 DEF Joins, TIME_WINDOW

(* After n events: those are in a session, no event is in two, and every
   session has a first event, among the n, that all of it joins; another event
   that would join it is in a session that begins no later. *)
FirstOf(sorted, sessions, s, i) ==
    /\ i \in s
    /\ \A j \in s : i <= j /\ Joins(sorted[j], sorted[i])
    /\ \A k \in 1 .. Len(sorted) :
          (i < k /\ Joins(sorted[k], sorted[i])) =>
              \E t \in sessions : k \in t /\ \E m \in t : m <= i

LoopInv(sorted, n, sessions) ==
    /\ \A s \in sessions : s \subseteq 1 .. Len(sorted)
    /\ 1 .. n \subseteq UNION sessions
    /\ \A s, t \in sessions : s # t => s \cap t = {}
    /\ \A s \in sessions : \E i \in 1 .. n : FirstOf(sorted, sessions, s, i)

LEMMA LoopInvStep ==
    ASSUME NEW sorted, Sorted(sorted), NEW n \in 1 .. Len(sorted),
           NEW sessions, LoopInv(sorted, n - 1, sessions)
    PROVE  LoopInv(sorted, n, WithSessionOf(sorted, n, sessions))
<1> DEFINE used == UNION sessions
           new == {n} \cup Companions(sorted, n, used)
<1>0. Len(sorted) \in Nat /\ n \in Nat /\ 1 .. n = (1 .. n - 1) \cup {n}
  BY ListsHaveEvents DEF Sorted
<1>1. CASE n \in used
  <2>1. WithSessionOf(sorted, n, sessions) = sessions
    BY <1>1 DEF WithSessionOf
  <2>2. 1 .. n \subseteq UNION sessions
    BY <1>0, <1>1 DEF LoopInv
  <2>3. \A s \in sessions : \E i \in 1 .. n : FirstOf(sorted, sessions, s, i)
    BY <1>0 DEF LoopInv
  <2>4. /\ \A s \in sessions : s \subseteq 1 .. Len(sorted)
        /\ \A s, t \in sessions : s # t => s \cap t = {}
    BY DEF LoopInv
  <2>5. LoopInv(sorted, n, sessions)
    BY <2>2, <2>3, <2>4 DEF LoopInv
  <2> QED BY <2>1, <2>5
<1>2. CASE n \notin used
  <2> DEFINE more == sessions \cup {new}
  <2>1. WithSessionOf(sorted, n, sessions) = more
    BY <1>2 DEF WithSessionOf
  <2>2. \A j \in new : /\ j \in 1 .. Len(sorted) /\ n <= j /\ j \notin used
                       /\ Joins(sorted[j], sorted[n])
    <3> TAKE j \in new
    <3>1. CASE j = n
      BY <3>1, <1>0, <1>2, JoinsItself
    <3>2. CASE j # n
      <4>1. j \in Companions(sorted, n, used)
        BY <3>2
      <4>2. /\ j \in 1 .. Len(sorted) /\ n < j /\ j \notin used
            /\ Joins(sorted[j], sorted[n])
        BY <4>1, CompanionsJoin
      <4> QED BY <4>2
    <3> QED BY <3>1, <3>2
  <2>3. \A s \in sessions :
           \E i \in 1 .. n - 1 : FirstOf(sorted, sessions, s, i)
    BY DEF LoopInv
  <2>4. \A k \in 1 .. Len(sorted) :
           (n < k /\ Joins(sorted[k], sorted[n]))
              => \E t \in more : k \in t /\ \E m \in t : m <= n
    <3> SUFFICES ASSUME NEW k \in 1 .. Len(sorted), n < k,
                        Joins(sorted[k], sorted[n])
                 PROVE  \E t \in more : k \in t /\ \E m \in t : m <= n
      OBVIOUS
    <3>1. CASE k \in used
      <4>1. PICK t \in sessions : k \in t
        BY <3>1
      <4>2. PICK i \in 1 .. n - 1 : i \in t
        BY <4>1, <2>3 DEF FirstOf
      <4> QED BY <4>1, <4>2, <1>0
    <3>2. CASE k \notin used
      <4>1. k \in new
        BY <3>2, JoiningAreCompanions
      <4>2. n \in new /\ n <= n
        BY <1>0
      <4> QED BY <4>1, <4>2
    <3> QED BY <3>1, <3>2
  <2>5. n \in new
    OBVIOUS
  <2> HIDE DEF new
  <2>6. FirstOf(sorted, more, new, n)
    BY <2>2, <2>4, <2>5 DEF FirstOf
  <2>7. \A s \in sessions : \E i \in 1 .. n : FirstOf(sorted, more, s, i)
    <3> TAKE s \in sessions
    <3>1. PICK i \in 1 .. n - 1 : FirstOf(sorted, sessions, s, i)
      BY <2>3
    <3>2. FirstOf(sorted, more, s, i)
      BY <3>1 DEF FirstOf
    <3> QED BY <3>2, <1>0
  <2>8. \A s, t \in more : s # t => s \cap t = {}
    BY <2>2 DEF LoopInv
  <2>9. \A s \in more : s \subseteq 1 .. Len(sorted)
    BY <2>2 DEF LoopInv
  <2>10. 1 .. n \subseteq UNION more
    <3>1. 1 .. n - 1 \subseteq UNION sessions
      BY DEF LoopInv
    <3>2. UNION more = (UNION sessions) \cup new
      OBVIOUS
    <3> QED BY <1>0, <2>5, <3>1, <3>2
  <2>11. \A s \in more : \E i \in 1 .. n : FirstOf(sorted, more, s, i)
    <3>1. n \in 1 .. n
      BY <1>0
    <3> QED BY <3>1, <2>6, <2>7
  <2> HIDE DEF more
  <2>12. LoopInv(sorted, n, more)
    BY <2>8, <2>9, <2>10, <2>11 DEF LoopInv
  <2> QED BY <2>1, <2>12
<1> QED BY <1>1, <1>2

LEMMA LoopInvHolds ==
    ASSUME NEW sorted, Sorted(sorted)
    PROVE  LoopInv(sorted, Len(sorted), SessionsUpTo(sorted)[Len(sorted)])
<1> DEFINE Holds(n) == LoopInv(sorted, n, SessionsUpTo(sorted)[n])
           T == {n \in Nat : n <= Len(sorted) => Holds(n)}
<1>0. Len(sorted) \in Nat
  BY ListsHaveEvents DEF Sorted
<1>1. 0 \in T
  <2>1. LoopInv(sorted, 0, {})
    BY DEF LoopInv
  <2> QED BY <2>1, <1>0, SessionsByNumber
<1>2. ASSUME NEW n \in Nat, n \in T PROVE n + 1 \in T
  <2> SUFFICES ASSUME n + 1 <= Len(sorted) PROVE Holds(n + 1)
    OBVIOUS
  <2>1. n + 1 \in 1 .. Len(sorted) /\ (n + 1) - 1 = n /\ n <= Len(sorted)
    BY <1>0
  <2>2. LoopInv(sorted, (n + 1) - 1, SessionsUpTo(sorted)[n])
    BY <1>2, <2>1
  <2>3. LoopInv(sorted, n + 1,
                WithSessionOf(sorted, n + 1, SessionsUpTo(sorted)[n]))
    BY <2>1, <2>2, LoopInvStep
  <2>4. SessionsUpTo(sorted)[n + 1]
           = WithSessionOf(sorted, n + 1, SessionsUpTo(sorted)[n])
    BY <1>0, <2>1, SessionsByNumber
  <2> QED BY <2>3, <2>4
<1> HIDE DEF T
<1>3. Len(sorted) \in T
  BY <1>0, <1>1, <1>2, AllNumbers
<1> QED BY <1>0, <1>3 DEF T

(* There are four levels, so one of those of a session is the highest. *)
LEMMA HighestIsOne ==
    ASSUME NEW events \in SUBSET ListEvent, events # {}
    PROVE  /\ \E e \in events : e.risk = getHighestRiskLevel(events)
           /\ \A e \in events : e.risk <= getHighestRiskLevel(events)
<1> DEFINE levels == {e.risk : e \in events}
<1>1. levels \subseteq {0, 1, 2, 3} /\ levels # {}
  BY DEF ListEvent, riskPriority
<1>2. \E level \in levels : \A e \in events : e.risk <= level
  <2> HIDE DEF levels
  <2>1. \E level \in levels : \A l \in levels : l <= level
    <3>1. CASE 3 \in levels BY <3>1, <1>1
    <3>2. CASE 3 \notin levels /\ 2 \in levels BY <3>2, <1>1
    <3>3. CASE 3 \notin levels /\ 2 \notin levels /\ 1 \in levels BY <3>3, <1>1
    <3>4. CASE 3 \notin levels /\ 2 \notin levels /\ 1 \notin levels
      <4>1. levels = {0} BY <3>4, <1>1
      <4> QED BY <4>1
    <3> QED BY <3>1, <3>2, <3>3, <3>4
  <2> QED BY <2>1 DEF levels
<1>3. /\ getHighestRiskLevel(events) \in {0} \cup levels
      /\ \A e \in events : e.risk <= getHighestRiskLevel(events)
  BY <1>2 DEF getHighestRiskLevel
<1>4. getHighestRiskLevel(events) \in levels
  <2>1. PICK e \in events : TRUE
    OBVIOUS
  <2>2. e.risk \in {0, 1, 2, 3}
    BY <1>1
  <2>3. getHighestRiskLevel(events) = 0 => e.risk = 0
    BY <1>3, <2>2
  <2> QED BY <1>3, <2>3
<1> QED BY <1>3, <1>4

(* Every list is cut into sessions as it should: none of its events is lost or
   twice there, and each is in the earliest session it joins. *)
THEOREM SessionsAreCutRight ==
    ASSUME NEW list \in Seq(ListEvent)
    PROVE  IsCutRight(list)
<1> DEFINE sorted == SortedEvents(list)
           sessions == aggregateEvents(list)
<1>1. /\ Sorted(sorted) /\ Len(sorted) = Len(list)
      /\ ToSet(sorted) = ToSet(list)
  BY ListIsSorted DEF Sorted
<1>2. LoopInv(sorted, Len(list), sessions)
  BY <1>1, LoopInvHolds DEF aggregateEvents
<1>3. Len(list) \in Nat /\ DOMAIN list = 1 .. Len(list)
      /\ \A i \in 1 .. Len(list) : sorted[i] \in ListEvent
  BY <1>1, ListsHaveEvents DEF Sorted
<1> HIDE DEF sorted, sessions
<1>4. UNION sessions = DOMAIN list
  BY <1>1, <1>2, <1>3 DEF LoopInv
<1>5. \A s, t \in sessions : s # t => s \cap t = {}
  BY <1>2 DEF LoopInv
<1>6. ASSUME NEW s \in sessions
      PROVE  \E i \in s :
                /\ \A j \in s : i <= j /\ Joins(sorted[j], sorted[i])
                /\ \A t \in sessions :
                      (\A j \in t : i < j) =>
                          \A j \in t : ~Joins(sorted[j], sorted[i])
  <2>1. PICK i \in 1 .. Len(list) : FirstOf(sorted, sessions, s, i)
    BY <1>2 DEF LoopInv
  <2>2. ASSUME NEW t \in sessions, \A j \in t : i < j, NEW j \in t
        PROVE  ~Joins(sorted[j], sorted[i])
    <3> SUFFICES ASSUME Joins(sorted[j], sorted[i]) PROVE FALSE
      OBVIOUS
    <3>1. j \in 1 .. Len(sorted) /\ i < j
      BY <1>2, <2>2 DEF LoopInv
    <3>2. PICK u \in sessions : j \in u /\ \E m \in u : m <= i
      BY <2>1, <3>1 DEF FirstOf
    <3>3. u = t
      BY <1>5, <2>2, <3>2
    <3>4. PICK m \in t : m <= i
      BY <3>2, <3>3
    <3>5. i < m /\ m \in 1 .. Len(sorted)
      BY <1>2, <2>2, <3>4 DEF LoopInv
    <3> QED BY <1>3, <3>4, <3>5
  <2> QED BY <2>1, <2>2 DEF FirstOf
<1>7. ASSUME NEW s \in sessions
      PROVE  LET level == getHighestRiskLevel({sorted[j] : j \in s}) IN
             /\ \E j \in s : sorted[j].risk = level
             /\ \A j \in s : sorted[j].risk <= level
  <2> DEFINE events == {sorted[j] : j \in s}
  <2>1. s \subseteq 1 .. Len(list) /\ s # {}
    BY <1>1, <1>2 DEF LoopInv, FirstOf
  <2>2. events \in SUBSET ListEvent /\ events # {}
    BY <1>3, <2>1
  <2>3. /\ \E e \in events : e.risk = getHighestRiskLevel(events)
        /\ \A e \in events : e.risk <= getHighestRiskLevel(events)
    <3> HIDE DEF events
    <3> QED BY <2>2, HighestIsOne
  <2> QED BY <2>3
<1> QED BY <1>1, <1>4, <1>5, <1>6, <1>7 DEF IsCutRight, sorted, sessions
=============================================================================
