--------------------------- MODULE Dashboard_proofs ---------------------------
(***************************************************************************)
(* Proofs about Dashboard, for any number of events, fetches and changes   *)
(* of the filter.                                                          *)
(***************************************************************************)
EXTENDS Dashboard, Sessions_proofs, SequenceTheorems, FiniteSetTheorems, TLAPS

Request == [filter : Filters, answer : {None} \cup SUBSET Events, late : BOOLEAN]

LEMMA FetchIsRequest ==
    ASSUME NEW f \in Filters
    PROVE  Fetch(f) \in Request
BY DEF Fetch, Request

LEMMA SequenceOfRequests ==
    ASSUME NEW n \in Nat, NEW s \in [1 .. n -> Request]
    PROVE  s \in Seq(Request) /\ Len(s) = n
BY SeqDef

(* The requests that are left when one has ended. *)
LEMMA RequestsLeft ==
    ASSUME fetches \in Seq(Request), NEW i \in DOMAIN fetches
    PROVE  /\ Without(i) \in Seq(Request)
           /\ Len(Without(i)) = Len(fetches) - 1
           /\ \A j \in 1 .. Len(fetches) - 1 :
                 Without(i)[j] = IF j < i THEN [fetches[j] EXCEPT !.late = TRUE]
                                 ELSE fetches[j + 1]
<1>1. Len(fetches) \in Nat /\ i \in 1 .. Len(fetches)
      /\ \A j \in 1 .. Len(fetches) : fetches[j] \in Request
  OBVIOUS
<1>2. Len(fetches) - 1 \in Nat
  BY <1>1
<1>3. \A j \in 1 .. Len(fetches) - 1 :
         (IF j < i THEN [fetches[j] EXCEPT !.late = TRUE] ELSE fetches[j + 1])
            \in Request
  <2> SUFFICES ASSUME NEW j \in 1 .. Len(fetches) - 1
               PROVE  /\ [fetches[j] EXCEPT !.late = TRUE] \in Request
                      /\ fetches[j + 1] \in Request
    OBVIOUS
  <2>1. fetches[j] \in Request /\ fetches[j + 1] \in Request
    BY <1>1
  <2> QED BY <2>1 DEF Request
<1>4. Without(i) \in [1 .. Len(fetches) - 1 -> Request]
  BY <1>3 DEF Without
<1> QED BY <1>2, <1>4, SequenceOfRequests DEF Without

-----------------------------------------------------------------------------
LEMMA TypeInit == Init => TypeOK
<1> SUFFICES ASSUME Init PROVE TypeOK
  OBVIOUS
<1>1. fetches \in Seq(Request)
  BY FetchIsRequest DEF Init, Filters
<1>2. changes \in 0 .. MaxChanges /\ notices \in Nat
  BY LimitAssumption DEF Init
<1>3. filter \in Filters
  BY DEF Init, Filters
<1>4. /\ db \in SUBSET Events /\ coming \in SUBSET Events
      /\ toAnnounce \in SUBSET Events /\ store \in SUBSET Events
      /\ card \in SUBSET Events /\ table \in SUBSET Events
      /\ current \in {None} \cup SUBSET Events
  BY EventsAssumption DEF Init
<1> QED BY <1>1, <1>2, <1>3, <1>4 DEF Init, TypeOK, Request

LEMMA AnswersAreEvents ==
    ASSUME NEW S \in SUBSET Events, NEW f
    PROVE  GetEvents(S, f) \subseteq SUBSET Events
BY DEF GetEvents, Matching

LEMMA TypeNext == TypeOK /\ [Next]_vars => TypeOK'
<1> SUFFICES ASSUME TypeOK, [Next]_vars PROVE TypeOK'
  OBVIOUS
<1>0. fetches \in Seq(Request)
  BY DEF TypeOK, Request
<1> USE DEF TypeOK, server, feed, screen
<1>1. ASSUME NEW e \in Events,
             Record(e) \/ RecordError(e) \/ Announce(e)
      PROVE  TypeOK'
  BY <1>1 DEF Record, RecordError, Announce
<1>1a. CASE DeleteOldEvents
  BY <1>1a DEF DeleteOldEvents
<1>2. CASE Connect \/ Disconnect \/ OnMessage
  <2>1. Cardinality(store) \in Nat
    BY EventsAssumption, FS_Subset, FS_CardinalityType
  <2>2. notices' \in Nat /\ ws' \in {"connecting", "open", "closed"}
        /\ timer' \in BOOLEAN
    <3>1. CASE Connect BY <3>1, <2>1 DEF Connect
    <3>2. CASE Disconnect BY <3>2 DEF Disconnect
    <3>3. CASE OnMessage BY <3>3 DEF OnMessage
    <3> QED BY <1>2, <3>1, <3>2, <3>3
  <2>3. UNCHANGED <<server, filter, fetches, screen, changes, stale>>
    BY <1>2 DEF Connect, Disconnect, OnMessage
  <2> QED BY <2>2, <2>3
<1>3. CASE Expire
  <2>1. fetches' \in Seq(Request)
    BY <1>3, <1>0, FetchIsRequest DEF Expire, applyFilters
  <2> QED BY <1>3, <2>1 DEF Expire, Request
<1>4. CASE Choose
  <2>1. PICK f \in Filters : /\ filter' = f /\ applyFilters(f)
                             /\ changes < MaxChanges /\ changes' = changes + 1
                             /\ UNCHANGED <<server, feed, screen, stale>>
    BY <1>4 DEF Choose
  <2>2. fetches' \in Seq(Request)
    BY <2>1, <1>0, FetchIsRequest DEF applyFilters
  <2>3. changes' \in 0 .. MaxChanges
    BY <2>1, LimitAssumption
  <2> QED BY <2>1, <2>2, <2>3 DEF Request
<1>5. ASSUME NEW i \in DOMAIN fetches, Complete(i) PROVE TypeOK'
  <2>1. fetches[i] \in Request
    BY <1>0
  <2>2. CASE Query(i)
    <3>1. PICK answer \in GetEvents(db, fetches[i].filter) :
              fetches' = [fetches EXCEPT ![i].answer = answer]
      BY <2>2 DEF Query
    <3>1a. answer \in SUBSET Events
      BY AnswersAreEvents
    <3>2. fetches' \in Seq(Request)
      BY <3>1, <3>1a, <2>1, <1>0 DEF Request
    <3> QED BY <2>2, <3>2 DEF Query, Request
  <2>3. CASE Settle(i)
    <3>1. fetches' \in Seq(Request) /\ fetches[i].answer \in SUBSET Events
          /\ fetches[i].late \in BOOLEAN
      BY <2>3, <2>1, <1>0, RequestsLeft DEF Settle, Request
    <3> QED BY <2>3, <3>1 DEF Settle, Display, Request
  <2>4. CASE FetchError(i)
    <3>1. fetches' \in Seq(Request) /\ fetches[i].late \in BOOLEAN
      BY <2>4, <2>1, <1>0, RequestsLeft DEF FetchError, Request
    <3> QED BY <2>4, <3>1 DEF FetchError, Request
  <2> QED BY <1>5, <2>2, <2>3, <2>4 DEF Complete
<1>6. ASSUME NEW v \in {"card", "table"}, SwitchView(v) PROVE TypeOK'
  BY <1>6 DEF SwitchView
<1>7. CASE UNCHANGED vars
  BY <1>7 DEF vars
<1> QED BY <1>1, <1>1a, <1>2, <1>3, <1>4, <1>5, <1>6, <1>7 DEF Next

(* The page and its fetches stay within their types. *)
THEOREM TypeCorrect == Spec => []TypeOK
BY TypeInit, TypeNext, PTL DEF Spec

-----------------------------------------------------------------------------
(* currentEvents is what a list shows, null for the empty one. *)
CurrentInv ==
    /\ Listed => card = IF current = None THEN {} ELSE current
    /\ TableShowsList

LEMMA CurrentNext == TypeOK /\ CurrentInv /\ [Next]_vars => CurrentInv'
<1> SUFFICES ASSUME TypeOK, CurrentInv, [Next]_vars PROVE CurrentInv'
  OBVIOUS
<1> USE DEF CurrentInv, Listed, TableShowsList
<1>1. CASE UNCHANGED screen
  BY <1>1 DEF screen
<1>2. ASSUME NEW i \in DOMAIN fetches, Settle(i) PROVE CurrentInv'
  BY <1>2 DEF Settle, Display
<1>3. ASSUME NEW i \in DOMAIN fetches, FetchError(i) PROVE CurrentInv'
  BY <1>3 DEF FetchError
<1>4. ASSUME NEW v \in {"card", "table"}, SwitchView(v) PROVE CurrentInv'
  BY <1>4 DEF SwitchView
<1> QED BY <1>1, <1>2, <1>3, <1>4
        DEF Next, vars, Complete, Query, Record, RecordError, Announce,
            DeleteOldEvents, Connect, Disconnect, OnMessage, Expire, Choose

(* Both views show the same events. *)
THEOREM BothViewsAgree == Spec => []TableShowsList
<1>1. Init => CurrentInv
  BY DEF Init, CurrentInv, Listed, TableShowsList
<1>2. CurrentInv => TableShowsList
  BY DEF CurrentInv
<1> QED BY <1>1, <1>2, CurrentNext, TypeCorrect, PTL DEF Spec

-----------------------------------------------------------------------------
(* Either something is on its way that will make the page fetch once more, or
   the newest fetch answers, or the list shown came of one that answered,
   with all that is new. *)
Newest == fetches[Len(fetches)]

Pending ==
    \/ ws = "closed"
    \/ toAnnounce # {}
    \/ ws = "connecting" /\ store # {}
    \/ notices > 0
    \/ timer

Answers(r) == r.filter = filter /\ (r.answer = None \/ Fresh(r.answer))

Covered ==
    IF fetches # <<>> /\ ~Newest.late THEN Answers(Newest)
    ELSE stale \/ ~Listed \/ Fresh(card)

(* An overtaken fetch is older than all fetches that are not. *)
LateFirst ==
    \A i, j \in 1 .. Len(fetches) :
        (i < j /\ fetches[j].late) => fetches[i].late

(* Only an open socket has messages. *)
NoticesAreOpen == ws # "open" => notices = 0

FreshInv == LateFirst /\ NoticesAreOpen /\ (Pending \/ Covered)

(* An answer of the database is fresh, as far as its filter goes, and a list
   stays so when rows are deleted. *)
LEMMA AnswersAreFresh ==
    ASSUME NEW answer \in GetEvents(db, filter)
    PROVE  Fresh(answer)
BY DEF GetEvents, Fresh, NotMissedBy, Matching

LEMMA FreshStays ==
    ASSUME NEW list, Fresh(list), filter' = filter, db' \subseteq db
    PROVE  Fresh(list)'
BY DEF Fresh, NotMissedBy, Matching, Matches, Newer

LEMMA FreshInit == Init => FreshInv
<1> SUFFICES ASSUME Init PROVE FreshInv
  OBVIOUS
<1>1. Len(fetches) = 1 /\ fetches[1] = Fetch(All)
  BY DEF Init
<1>2. LateFirst
  BY <1>1 DEF LateFirst
<1>3. Covered
  BY <1>1 DEF Init, Covered, Newest, Answers, Fetch
<1>4. NoticesAreOpen
  BY DEF Init, NoticesAreOpen
<1> QED BY <1>2, <1>3, <1>4 DEF FreshInv

(* A new fetch, with the filter there is, covers the page. *)
LEMMA NewFetchCovers ==
    ASSUME TypeOK, LateFirst, NEW f \in Filters, applyFilters(f), filter' = f
    PROVE  LateFirst' /\ Covered'
<1>0. fetches \in Seq(Request) /\ Fetch(f) \in Request
  BY FetchIsRequest DEF TypeOK, Request
<1>1. fetches' = Append(fetches, Fetch(f)) /\ Len(fetches) \in Nat
  BY <1>0 DEF applyFilters
<1>2. /\ Len(fetches') = Len(fetches) + 1
      /\ fetches'[Len(fetches) + 1] = Fetch(f)
      /\ \A i \in 1 .. Len(fetches) : fetches'[i] = fetches[i]
  BY <1>0, <1>1
<1>3. LateFirst'
  <2> SUFFICES ASSUME NEW i \in 1 .. Len(fetches) + 1,
                      NEW j \in 1 .. Len(fetches) + 1,
                      i < j, fetches'[j].late
               PROVE  fetches'[i].late
    BY <1>2 DEF LateFirst
  <2>1. j \in 1 .. Len(fetches) /\ i \in 1 .. Len(fetches)
    <3>1. j # Len(fetches) + 1
      BY <1>2 DEF Fetch
    <3> QED BY <3>1, <1>1
  <2> QED BY <2>1, <1>2 DEF LateFirst
<1>4. Newest' = Fetch(f) /\ fetches' # <<>>
  BY <1>1, <1>2 DEF Newest
<1> QED BY <1>3, <1>4 DEF Covered, Answers, Fetch

(* What the page has on screen and on its way is not touched. *)
LEMMA CoverStays ==
    ASSUME Covered,
           UNCHANGED <<filter, fetches, stale, shown, card>>, db' \subseteq db
    PROVE  Covered'
<1>1. Answers(Newest) => Answers(Newest)'
  BY FreshStays DEF Answers, Newest
<1>2. Fresh(card) => Fresh(card)'
  BY FreshStays
<1> QED BY <1>1, <1>2 DEF Covered, Newest, Listed

LEMMA ServerStepsKeepFresh ==
    ASSUME TypeOK, FreshInv, NEW e \in Events,
           Record(e) \/ RecordError(e) \/ Announce(e)
    PROVE  FreshInv'
<1>1. UNCHANGED <<filter, fetches, stale, shown, card>> /\ LateFirst'
  BY DEF Record, RecordError, Announce, screen, FreshInv, LateFirst
<1>1a. NoticesAreOpen'
  BY DEF Record, RecordError, Announce, feed, FreshInv, NoticesAreOpen
<1>2. CASE Record(e) \/ RecordError(e)
  BY <1>1, <1>1a, <1>2 DEF Record, RecordError, FreshInv, Pending
<1>3. CASE Announce(e)
  <2>1. ws \in {"connecting", "open", "closed"} /\ notices \in Nat
    BY DEF TypeOK
  <2>2. Pending'
    BY <1>3, <2>1 DEF Announce, Pending
  <2> QED BY <2>2, <1>1, <1>1a DEF FreshInv
<1> QED BY <1>2, <1>3

LEMMA CleanupKeepsFresh ==
    ASSUME FreshInv, DeleteOldEvents
    PROVE  FreshInv'
<1>1. UNCHANGED <<filter, fetches, stale, shown, card>> /\ db' \subseteq db
  BY DEF DeleteOldEvents, screen
<1>2. LateFirst' /\ NoticesAreOpen'
  BY DEF DeleteOldEvents, feed, FreshInv, LateFirst, NoticesAreOpen
<1>3. Pending => Pending'
  BY DEF DeleteOldEvents, Pending, feed
<1> QED BY <1>1, <1>2, <1>3, CoverStays DEF FreshInv

LEMMA FeedStepsKeepFresh ==
    ASSUME TypeOK, FreshInv, Connect \/ Disconnect \/ OnMessage
    PROVE  FreshInv'
<1>1. UNCHANGED <<filter, fetches, stale, shown, card, db, toAnnounce, store>>
      /\ LateFirst'
  BY DEF Connect, Disconnect, OnMessage, screen, server, FreshInv, LateFirst
<1>2. Covered => Covered'
  BY <1>1, CoverStays
<1>3. Pending => Pending'
  <2>1. CASE Connect
    <3>1. IsFiniteSet(store) /\ Cardinality(store) \in Nat
          /\ (store # {} => Cardinality(store) # 0)
      BY EventsAssumption, FS_Subset, FS_CardinalityType, FS_EmptySet DEF TypeOK
    <3>2. (ws = "connecting" /\ store # {}) => notices' > 0
      BY <2>1, <3>1 DEF Connect
    <3>3. notices > 0 => notices' > 0
      BY <2>1 DEF Connect, FreshInv, NoticesAreOpen
    <3>4. ws = "connecting" /\ timer' = timer /\ toAnnounce' = toAnnounce
      BY <2>1, <1>1 DEF Connect
    <3> QED BY <3>2, <3>3, <3>4 DEF Pending
  <2>2. CASE Disconnect
    BY <2>2 DEF Disconnect, Pending
  <2>3. CASE OnMessage
    <3>1. timer'
      BY <2>3 DEF OnMessage
    <3> QED BY <3>1 DEF Pending
  <2> QED BY <2>1, <2>2, <2>3
<1>4. NoticesAreOpen'
  BY DEF Connect, Disconnect, OnMessage, FreshInv, NoticesAreOpen
<1> QED BY <1>1, <1>2, <1>3, <1>4 DEF FreshInv

LEMMA FetchStepsKeepFresh ==
    ASSUME TypeOK, FreshInv, Expire \/ Choose
    PROVE  FreshInv'
<1>1. PICK f \in Filters : applyFilters(f) /\ filter' = f
  BY DEF Expire, Choose, TypeOK
<1>2. LateFirst' /\ Covered'
  BY <1>1, NewFetchCovers DEF FreshInv
<1>3. NoticesAreOpen'
  BY DEF Expire, Choose, feed, FreshInv, NoticesAreOpen
<1> QED BY <1>2, <1>3 DEF FreshInv

(* The answer of a fetch: the table as it is now. *)
LEMMA QueryKeepsFresh ==
    ASSUME TypeOK, FreshInv, NEW i \in DOMAIN fetches, Query(i)
    PROVE  FreshInv'
<1>0. fetches \in Seq(Request) /\ i \in 1 .. Len(fetches)
  BY DEF TypeOK, Request
<1>1b. PICK answer \in GetEvents(db, fetches[i].filter) :
           fetches' = [fetches EXCEPT ![i].answer = answer]
  BY DEF Query
<1>1. /\ Len(fetches') = Len(fetches)
      /\ \A j \in 1 .. Len(fetches) :
            /\ fetches'[j].late = fetches[j].late
            /\ fetches'[j].filter = fetches[j].filter
            /\ j # i => fetches'[j] = fetches[j]
      /\ fetches'[i].answer = answer
      /\ fetches' # <<>> /\ fetches # <<>>
  <2> DEFINE answered == [fetches[i] EXCEPT !.answer = answer]
  <2>1. fetches' = [fetches EXCEPT ![i] = answered]
    BY <1>1b
  <2>2. fetches[i] \in Request
    BY <1>0
  <2>3. /\ answered.late = fetches[i].late
        /\ answered.filter = fetches[i].filter
        /\ answered.answer = answer
    BY <2>2 DEF Request
  <2> HIDE DEF answered
  <2>4. /\ Len(fetches') = Len(fetches)
        /\ fetches'[i] = answered
        /\ \A j \in 1 .. Len(fetches) : j # i => fetches'[j] = fetches[j]
    BY <2>1, <1>0
  <2>5. fetches # <<>> /\ fetches' # <<>>
    <3>1. Len(fetches) # 0
      BY <1>0
    <3> QED BY <3>1, <2>4, <1>0
  <2> QED BY <2>3, <2>4, <2>5
<1>2. UNCHANGED <<filter, db, stale, shown, card>> /\ UNCHANGED <<toAnnounce, store, ws, notices, timer>>
  BY DEF Query, screen, server, feed
<1>3. LateFirst'
  BY <1>1 DEF FreshInv, LateFirst
<1>4. Covered => Covered'
  <2>1. Newest.late = Newest'.late /\ Newest.filter = Newest'.filter
    BY <1>0, <1>1 DEF Newest
  <2>2. CASE i = Len(fetches)
    <3>1. Newest'.answer = answer /\ Newest.filter = fetches[i].filter
      BY <2>2, <1>1 DEF Newest
    <3>2. Newest.filter = filter => Fresh(answer)'
      BY <3>1, <1>1b, <1>2, AnswersAreFresh, FreshStays
    <3>3. Newest.filter = filter => Answers(Newest)'
      BY <3>1, <3>2, <2>1, <1>2 DEF Answers
    <3>4. Fresh(card) => Fresh(card)'
      BY <1>2, FreshStays
    <3> QED BY <3>3, <3>4, <2>1, <1>1, <1>2 DEF Covered, Answers, Listed
  <2>3. CASE i # Len(fetches)
    <3>1. Newest' = Newest
      BY <2>3, <1>0, <1>1 DEF Newest
    <3>2. /\ Fresh(card) => Fresh(card)'
          /\ Answers(Newest) => Answers(Newest)'
      BY <1>2, <3>1, FreshStays DEF Answers
    <3> QED BY <3>1, <3>2, <1>1, <1>2 DEF Covered, Listed
  <2> QED BY <2>2, <2>3
<1> QED BY <1>2, <1>3, <1>4 DEF FreshInv, Pending, NoticesAreOpen

(* A fetch that ends leaves the newest one, or was it. *)
LEMMA EndKeepsFresh ==
    ASSUME TypeOK, FreshInv, NEW i \in DOMAIN fetches,
           Settle(i) \/ FetchError(i)
    PROVE  FreshInv'
<1>0. /\ fetches \in Seq(Request) /\ Len(fetches) \in Nat
      /\ i \in 1 .. Len(fetches)
      /\ \A j \in 1 .. Len(fetches) : fetches[j] \in Request
  <2>1. fetches \in Seq(Request)
    BY DEF TypeOK, Request
  <2> QED BY <2>1
<1>1. /\ fetches' \in Seq(Request)
      /\ Len(fetches') = Len(fetches) - 1
      /\ \A j \in 1 .. Len(fetches) - 1 :
            fetches'[j] = IF j < i THEN [fetches[j] EXCEPT !.late = TRUE]
                          ELSE fetches[j + 1]
  BY <1>0, RequestsLeft DEF Settle, FetchError
<1>2. \A j \in 1 .. Len(fetches) - 1 :
         fetches'[j].late = (j < i \/ fetches[j + 1].late)
  <2> SUFFICES ASSUME NEW j \in 1 .. Len(fetches) - 1
               PROVE  fetches'[j].late = (j < i \/ fetches[j + 1].late)
    OBVIOUS
  <2>1. j \in 1 .. Len(fetches) /\ j + 1 \in 1 .. Len(fetches)
    BY <1>0
  <2>2. fetches[j] \in Request /\ fetches[j + 1] \in Request
    BY <2>1, <1>0
  <2> QED BY <2>2, <1>1 DEF Request
<1>3. LateFirst'
  <2> SUFFICES ASSUME NEW j \in 1 .. Len(fetches) - 1,
                      NEW k \in 1 .. Len(fetches) - 1,
                      j < k, fetches'[k].late
               PROVE  fetches'[j].late
    BY <1>1 DEF LateFirst
  <2>1. j < i \/ fetches[k + 1].late
    <3>1. k < i \/ fetches[k + 1].late
      BY <1>2
    <3>2. k < i => j < i
      BY <1>0
    <3> QED BY <3>1, <3>2
  <2>2. fetches[k + 1].late => fetches[j + 1].late
    <3>1. j + 1 \in 1 .. Len(fetches) /\ k + 1 \in 1 .. Len(fetches)
          /\ j + 1 < k + 1
      BY <1>0
    <3> QED BY <3>1 DEF FreshInv, LateFirst
  <2> QED BY <2>1, <2>2, <1>2
<1>4. UNCHANGED <<filter, db, toAnnounce, store, ws, notices, timer>>
      /\ stale' = fetches[i].late
  BY DEF Settle, FetchError, server, feed
<1>5. shown' = "failed"
      \/ (card' = fetches[i].answer /\ fetches[i].answer # None)
  BY DEF Settle, FetchError, Display
<1>6. Covered => Covered'
  <2> SUFFICES ASSUME Covered PROVE Covered'
    OBVIOUS
  <2>0. fetches # <<>> /\ Newest \in Request /\ fetches[i] \in Request
    BY <1>0 DEF Newest
  <2>1. CASE i = Len(fetches)
    <3>1. fetches' # <<>> => Newest'.late
      <4> SUFFICES ASSUME fetches' # <<>> PROVE Newest'.late
        OBVIOUS
      <4>1. Len(fetches') # 0
        BY <1>1
      <4>2. Len(fetches) - 1 \in 1 .. Len(fetches) - 1 /\ Len(fetches) - 1 < i
        BY <4>1, <1>0, <1>1, <2>1
      <4>3. fetches'[Len(fetches) - 1].late
        BY <4>2, <1>2
      <4> QED BY <4>3, <1>1 DEF Newest
    <3>2. ~fetches[i].late => Answers(fetches[i])
      BY <2>0, <2>1 DEF Covered, Newest
    <3>3. stale' \/ ~Listed' \/ Fresh(card)'
      BY <3>2, <1>4, <1>5, <2>0, FreshStays DEF Answers, Listed, Request
    <3> QED BY <3>1, <3>3 DEF Covered
  <2>2. CASE i < Len(fetches)
    <3>1. Newest' = Newest /\ fetches' # <<>>
      <4>1. Len(fetches) - 1 \in 1 .. Len(fetches) - 1
            /\ ~(Len(fetches) - 1 < i) /\ Len(fetches) - 1 + 1 = Len(fetches)
        BY <2>2, <1>0
      <4>2. fetches'[Len(fetches) - 1] = fetches[Len(fetches)]
        BY <4>1, <1>1
      <4>3. Len(fetches') # 0
        BY <4>1, <1>1
      <4> QED BY <4>2, <4>3, <1>1 DEF Newest
    <3>2. CASE ~Newest.late
      BY <3>1, <3>2, <2>0, <1>4, FreshStays DEF Covered, Answers
    <3>3. CASE Newest.late
      <4>1. fetches[i].late
        BY <2>2, <3>3, <1>0 DEF FreshInv, LateFirst, Newest
      <4> QED BY <4>1, <3>1, <3>3, <1>4 DEF Covered
    <3> QED BY <3>2, <3>3
  <2> QED BY <2>1, <2>2, <1>0
<1> QED BY <1>3, <1>4, <1>6 DEF FreshInv, Pending, NoticesAreOpen

LEMMA FreshNext == TypeOK /\ FreshInv /\ [Next]_vars => FreshInv'
<1> SUFFICES ASSUME TypeOK, FreshInv, [Next]_vars PROVE FreshInv'
  OBVIOUS
<1>1. ASSUME NEW v \in {"card", "table"}, SwitchView(v) PROVE FreshInv'
  BY <1>1 DEF SwitchView, server, feed, FreshInv, LateFirst, Pending, Covered,
              NoticesAreOpen, Newest, Answers, Fresh, NotMissedBy, Matching, Listed
<1>2. CASE UNCHANGED vars
  BY <1>2 DEF vars, server, feed, screen, FreshInv, LateFirst, Pending, Covered,
              NoticesAreOpen, Newest, Answers, Fresh, NotMissedBy, Matching, Listed
<1> QED BY <1>1, <1>2, ServerStepsKeepFresh, CleanupKeepsFresh, FeedStepsKeepFresh,
           FetchStepsKeepFresh, QueryKeepsFresh, EndKeepsFresh
        DEF Next, Complete

(* A connected dashboard that nothing is under way to shows the newest events
   of its filter, unless an overtaken answer or a failure is on screen. *)
THEOREM ListIsFresh == Spec => []NewestAreShown
<1>1. Init => TypeOK /\ FreshInv
  BY TypeInit, FreshInit
<1>2. TypeOK /\ FreshInv /\ [Next]_vars => (TypeOK /\ FreshInv)'
  BY TypeNext, FreshNext
<1>3. TypeOK /\ FreshInv => NewestAreShown
  BY DEF FreshInv, Pending, Covered, NewestAreShown, Quiet, Listed, TypeOK
<1> QED BY <1>1, <1>2, <1>3, PTL DEF Spec

-----------------------------------------------------------------------------
(* Whatever events the page lists, and in whatever order, its cards are the
   sessions the list should be cut into. *)
THEOREM ShownSessionsAreRight == Spec => []SessionsAreRight
<1>1. TypeOK => SessionsAreRight
  <2> SUFFICES ASSUME TypeOK, NEW order \in SetToSeqs(card)
               PROVE  IsCutRight([i \in DOMAIN order |-> Row[order[i]]])
    BY DEF SessionsAreRight
  <2>1. card \in SUBSET Events /\ IsFiniteSet(card)
    BY EventsAssumption, FS_Subset DEF TypeOK
  <2>2. Cardinality(card) \in Nat
    BY <2>1, FS_CardinalityType
  <2>3. order \in [1 .. Cardinality(card) -> card]
    BY DEF SetToSeqs
  <2> DEFINE list == [i \in DOMAIN order |-> Row[order[i]]]
  <2>4. list \in [1 .. Cardinality(card) -> ListEvent]
    BY <2>1, <2>3, RowAssumption
  <2>5. list \in Seq(ListEvent)
    BY <2>2, <2>4, SeqDef
  <2> HIDE DEF list
  <2> QED BY <2>5, SessionsAreCutRight DEF list
<1> QED BY <1>1, TypeCorrect, PTL
=============================================================================
