---------------------------- MODULE Ingest_proofs ----------------------------
(***************************************************************************)
(* What Ingest guarantees for any set of requests, any events, any store   *)
(* limit and any channel capacity.                                         *)
(***************************************************************************)
EXTENDS Ingest, TLAPS, SequenceTheorems

USE BoundAssumption

LEMMA KeyInKeys == ASSUME NEW r \in Reqs PROVE Key(r) \in Keys
BY DEF Keys

(* Appending to a sequence of requests and taking its head off it. *)
LEMMA AppendReq ==
    ASSUME NEW s \in Seq(Reqs), NEW r \in Reqs
    PROVE  /\ Append(s, r) \in Seq(Reqs)
           /\ Len(Append(s, r)) = Len(s) + 1
OBVIOUS

LEMMA TailReq ==
    ASSUME NEW s \in Seq(Reqs), s # <<>>
    PROVE  /\ Tail(s) \in Seq(Reqs)
           /\ Len(Tail(s)) = Len(s) - 1
           /\ Head(s) \in Reqs
           /\ Len(s) \in Nat
OBVIOUS

LEMMA TrimmedStore ==
    ASSUME NEW s \in Seq(Reqs), Len(s) <= StoreLimit, NEW r \in Reqs
    PROVE  IsSeqOf(Trimmed(Append(s, r)), StoreLimit)
<1>1. Append(s, r) \in Seq(Reqs) /\ Len(Append(s, r)) = Len(s) + 1
  BY AppendReq
<1>2. Append(s, r) # <<>>
  BY <1>1
<1>3. Tail(Append(s, r)) \in Seq(Reqs) /\ Len(Tail(Append(s, r))) = Len(s)
  BY <1>1, <1>2, TailReq
<1>. QED
  BY <1>1, <1>3 DEF Trimmed, IsSeqOf

-----------------------------------------------------------------------------
(* Types and limits hold in every reachable state. *)
LEMMA TypeInit == Init => TypeOK
BY DEF Init, TypeOK, IsSeqOf, PC, InFlight, Final, Answered

LEMMA TypeStep == TypeOK /\ [Next]_vars => TypeOK'
<1>. SUFFICES ASSUME TypeOK, [Next]_vars
             PROVE  TypeOK'
  OBVIOUS
<1>. USE DEF TypeOK, PC, InFlight, Final, Answered, history
<1>1. ASSUME NEW r \in Reqs, Reject(r) \/ Receive(r) \/ Refuse(r)
      PROVE  TypeOK'
  <2>1. CASE Reject(r)
    BY <2>1 DEF Reject, Goto
  <2>2. CASE Receive(r)
    BY <2>2 DEF Receive, Goto
  <2>3. CASE Refuse(r)
    BY <2>3 DEF Refuse
  <2>. QED
    BY <1>1, <2>1, <2>2, <2>3
<1>2. ASSUME NEW r \in Reqs, LookupHit(r) \/ LookupMiss(r) \/ LookupError(r)
      PROVE  TypeOK'
  <2>1. CASE LookupHit(r)
    BY <2>1 DEF LookupHit, Goto
  <2>2. CASE LookupMiss(r)
    BY <2>2 DEF LookupMiss, Goto
  <2>3. CASE LookupError(r)
    BY <2>3 DEF LookupError, Goto
  <2>. QED
    BY <1>2, <2>1, <2>2, <2>3
<1>3. ASSUME NEW r \in Reqs, InsertEvent(r)
      PROVE  TypeOK'
  <2>1. Upsert(db[Key(r)], r) \in Row
    BY KeyInKeys DEF Upsert, Row
  <2>2. db' \in [Keys -> Row \cup {NoRow}]
    BY <1>3, <2>1 DEF InsertEvent
  <2>. QED
    BY <1>3, <2>2 DEF InsertEvent, Goto
<1>4. ASSUME NEW r \in Reqs, InsertError(r)
      PROVE  TypeOK'
  BY <1>4 DEF InsertError, Goto
<1>5. ASSUME NEW r \in Reqs, AddEvent(r)
      PROVE  TypeOK'
  <2>1. store \in Seq(Reqs) /\ Len(store) <= StoreLimit
    BY DEF IsSeqOf
  <2>2. IsSeqOf(store, StoreLimit)'
    BY <1>5, <2>1, TrimmedStore DEF AddEvent, IsSeqOf
  <2>3. appended' \in Seq(Reqs)
    BY <1>5, AppendReq DEF AddEvent
  <2>. QED
    BY <1>5, <2>2, <2>3 DEF AddEvent, Goto, IsSeqOf
<1>6. ASSUME NEW r \in Reqs, Send(r)
      PROVE  TypeOK'
  <2>1. IsSeqOf(broadcastChan, ChanCap)'
    BY <1>6, AppendReq DEF Send, IsSeqOf
  <2>. QED
    BY <1>6, <2>1 DEF Send, Goto, IsSeqOf
<1>7. ASSUME NEW r \in Reqs, Reply(r)
      PROVE  TypeOK'
  BY <1>7 DEF Reply, Goto
<1>8. ASSUME Broadcast
      PROVE  TypeOK'
  <2>1. IsSeqOf(broadcastChan, ChanCap)'
    BY <1>8, TailReq DEF Broadcast, IsSeqOf
  <2>2. delivered' \in Seq(Reqs)
    BY <1>8, TailReq, AppendReq DEF Broadcast, IsSeqOf
  <2>. QED
    BY <1>8, <2>1, <2>2 DEF Broadcast, IsSeqOf
<1>9. ASSUME Cleanup
      PROVE  TypeOK'
  BY <1>9 DEF Cleanup
<1>10. ASSUME Crash
       PROVE  TypeOK'
  <2>1. <<>> \in Seq(Reqs) /\ Len(<<>>) = 0
    OBVIOUS
  <2>2. IsSeqOf(store, StoreLimit)' /\ IsSeqOf(broadcastChan, ChanCap)'
    BY <1>10, <2>1 DEF Crash, IsSeqOf
  <2>3. pc' \in [Reqs -> PC]
    BY <1>10 DEF Crash
  <2>. QED
    BY <1>10, <2>1, <2>2, <2>3 DEF Crash
<1>11. ASSUME Restart
       PROVE  TypeOK'
  BY <1>11 DEF Restart
<1>12. ASSUME UNCHANGED vars
       PROVE  TypeOK'
  BY <1>12 DEF vars
<1>. QED
  BY <1>1, <1>2, <1>3, <1>4, <1>5, <1>6, <1>7, <1>8, <1>9, <1>10, <1>11,
     <1>12 DEF Next, Handle

(* In every reachable state every variable has its type, the store holds at
   most StoreLimit events and the channel at most ChanCap. *)
THEOREM TypeCorrect == Spec => []TypeOK
BY TypeInit, TypeStep, PTL DEF Spec

-----------------------------------------------------------------------------
(***************************************************************************)
(* The dedup invariant.  before[r] holds only answered requests, and an    *)
(* answer is final; so a row that appears between r's lookup and r's       *)
(* insert was first written by a request that overlaps r.  That is what    *)
(* MixedRowNeedsRace needs of the states in between.                       *)
(***************************************************************************)
BeforeAreAnswered ==
    \A r \in Reqs : \A q \in before[r] : pc[q] \in Answered

(* A request past its insert has a row, with the excuses of the property. *)
InsertedIsRecorded ==
    \A r \in Reqs :
        pc[r] \in {"inserted", "stored", "sent", "accepted", "duplicate"} =>
            \/ db[Key(r)] # NoRow
            \/ r \in insertFailed
            \/ Key(r) \in purged

(* The row of a request about to insert is of an overlapping request. *)
RowAppearedInBetween ==
    \A r \in Reqs :
        (pc[r] = "missed" /\ r \notin lookupFailed /\ db[Key(r)] # NoRow)
            => db[Key(r)].first \notin before[r]

WritersStarted ==
    \A k \in Keys : db[k] # NoRow => pc[db[k].last] # "idle"

DedupInv ==
    /\ TypeOK
    /\ BeforeAreAnswered
    /\ InsertedIsRecorded
    /\ RowAppearedInBetween
    /\ WritersStarted
    /\ MixedRowNeedsRace

LEMMA DedupInit == Init => DedupInv
<1>. SUFFICES ASSUME Init PROVE DedupInv
  OBVIOUS
<1>1. TypeOK
  BY TypeInit
<1>. QED
  BY <1>1, KeyInKeys DEF Init, DedupInv, BeforeAreAnswered,
     InsertedIsRecorded, RowAppearedInBetween, WritersStarted,
     MixedRowNeedsRace

LEMMA DedupStep == DedupInv /\ [Next]_vars => DedupInv'
<1>. SUFFICES ASSUME DedupInv, [Next]_vars
             PROVE  DedupInv'
  OBVIOUS
<1>0. TypeOK'
  BY TypeStep DEF DedupInv
<1>. USE <1>0 DEF DedupInv, TypeOK, BeforeAreAnswered, InsertedIsRecorded,
     RowAppearedInBetween, WritersStarted, MixedRowNeedsRace, history,
     Answered, Row
<1>1. ASSUME NEW r \in Reqs, Reject(r) \/ Refuse(r) \/ LookupHit(r)
      PROVE  DedupInv'
  <2>1. CASE Reject(r)
    BY <2>1, KeyInKeys DEF Reject, Goto
  <2>2. CASE Refuse(r)
    BY <2>2, KeyInKeys DEF Refuse
  <2>3. CASE LookupHit(r)
    BY <2>3, KeyInKeys DEF LookupHit, Goto
  <2>. QED
    BY <1>1, <2>1, <2>2, <2>3
<1>2. ASSUME NEW r \in Reqs, Receive(r)
      PROVE  DedupInv'
  BY <1>2, KeyInKeys DEF Receive, Goto
<1>3. ASSUME NEW r \in Reqs, LookupMiss(r) \/ LookupError(r)
      PROVE  DedupInv'
  <2>1. CASE LookupMiss(r)
    BY <2>1, KeyInKeys DEF LookupMiss, Goto
  <2>2. CASE LookupError(r)
    BY <2>2, KeyInKeys DEF LookupError, Goto
  <2>. QED
    BY <1>3, <2>1, <2>2
<1>4. ASSUME NEW r \in Reqs, InsertEvent(r)
      PROVE  DedupInv'
  BY <1>4, KeyInKeys, NoRowAssumption DEF InsertEvent, Goto, Upsert
<1>5. ASSUME NEW r \in Reqs, InsertError(r) \/ AddEvent(r) \/ Send(r) \/ Reply(r)
      PROVE  DedupInv'
  <2>1. CASE InsertError(r)
    BY <2>1, KeyInKeys DEF InsertError, Goto
  <2>2. CASE AddEvent(r)
    BY <2>2, KeyInKeys DEF AddEvent, Goto
  <2>3. CASE Send(r)
    BY <2>3, KeyInKeys DEF Send, Goto
  <2>4. CASE Reply(r)
    BY <2>4, KeyInKeys DEF Reply, Goto
  <2>. QED
    BY <1>5, <2>1, <2>2, <2>3, <2>4
<1>6. ASSUME Broadcast \/ Restart \/ UNCHANGED vars
      PROVE  DedupInv'
  BY <1>6 DEF Broadcast, Restart, vars
<1>7. ASSUME Cleanup
      PROVE  DedupInv'
  BY <1>7, KeyInKeys DEF Cleanup
<1>8. ASSUME Crash
      PROVE  DedupInv'
  BY <1>8, KeyInKeys DEF Crash, InFlight
<1>. QED
  BY <1>1, <1>2, <1>3, <1>4, <1>5, <1>6, <1>7, <1>8 DEF Next, Handle

LEMMA DedupInvariant == Spec => []DedupInv
BY DedupInit, DedupStep, PTL DEF Spec

-----------------------------------------------------------------------------
(* An answer "success" means a row, or a failed insert, or the cleanup. *)
THEOREM AnswersAreRecorded == Spec => []AnsweredIsRecorded
<1>1. DedupInv => AnsweredIsRecorded
  BY DEF DedupInv, InsertedIsRecorded, AnsweredIsRecorded, Answered
<1>. QED
  BY <1>1, DedupInvariant, PTL

(* A row mixes two events only when their requests overlapped or a lookup
   failed. *)
THEOREM MixedRowsNeedRaces == Spec => []MixedRowNeedsRace
<1>1. DedupInv => MixedRowNeedsRace
  BY DEF DedupInv
<1>. QED
  BY <1>1, DedupInvariant, PTL

(* Only LookupMiss and LookupError take a request to "missed"; the first
   found no row, so AnsweredIsRecorded leaves only its excuses. *)
THEOREM SerialRequestsAreDeduplicated == Spec => NoSerialReprocessing
<1>. DEFINE Deduplicated ==
        \A s \in Reqs :
          (pc[s] = "received" /\ pc'[s] = "missed" /\ s \notin lookupFailed')
              => \A r \in before[s] : Key(r) = Key(s) =>
                    r \in insertFailed \/ Key(s) \in purged
<1>1. DedupInv /\ [Next]_vars => [Deduplicated]_vars
  <2>. SUFFICES ASSUME DedupInv, Next,
                       NEW s \in Reqs, NEW r \in before[s], Key(r) = Key(s),
                       pc[s] = "received", pc'[s] = "missed",
                       s \notin lookupFailed'
               PROVE  r \in insertFailed \/ Key(s) \in purged
    OBVIOUS
  <2>1. r \in Reqs /\ pc[r] \in Answered
    BY DEF DedupInv, TypeOK, BeforeAreAnswered
  <2>2. db[Key(s)] = NoRow
    <3>. USE DEF DedupInv, TypeOK, Goto
    <3>1. LookupMiss(s) \/ LookupError(s)
      <4>1. ASSUME NEW q \in Reqs, Handle(q)
            PROVE  LookupMiss(s) \/ LookupError(s)
        BY <4>1 DEF Handle, LookupHit, LookupMiss, LookupError, InsertEvent,
           InsertError, AddEvent, Send, Reply
      <4>2. ASSUME NEW q \in Reqs, Reject(q) \/ Receive(q) \/ Refuse(q)
            PROVE  FALSE
        BY <4>2 DEF Reject, Receive, Refuse
      <4>3. ~(Broadcast \/ Cleanup \/ Crash \/ Restart)
        BY DEF Broadcast, Cleanup, Crash, Restart, InFlight
      <4>. QED
        BY <4>1, <4>2, <4>3 DEF Next
    <3>2. ~LookupError(s)
      BY DEF LookupError
    <3>. QED
      BY <3>1, <3>2 DEF LookupMiss
  <2>. QED
    BY <2>1, <2>2 DEF DedupInv, InsertedIsRecorded, Answered
<1>. QED
  BY <1>1, DedupInvariant, PTL DEF Spec, NoSerialReprocessing

-----------------------------------------------------------------------------
LEMMA SuffixReq ==
    ASSUME NEW s \in Seq(Reqs), NEW m \in 1 .. Len(s)
    PROVE  /\ SubSeq(s, m, Len(s)) \in Seq(Reqs)
           /\ Len(SubSeq(s, m, Len(s))) = Len(s) - m + 1
           /\ \A i \in 1 .. Len(s) - m + 1 :
                SubSeq(s, m, Len(s))[i] = s[m + i - 1]
<1>1. \A i \in m .. Len(s) : s[i] \in Reqs
  OBVIOUS
<1>2. m \in Int /\ Len(s) \in Int /\ m <= Len(s)
  OBVIOUS
<1>. QED
  BY <1>1, <1>2, SubSeqProperties

(* Trimming after an append keeps the newest StoreLimit elements. *)
LEMMA TrimmedIsNewest ==
    ASSUME NEW s \in Seq(Reqs), NEW r \in Reqs
    PROVE  Trimmed(Append(Newest(s), r)) = Newest(Append(s, r))
<1>. DEFINE n == Len(s)
            a == Append(s, r)
<1>0. n \in Nat /\ a \in Seq(Reqs) /\ Len(a) = n + 1
  BY AppendReq
<1>1. CASE n < StoreLimit
  BY <1>0, <1>1 DEF Trimmed, Newest
<1>2. CASE n >= StoreLimit
  <2>. DEFINE w == SubSeq(s, n - StoreLimit + 1, n)
              v == SubSeq(a, n - StoreLimit + 2, Len(a))
              b == Append(w, r)
  <2>1. \A i \in 1 .. n : s[i] \in Reqs /\ a[i] = s[i]
    BY AppendProperties, LenProperties
  <2>2. a[n + 1] = r
    BY AppendProperties
  <2>3. /\ w \in Seq(Reqs) /\ Len(w) = StoreLimit
        /\ \A i \in 1 .. StoreLimit : w[i] = s[n - StoreLimit + i]
    <3>1. n - StoreLimit + 1 \in 1 .. Len(s)
      BY <1>0, <1>2
    <3>. QED
      BY <1>0, <1>2, <3>1, SuffixReq
  <2>4. /\ v \in Seq(Reqs) /\ Len(v) = StoreLimit
        /\ \A i \in 1 .. StoreLimit : v[i] = a[n - StoreLimit + 1 + i]
    <3>. DEFINE m == n - StoreLimit + 2
    <3>1. m \in 1 .. Len(a) /\ Len(a) - m + 1 = StoreLimit
      BY <1>0, <1>2
    <3>2. \A i \in 1 .. StoreLimit : m + i - 1 = n - StoreLimit + 1 + i
      BY <1>0
    <3>. HIDE DEF m, a, n
    <3>3. /\ SubSeq(a, m, Len(a)) \in Seq(Reqs)
          /\ Len(SubSeq(a, m, Len(a))) = Len(a) - m + 1
          /\ \A i \in 1 .. Len(a) - m + 1 :
                SubSeq(a, m, Len(a))[i] = a[m + i - 1]
      BY <1>0, <3>1, SuffixReq
    <3>. QED
      BY <3>1, <3>2, <3>3 DEF m
  <2>. HIDE DEF n, a, w, v
  <2>5. /\ b \in Seq(Reqs) /\ Len(b) = StoreLimit + 1 /\ b # <<>>
        /\ \A i \in 1 .. StoreLimit : b[i] = w[i]
        /\ b[StoreLimit + 1] = r
    BY <2>3, AppendProperties
  <2>. HIDE DEF b
  <2>6. /\ Tail(b) \in Seq(Reqs) /\ Len(Tail(b)) = StoreLimit
        /\ \A i \in 1 .. StoreLimit : Tail(b)[i] = b[i + 1]
    BY <2>5, HeadTailProperties
  <2>7. ASSUME NEW i \in 1 .. StoreLimit PROVE Tail(b)[i] = v[i]
    <3>1. CASE i = StoreLimit
      <4>1. Tail(b)[i] = r
        BY <2>5, <2>6, <3>1
      <4>2. n - StoreLimit + 1 + StoreLimit = n + 1
        BY <1>0
      <4>3. v[i] = a[n + 1]
        BY <2>4, <3>1, <4>2
      <4>. QED
        BY <2>2, <4>1, <4>3
    <3>2. CASE i < StoreLimit
      <4>1. i + 1 \in 1 .. StoreLimit
        BY <3>2
      <4>2. n - StoreLimit + 1 + i \in 1 .. n
        BY <1>0, <1>2, <3>2
      <4>3. Tail(b)[i] = s[n - StoreLimit + (i + 1)]
        BY <2>3, <2>5, <2>6, <4>1
      <4>4. v[i] = s[n - StoreLimit + 1 + i]
        BY <2>1, <2>4, <4>2
      <4>5. n - StoreLimit + (i + 1) = n - StoreLimit + 1 + i
        BY <1>0
      <4>. QED
        BY <4>3, <4>4, <4>5
    <3>3. i = StoreLimit \/ i < StoreLimit
      OBVIOUS
    <3>. QED
      BY <3>1, <3>2, <3>3
  <2>8. Tail(b) = v
    BY <2>4, <2>6, <2>7, SeqEqual
  <2>9. Newest(a) = v
    BY <1>0, <1>2 DEF Newest, v
  <2>10. Newest(s) = w
    <3>1. CASE n > StoreLimit
      BY <3>1 DEF Newest, n, w
    <3>2. CASE n = StoreLimit
      BY <1>0, <3>2, SubSeqFull DEF Newest, n, w
    <3>. QED
      BY <1>0, <1>2, <3>1, <3>2
  <2>11. Trimmed(b) = Tail(b)
    BY <2>5 DEF Trimmed
  <2>. QED
    BY <2>8, <2>9, <2>10, <2>11 DEF a, b
<1>. QED
  BY <1>0, <1>1, <1>2

(* The in-memory store is always the newest StoreLimit events that were
   added since the process started. *)
THEOREM StoreShowsNewest == Spec => []StoreIsRecentHistory
<1>1. Init => StoreIsRecentHistory
  BY DEF Init, StoreIsRecentHistory, Newest
<1>2. TypeOK /\ StoreIsRecentHistory /\ [Next]_vars => StoreIsRecentHistory'
  <2>. SUFFICES ASSUME TypeOK, StoreIsRecentHistory, [Next]_vars
               PROVE  StoreIsRecentHistory'
    OBVIOUS
  <2>. USE DEF StoreIsRecentHistory
  <2>1. CASE \E r \in Reqs : AddEvent(r)
    BY <2>1, TrimmedIsNewest DEF AddEvent, TypeOK
  <2>2. CASE Crash
    BY <2>2 DEF Crash, Newest
  <2>3. CASE UNCHANGED <<store, appended>>
    BY <2>3 DEF Newest
  <2>. QED
    BY <2>1, <2>2, <2>3 DEF Next, Handle, Reject, Receive, Refuse, LookupHit,
       LookupMiss, LookupError, InsertEvent, InsertError, Send, Reply,
       Broadcast, Cleanup, Restart, vars, history
<1>. QED
  BY <1>1, <1>2, TypeCorrect, PTL DEF Spec

-----------------------------------------------------------------------------
(* Sending and taking move an event along the feed without changing it. *)
LEMMA SendExtendsFeed ==
    ASSUME NEW d \in Seq(Reqs), NEW c \in Seq(Reqs), NEW r \in Reqs
    PROVE  d \o Append(c, r) = Append(d \o c, r)
<1>1. <<r>> \in Seq(Reqs)
  OBVIOUS
<1>2. Append(c, r) = c \o <<r>>
  BY AppendIsConcat
<1>3. d \o c \in Seq(Reqs)
  BY ConcatProperties
<1>4. Append(d \o c, r) = (d \o c) \o <<r>>
  BY <1>3, AppendIsConcat
<1>. QED
  BY <1>1, <1>2, <1>4, ConcatAssociative

LEMMA TakeKeepsFeed ==
    ASSUME NEW d \in Seq(Reqs), NEW c \in Seq(Reqs), c # <<>>
    PROVE  Append(d, Head(c)) \o Tail(c) = d \o c
<1>1. /\ Head(c) \in Reqs /\ Tail(c) \in Seq(Reqs)
      /\ Len(Tail(c)) = Len(c) - 1
      /\ \A i \in 1 .. Len(c) - 1 : Tail(c)[i] = c[i + 1]
  BY HeadTailProperties
<1>2. /\ Append(d, Head(c)) \in Seq(Reqs)
      /\ Len(Append(d, Head(c))) = Len(d) + 1
      /\ \A i \in 1 .. Len(d) : Append(d, Head(c))[i] = d[i]
      /\ Append(d, Head(c))[Len(d) + 1] = c[1]
  BY <1>1, AppendProperties
<1>. DEFINE x == Append(d, Head(c)) \o Tail(c)
            y == d \o c
<1>3. /\ x \in Seq(Reqs) /\ Len(x) = Len(d) + 1 + (Len(c) - 1)
      /\ \A i \in 1 .. Len(d) + 1 + (Len(c) - 1) :
            x[i] = IF i <= Len(d) + 1 THEN Append(d, Head(c))[i]
                   ELSE Tail(c)[i - (Len(d) + 1)]
  BY <1>1, <1>2, ConcatProperties
<1>4. /\ y \in Seq(Reqs) /\ Len(y) = Len(d) + Len(c)
      /\ \A i \in 1 .. Len(d) + Len(c) :
            y[i] = IF i <= Len(d) THEN d[i] ELSE c[i - Len(d)]
  BY ConcatProperties
<1>5. Len(d) \in Nat /\ Len(c) \in Nat /\ Len(c) > 0
  OBVIOUS
<1>6. ASSUME NEW i \in 1 .. Len(y) PROVE x[i] = y[i]
  <2>1. CASE i <= Len(d)
    BY <1>2, <1>3, <1>4, <1>5, <2>1
  <2>2. CASE i = Len(d) + 1
    BY <1>2, <1>3, <1>4, <1>5, <2>2
  <2>3. CASE i > Len(d) + 1
    <3>1. i - (Len(d) + 1) \in 1 .. Len(c) - 1
      BY <1>4, <1>5, <2>3
    <3>2. x[i] = c[(i - (Len(d) + 1)) + 1]
      BY <1>1, <1>3, <1>4, <1>5, <2>3, <3>1
    <3>3. (i - (Len(d) + 1)) + 1 = i - Len(d)
      BY <1>4, <1>5
    <3>. QED
      BY <1>4, <1>5, <2>3, <3>2, <3>3
  <2>. QED
    BY <1>4, <1>5, <2>1, <2>2, <2>3
<1>. QED
  BY <1>3, <1>4, <1>5, <1>6, SeqEqual

LEMMA FeedType == TypeOK => Feed \in Seq(Reqs)
BY ConcatProperties DEF TypeOK, IsSeqOf, Feed

LEMMA FeedStep ==
    TypeOK /\ ExactlyOnceFeed /\ [Next]_vars => ExactlyOnceFeed'
<1>. SUFFICES ASSUME TypeOK, ExactlyOnceFeed, [Next]_vars
             PROVE  ExactlyOnceFeed'
  OBVIOUS
<1>0. Feed \in Seq(Reqs) /\ appended \in Seq(Reqs) /\ pc \in [Reqs -> PC]
  BY FeedType DEF TypeOK
<1>. DEFINE Same == UNCHANGED <<appended, delivered, broadcastChan>>
<1>1. ASSUME Same,
             \A q \in Reqs : /\ pc[q] = "stored" <=> pc'[q] = "stored"
                             /\ pc[q] \in {"sent", "accepted"} =>
                                    pc'[q] \in {"sent", "accepted"}
      PROVE  ExactlyOnceFeed'
  <2>1. Feed' = Feed
    BY <1>1 DEF Feed
  <2>2. \A i \in DOMAIN Feed : Feed[i] \in Reqs
    BY <1>0
  <2>. QED
    BY <1>1, <2>1, <2>2 DEF ExactlyOnceFeed
<1>2. ASSUME NEW r \in Reqs, AddEvent(r)
      PROVE  ExactlyOnceFeed'
  <2>1. Feed' = Feed
    BY <1>2 DEF AddEvent, Feed
  <2>2. /\ pc[r] = "inserted"
        /\ pc'[r] = "stored"
        /\ \A q \in Reqs \ {r} : pc'[q] = pc[q]
    BY <1>0, <1>2 DEF AddEvent, Goto
  <2>3. \A i \in DOMAIN Feed : Feed[i] \in Reqs /\ Feed[i] # r
    BY <1>0, <2>2 DEF ExactlyOnceFeed
  <2>4. \A q \in Reqs : (\E i \in DOMAIN appended' : appended'[i] = q) <=>
            (q = r \/ \E i \in DOMAIN appended : appended[i] = q)
    BY <1>0, <1>2, AppendProperties DEF AddEvent
  <2>. QED
    BY <2>1, <2>2, <2>3, <2>4 DEF ExactlyOnceFeed
<1>3. ASSUME NEW r \in Reqs, Send(r)
      PROVE  ExactlyOnceFeed'
  <2>1. Feed' = Append(Feed, r)
    BY <1>3, SendExtendsFeed DEF Send, Feed, TypeOK, IsSeqOf, history
  <2>2. /\ pc[r] = "stored"
        /\ pc'[r] = "sent"
        /\ \A q \in Reqs \ {r} : pc'[q] = pc[q]
    BY <1>0, <1>3 DEF Send, Goto
  <2>3. \A i \in DOMAIN Feed : Feed[i] \in Reqs /\ Feed[i] # r
    BY <1>0, <2>2 DEF ExactlyOnceFeed
  <2>4. /\ Len(Feed) \in Nat
        /\ DOMAIN Feed = 1 .. Len(Feed)
        /\ DOMAIN Feed' = 1 .. Len(Feed) + 1
        /\ \A i \in 1 .. Len(Feed) : Feed'[i] = Feed[i]
        /\ Feed'[Len(Feed) + 1] = r
    BY <1>0, <2>1, AppendProperties
  <2>5. \A i \in DOMAIN Feed' : i \in DOMAIN Feed \/ i = Len(Feed) + 1
    BY <2>4
  <2>6. UNCHANGED appended
    BY <1>3 DEF Send, history
  <2>7. \A q \in Reqs : (\E i \in DOMAIN Feed' : Feed'[i] = q) <=>
            (q = r \/ \E i \in DOMAIN Feed : Feed[i] = q)
    BY <2>4, <2>5
  <2>8. \A i, j \in DOMAIN Feed' : Feed'[i] = Feed'[j] => i = j
    BY <2>3, <2>4, <2>5 DEF ExactlyOnceFeed
  <2>9. \A i \in DOMAIN Feed' : pc'[Feed'[i]] \in {"sent", "accepted"}
    BY <2>2, <2>3, <2>4, <2>5 DEF ExactlyOnceFeed
  <2>. QED
    BY <2>2, <2>6, <2>7, <2>8, <2>9 DEF ExactlyOnceFeed
<1>4. ASSUME Broadcast
      PROVE  ExactlyOnceFeed'
  <2>1. Feed' = Feed
    BY <1>4, TakeKeepsFeed DEF Broadcast, Feed, TypeOK, IsSeqOf
  <2>. QED
    BY <1>4, <2>1 DEF Broadcast, ExactlyOnceFeed
<1>5. ASSUME Crash
      PROVE  ExactlyOnceFeed'
  <2>1. Feed' = <<>> /\ appended' = <<>>
    BY <1>5, ConcatEmptySeq DEF Crash, Feed
  <2>2. \A q \in Reqs : pc'[q] # "stored"
    BY <1>0, <1>5 DEF Crash, InFlight
  <2>. QED
    BY <2>1, <2>2 DEF ExactlyOnceFeed
<1>6. ASSUME NEW r \in Reqs, Reject(r) \/ Receive(r) \/ Refuse(r)
      PROVE  ExactlyOnceFeed'
  <2>1. CASE Reject(r)
    BY <1>0, <1>1, <2>1 DEF Reject, Goto, history
  <2>2. CASE Receive(r)
    BY <1>0, <1>1, <2>2 DEF Receive, Goto
  <2>3. CASE Refuse(r)
    BY <1>0, <1>1, <2>3 DEF Refuse, history
  <2>. QED
    BY <1>6, <2>1, <2>2, <2>3
<1>7. ASSUME NEW r \in Reqs, NEW from \in {"received", "missed"},
             NEW to \in {"duplicate", "missed", "inserted"},
             Goto(r, from, to), Same
      PROVE  ExactlyOnceFeed'
  BY <1>0, <1>1, <1>7 DEF Goto
<1>9. ASSUME NEW r \in Reqs, Reply(r)
      PROVE  ExactlyOnceFeed'
  BY <1>0, <1>1, <1>9 DEF Reply, Goto, history
<1>10. ASSUME NEW r \in Reqs,
              \/ LookupHit(r) \/ LookupMiss(r) \/ LookupError(r)
              \/ InsertEvent(r) \/ InsertError(r)
       PROVE  ExactlyOnceFeed'
  <2>1. CASE LookupHit(r)
    BY <1>7, <2>1 DEF LookupHit, history
  <2>2. CASE LookupMiss(r) \/ LookupError(r)
    BY <1>7, <2>2 DEF LookupMiss, LookupError, history
  <2>3. CASE InsertEvent(r) \/ InsertError(r)
    BY <1>7, <2>3 DEF InsertEvent, InsertError
  <2>. QED
    BY <1>10, <2>1, <2>2, <2>3
<1>8. ASSUME Cleanup \/ Restart \/ UNCHANGED vars
      PROVE  ExactlyOnceFeed'
  BY <1>1, <1>8 DEF Cleanup, Restart, vars, history
<1>. QED
  BY <1>2, <1>3, <1>4, <1>5, <1>6, <1>8, <1>9, <1>10 DEF Next, Handle

(* Every event added to the store goes through the channel to the
   broadcaster exactly once. *)
THEOREM FeedIsExactlyOnce == Spec => []ExactlyOnceFeed
<1>1. Init => ExactlyOnceFeed
  <2>. SUFFICES ASSUME Init PROVE ExactlyOnceFeed
    OBVIOUS
  <2>1. Feed = <<>>
    BY ConcatEmptySeq DEF Init, Feed
  <2>. QED
    BY <2>1 DEF Init, ExactlyOnceFeed
<1>. QED
  BY <1>1, FeedStep, TypeCorrect, PTL DEF Spec
=============================================================================
