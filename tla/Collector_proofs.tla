-------------------------- MODULE Collector_proofs --------------------------
(***************************************************************************)
(* What Collector guarantees for any events, any size of the ring buffer   *)
(* and any number of slots.                                                *)
(***************************************************************************)
EXTENDS Collector, TLAPS, SequenceTheorems, FiniteSetTheorems

USE CollectorAssumption

Reported == Promise!Arrived

(* How far an event is follows from its state: how often it was posted and
   which filters it has passed. *)
PostsByState ==
    \A e \in Events :
        /\ state[e] \in {"posting", "answered", "failed"} => posts[e] = 1
        /\ state[e] = "killed" => posts[e] \in {0, 1}
        /\ state[e] \notin {"posting", "answered", "failed", "killed"} =>
               posts[e] = 0
        /\ state[e] \in InGoroutine => e \notin SelfEvents
        /\ state[e] = "waiting" => e \notin Whitelisted
        /\ posts[e] > 0 => e \notin SelfEvents \cup Whitelisted

(* Only what was posted is with the server, on one side of Handle. *)
RequestsArePosts ==
    /\ \A e \in pending : posts[e] = 1
    /\ \A i \in DOMAIN recorded :
          posts[recorded[i]] = 1 /\ recorded[i] \notin pending
    /\ \A e \in Events : state[e] = "answered" => e \in Reported

(* What is in the buffer, and what went into it before. *)
RingHolds ==
    /\ \A e \in Events :
          state[e] = "buffered" <=> \E i \in DOMAIN ring : ring[i] = e
    /\ \A i, j \in DOMAIN ring : ring[i] = ring[j] => i = j

SubmittedInOrder ==
    /\ Alive => submitted = taken \o ring
    /\ \A i \in DOMAIN submitted :
          /\ state[submitted[i]] \notin {"none", "dropped", "unseen"}
          /\ \A j \in DOMAIN submitted : submitted[i] = submitted[j] => i = j

(* The inductive invariant. *)
IInv ==
    /\ TypeOK
    /\ IsFiniteSet(sendSemaphore)
    /\ SlotsAreOfSenders
    /\ RingHolds
    /\ SubmittedInOrder
    /\ PostsByState
    /\ RequestsArePosts
    /\ RecordedAtMostOnce

-----------------------------------------------------------------------------
(* Appending an event to a sequence, and taking the head off it. *)
LEMMA AppendEvent ==
    ASSUME NEW s \in Seq(Events), NEW e \in Events
    PROVE  /\ Append(s, e) \in Seq(Events)
           /\ Len(Append(s, e)) = Len(s) + 1
           /\ Len(s) \in Nat
           /\ DOMAIN s = 1 .. Len(s)
           /\ DOMAIN Append(s, e) = 1 .. Len(s) + 1
           /\ \A i \in 1 .. Len(s) : Append(s, e)[i] = s[i]
           /\ Append(s, e)[Len(s) + 1] = e
OBVIOUS

LEMMA TailEvent ==
    ASSUME NEW s \in Seq(Events), s # <<>>
    PROVE  /\ Tail(s) \in Seq(Events)
           /\ Len(Tail(s)) = Len(s) - 1
           /\ Len(s) \in Nat \ {0}
           /\ DOMAIN s = 1 .. Len(s)
           /\ DOMAIN Tail(s) = 1 .. Len(s) - 1
           /\ \A i \in 1 .. Len(s) - 1 : Tail(s)[i] = s[i + 1]
           /\ Head(s) = s[1]
           /\ Head(s) \in Events
OBVIOUS

(* An event that is appended to a sequence without it keeps the sequence
   free of repetitions. *)
LEMMA AppendKeepsDistinct ==
    ASSUME NEW s \in Seq(Events), NEW e \in Events,
           \A i, j \in DOMAIN s : s[i] = s[j] => i = j,
           \A i \in DOMAIN s : s[i] # e
    PROVE  \A i, j \in DOMAIN Append(s, e) :
               Append(s, e)[i] = Append(s, e)[j] => i = j
BY AppendEvent

LEMMA AppendRange ==
    ASSUME NEW s \in Seq(Events), NEW e \in Events, NEW x
    PROVE  (\E i \in DOMAIN Append(s, e) : Append(s, e)[i] = x)
               <=> (x = e \/ \E i \in DOMAIN s : s[i] = x)
BY AppendEvent

LEMMA TailInjective ==
    ASSUME NEW s \in Seq(Events), s # <<>>,
           \A i, j \in DOMAIN s : s[i] = s[j] => i = j
    PROVE  /\ \A i, j \in DOMAIN Tail(s) : Tail(s)[i] = Tail(s)[j] => i = j
           /\ \A x : (\E i \in DOMAIN Tail(s) : Tail(s)[i] = x)
                         <=> (x # Head(s) /\ \E i \in DOMAIN s : s[i] = x)
<1>1. /\ DOMAIN s = 1 .. Len(s) /\ DOMAIN Tail(s) = 1 .. Len(s) - 1
      /\ Len(s) \in Nat \ {0} /\ Head(s) = s[1]
      /\ \A i \in 1 .. Len(s) - 1 : Tail(s)[i] = s[i + 1]
  BY TailEvent
<1>2. \A i, j \in DOMAIN Tail(s) : Tail(s)[i] = Tail(s)[j] => i = j
  BY <1>1
<1>3. ASSUME NEW x, NEW i \in DOMAIN Tail(s), Tail(s)[i] = x
      PROVE  x # Head(s) /\ \E k \in DOMAIN s : s[k] = x
  <2>1. i + 1 \in DOMAIN s /\ s[i + 1] = x /\ i + 1 # 1 /\ 1 \in DOMAIN s
    BY <1>1, <1>3
  <2>. QED
    BY <2>1, <1>1
<1>4. ASSUME NEW x, x # Head(s), NEW k \in DOMAIN s, s[k] = x
      PROVE  \E i \in DOMAIN Tail(s) : Tail(s)[i] = x
  <2>1. k - 1 \in DOMAIN Tail(s) /\ Tail(s)[k - 1] = x
    BY <1>1, <1>4
  <2>. QED
    BY <2>1
<1>. QED
  BY <1>2, <1>3, <1>4

(* The server has a request to receive only for an event it has not got. *)
LEMMA DeliverableIsNew ==
    ASSUME IInv, NEW e \in Events, Deliver(e)
    PROVE  posts[e] = 1 /\ \A i \in DOMAIN recorded : recorded[i] # e
<1>. DEFINE got == {i \in DOMAIN recorded : recorded[i] = e}
<1>1. IsFiniteSet(DOMAIN recorded)
  <2>1. DOMAIN recorded = 1 .. Len(recorded) /\ Len(recorded) \in Nat
    BY DEF IInv, TypeOK
  <2>. QED
    BY <2>1, FS_Interval
<1>2. IsFiniteSet(got) /\ Cardinality(got) \in Nat
  BY <1>1, FS_Subset, FS_CardinalityType
<1>3. posts[e] \in {0, 1}
  BY DEF IInv, TypeOK, PostsByState
<1>4. posts[e] > Cardinality(got)
  BY DEF Deliver
<1>5. posts[e] = 1 /\ Cardinality(got) = 0
  BY <1>2, <1>3, <1>4
<1>6. got = {}
  BY <1>2, <1>5, FS_EmptySet
<1>. QED
  BY <1>5, <1>6

-----------------------------------------------------------------------------
(* Types, limits and slots. *)
TypeAndSlots == TypeOK /\ IsFiniteSet(sendSemaphore) /\ SlotsAreOfSenders

(* The steps that take no slot and give none back. *)
LEMMA SlotsUntouched ==
    ASSUME TypeAndSlots, UNCHANGED sendSemaphore,
           \A e \in Events : (state[e] = "posting")' <=> state[e] = "posting"
    PROVE  IsFiniteSet(sendSemaphore)' /\ SlotsAreOfSenders'
<1>. QED
  BY DEF TypeAndSlots, SlotsAreOfSenders

LEMMA ReleaseFrees ==
    ASSUME TypeAndSlots, NEW e \in Events, NEW to \in States, to # "posting",
           Goto(e, "posting", to), Release(e)
    PROVE  /\ IsFiniteSet(sendSemaphore)' /\ SlotsAreOfSenders'
           /\ (sendSemaphore \in SUBSET Events)'
           /\ (Cardinality(sendSemaphore) <= MaxSends)'
           /\ state' \in [Events -> States]
<1>1. sendSemaphore' \subseteq sendSemaphore
  BY DEF Release
<1>2. /\ IsFiniteSet(sendSemaphore)'
      /\ Cardinality(sendSemaphore)' <= Cardinality(sendSemaphore)
      /\ Cardinality(sendSemaphore)' \in Nat
      /\ Cardinality(sendSemaphore) \in Nat
  BY <1>1, FS_Subset, FS_CardinalityType DEF TypeAndSlots
<1>3. (Cardinality(sendSemaphore) <= MaxSends)'
  BY <1>2 DEF TypeAndSlots, TypeOK
<1>4. state' = [state EXCEPT ![e] = to] /\ state \in [Events -> States]
  BY DEF Goto, TypeAndSlots, TypeOK
<1>5. SlotsAreOfSenders'
  BY <1>4 DEF Release, TypeAndSlots, SlotsAreOfSenders
<1>. QED
  BY <1>1, <1>2, <1>3, <1>4, <1>5 DEF TypeAndSlots, TypeOK

LEMMA TypeAndSlotsInit == Init => TypeAndSlots
<1>. SUFFICES ASSUME Init PROVE TypeAndSlots
  OBVIOUS
<1>1. IsFiniteSet({}) /\ Cardinality({}) = 0
  BY FS_EmptySet
<1>. QED
  BY <1>1 DEF Init, TypeAndSlots, TypeOK, SlotsAreOfSenders, States

LEMMA TypeAndSlotsStep == TypeAndSlots /\ [Next]_vars => TypeAndSlots'
<1>. SUFFICES ASSUME TypeAndSlots, [Next]_vars
             PROVE  TypeAndSlots'
  OBVIOUS
<1>. USE DEF TypeOK, States, InGoroutine, Ended, order
<1>0. TypeOK /\ SlotsAreOfSenders
  BY DEF TypeAndSlots
<1>1. ASSUME NEW e \in Events, Submit(e)
      PROVE  TypeAndSlots'
  <2>1. TypeOK'
    BY <1>0, <1>1, AppendEvent DEF Submit, Goto
  <2>2. IsFiniteSet(sendSemaphore)' /\ SlotsAreOfSenders'
    BY <1>0, <1>1, SlotsUntouched DEF Submit, Goto
  <2>. QED
    BY <2>1, <2>2 DEF TypeAndSlots
<1>2. ASSUME NEW e \in Events, Drop(e) \/ Unseen(e)
      PROVE  TypeAndSlots'
  <2>1. TypeOK'
    BY <1>0, <1>2 DEF Drop, Unseen, Goto
  <2>2. IsFiniteSet(sendSemaphore)' /\ SlotsAreOfSenders'
    BY <1>0, <1>2, SlotsUntouched DEF Drop, Unseen, Goto
  <2>. QED
    BY <2>1, <2>2 DEF TypeAndSlots
<1>3. ASSUME Read
      PROVE  TypeAndSlots'
  <2>1. TypeOK'
    BY <1>0, <1>3, TailEvent DEF Read, Goto
  <2>2. IsFiniteSet(sendSemaphore)' /\ SlotsAreOfSenders'
    BY <1>0, <1>3, SlotsUntouched, TailEvent DEF Read, Goto
  <2>. QED
    BY <2>1, <2>2 DEF TypeAndSlots
<1>4. ASSUME NEW e \in Events, Filter(e)
      PROVE  TypeAndSlots'
  <2>1. TypeOK'
    BY <1>0, <1>4 DEF Filter, Goto
  <2>2. IsFiniteSet(sendSemaphore)' /\ SlotsAreOfSenders'
    BY <1>0, <1>4, SlotsUntouched DEF Filter, Goto
  <2>. QED
    BY <2>1, <2>2 DEF TypeAndSlots
<1>5. ASSUME NEW e \in Events, Acquire(e)
      PROVE  TypeAndSlots'
  <2>0. e \notin sendSemaphore
    BY <1>0, <1>5 DEF Acquire, Goto, SlotsAreOfSenders
  <2>1. /\ IsFiniteSet(sendSemaphore)'
        /\ Cardinality(sendSemaphore)' = Cardinality(sendSemaphore) + 1
        /\ Cardinality(sendSemaphore) \in Nat
    <3>1. IsFiniteSet(sendSemaphore)
      BY DEF TypeAndSlots
    <3>2. sendSemaphore' = sendSemaphore \cup {e}
      BY <1>5 DEF Acquire
    <3>. QED
      BY <2>0, <3>1, <3>2, FS_AddElement, FS_CardinalityType
  <2>2. (Cardinality(sendSemaphore) <= MaxSends)'
    <3>1. Cardinality(sendSemaphore) < MaxSends /\ MaxSends \in Nat
      BY <1>5 DEF Acquire
    <3>. QED
      BY <2>1, <3>1
  <2>3. state' = [state EXCEPT ![e] = "posting"]
    BY <1>5 DEF Acquire, Goto
  <2>4. SlotsAreOfSenders'
    BY <1>0, <1>5, <2>3 DEF Acquire, SlotsAreOfSenders
  <2>5. posts' \in [Events -> Nat]
    BY <1>0, <1>5 DEF Acquire
  <2>6. TypeOK'
    BY <1>0, <1>5, <2>2, <2>3, <2>5 DEF Acquire
  <2>. QED
    BY <2>1, <2>4, <2>6 DEF TypeAndSlots
<1>6. ASSUME NEW e \in Events, Answered(e) \/ Fail(e)
      PROVE  TypeAndSlots'
  <2>1. PICK to \in {"answered", "failed"} : Goto(e, "posting", to) /\ Release(e)
    BY <1>6 DEF Answered, Fail
  <2>2. /\ IsFiniteSet(sendSemaphore)' /\ SlotsAreOfSenders'
        /\ (sendSemaphore \in SUBSET Events)'
        /\ (Cardinality(sendSemaphore) <= MaxSends)'
        /\ state' \in [Events -> States]
    BY <2>1, ReleaseFrees
  <2>3. UNCHANGED <<agent, ring, pending, recorded, posts, order>>
    BY <1>6 DEF Answered, Fail
  <2>. QED
    BY <1>0, <2>2, <2>3 DEF TypeAndSlots
<1>7. ASSUME NEW e \in Events, Deliver(e) \/ Handle(e)
      PROVE  TypeAndSlots'
  <2>1. pending' \in SUBSET Events
    BY <1>0, <1>7 DEF Deliver, Handle
  <2>2. recorded' = recorded \/ recorded' = Append(recorded, e)
    BY <1>7 DEF Deliver, Handle
  <2>3. UNCHANGED <<agent, ring, state, sendSemaphore, posts, order>>
    BY <1>7 DEF Deliver, Handle
  <2>3a. recorded' \in Seq(Events)
    <3>1. recorded \in Seq(Events)
      BY <1>0
    <3>2. Append(recorded, e) \in Seq(Events)
      BY <3>1, AppendEvent
    <3>. QED
      BY <2>2, <3>1, <3>2
  <2>4. TypeOK'
    BY <1>0, <2>1, <2>3, <2>3a
  <2>5. IsFiniteSet(sendSemaphore)' /\ SlotsAreOfSenders'
    BY <1>0, <2>3, SlotsUntouched
  <2>. QED
    BY <2>4, <2>5 DEF TypeAndSlots
<1>8. CASE Signal
  <2>1. TypeOK'
    BY <1>0, <1>8 DEF Signal
  <2>2. IsFiniteSet(sendSemaphore)' /\ SlotsAreOfSenders'
    BY <1>0, <1>8, SlotsUntouched DEF Signal
  <2>. QED
    BY <2>1, <2>2 DEF TypeAndSlots
<1>9. CASE Exit
  <2>1. IsFiniteSet({}) /\ Cardinality({}) = 0
    BY FS_EmptySet
  <2>2. ring' \in Seq(Events) /\ Len(ring') = 0
    BY <1>9 DEF Exit
  <2>3. state' \in [Events -> States] /\ \A e \in Events : state'[e] # "posting"
    BY <1>0, <1>9 DEF Exit
  <2>4. SlotsAreOfSenders'
    BY <1>9, <2>3 DEF Exit, SlotsAreOfSenders
  <2>5. TypeOK'
    BY <1>0, <1>9, <2>1, <2>2, <2>3 DEF Exit
  <2>. QED
    BY <1>9, <2>1, <2>4, <2>5 DEF Exit, TypeAndSlots
<1>10. CASE UNCHANGED vars
  BY <1>10 DEF vars, TypeAndSlots, SlotsAreOfSenders
<1>. QED
  BY <1>1, <1>2, <1>3, <1>4, <1>5, <1>6, <1>7, <1>8, <1>9, <1>10
     DEF Next, Goroutine

-----------------------------------------------------------------------------
(* The buffer holds exactly the buffered events.  A step that leaves both the
   buffer and the set of buffered events alone needs no more than that. *)
LEMMA RingUntouched ==
    ASSUME RingHolds, UNCHANGED ring,
           \A e \in Events : (state[e] = "buffered")' <=> state[e] = "buffered"
    PROVE  RingHolds'
BY DEF RingHolds

LEMMA RingStep == TypeOK /\ RingHolds /\ [Next]_vars => RingHolds'
<1>. SUFFICES ASSUME TypeOK, RingHolds, [Next]_vars
             PROVE  RingHolds'
  OBVIOUS
<1>0. ring \in Seq(Events) /\ state \in [Events -> States]
  BY DEF TypeOK
<1>1. ASSUME NEW e \in Events, Submit(e)
      PROVE  RingHolds'
  <2>1. ring' = Append(ring, e) /\ state' = [state EXCEPT ![e] = "buffered"]
        /\ state[e] = "none"
    BY <1>1 DEF Submit, Goto
  <2>2. \A i \in DOMAIN ring : ring[i] # e
    BY <1>0, <2>1 DEF RingHolds
  <2>3. \A i, j \in DOMAIN ring' : ring'[i] = ring'[j] => i = j
    BY <1>0, <2>1, <2>2, AppendKeepsDistinct DEF RingHolds
  <2>4. \A x \in Events : state'[x] = "buffered"
                              <=> \E i \in DOMAIN ring' : ring'[i] = x
    BY <1>0, <2>1, AppendRange DEF RingHolds
  <2>. QED
    BY <2>3, <2>4 DEF RingHolds
<1>2. CASE Read
  <2>1. /\ ring # <<>> /\ ring' = Tail(ring) /\ Head(ring) \in Events
        /\ state[Head(ring)] = "buffered"
        /\ state'[Head(ring)] # "buffered"
        /\ \A x \in Events \ {Head(ring)} : state'[x] = state[x]
    BY <1>0, <1>2, TailEvent DEF Read, Goto
  <2>2. \A i, j \in DOMAIN ring' : ring'[i] = ring'[j] => i = j
    BY <1>0, <2>1, TailInjective DEF RingHolds
  <2>3. \A x \in Events : (\E i \in DOMAIN ring' : ring'[i] = x)
            <=> (x # Head(ring) /\ \E i \in DOMAIN ring : ring[i] = x)
    <3>1. \A i, j \in DOMAIN ring : ring[i] = ring[j] => i = j
      BY DEF RingHolds
    <3>2. \A x : (\E i \in DOMAIN Tail(ring) : Tail(ring)[i] = x)
              <=> (x # Head(ring) /\ \E i \in DOMAIN ring : ring[i] = x)
      BY <1>0, <2>1, <3>1, TailInjective, Zenon
    <3>. QED
      BY <2>1, <3>2
  <2>4. \A x \in Events : state'[x] = "buffered"
                              <=> \E i \in DOMAIN ring' : ring'[i] = x
    BY <2>1, <2>3 DEF RingHolds
  <2>. QED
    BY <2>2, <2>4 DEF RingHolds
<1>3. ASSUME NEW e \in Events, Drop(e) \/ Unseen(e) \/ Goroutine(e)
      PROVE  RingHolds'
  <2>1. UNCHANGED ring
    BY <1>3 DEF Drop, Unseen, Goroutine, Filter, Acquire, Answered, Fail
  <2>2. \E to \in States \ {"buffered"} :
            state[e] # "buffered" /\ state' = [state EXCEPT ![e] = to]
    BY <1>3 DEF Drop, Unseen, Goroutine, Filter, Acquire, Answered, Fail, Goto,
                States, Ended, InGoroutine
  <2>. QED
    BY <1>0, <2>1, <2>2, RingUntouched
<1>4. ASSUME NEW e \in Events, Deliver(e) \/ Handle(e)
      PROVE  RingHolds'
  BY <1>4, RingUntouched DEF Deliver, Handle
<1>5. CASE Signal
  BY <1>5, RingUntouched DEF Signal
<1>6. CASE Exit
  <2>1. ring' = <<>> /\ \A e \in Events : state'[e] # "buffered"
    BY <1>0, <1>6 DEF Exit
  <2>. QED
    BY <2>1 DEF RingHolds
<1>7. CASE UNCHANGED vars
  BY <1>7, RingUntouched DEF vars
<1>. QED
  BY <1>1, <1>2, <1>3, <1>4, <1>5, <1>6, <1>7 DEF Next

(* What the reader takes is the next of what was submitted. *)
LEMMA SubmitGoesLast ==
    ASSUME NEW s \in Seq(Events), NEW t \in Seq(Events), NEW e \in Events
    PROVE  Append(s \o t, e) = s \o Append(t, e)
<1>1. s \o t \in Seq(Events) /\ <<e>> \in Seq(Events)
  BY ConcatProperties
<1>2. Append(s \o t, e) = (s \o t) \o <<e>> /\ Append(t, e) = t \o <<e>>
  BY <1>1, AppendIsConcat
<1>. QED
  BY <1>1, <1>2, ConcatAssociative

LEMMA TakenComesNext ==
    ASSUME NEW s \in Seq(Events), NEW t \in Seq(Events), t # <<>>
    PROVE  Append(s, Head(t)) \o Tail(t) = s \o t
<1>1. /\ Head(t) \in Events /\ Tail(t) \in Seq(Events)
      /\ <<Head(t)>> \in Seq(Events)
  BY HeadTailProperties
<1>2. t = <<Head(t)>> \o Tail(t)
  <2>1. Len(t) \in Nat \ {0} /\ SubSeq(t, 1, Len(t)) = t
    BY SubSeqFull, EmptySeq
  <2>2. SubSeq(t, 1, Len(t)) = <<t[1]>> \o SubSeq(t, 2, Len(t))
    BY <2>1, SubSeqRecursiveFirst
  <2>3. Tail(t) = SubSeq(t, 2, Len(t)) /\ Head(t) = t[1]
    BY TailIsSubSeq
  <2>. QED
    BY <2>1, <2>2, <2>3
<1>3. Append(s, Head(t)) = s \o <<Head(t)>>
  BY <1>1, AppendIsConcat
<1>. QED
  BY <1>1, <1>2, <1>3, ConcatAssociative

LEMMA OrderUntouched ==
    ASSUME TypeOK, SubmittedInOrder, UNCHANGED <<ring, order>>, agent' # "exited" => Alive,
           \A e \in Events :
              state[e] \notin {"none", "dropped", "unseen"}
                 => state'[e] \notin {"none", "dropped", "unseen"}
    PROVE  SubmittedInOrder'
<1>1. \A i \in DOMAIN submitted : submitted[i] \in Events
  BY DEF TypeOK
<1>. QED
  BY <1>1 DEF SubmittedInOrder, Alive, order

LEMMA OrderStep ==
    TypeOK /\ SubmittedInOrder /\ [Next]_vars => SubmittedInOrder'
<1>. SUFFICES ASSUME TypeOK, SubmittedInOrder, [Next]_vars
             PROVE  SubmittedInOrder'
  OBVIOUS
<1>0. /\ ring \in Seq(Events) /\ state \in [Events -> States]
      /\ submitted \in Seq(Events) /\ taken \in Seq(Events)
      /\ \A i \in DOMAIN submitted : submitted[i] \in Events
  BY DEF TypeOK
<1>1. ASSUME NEW e \in Events, Submit(e)
      PROVE  SubmittedInOrder'
  <2>1. /\ ring' = Append(ring, e) /\ state' = [state EXCEPT ![e] = "buffered"]
        /\ submitted' = Append(submitted, e) /\ taken' = taken
        /\ state[e] = "none" /\ agent' = agent /\ Alive
    BY <1>1 DEF Submit, Goto, Alive
  <2>2. submitted' = taken' \o ring'
    <3>1. submitted = taken \o ring
      BY <2>1 DEF SubmittedInOrder
    <3>2. Append(taken \o ring, e) = taken \o Append(ring, e)
      BY <1>0, SubmitGoesLast
    <3>. QED
      BY <2>1, <3>1, <3>2, Zenon
  <2>3. \A i \in DOMAIN submitted : submitted[i] # e
    BY <1>0, <2>1 DEF SubmittedInOrder
  <2>4. \A i, j \in DOMAIN submitted' : submitted'[i] = submitted'[j] => i = j
    BY <1>0, <2>1, <2>3, AppendKeepsDistinct DEF SubmittedInOrder
  <2>5. \A i \in DOMAIN submitted' :
           submitted'[i] = e \/ \E j \in DOMAIN submitted : submitted'[i] = submitted[j]
    BY <1>0, <2>1, AppendEvent
  <2>6. \A i \in DOMAIN submitted' :
           state'[submitted'[i]] \notin {"none", "dropped", "unseen"}
    BY <1>0, <2>1, <2>5 DEF SubmittedInOrder
  <2>. QED
    BY <2>2, <2>4, <2>6 DEF SubmittedInOrder
<1>2. CASE Read
  <2>1. /\ ring # <<>> /\ ring' = Tail(ring) /\ Head(ring) \in Events
        /\ taken' = Append(taken, Head(ring)) /\ submitted' = submitted
        /\ agent' = agent
        /\ state'[Head(ring)] \in {"skipped", "started"}
        /\ \A x \in Events \ {Head(ring)} : state'[x] = state[x]
    BY <1>0, <1>2, TailEvent DEF Read, Goto
  <2>2. taken' \o ring' = taken \o ring
    BY <1>0, <2>1, TakenComesNext
  <2>. QED
    BY <1>0, <2>1, <2>2 DEF SubmittedInOrder, Alive
<1>3. ASSUME NEW e \in Events, Drop(e) \/ Unseen(e) \/ Goroutine(e)
      PROVE  SubmittedInOrder'
  <2>1. UNCHANGED <<agent, ring, order>>
    BY <1>3 DEF Drop, Unseen, Goroutine, Filter, Acquire, Answered, Fail
  <2>2. \E to \in States :
            /\ state' = [state EXCEPT ![e] = to]
            /\ state[e] = "none" \/ to \notin {"none", "dropped", "unseen"}
    BY <1>3 DEF Drop, Unseen, Goroutine, Filter, Acquire, Answered, Fail, Goto,
                States, Ended, InGoroutine
  <2>. QED
    BY <1>0, <2>1, <2>2, OrderUntouched DEF Alive
<1>4. ASSUME NEW e \in Events, Deliver(e) \/ Handle(e)
      PROVE  SubmittedInOrder'
  BY <1>4, OrderUntouched DEF Deliver, Handle, Alive
<1>5. CASE Signal
  BY <1>5, OrderUntouched DEF Signal, Alive
<1>6. CASE Exit
  <2>1. /\ submitted' = submitted /\ agent' = "exited"
        /\ \A e \in Events : state'[e] \in {state[e], "killed"}
    BY <1>0, <1>6 DEF Exit, order
  <2>. QED
    BY <1>0, <2>1 DEF SubmittedInOrder, Alive
<1>7. CASE UNCHANGED vars
  BY <1>7, OrderUntouched DEF vars, Alive
<1>. QED
  BY <1>1, <1>2, <1>3, <1>4, <1>5, <1>6, <1>7 DEF Next

-----------------------------------------------------------------------------
(* How often an event was posted. *)
LEMMA PostsStep == TypeOK /\ PostsByState /\ [Next]_vars => PostsByState'
<1>. SUFFICES ASSUME TypeOK, PostsByState, [Next]_vars
             PROVE  PostsByState'
  OBVIOUS
<1>. USE DEF PostsByState, InGoroutine
<1>0. ring \in Seq(Events) /\ state \in [Events -> States]
      /\ posts \in [Events -> Nat]
  BY DEF TypeOK
<1>1. ASSUME NEW e \in Events, Submit(e) \/ Drop(e) \/ Unseen(e)
      PROVE  PostsByState'
  BY <1>0, <1>1 DEF Submit, Drop, Unseen, Goto
<1>2. CASE Read
  <2>1. Head(ring) \in Events
    BY <1>0, <1>2, TailEvent DEF Read
  <2>. QED
    BY <1>0, <1>2, <2>1 DEF Read, Goto
<1>3. ASSUME NEW e \in Events, Filter(e)
      PROVE  PostsByState'
  BY <1>0, <1>3 DEF Filter, Goto
<1>4. ASSUME NEW e \in Events, Acquire(e)
      PROVE  PostsByState'
  <2>1. /\ state[e] = "waiting"
        /\ state' = [state EXCEPT ![e] = "posting"]
        /\ posts' = [posts EXCEPT ![e] = posts[e] + 1]
    BY <1>4 DEF Acquire, Goto
  <2>2. posts[e] = 0 /\ e \notin SelfEvents \cup Whitelisted
    BY <2>1
  <2>3. state'[e] = "posting" /\ posts'[e] = 1
    BY <1>0, <2>1, <2>2
  <2>4. \A x \in Events \ {e} : state'[x] = state[x] /\ posts'[x] = posts[x]
    BY <1>0, <2>1
  <2>. QED
    BY <2>2, <2>3, <2>4
<1>5. ASSUME NEW e \in Events, Answered(e) \/ Fail(e)
      PROVE  PostsByState'
  BY <1>0, <1>5 DEF Answered, Fail, Goto
<1>6. ASSUME NEW e \in Events, Deliver(e) \/ Handle(e)
      PROVE  PostsByState'
  BY <1>6 DEF Deliver, Handle
<1>7. CASE Signal
  BY <1>7 DEF Signal
<1>8. CASE Exit
  BY <1>0, <1>8 DEF Exit
<1>9. CASE UNCHANGED vars
  BY <1>9 DEF vars
<1>. QED
  BY <1>1, <1>2, <1>3, <1>4, <1>5, <1>6, <1>7, <1>8, <1>9 DEF Next, Goroutine

-----------------------------------------------------------------------------
(* What the server has of an event, and what the agent was told. *)
LEMMA RequestsStep ==
    IInv /\ [Next]_vars => RequestsArePosts' /\ RecordedAtMostOnce'
<1>. SUFFICES ASSUME IInv, [Next]_vars
             PROVE  RequestsArePosts' /\ RecordedAtMostOnce'
  OBVIOUS
<1>. USE DEF RequestsArePosts, RecordedAtMostOnce
<1>0. /\ state \in [Events -> States] /\ posts \in [Events -> Nat]
      /\ recorded \in Seq(Events) /\ pending \in SUBSET Events
      /\ RequestsArePosts /\ RecordedAtMostOnce /\ PostsByState
      /\ Reported = {e \in Events : \E i \in DOMAIN recorded : recorded[i] = e}
  BY DEF IInv, TypeOK, Reported, Promise!Arrived
<1>1. ASSUME UNCHANGED <<posts, pending, recorded>>,
             \A e \in Events :
                 state'[e] = "answered" => state[e] = "answered" \/ e \in Reported
      PROVE  RequestsArePosts' /\ RecordedAtMostOnce'
  BY <1>0, <1>1 DEF Reported, Promise!Arrived
<1>2. ASSUME NEW e \in Events, Submit(e) \/ Drop(e) \/ Unseen(e) \/ Filter(e)
      PROVE  RequestsArePosts' /\ RecordedAtMostOnce'
  BY <1>0, <1>1, <1>2 DEF Submit, Drop, Unseen, Filter, Goto
<1>3. CASE Read
  BY <1>0, <1>1, <1>3 DEF Read, Goto
<1>4. ASSUME NEW e \in Events, Acquire(e)
      PROVE  RequestsArePosts' /\ RecordedAtMostOnce'
  <2>1. /\ state[e] = "waiting" /\ posts[e] = 0
        /\ state' = [state EXCEPT ![e] = "posting"]
        /\ \A x \in Events \ {e} : posts'[x] = posts[x]
        /\ UNCHANGED <<pending, recorded>>
    <3>1. /\ state[e] = "waiting"
          /\ state' = [state EXCEPT ![e] = "posting"]
          /\ posts' = [posts EXCEPT ![e] = @ + 1]
          /\ UNCHANGED <<pending, recorded>>
      BY <1>4 DEF Acquire, Goto
    <3>2. posts[e] = 0
      BY <1>0, <3>1 DEF PostsByState
    <3>. QED
      BY <1>0, <3>1, <3>2
  <2>2. e \notin pending /\ \A i \in DOMAIN recorded : recorded[i] # e
    BY <1>0, <2>1
  <2>3. \A i \in DOMAIN recorded : recorded[i] \in Events
    BY <1>0
  <2>4. (\A x \in pending : posts[x] = 1)'
    BY <1>0, <2>1, <2>2
  <2>5. (\A i \in DOMAIN recorded :
            posts[recorded[i]] = 1 /\ recorded[i] \notin pending)'
    BY <1>0, <2>1, <2>2, <2>3
  <2>6. (\A x \in Events : state[x] = "answered" => x \in Reported)'
    BY <1>0, <2>1 DEF Reported, Promise!Arrived
  <2>. QED
    BY <1>0, <2>1, <2>4, <2>5, <2>6
<1>5. ASSUME NEW e \in Events, Answered(e) \/ Fail(e)
      PROVE  RequestsArePosts' /\ RecordedAtMostOnce'
  BY <1>0, <1>1, <1>5 DEF Answered, Fail, Goto
<1>6. ASSUME NEW e \in Events, Deliver(e)
      PROVE  RequestsArePosts' /\ RecordedAtMostOnce'
  <2>1. posts[e] = 1 /\ \A i \in DOMAIN recorded : recorded[i] # e
    BY <1>6, DeliverableIsNew
  <2>2. pending' = pending \cup {e} /\ UNCHANGED <<state, recorded, posts>>
    BY <1>6 DEF Deliver
  <2>. QED
    BY <1>0, <2>1, <2>2 DEF Reported, Promise!Arrived
<1>7. ASSUME NEW e \in Events, Handle(e)
      PROVE  RequestsArePosts' /\ RecordedAtMostOnce'
  <2>1. /\ e \in pending /\ pending' = pending \ {e}
        /\ recorded' = Append(recorded, e) /\ UNCHANGED <<state, posts>>
    BY <1>7 DEF Handle
  <2>2. posts[e] = 1 /\ \A i \in DOMAIN recorded : recorded[i] # e
    BY <1>0, <2>1
  <2>3. RecordedAtMostOnce'
    BY <1>0, <2>1, <2>2, AppendKeepsDistinct
  <2>4. (\A i \in DOMAIN recorded :
            posts[recorded[i]] = 1 /\ recorded[i] \notin pending)'
    BY <1>0, <2>1, <2>2, AppendEvent
  <2>5. (\A x \in Events : state[x] = "answered" => x \in Reported)'
    BY <1>0, <2>1, AppendRange DEF Reported, Promise!Arrived
  <2>6. (\A x \in pending : posts[x] = 1)'
    BY <1>0, <2>1
  <2>. QED
    BY <2>3, <2>4, <2>5, <2>6
<1>8. CASE Signal
  BY <1>0, <1>1, <1>8 DEF Signal
<1>9. CASE Exit
  BY <1>0, <1>1, <1>9 DEF Exit
<1>10. CASE UNCHANGED vars
  BY <1>0, <1>1, <1>10 DEF vars
<1>. QED
  BY <1>2, <1>3, <1>4, <1>5, <1>6, <1>7, <1>8, <1>9, <1>10 DEF Next, Goroutine

LEMMA IInvInit == Init => IInv
<1>. SUFFICES ASSUME Init PROVE IInv
  OBVIOUS
<1>1. TypeAndSlots
  BY TypeAndSlotsInit
<1>2. /\ RingHolds /\ PostsByState
      /\ RequestsArePosts /\ RecordedAtMostOnce
  BY DEF Init, RingHolds, PostsByState, RequestsArePosts,
         RecordedAtMostOnce, InGoroutine
<1>3. SubmittedInOrder
  <2>1. <<>> \o <<>> = <<>>
    BY ConcatEmptySeq
  <2>. QED
    BY <2>1 DEF Init, SubmittedInOrder
<1>. QED
  BY <1>1, <1>2, <1>3 DEF IInv, TypeAndSlots

LEMMA Invariance == Spec => []IInv
<1>1. IInv /\ [Next]_vars => IInv'
  BY TypeAndSlotsStep, RingStep, OrderStep, PostsStep, RequestsStep
     DEF IInv, TypeAndSlots
<1>. QED
  BY <1>1, IInvInit, PTL DEF Spec

-----------------------------------------------------------------------------
(* Every variable keeps its type; no more events wait than the buffer holds
   and no more goroutines post than there are slots. *)
THEOREM TypeCorrect == Spec => []TypeOK
BY Invariance, PTL DEF IInv

(* The slots taken are those of the goroutines that post. *)
THEOREM SlotsComeBack == Spec => []SlotsAreOfSenders
BY Invariance, PTL DEF IInv

(* The agent takes the events in the order the probes submitted them, each
   once and with none left out. *)
THEOREM RingIsExact == Spec => []RingIsBuffered
<1>1. IInv => RingIsBuffered
  BY DEF IInv, RingHolds, SubmittedInOrder, RingIsBuffered
<1>. QED
  BY <1>1, Invariance, PTL

(* The server sees no event twice. *)
THEOREM AtMostOnce == Spec => []RecordedAtMostOnce
BY Invariance, PTL DEF IInv

(* The agent does not report itself, nor what is whitelisted. *)
THEOREM NoFeedbackLoop == Spec => []NoFeedback
<1>1. IInv => NoFeedback
  <2>. SUFFICES ASSUME IInv, NEW i \in DOMAIN recorded
               PROVE  recorded[i] \notin SelfEvents \cup Whitelisted
    BY DEF NoFeedback
  <2>1. recorded[i] \in Events /\ posts[recorded[i]] = 1
    BY DEF IInv, TypeOK, RequestsArePosts
  <2>. QED
    BY <2>1 DEF IInv, PostsByState
<1>. QED
  BY <1>1, Invariance, PTL

-----------------------------------------------------------------------------
(***************************************************************************)
(* The refinement.  Outcomes is the mapped status; a step changes the      *)
(* outcome of at most one event, except Exit, which ends all of them.      *)
(***************************************************************************)
Outcomes == [e \in Events |-> Status(e)]

LEMMA OutcomeMoves ==
    ASSUME NEW e \in Events, NEW to \in States, state \in [Events -> States],
           state' = [state EXCEPT ![e] = to],
           \A x \in Events \ {e} : posts'[x] = posts[x]
    PROVE  Outcomes' = [Outcomes EXCEPT ![e] = Status(e)']
<1>1. \A x \in Events \ {e} : state'[x] = state[x]
  OBVIOUS
<1>2. \A x \in Events \ {e} : Status(x)' = Status(x)
  BY <1>1 DEF Status
<1>. QED
  BY <1>2 DEF Outcomes

LEMMA StepRefines ==
    IInv /\ [Next]_vars => [Promise!Next]_(Promise!vars)
<1>. SUFFICES ASSUME IInv, [Next]_vars
             PROVE  Promise!Next \/ UNCHANGED Promise!vars
  OBVIOUS
<1>0. /\ state \in [Events -> States] /\ posts \in [Events -> Nat]
      /\ ring \in Seq(Events)
      /\ PostsByState /\ RequestsArePosts /\ RecordedAtMostOnce
  BY DEF IInv, TypeOK
<1>. USE DEF Promise!Next, Promise!vars
<1>1. ASSUME UNCHANGED <<state, posts, recorded>>
      PROVE  UNCHANGED Promise!vars
  BY <1>1 DEF Status
<1>2. ASSUME NEW e \in Events, NEW from, NEW to \in States,
             Goto(e, from, to), UNCHANGED <<posts, recorded>>
      PROVE  /\ state[e] = from
             /\ Outcomes' = [Outcomes EXCEPT ![e] = Status(e)']
             /\ state'[e] = to
             /\ UNCHANGED recorded
  BY <1>0, <1>2, OutcomeMoves DEF Goto
<1>same. ASSUME NEW e \in Events, UNCHANGED recorded, Status(e)' = Status(e),
              Outcomes' = [Outcomes EXCEPT ![e] = Status(e)']
       PROVE  UNCHANGED Promise!vars
  <2>1. Outcomes' = Outcomes
    BY <1>same DEF Outcomes
  <2>. QED
    BY <1>same, <2>1 DEF Outcomes
<1>3. ASSUME NEW e \in Events, Submit(e)
      PROVE  Promise!Next
  <2>1. /\ state[e] = "none" /\ state'[e] = "buffered"
        /\ Outcomes' = [Outcomes EXCEPT ![e] = Status(e)']
        /\ UNCHANGED recorded
    BY <1>2, <1>3 DEF Submit, States
  <2>2. Promise!Notice(e)
    BY <2>1 DEF Promise!Notice, Promise!Becomes, Outcomes, Status
  <2>. QED
    BY <2>2
<1>4. ASSUME NEW e \in Events, Drop(e) \/ Unseen(e)
      PROVE  Promise!Next
  <2>1. /\ state[e] = "none" /\ state'[e] \in {"dropped", "unseen"}
        /\ Outcomes' = [Outcomes EXCEPT ![e] = Status(e)']
        /\ UNCHANGED recorded
    BY <1>2, <1>4 DEF Drop, Unseen, States, Ended
  <2>2. Promise!Lose(e)
    BY <2>1 DEF Promise!Lose, Promise!Becomes, Outcomes, Status
  <2>. QED
    BY <2>2
<1>5. CASE Read
  <2>1. PICK e \in Events : e = Head(ring)
    BY <1>0, <1>5, TailEvent DEF Read
  <2>2. /\ state[e] = "buffered" /\ state'[e] \in {"skipped", "started"}
        /\ Outcomes' = [Outcomes EXCEPT ![e] = Status(e)']
        /\ UNCHANGED recorded
    <3>1. PICK to \in {"skipped", "started"} : Goto(e, "buffered", to)
      BY <1>5, <2>1 DEF Read
    <3>2. to \in States /\ UNCHANGED <<posts, recorded>>
      BY <1>5 DEF Read, States, Ended, InGoroutine
    <3>. QED
      BY <1>2, <3>1, <3>2
  <2>3. CASE state'[e] = "skipped"
    <3>1. Promise!Lose(e)
      BY <2>1, <2>2, <2>3 DEF Promise!Lose, Promise!Becomes, Outcomes, Status
    <3>. QED
      BY <2>1, <3>1
  <2>4. CASE state'[e] = "started"
    BY <1>same, <2>1, <2>2, <2>4 DEF Status
  <2>. QED
    BY <2>2, <2>3, <2>4
<1>6. ASSUME NEW e \in Events, Filter(e)
      PROVE  Promise!Next \/ UNCHANGED Promise!vars
  <2>1. /\ state[e] = "started" /\ state'[e] \in {"filtered", "waiting"}
        /\ Outcomes' = [Outcomes EXCEPT ![e] = Status(e)']
        /\ UNCHANGED recorded
    BY <1>2, <1>6 DEF Filter, States, Ended, InGoroutine
  <2>2. CASE state'[e] = "filtered"
    <3>1. Promise!Lose(e)
      BY <2>1, <2>2 DEF Promise!Lose, Promise!Becomes, Outcomes, Status
    <3>. QED
      BY <3>1
  <2>3. CASE state'[e] = "waiting"
    BY <1>same, <2>1, <2>3 DEF Status
  <2>. QED
    BY <2>1, <2>2, <2>3
<1>7. ASSUME NEW e \in Events, Acquire(e)
      PROVE  Promise!Next
  <2>1. /\ state[e] = "waiting" /\ posts[e] = 0
        /\ state' = [state EXCEPT ![e] = "posting"]
        /\ \A x \in Events \ {e} : posts'[x] = posts[x]
        /\ UNCHANGED recorded
    BY <1>0, <1>7 DEF Acquire, Goto, PostsByState
  <2>2. e \notin SelfEvents \cup Whitelisted
    BY <1>0, <2>1 DEF PostsByState, InGoroutine
  <2>3. Outcomes' = [Outcomes EXCEPT ![e] = Status(e)'] /\ state'[e] = "posting"
    BY <1>0, <2>1, OutcomeMoves DEF States, InGoroutine
  <2>4. Promise!Post(e)
    BY <2>1, <2>2, <2>3 DEF Promise!Post, Promise!Becomes, Outcomes, Status
  <2>. QED
    BY <2>4
<1>8. ASSUME NEW e \in Events, Answered(e)
      PROVE  Promise!Next
  <2>1. /\ state[e] = "posting" /\ state'[e] = "answered"
        /\ Outcomes' = [Outcomes EXCEPT ![e] = Status(e)']
        /\ UNCHANGED recorded
    BY <1>2, <1>8 DEF Answered, States, Ended
  <2>2. Promise!Tell(e)
    BY <1>8, <2>1 DEF Answered, Promise!Tell, Promise!Becomes,
                      Promise!Arrived, Outcomes, Status
  <2>. QED
    BY <2>2
<1>9. ASSUME NEW e \in Events, Fail(e)
      PROVE  Promise!Next
  <2>1. /\ state[e] = "posting" /\ state'[e] = "failed"
        /\ Outcomes' = [Outcomes EXCEPT ![e] = Status(e)']
        /\ UNCHANGED recorded
    BY <1>2, <1>9 DEF Fail, States, Ended
  <2>2. Promise!Doubt(e)
    BY <2>1 DEF Promise!Doubt, Promise!Becomes, Outcomes, Status
  <2>. QED
    BY <2>2
<1>10. ASSUME NEW e \in Events, Deliver(e)
       PROVE  UNCHANGED Promise!vars
  BY <1>1, <1>10 DEF Deliver
<1>11. ASSUME NEW e \in Events, Handle(e)
       PROVE  Promise!Next
  <2>1. /\ e \in pending /\ recorded' = Append(recorded, e)
        /\ UNCHANGED <<state, posts>>
    BY <1>11 DEF Handle
  <2>2. posts[e] = 1 /\ \A i \in DOMAIN recorded : recorded[i] # e
    BY <1>0, <2>1 DEF RequestsArePosts
  <2>3. state[e] \in {"posting", "answered", "failed", "killed"}
        /\ state[e] # "answered"
    BY <1>0, <2>2 DEF PostsByState, RequestsArePosts, Reported, Promise!Arrived
  <2>4. Promise!Arrive(e)
    BY <2>1, <2>2, <2>3 DEF Promise!Arrive, Promise!Arrived, Status
  <2>. QED
    BY <2>4
<1>12. CASE Signal
  BY <1>1, <1>12 DEF Signal
<1>13. CASE Exit
  <2>1. /\ \A e \in Events :
              state'[e] = IF state[e] \in InGoroutine \cup {"buffered"}
                          THEN "killed" ELSE state[e]
        /\ UNCHANGED <<recorded, posts>>
    BY <1>13 DEF Exit
  <2>2. ASSUME NEW e \in Events
        PROVE  Status(e)' = CASE Status(e) = "open"   -> "lost"
                              [] Status(e) = "posted" -> "unsure"
                              [] OTHER                -> Status(e)
    <3>1. CASE state[e] \in {"buffered", "started", "waiting"}
      BY <1>0, <2>1, <3>1 DEF Status, PostsByState, InGoroutine
    <3>2. CASE state[e] = "posting"
      BY <1>0, <2>1, <3>2 DEF Status, PostsByState, InGoroutine
    <3>3. CASE state[e] \notin InGoroutine \cup {"buffered"}
      <4>1. Status(e)' = Status(e)
        BY <2>1, <3>3 DEF Status
      <4>2. Status(e) \notin {"open", "posted"}
        BY <3>3 DEF Status, InGoroutine
      <4>. QED
        BY <4>1, <4>2
    <3>. QED
      BY <3>1, <3>2, <3>3 DEF InGoroutine
  <2>3. Promise!Leave
    BY <2>1, <2>2 DEF Promise!Leave
  <2>. QED
    BY <2>3
<1>14. CASE UNCHANGED vars
  BY <1>1, <1>14 DEF vars
<1>. QED
  BY <1>3, <1>4, <1>5, <1>6, <1>7, <1>8, <1>9, <1>10, <1>11, <1>12, <1>13,
     <1>14 DEF Next, Goroutine

(* The whole way from probe to server implements at-most-once delivery with
   truthful outcomes. *)
THEOREM CollectorDelivers == Spec => DeliversAtMostOnce
<1>1. Init => Promise!Init
  BY DEF Init, Promise!Init, Status
<1>. QED
  BY <1>1, StepRefines, Invariance, PTL DEF Spec, DeliversAtMostOnce, Promise!Spec

=============================================================================
