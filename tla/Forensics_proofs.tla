--------------------------- MODULE Forensics_proofs ---------------------------
(***************************************************************************)
(* Proofs about Retention and Forensics, for any number of keys, any       *)
(* zones, windows and bounds.                                              *)
(***************************************************************************)
EXTENDS Forensics, FiniteSetTheorems, TLAPS

(* Sets of keys can be counted. *)
LEMMA CountIsNat ==
    ASSUME NEW S \in SUBSET Keys
    PROVE  IsFiniteSet(S) /\ Cardinality(S) \in Nat
BY FiniteAssumption, FS_Subset, FS_CardinalityType

LEMMA CountGrows ==
    ASSUME NEW S \in SUBSET Keys, NEW T \in SUBSET Keys, S \subseteq T
    PROVE  Cardinality(S) <= Cardinality(T)
BY CountIsNat, FS_Subset

(* A set is larger than another by no more than what it has beyond it. *)
LEMMA CountExceedsBy ==
    ASSUME NEW S \in SUBSET Keys, NEW T \in SUBSET Keys, NEW D \in SUBSET Keys,
           S \subseteq T \cup D
    PROVE  Cardinality(S) <= Cardinality(T) + Cardinality(D)
<1>1. IsFiniteSet(T) /\ IsFiniteSet(D) /\ IsFiniteSet(T \cap D)
  BY CountIsNat
<1>2. Cardinality(T \cup D)
        = Cardinality(T) + Cardinality(D) - Cardinality(T \cap D)
  BY <1>1, FS_Union
<1>3. Cardinality(S) <= Cardinality(T \cup D)
  BY CountGrows
<1>4. /\ Cardinality(T) \in Nat /\ Cardinality(D) \in Nat
      /\ Cardinality(T \cap D) \in Nat /\ Cardinality(S) \in Nat
      /\ Cardinality(T \cup D) \in Nat
  BY CountIsNat
<1> QED BY <1>2, <1>3, <1>4

LEMMA CountsAreNear ==
    ASSUME NEW S \in SUBSET Keys, NEW T \in SUBSET Keys, NEW D \in SUBSET Keys,
           \A k \in Keys \ D : k \in S <=> k \in T
    PROVE  Cardinality(S) - Cardinality(T)
               \in -Cardinality(D) .. Cardinality(D)
<1>1. Cardinality(S) <= Cardinality(T) + Cardinality(D)
  <2>1. S \subseteq T \cup D OBVIOUS
  <2> QED BY <2>1, CountExceedsBy
<1>2. Cardinality(T) <= Cardinality(S) + Cardinality(D)
  <2>1. T \subseteq S \cup D OBVIOUS
  <2> QED BY <2>1, CountExceedsBy
<1>3. /\ Cardinality(S) \in Nat /\ Cardinality(T) \in Nat
      /\ Cardinality(D) \in Nat
  BY CountIsNat
<1> QED BY <1>1, <1>2, <1>3

-----------------------------------------------------------------------------
(* The table keeps its types. *)
LEMMA TableTypeInit == TInit => TableTypeOK
<1> SUFFICES ASSUME TInit PROVE TableTypeOK
  OBVIOUS
<1>1. now \in 0 .. MaxNow /\ nextCleanup \in 0 .. MaxNow + Day
  BY TimeAssumption DEF TInit
<1>2. zone \in Zones /\ up \in BOOLEAN /\ skipped \in BOOLEAN
  BY DEF TInit
<1>3. rows \in [Keys -> Row \cup {NoRow}]
  BY DEF TInit
<1>4. written \in [Keys -> 0 .. MaxNow]
  BY TimeAssumption DEF TInit
<1> QED BY <1>1, <1>2, <1>3, <1>4 DEF TableTypeOK

LEMMA TableTypeNext == TableTypeOK /\ TNext => TableTypeOK'
<1> SUFFICES ASSUME TableTypeOK, TNext PROVE TableTypeOK'
  OBVIOUS
<1> USE TimeAssumption DEF TableTypeOK, clock
<1>1. CASE \E k \in Keys : InsertEvent(k)
  <2>1. PICK k \in Keys : InsertEvent(k) BY <1>1
  <2>2. RiskAt[k][now] \in Risks
    BY <2>1
  <2>3. Upsert(k) \in Row
    BY <2>2 DEF Upsert, Row
  <2>4. rows' \in [Keys -> Row \cup {NoRow}]
    BY <2>1, <2>3 DEF InsertEvent
  <2>5. written' \in [Keys -> 0 .. MaxNow]
    BY <2>1 DEF InsertEvent
  <2> QED BY <2>1, <2>4, <2>5 DEF InsertEvent
<1>2. CASE Cleanup
  <2>1. rows' \in [Keys -> Row \cup {NoRow}]
    BY <1>2 DEF Cleanup
  <2>2. written' \in [Keys -> 0 .. MaxNow]
    BY <1>2 DEF Cleanup
  <2>3. nextCleanup' \in 0 .. MaxNow + Day
    BY <1>2 DEF Cleanup
  <2>4. UNCHANGED <<now, zone, up>> /\ skipped' = FALSE
    BY <1>2 DEF Cleanup
  <2>5. now' \in 0 .. MaxNow /\ zone' \in Zones
        /\ up' \in BOOLEAN /\ skipped' \in BOOLEAN
    BY <2>4
  <2> QED BY <2>1, <2>2, <2>3, <2>5 DEF TableTypeOK
<1>3. CASE CleanupError
  BY <1>3 DEF CleanupError
<1>4. CASE Tick
  BY <1>4 DEF Tick
<1>5. CASE Crash
  BY <1>5 DEF Crash
<1>6. CASE Restart
  <2>1. nextCleanup' \in 0 .. MaxNow + Day
    BY <1>6 DEF Restart
  <2>2. UNCHANGED <<now, zone, rows, written>> /\ up' = TRUE /\ skipped' = FALSE
    BY <1>6 DEF Restart
  <2> QED BY <2>1, <2>2
<1> QED BY <1>1, <1>2, <1>3, <1>4, <1>5, <1>6 DEF TNext

(* created_at is the time of the last write, and a row that the last cleanup
   of this process left was young then. *)
RowsAreDated == \A k \in Present : rows[k].created = written[k]

SurvivorsAreYoung ==
    /\ nextCleanup <= now + Day
    /\ (up /\ now < nextCleanup /\ ~skipped) =>
          \A k \in Present : written[k] > nextCleanup - 2 * Day + zone

TInv == TableTypeOK /\ RowsAreDated /\ SurvivorsAreYoung

LEMMA TInvInit == TInit => TInv
BY TableTypeInit, TimeAssumption
   DEF TInit, TInv, RowsAreDated, SurvivorsAreYoung, Present, TableTypeOK

LEMMA TInvNext == TInv /\ TNext => TInv'
<1> SUFFICES ASSUME TInv, TNext PROVE TInv'
  OBVIOUS
<1>0. TableTypeOK /\ TableTypeOK'
  BY TableTypeNext DEF TInv
<1>z. zone \in Int /\ zone < Day /\ -Day < zone /\ Day \in Nat /\ now \in Nat
      /\ nextCleanup \in Nat
  BY <1>0, TimeAssumption DEF TableTypeOK
<1>1. CASE \E k \in Keys : InsertEvent(k)
  <2>1. PICK k \in Keys : InsertEvent(k) BY <1>1
  <2>2. \A q \in Keys : q # k => rows'[q] = rows[q] /\ written'[q] = written[q]
    BY <2>1, <1>0 DEF InsertEvent, TableTypeOK
  <2>3. rows'[k] = Upsert(k) /\ written'[k] = now
    BY <2>1, <1>0 DEF InsertEvent, TableTypeOK
  <2>4. RowsAreDated'
    BY <2>2, <2>3 DEF RowsAreDated, Present, TInv, Upsert
  <2>5. SurvivorsAreYoung'
    BY <2>1, <2>2, <2>3, <1>z
       DEF SurvivorsAreYoung, Present, TInv, InsertEvent, clock
  <2> QED BY <2>4, <2>5, <1>0 DEF TInv
<1>2. CASE Cleanup
  <2>1. \A q \in Present' : /\ q \in Present \ OldEvents
                            /\ rows'[q] = rows[q] /\ written'[q] = written[q]
    BY <1>2, <1>0 DEF Cleanup, TableTypeOK, Present
  <2>2. RowsAreDated'
    BY <2>1 DEF RowsAreDated, TInv
  <2>3. \A q \in Present' : written'[q] > now - Day + zone
    <3> SUFFICES ASSUME NEW q \in Present'
                 PROVE  written'[q] > now - Day + zone
      OBVIOUS
    <3>1. q \in Keys /\ ~(rows[q].created <= now - Day + zone)
      BY <2>1 DEF OldEvents, BeforeTime, Present
    <3>2. rows[q].created = written[q] /\ written[q] \in Nat
      BY <2>1, <3>1, <1>0, TimeAssumption DEF TInv, RowsAreDated, TableTypeOK
    <3> QED BY <3>1, <3>2, <2>1, <1>z
  <2>4. nextCleanup' = now + Day /\ now' = now /\ zone' = zone
    BY <1>2 DEF Cleanup
  <2>5. nextCleanup' - 2 * Day + zone' = now - Day + zone
    BY <2>4, <1>z
  <2>6. SurvivorsAreYoung'
    BY <2>3, <2>4, <2>5, <1>z DEF SurvivorsAreYoung
  <2> QED BY <2>2, <2>6, <1>0 DEF TInv
<1>3. CASE CleanupError
  BY <1>3, <1>0, <1>z
     DEF CleanupError, TInv, RowsAreDated, SurvivorsAreYoung, Present
<1>4. CASE Tick
  BY <1>4, <1>0, <1>z
     DEF Tick, TInv, RowsAreDated, SurvivorsAreYoung, Present
<1>5. CASE Crash
  BY <1>5, <1>0, <1>z
     DEF Crash, TInv, RowsAreDated, SurvivorsAreYoung, Present
<1>6. CASE Restart
  BY <1>6, <1>0, <1>z
     DEF Restart, TInv, RowsAreDated, SurvivorsAreYoung, Present
<1> QED BY <1>1, <1>2, <1>3, <1>4, <1>5, <1>6 DEF TNext

(* Requests leave the table alone. *)
LEMMA StepIsTableOrRequest ==
    [Next]_vars => (TNext /\ Meanwhile) \/ UNCHANGED tvars
BY DEF Next, vars, Meanwhile, Begin, Forget, Fail, GenerateReport,
       GetEventStatistics, GetEventByID, GetProcessTimeline,
       GetProcessTimelineCut, GetParent, GetParentNone, GetParentError,
       GetChildren, ProcessStatistics, CountTotal, CountFiles, CountNetwork,
       CountTypes, CountAll, CountRisks, CountAllTypes, CountLast24,
       CountAgents, GetChildrenCut, CountTypesCut, CountRisksCut,
       CountAllTypesCut, CountAgentsCut, Gather, GatherOneOf, GatherCut,
       Statement

LEMMA TInvStep == TInv /\ [Next]_vars => TInv'
<1> SUFFICES ASSUME TInv, [Next]_vars PROVE TInv'
  OBVIOUS
<1>1. CASE TNext
  BY <1>1, TInvNext
<1>2. CASE UNCHANGED tvars
  BY <1>2 DEF TInv, TableTypeOK, RowsAreDated, SurvivorsAreYoung, Present, tvars
<1> QED BY <1>1, <1>2, StepIsTableOrRequest

LEMMA TableInvariant == Spec => []TInv
<1>1. Init => TInv
  BY TInvInit DEF Init
<1> QED BY <1>1, TInvStep, PTL DEF Spec

(* A running server whose cleanups succeed keeps no row two days after its
   last event, up to its zone. *)
THEOREM RowsGoAfterTwoDays == Spec => []GoneAfterTwoDays
<1>1. TInv => GoneAfterTwoDays
  <2> SUFFICES ASSUME TInv, up, now < nextCleanup, ~skipped,
                      NEW k \in Present
               PROVE  now - written[k] < 2 * Day - zone
    BY DEF GoneAfterTwoDays
  <2>1. written[k] > nextCleanup - 2 * Day + zone
    BY DEF TInv, SurvivorsAreYoung
  <2>2. /\ zone \in Int /\ Day \in Nat /\ now \in Nat /\ nextCleanup \in Nat
        /\ written[k] \in Nat
    BY TimeAssumption DEF TInv, TableTypeOK, Present
  <2> QED BY <2>1, <2>2
<1> QED BY <1>1, TableInvariant, PTL

(* No row is deleted within a day of its last event, up to the zone. *)
THEOREM RowsStayADay == Spec => KeptADay
<1>1. TInv /\ [Next]_vars =>
        [\A k \in Keys : (rows[k] # NoRow /\ rows'[k] = NoRow) =>
            now - written[k] >= Day - zone]_tvars
  <2> SUFFICES ASSUME TInv, TNext, NEW k \in Keys,
                      rows[k] # NoRow, rows'[k] = NoRow
               PROVE  now - written[k] >= Day - zone
    BY StepIsTableOrRequest
  <2>1. TableTypeOK BY DEF TInv
  <2>2. k \in Present BY DEF Present
  <2>3. ~ \E q \in Keys : InsertEvent(q)
    <3> SUFFICES ASSUME NEW q \in Keys, InsertEvent(q) PROVE FALSE
      OBVIOUS
    <3>1. rows' = [rows EXCEPT ![q] = Upsert(q)]
      BY DEF InsertEvent
    <3>2. k = q /\ Upsert(q) = NoRow
      BY <3>1, <2>1 DEF TableTypeOK
    <3>3. Upsert(q) \in Row
      <4>1. RiskAt[q][now] \in Risks BY <2>1, TimeAssumption DEF TableTypeOK
      <4> QED BY <4>1, <2>1, TimeAssumption DEF Upsert, Row, TableTypeOK
    <3> QED BY <3>2, <3>3, NoRowIsNoRow
  <2>4. Cleanup
    BY <2>3 DEF TNext, CleanupError, Tick, Crash, Restart
  <2>5. k \in OldEvents
    BY <2>4 DEF Cleanup
  <2>6. rows[k].created <= now - Day + zone
    BY <2>5 DEF OldEvents, BeforeTime
  <2>7. rows[k].created = written[k]
    BY <2>2 DEF TInv, RowsAreDated
  <2>8. written[k] \in Nat /\ now \in Nat /\ Day \in Nat /\ zone \in Int
    BY <2>1, TimeAssumption DEF TableTypeOK
  <2> QED BY <2>6, <2>7, <2>8
<1> QED BY <1>1, TableInvariant, PTL DEF Spec, KeptADay

-----------------------------------------------------------------------------
(* The request keeps its types. *)
LEMMA PresentAreKeys == Present \subseteq Keys /\ History \subseteq Keys
BY DEF Present, History, HistoryIn

LEMMA RowsReadAreRows ==
    ASSUME TableTypeOK, NEW k \in Present
    PROVE  rows[k] \in Row /\ rows[k].ts \in Int
BY DEF TableTypeOK, Present, Row

(* The numbers a statement reads are natural. *)
LEMMA CountsAreNat ==
    /\ Cardinality(Present) \in Nat
    /\ Cardinality(History) \in Nat
    /\ Cardinality({k \in History : Event[k].target \in Files}) \in Nat
    /\ Cardinality({k \in History : Event[k].type \in Network}) \in Nat
    /\ Cardinality({k \in Present : rows[k].ts >= now - Day}) \in Nat
    /\ GroupBy(Present, RiskOf, Risks) \in [Risks -> Nat]
    /\ GroupBy(Present, AgentOf, Agents) \in [Agents -> Nat]
<1> USE PresentAreKeys
<1>1. Cardinality(Present) \in Nat /\ Cardinality(History) \in Nat
  BY CountIsNat
<1>2. Cardinality({k \in History : Event[k].target \in Files}) \in Nat
  <2>1. {k \in History : Event[k].target \in Files} \in SUBSET Keys OBVIOUS
  <2> QED BY <2>1, CountIsNat
<1>3. Cardinality({k \in History : Event[k].type \in Network}) \in Nat
  <2>1. {k \in History : Event[k].type \in Network} \in SUBSET Keys OBVIOUS
  <2> QED BY <2>1, CountIsNat
<1>4. Cardinality({k \in Present : rows[k].ts >= now - Day}) \in Nat
  <2>1. {k \in Present : rows[k].ts >= now - Day} \in SUBSET Keys OBVIOUS
  <2> QED BY <2>1, CountIsNat
<1>5. \A v : /\ Cardinality({k \in Present : RiskOf[k] = v}) \in Nat
             /\ Cardinality({k \in Present : AgentOf[k] = v}) \in Nat
  <2> TAKE v
  <2>1. /\ {k \in Present : RiskOf[k] = v} \in SUBSET Keys
        /\ {k \in Present : AgentOf[k] = v} \in SUBSET Keys
    OBVIOUS
  <2> QED BY <2>1, CountIsNat
<1>6. /\ GroupBy(Present, RiskOf, Risks) \in [Risks -> Nat]
      /\ GroupBy(Present, AgentOf, Agents) \in [Agents -> Nat]
  BY <1>5 DEF GroupBy
<1> QED BY <1>1, <1>2, <1>3, <1>4, <1>6

LEMMA PartlyIsCounts ==
    ASSUME NEW Vs, NEW groups \in [Vs -> Nat], NEW seen
    PROVE  Partly(groups, seen) \in [Vs -> Nat]
BY DEF Partly

(* What is counted by name: the types with a name as they are, and one of the
   others. *)
LEMMA NamesOfKeys ==
    /\ "UNKNOWN" \in TypeNames
    /\ \A k \in Keys : NameOf[k] \in TypeNames
<1>1. ASSUME NEW k \in Keys
      PROVE  NameOf[k] \in TypeNames
  <2>1. Event[k].type \in Nat /\ NameOf[k] = typeName(Event[k].type)
    BY EventAssumption DEF NameOf
  <2>2. Len(Named) = 7 /\ DOMAIN Named = 1 .. 7
    BY DEF Named
  <2>3. CASE Event[k].type < 7
    <3>1. Event[k].type + 1 \in DOMAIN Named
      BY <2>1, <2>2, <2>3
    <3> QED BY <2>1, <2>2, <2>3, <3>1 DEF typeName, TypeNames
  <2>4. CASE ~(Event[k].type < 7)
    BY <2>1, <2>2, <2>4 DEF typeName, TypeNames
  <2> QED BY <2>3, <2>4
<1> QED BY <1>1 DEF TypeNames

LEMMA CountedByName ==
    ASSUME NEW S \in SUBSET Keys, NEW counts \in CountsByName(S)
    PROVE  /\ counts \in [TypeNames -> Nat]
           /\ \A n \in TypeNames \ {"UNKNOWN"} :
                 counts[n] = Cardinality({k \in S : NameOf[k] = n})
           /\ counts["UNKNOWN"]
                 <= Cardinality({k \in S : NameOf[k] = "UNKNOWN"})
           /\ AtMostOneUnnamed(S) => counts = GroupBy(S, NameOf, TypeNames)
<1> DEFINE Unnamed == {k \in S : NameOf[k] = "UNKNOWN"}
           OfType(t) == {k \in S : Event[k].type = t}
<1>1. PICK m \in UnnamedCounts(S) :
          counts = [GroupBy(S, NameOf, TypeNames) EXCEPT !["UNKNOWN"] = m]
  BY DEF CountsByName
<1>2. Unnamed \in SUBSET Keys /\ Cardinality(Unnamed) \in Nat
  <2>1. Unnamed \in SUBSET Keys
    OBVIOUS
  <2> HIDE DEF Unnamed
  <2> QED BY <2>1, CountIsNat
<1>3. GroupBy(S, NameOf, TypeNames) \in [TypeNames -> Nat]
  <2>1. \A n : Cardinality({k \in S : NameOf[k] = n}) \in Nat
    <3> TAKE n
    <3>1. {k \in S : NameOf[k] = n} \in SUBSET Keys
      OBVIOUS
    <3> QED BY <3>1, CountIsNat
  <2> QED BY <2>1 DEF GroupBy
<1>4. /\ m \in Nat /\ m <= Cardinality(Unnamed)
      /\ AtMostOneUnnamed(S) => m = Cardinality(Unnamed)
  <2>1. CASE UnnamedTypes(S) = {}
    <3>1. m = 0 /\ Unnamed = {}
      BY <2>1 DEF UnnamedCounts, UnnamedTypes
    <3>2. Cardinality({}) = 0
      BY FS_EmptySet
    <3> HIDE DEF Unnamed
    <3> QED BY <3>1, <3>2
  <2>2. CASE UnnamedTypes(S) # {}
    <3>1. PICK t \in UnnamedTypes(S) : m = Cardinality(OfType(t))
      BY <2>2 DEF UnnamedCounts
    <3>2. PICK q \in Unnamed : t = Event[q].type
      BY <3>1 DEF UnnamedTypes
    <3>3. OfType(t) \subseteq Unnamed
      <4> SUFFICES ASSUME NEW k \in S, Event[k].type = t
                   PROVE  NameOf[k] = "UNKNOWN"
        OBVIOUS
      <4>1. NameOf[k] = typeName(t) /\ NameOf[q] = typeName(t)
        BY <3>2 DEF NameOf
      <4> QED BY <3>2, <4>1
    <3>4. AtMostOneUnnamed(S) => Unnamed \subseteq OfType(t)
      <4> SUFFICES ASSUME AtMostOneUnnamed(S), NEW k \in Unnamed
                   PROVE  Event[k].type = t
        OBVIOUS
      <4>1. Event[k].type \in UnnamedTypes(S)
        BY DEF UnnamedTypes
      <4> QED BY <3>1, <4>1 DEF AtMostOneUnnamed
    <3>5. OfType(t) \in SUBSET Keys
      OBVIOUS
    <3> HIDE DEF OfType, Unnamed
    <3>6. Cardinality(OfType(t)) <= Cardinality(Unnamed)
      BY <1>2, <3>3, <3>5, CountGrows
    <3>7. AtMostOneUnnamed(S) => OfType(t) = Unnamed
      BY <3>3, <3>4
    <3>8. Cardinality(OfType(t)) \in Nat
      BY <3>5, CountIsNat
    <3> QED BY <3>1, <3>6, <3>7, <3>8
  <2> QED BY <2>1, <2>2
<1>5. GroupBy(S, NameOf, TypeNames)["UNKNOWN"] = Cardinality(Unnamed)
  BY NamesOfKeys DEF GroupBy
<1>6. \A n \in TypeNames : GroupBy(S, NameOf, TypeNames)[n]
                             = Cardinality({k \in S : NameOf[k] = n})
  BY DEF GroupBy
<1> HIDE DEF Unnamed
<1>7. counts \in [TypeNames -> Nat] /\ counts["UNKNOWN"] = m
  BY <1>1, <1>3, <1>4, NamesOfKeys
<1>8. AtMostOneUnnamed(S) => counts = GroupBy(S, NameOf, TypeNames)
  BY <1>1, <1>3, <1>4, <1>5
<1>9. \A n \in TypeNames \ {"UNKNOWN"} :
          counts[n] = Cardinality({k \in S : NameOf[k] = n})
  BY <1>1, <1>3, <1>6
<1> QED BY <1>4, <1>7, <1>8, <1>9 DEF Unnamed

LEMMA TypeInit == Init => TypeOK
<1>1. Nothing \in Report
  BY DEF Nothing, Report
<1> QED BY <1>1, TableTypeInit DEF Init, TypeOK, Steps

(* What one statement gathers. *)
LEMMA GatheredType ==
    ASSUME TypeOK, GenerateReport \/ GetEventStatistics
    PROVE  report' \in Report /\ subject' \in {None} \cup [key : Keys, ts : Int]
<1> USE DEF Gather, GatherCut
<1>0. TableTypeOK /\ report \in Report
      /\ subject \in {None} \cup [key : Keys, ts : Int]
  BY DEF TypeOK
<1>1. CASE GetEventByID
  <2>1. PICK k \in Present : subject' = [key |-> k, ts |-> rows[k].ts]
    BY <1>1 DEF GetEventByID
  <2>2. k \in Keys /\ rows[k].ts \in Int
    BY <1>0, RowsReadAreRows, PresentAreKeys
  <2> QED BY <2>1, <2>2, <1>0, <1>1 DEF GetEventByID
<1>2. CASE GetProcessTimeline
  BY <1>2, <1>0, PresentAreKeys DEF GetProcessTimeline, Report
<1>3. CASE GetProcessTimelineCut
  <2>1. PICK end : report' = [report EXCEPT !.timeline =
                                {k \in History : rows[k].ts < end}]
    BY <1>3 DEF GetProcessTimelineCut
  <2>2. subject' = subject
    BY <1>3 DEF GetProcessTimelineCut
  <2> QED BY <2>1, <2>2, <1>0, PresentAreKeys DEF Report
<1>4. CASE GetParent \/ GetParentNone \/ GetParentError
  <2>1. ParentsIn(Present) \subseteq Keys
    BY PresentAreKeys DEF ParentsIn
  <2> QED BY <1>4, <1>0, <2>1 DEF GetParent, GetParentNone, GetParentError, Report
<1>5. CASE GetChildren
  <2>1. ChildrenIn(Present) \subseteq {Event[k].pid : k \in Keys}
    BY PresentAreKeys DEF ChildrenIn
  <2> QED BY <1>5, <1>0, <2>1 DEF GetChildren, Report
<1>6. CASE CountTotal
  BY <1>6, <1>0, CountsAreNat DEF CountTotal, Report
<1>7. CASE CountFiles
  BY <1>7, <1>0, CountsAreNat DEF CountFiles, Report
<1>8. CASE CountNetwork
  BY <1>8, <1>0, CountsAreNat DEF CountNetwork, Report
<1>9. CASE CountTypes
  <2>1. PICK counts \in CountsByName(History) :
            report' = [report EXCEPT !.byType = counts]
    BY <1>9 DEF CountTypes, GatherOneOf
  <2>2. counts \in [TypeNames -> Nat]
    BY CountedByName, PresentAreKeys
  <2> QED BY <1>0, <1>9, <2>1, <2>2 DEF CountTypes, GatherOneOf, Report
<1>10. CASE CountAll
  BY <1>10, <1>0, CountsAreNat DEF CountAll, Report
<1>11. CASE CountRisks
  BY <1>11, <1>0, CountsAreNat DEF CountRisks, Report
<1>12. CASE CountAllTypes
  <2>1. PICK counts \in CountsByName(Present) :
            report' = [report EXCEPT !.byType = counts]
    BY <1>12 DEF CountAllTypes, GatherOneOf
  <2>2. counts \in [TypeNames -> Nat]
    BY CountedByName, PresentAreKeys
  <2> QED BY <1>0, <1>12, <2>1, <2>2 DEF CountAllTypes, GatherOneOf, Report
<1>13. CASE CountLast24
  BY <1>13, <1>0, CountsAreNat DEF CountLast24, Report
<1>14. CASE CountAgents
  BY <1>14, <1>0, CountsAreNat DEF CountAgents, Report
<1>15. CASE GetChildrenCut
  <2>1. ChildrenIn(Present) \subseteq {Event[k].pid : k \in Keys}
    BY PresentAreKeys DEF ChildrenIn
  <2>2. PICK seen \in SUBSET ChildrenIn(Present) :
            report' = [report EXCEPT !.children = seen]
    BY <1>15 DEF GetChildrenCut
  <2> QED BY <2>1, <2>2, <1>15, <1>0 DEF GetChildrenCut, Report
<1>16. CASE CountTypesCut
  <2>1. PICK counts \in CountsByName(History), seen \in SUBSET NamesIn(History) :
            report' = [report EXCEPT !.byType = Partly(counts, seen)]
    BY <1>16 DEF CountTypesCut
  <2>2. Partly(counts, seen) \in [TypeNames -> Nat]
    BY CountedByName, PresentAreKeys, PartlyIsCounts
  <2> QED BY <1>0, <1>16, <2>1, <2>2 DEF CountTypesCut, Report
<1>17. CASE CountRisksCut
  BY <1>17, <1>0, CountsAreNat, PartlyIsCounts DEF CountRisksCut, Report
<1>18. CASE CountAllTypesCut
  <2>1. PICK counts \in CountsByName(Present), seen \in SUBSET NamesIn(Present) :
            report' = [report EXCEPT !.byType = Partly(counts, seen)]
    BY <1>18 DEF CountAllTypesCut
  <2>2. Partly(counts, seen) \in [TypeNames -> Nat]
    BY CountedByName, PresentAreKeys, PartlyIsCounts
  <2> QED BY <1>0, <1>18, <2>1, <2>2 DEF CountAllTypesCut, Report
<1>19. CASE CountAgentsCut
  BY <1>19, <1>0, CountsAreNat, PartlyIsCounts DEF CountAgentsCut, Report
<1> QED BY <1>1, <1>2, <1>3, <1>4, <1>5, <1>6, <1>7, <1>8, <1>9, <1>10, <1>11,
           <1>12, <1>13, <1>14, <1>15, <1>16, <1>17, <1>18, <1>19
        DEF GenerateReport, ProcessStatistics, GetEventStatistics

(* Every statement is followed by another or by the end. *)
LEMMA StatementShape ==
    ASSUME GenerateReport \/ GetEventStatistics
    PROVE  /\ at' \in Steps \cup Ended
           /\ kind' = kind /\ touched' = touched
           /\ UNCHANGED tvars
           /\ cut' \in {cut, TRUE}
<1> DEFINE Goal(to) == /\ at' = to
                       /\ kind' = kind /\ touched' = touched
                       /\ UNCHANGED tvars
                       /\ cut' \in {cut, TRUE}
<1>a. ASSUME NEW from, NEW to, NEW x,
             \/ Gather(from, to, x)
             \/ GatherOneOf(from, to, x)
             \/ GatherCut(from, to, x)
      PROVE  Goal(to)
  BY <1>a DEF Gather, GatherOneOf, GatherCut, Statement
<1>b. \A to \in Steps \cup Ended : Goal(to) =>
          /\ at' \in Steps \cup Ended
          /\ kind' = kind /\ touched' = touched
          /\ UNCHANGED tvars
          /\ cut' \in {cut, TRUE}
  OBVIOUS
<1>1. CASE GetEventByID \/ GetProcessTimeline \/ GetProcessTimelineCut
  BY <1>1, <1>a DEF GetEventByID, GetProcessTimeline, GetProcessTimelineCut,
                    Statement, AfterTimeline, Steps, Ended
<1>2. CASE GetParent \/ GetParentNone \/ GetParentError
  BY <1>2, <1>a DEF GetParent, GetParentNone, GetParentError, Statement, Steps
<1>3. CASE GetChildren \/ GetChildrenCut
  BY <1>3, <1>a DEF GetChildren, GetChildrenCut, Steps
<1>4. CASE ProcessStatistics
  <2>1. \/ Goal("files") \/ Goal("network") \/ Goal("types") \/ Goal("done")
    <3> HIDE DEF Goal
    <3> QED BY <1>4, <1>a
            DEF ProcessStatistics, CountTotal, CountFiles, CountNetwork,
                CountTypes, CountTypesCut
  <2> QED BY <2>1, <1>b DEF Steps, Ended
<1>5. CASE GetEventStatistics
  <2>1. \/ Goal("risks") \/ Goal("allTypes") \/ Goal("last24")
        \/ Goal("agents") \/ Goal("done")
    <3> HIDE DEF Goal
    <3> QED BY <1>5, <1>a
            DEF GetEventStatistics, CountAll, CountRisks, CountAllTypes,
                CountLast24, CountAgents, CountRisksCut, CountAllTypesCut,
                CountAgentsCut
  <2> QED BY <2>1, <1>b DEF Steps, Ended
<1> QED BY <1>1, <1>2, <1>3, <1>4, <1>5 DEF GenerateReport

LEMMA TypeNext == TypeOK /\ [Next]_vars => TypeOK'
<1> SUFFICES ASSUME TypeOK, [Next]_vars PROVE TypeOK'
  OBVIOUS
<1> USE DEF TypeOK
<1>1. CASE Meanwhile
  <2>1. TableTypeOK'
    BY <1>1, TableTypeNext DEF Meanwhile
  <2> QED BY <1>1, <2>1 DEF Meanwhile, Ended
<1>2. CASE UNCHANGED tvars /\ (GenerateReport \/ GetEventStatistics)
  <2>1. TableTypeOK'
    BY <1>2 DEF TableTypeOK, tvars
  <2> QED BY <1>2, <2>1, GatheredType, StatementShape
<1>3. CASE Begin
  <2>1. TableTypeOK'
    BY <1>3 DEF Begin, TableTypeOK, tvars
  <2> QED BY <1>3, <2>1 DEF Begin, Steps
<1>4. CASE Fail
  <2>1. TableTypeOK'
    BY <1>4 DEF Fail, Statement, TableTypeOK, tvars
  <2> QED BY <1>4, <2>1 DEF Fail, Statement, Ended
<1>5. CASE Forget
  <2>1. TableTypeOK' /\ Nothing \in Report
    BY <1>5 DEF Forget, TableTypeOK, tvars, Nothing, Report
  <2> QED BY <1>5, <2>1 DEF Forget, Steps
<1>6. CASE UNCHANGED vars
  <2>1. TableTypeOK'
    BY <1>6 DEF vars, tvars, TableTypeOK
  <2> QED BY <1>6, <2>1 DEF vars, rvars
<1> QED BY <1>1, <1>2, <1>3, <1>4, <1>5, <1>6, StatementShape DEF Next

(* The table and the request stay within their types. *)
THEOREM TypeCorrect == Spec => []TypeOK
BY TypeInit, TypeNext, PTL DEF Spec

-----------------------------------------------------------------------------
(* The inductive invariant of a request: each part of the report, once it is
   read, differs from the table only in rows that changed since. *)
AfterChildren == {"total", "files", "network", "types", "done"}
AfterList     == {"parent", "children"} \cup AfterChildren

OrderInv ==
    /\ at \in AfterList \ {"done"} => kind = "report"
    /\ at \in {"event", "timeline"} => kind \in {"report", "escalation"}
    /\ at \in {"count", "risks", "allTypes", "last24", "agents"}
          => kind = "statistics"
    /\ (at \in {"timeline"} \cup AfterList /\ kind # "statistics")
          => subject # None

ListInv ==
    (at \in AfterList /\ kind # "statistics" /\ ~cut) =>
        \A k \in Keys \ touched : k \in report.timeline <=> k \in History

ParentInv ==
    (at \in {"children"} \cup AfterChildren /\ kind = "report" /\ ~cut) =>
        \A k, q \in Untouched :
            (q \in OfSubject(Keys) /\ Event[k].pid = Event[q].ppid)
                => report.parent # None

ChildrenInv ==
    (at \in AfterChildren /\ kind = "report" /\ ~cut) =>
        \A k \in Untouched :
            Event[k].ppid = Event[subject.key].pid
                => Event[k].pid \in report.children

TotalInv ==
    (at \in AfterChildren \ {"total"} /\ kind = "report" /\ ~cut) =>
        Near(report.total, Cardinality(report.timeline))

FilesInv ==
    (at \in {"network", "types", "done"} /\ kind = "report" /\ ~cut) =>
        Near(report.files,
             Cardinality({k \in report.timeline : Event[k].target \in Files}))

NetworkInv ==
    (at \in {"types", "done"} /\ kind = "report" /\ ~cut) =>
        Near(report.network,
             Cardinality({k \in report.timeline : Event[k].type \in Network}))

Called(n) == {k \in report.timeline : NameOf[k] = n}

TypesInv ==
    (at = "done" /\ kind = "report" /\ ~cut) =>
        /\ \A n \in TypeNames :
              (n # "UNKNOWN" \/ AtMostOneUnnamed(report.timeline \cup touched)) =>
                  Near(report.byType[n], Cardinality(Called(n)))
        /\ report.byType["UNKNOWN"]
              <= Cardinality(Called("UNKNOWN")) + Cardinality(touched)

RInv ==
    /\ OrderInv
    /\ ListInv /\ ParentInv /\ ChildrenInv
    /\ TotalInv /\ FilesInv /\ NetworkInv /\ TypesInv

LEMMA RInvInit == Init => RInv
BY DEF Init, RInv, OrderInv, ListInv, ParentInv, ChildrenInv, TotalInv,
       FilesInv, NetworkInv, TypesInv, AfterList, AfterChildren

(* Parts of the list, and of the events in the window, can be counted, and
   their numbers are near when list and window differ only where touched. *)
LEMMA PartsAreNear ==
    ASSUME TypeOK, \A k \in Keys \ touched : k \in report.timeline <=> k \in History
    PROVE  /\ Near(Cardinality(History), Cardinality(report.timeline))
           /\ Near(Cardinality({k \in History : Event[k].target \in Files}),
                   Cardinality({k \in report.timeline : Event[k].target \in Files}))
           /\ Near(Cardinality({k \in History : Event[k].type \in Network}),
                   Cardinality({k \in report.timeline : Event[k].type \in Network}))
           /\ \A n : Near(Cardinality({k \in History : NameOf[k] = n}),
                          Cardinality(Called(n)))
<1>0. /\ History \in SUBSET Keys /\ report.timeline \in SUBSET Keys
      /\ touched \in SUBSET Keys
  BY PresentAreKeys DEF TypeOK, Report
<1>1. Near(Cardinality(History), Cardinality(report.timeline))
  BY <1>0, CountsAreNear DEF Near
<1>2. Near(Cardinality({k \in History : Event[k].target \in Files}),
           Cardinality({k \in report.timeline : Event[k].target \in Files}))
  <2> DEFINE S == {k \in History : Event[k].target \in Files}
             U == {k \in report.timeline : Event[k].target \in Files}
  <2>1. S \in SUBSET Keys /\ U \in SUBSET Keys
        /\ \A k \in Keys \ touched : k \in S <=> k \in U
    BY <1>0
  <2> HIDE DEF S, U
  <2>2. Near(Cardinality(S), Cardinality(U))
    BY <2>1, <1>0, CountsAreNear DEF Near
  <2> QED BY <2>2 DEF S, U
<1>3. Near(Cardinality({k \in History : Event[k].type \in Network}),
           Cardinality({k \in report.timeline : Event[k].type \in Network}))
  <2> DEFINE S == {k \in History : Event[k].type \in Network}
             U == {k \in report.timeline : Event[k].type \in Network}
  <2>1. S \in SUBSET Keys /\ U \in SUBSET Keys
        /\ \A k \in Keys \ touched : k \in S <=> k \in U
    BY <1>0
  <2> HIDE DEF S, U
  <2>2. Near(Cardinality(S), Cardinality(U))
    BY <2>1, <1>0, CountsAreNear DEF Near
  <2> QED BY <2>2 DEF S, U
<1>4. ASSUME NEW n
      PROVE  Near(Cardinality({k \in History : NameOf[k] = n}),
                  Cardinality(Called(n)))
  <2> DEFINE S == {k \in History : NameOf[k] = n}
  <2>1. S \in SUBSET Keys /\ Called(n) \in SUBSET Keys
        /\ \A k \in Keys \ touched : k \in S <=> k \in Called(n)
    BY <1>0 DEF Called
  <2> HIDE DEF S
  <2>2. Near(Cardinality(S), Cardinality(Called(n)))
    BY <2>1, <1>0, CountsAreNear DEF Near
  <2> QED BY <2>2 DEF S
<1> QED BY <1>1, <1>2, <1>3, <1>4

(* Numbers that are near stay near when more rows change. *)
LEMMA NearStays ==
    ASSUME touched \in SUBSET Keys, touched' \in SUBSET Keys,
           touched \subseteq touched', NEW m \in Int, NEW n \in Int, Near(m, n)
    PROVE  m - n \in -Cardinality(touched') .. Cardinality(touched')
<1>1. Cardinality(touched) <= Cardinality(touched')
  BY CountGrows
<1>2. Cardinality(touched) \in Nat /\ Cardinality(touched') \in Nat
  BY CountIsNat
<1> QED BY <1>1, <1>2 DEF Near

(* What happens meanwhile only widens what may differ. *)
LEMMA RInvMeanwhile ==
    ASSUME TypeOK, TypeOK', RInv, Meanwhile
    PROVE  RInv'
<1>1. CASE at = "idle"
  BY <1>1 DEF Meanwhile, RInv, OrderInv, ListInv, ParentInv, ChildrenInv,
       TotalInv, FilesInv, NetworkInv, TypesInv, AfterList, AfterChildren
<1>2. CASE at' = "failed"
  BY <1>2 DEF RInv, OrderInv, ListInv, ParentInv, ChildrenInv,
       TotalInv, FilesInv, NetworkInv, TypesInv, AfterList, AfterChildren
<1>3. CASE at # "idle" /\ at' = at
  <2>0. /\ touched \in SUBSET Keys /\ touched' \in SUBSET Keys
        /\ touched \subseteq touched'
        /\ \A k \in Keys \ touched' : rows'[k] = rows[k]
        /\ UNCHANGED <<kind, subject, report, cut>>
    BY <1>3 DEF Meanwhile, TypeOK
  <2>1. OrderInv'
    BY <2>0, <1>3 DEF RInv, OrderInv
  <2>2. ListInv'
    <3>1. \A k \in Keys \ touched' : k \in History' <=> k \in History
      BY <2>0 DEF History, HistoryIn, InWindow, Present
    <3> QED BY <3>1, <2>0, <1>3 DEF RInv, ListInv
  <2>3. Untouched' \subseteq Untouched
    BY <2>0 DEF Untouched, Present
  <2>4. ParentInv'
    BY <2>0, <2>3, <1>3 DEF RInv, ParentInv, OfSubject
  <2>5. ChildrenInv'
    BY <2>0, <2>3, <1>3 DEF RInv, ChildrenInv
  <2>6. report \in Report /\ report.timeline \in SUBSET Keys
    BY DEF TypeOK, Report
  <2>7. TotalInv'
    <3>1. report.total \in Int /\ Cardinality(report.timeline) \in Int
      BY <2>6, CountIsNat DEF Report
    <3> QED BY <3>1, <2>0, <1>3, NearStays DEF RInv, TotalInv, Near
  <2>8. FilesInv'
    <3>1. {k \in report.timeline : Event[k].target \in Files} \in SUBSET Keys
      BY <2>6
    <3>2. /\ report.files \in Int
          /\ Cardinality({k \in report.timeline : Event[k].target \in Files}) \in Int
      BY <2>6, <3>1, CountIsNat DEF Report
    <3> QED BY <3>2, <2>0, <1>3, NearStays DEF RInv, FilesInv, Near
  <2>9. NetworkInv'
    <3>1. {k \in report.timeline : Event[k].type \in Network} \in SUBSET Keys
      BY <2>6
    <3>2. /\ report.network \in Int
          /\ Cardinality({k \in report.timeline : Event[k].type \in Network}) \in Int
      BY <2>6, <3>1, CountIsNat DEF Report
    <3> QED BY <3>2, <2>0, <1>3, NearStays DEF RInv, NetworkInv, Near
  <2>10. TypesInv'
    BY <1>3, <2>0 DEF TypesInv, Meanwhile, Ended
  <2> QED BY <2>1, <2>2, <2>4, <2>5, <2>7, <2>8, <2>9, <2>10 DEF RInv
<1> QED BY <1>1, <1>2, <1>3 DEF Meanwhile

(* The statements that only read: what they do not read stays what it was. *)
Reads(from, to) ==
    /\ at = from /\ at' = to
    /\ UNCHANGED <<tvars, kind, touched, subject>>

LEMMA ReadsKeepTable ==
    ASSUME NEW from, NEW to, Reads(from, to)
    PROVE  /\ Present' = Present /\ History' = History
           /\ Untouched' = Untouched
           /\ OfSubject(Keys)' = OfSubject(Keys)
BY DEF Reads, Present, History, HistoryIn, InWindow, Untouched, OfSubject, tvars

LEMMA RInvList ==
    ASSUME TypeOK, RInv, GetProcessTimeline \/ GetProcessTimelineCut
    PROVE  RInv'
<1>0. Reads("timeline", AfterTimeline)
  BY DEF GetProcessTimeline, GetProcessTimelineCut, Gather, GatherCut,
         Statement, Reads
<1>1. kind \in {"report", "escalation"}
  BY <1>0 DEF RInv, OrderInv, Reads
<1>1a. subject # None
  BY <1>0, <1>1 DEF RInv, OrderInv, Reads
<1>2. (at' = "parent" /\ kind' = "report") \/ (at' = "done" /\ kind' = "escalation")
  BY <1>0, <1>1 DEF Reads, AfterTimeline
<1>3. OrderInv'
  BY <1>0, <1>1, <1>1a, <1>2 DEF OrderInv, Reads, AfterList, AfterChildren
<1>4. ListInv'
  <2>1. CASE GetProcessTimeline
    <3>1. report' = [report EXCEPT !.timeline = History] /\ report \in Report
      BY <2>1 DEF GetProcessTimeline, Gather, TypeOK
    <3>2. report'.timeline = History
      BY <3>1 DEF Report
    <3> QED BY <3>2, <1>0, ReadsKeepTable DEF ListInv
  <2>2. CASE GetProcessTimelineCut
    BY <2>2 DEF GetProcessTimelineCut, GatherCut, ListInv
  <2> QED BY <2>1, <2>2
<1> QED BY <1>0, <1>2, <1>3, <1>4
        DEF RInv, ParentInv, ChildrenInv, TotalInv, FilesInv, NetworkInv,
            TypesInv, AfterChildren, Reads

LEMMA RInvParent ==
    ASSUME TypeOK, RInv, GetParent \/ GetParentNone \/ GetParentError
    PROVE  RInv'
<1>0. Reads("parent", "children") /\ report \in Report
  BY DEF GetParent, GetParentNone, GetParentError, Gather, Statement, Reads,
         TypeOK
<1>1. report'.timeline = report.timeline
  BY <1>0 DEF GetParent, GetParentNone, GetParentError, Gather, Report
<1>2. kind = "report" /\ subject # None
  BY <1>0 DEF RInv, OrderInv, Reads, AfterList, AfterChildren
<1>3. OrderInv'
  BY <1>0, <1>2 DEF OrderInv, Reads, AfterList, AfterChildren
<1>4. ListInv'
  <2>1. cut' = cut \/ cut'
    BY DEF GetParent, GetParentNone, GetParentError, Gather
  <2> QED BY <2>1, <1>0, <1>1, ReadsKeepTable
          DEF RInv, ListInv, Reads, AfterList, AfterChildren
<1>5. ParentInv'
  <2>1. CASE GetParent
    <3>1. report'.parent \in Keys
      BY <2>1, <1>0, PresentAreKeys DEF GetParent, ParentsIn, Report
    <3> QED BY <3>1, NoneAssumption, <2>1 DEF ParentInv, GetParent
  <2>2. CASE GetParentNone
    <3>1. ~ \E k, q \in Present : /\ q \in OfSubject(Keys)
                                  /\ Event[k].pid = Event[q].ppid
      BY <2>2 DEF GetParentNone, ParentsIn, OfSubject
    <3> QED BY <3>1, <1>0, ReadsKeepTable DEF ParentInv, Untouched
  <2>3. CASE GetParentError
    BY <2>3 DEF GetParentError, ParentInv
  <2> QED BY <2>1, <2>2, <2>3
<1> QED BY <1>0, <1>3, <1>4, <1>5
        DEF RInv, ChildrenInv, TotalInv, FilesInv, NetworkInv, TypesInv,
            AfterChildren, Reads

LEMMA RInvChildren ==
    ASSUME TypeOK, RInv, GetChildren
    PROVE  RInv'
<1>0. Reads("children", "total") /\ report \in Report /\ cut' = cut
  BY DEF GetChildren, Gather, Statement, Reads, TypeOK
<1>1. /\ report'.timeline = report.timeline /\ report'.parent = report.parent
      /\ report'.children = ChildrenIn(Present)
  BY <1>0 DEF GetChildren, Gather, Report
<1>2. kind = "report" /\ subject # None
  BY <1>0 DEF RInv, OrderInv, Reads, AfterList, AfterChildren
<1>3. OrderInv'
  BY <1>0, <1>2 DEF OrderInv, Reads, AfterList, AfterChildren
<1>4. ListInv' /\ ParentInv'
  BY <1>0, <1>1, ReadsKeepTable
     DEF RInv, ListInv, ParentInv, Reads, AfterList, AfterChildren
<1>5. ChildrenInv'
  BY <1>0, <1>1, ReadsKeepTable
     DEF ChildrenInv, ChildrenIn, Untouched, Reads
<1> QED BY <1>0, <1>3, <1>4, <1>5
        DEF RInv, TotalInv, FilesInv, NetworkInv, TypesInv, AfterChildren, Reads

(* A list that an error cut off is none of the invariant's business. *)
LEMMA RInvCut ==
    ASSUME RInv, GetChildrenCut \/ CountTypesCut
    PROVE  RInv'
<1>1. cut' = TRUE /\ kind' = kind /\ subject' = subject
      /\ \/ at = "children" /\ at' = "total"
         \/ at = "types" /\ at' = "done"
  BY DEF GetChildrenCut, CountTypesCut, GatherCut, Statement
<1>2. OrderInv'
  BY <1>1 DEF RInv, OrderInv, AfterList, AfterChildren
<1> QED BY <1>1, <1>2
        DEF RInv, ListInv, ParentInv, ChildrenInv, TotalInv, FilesInv,
            NetworkInv, TypesInv

(* The statements of ProcessStatistics leave list, parent and children. *)
LEMMA CountsKeepLists ==
    ASSUME TypeOK, RInv, NEW from \in {"total", "files", "network", "types"},
           NEW to \in {"files", "network", "types", "done"},
           Reads(from, to), cut' = cut,
           report'.timeline = report.timeline, report'.parent = report.parent,
           report'.children = report.children
    PROVE  /\ OrderInv' /\ ListInv' /\ ParentInv' /\ ChildrenInv'
           /\ kind = "report" /\ kind' = "report"
           /\ ~cut => \A k \in Keys \ touched :
                          k \in report.timeline <=> k \in History
           /\ touched' = touched
<1>1. kind = "report" /\ subject # None /\ kind' = kind /\ subject' = subject
      /\ touched' = touched
  BY DEF RInv, OrderInv, Reads, AfterList, AfterChildren
<1>2. OrderInv'
  BY <1>1 DEF OrderInv, Reads, AfterList, AfterChildren
<1>3. ListInv' /\ ParentInv' /\ ChildrenInv'
  BY <1>1, ReadsKeepTable
     DEF RInv, ListInv, ParentInv, ChildrenInv, Reads, AfterList, AfterChildren
<1> QED BY <1>1, <1>2, <1>3 DEF RInv, ListInv, Reads, AfterList, AfterChildren

(* What the statement makes of the types in the window tells of the list. *)
LEMMA TypesAreNear ==
    ASSUME TypeOK, NEW counts \in CountsByName(History),
           \A k \in Keys \ touched : k \in report.timeline <=> k \in History
    PROVE  /\ \A n \in TypeNames :
                (n # "UNKNOWN" \/ AtMostOneUnnamed(report.timeline \cup touched)) =>
                    Near(counts[n], Cardinality(Called(n)))
           /\ counts["UNKNOWN"]
                <= Cardinality(Called("UNKNOWN")) + Cardinality(touched)
<1> DEFINE Now(n) == {k \in History : NameOf[k] = n}
<1>1. \A n : Near(Cardinality(Now(n)), Cardinality(Called(n)))
  BY PartsAreNear
<1>2. /\ counts \in [TypeNames -> Nat]
      /\ \A n \in TypeNames \ {"UNKNOWN"} : counts[n] = Cardinality(Now(n))
      /\ counts["UNKNOWN"] <= Cardinality(Now("UNKNOWN"))
      /\ AtMostOneUnnamed(History) => counts = GroupBy(History, NameOf, TypeNames)
  BY CountedByName, PresentAreKeys
<1>3. \A n \in TypeNames : GroupBy(History, NameOf, TypeNames)[n]
                             = Cardinality(Now(n))
  BY DEF GroupBy
<1>4. AtMostOneUnnamed(report.timeline \cup touched) => AtMostOneUnnamed(History)
  <2>1. History \subseteq report.timeline \cup touched
    BY PresentAreKeys
  <2>2. UnnamedTypes(History) \subseteq UnnamedTypes(report.timeline \cup touched)
    BY <2>1 DEF UnnamedTypes
  <2> QED BY <2>2 DEF AtMostOneUnnamed
<1>5. \A n : /\ Cardinality(Now(n)) \in Nat /\ Cardinality(Called(n)) \in Nat
             /\ Cardinality(touched) \in Nat
  <2> TAKE n
  <2>1. Now(n) \in SUBSET Keys /\ Called(n) \in SUBSET Keys
        /\ touched \in SUBSET Keys
    BY PresentAreKeys DEF Called, TypeOK, Report
  <2> HIDE DEF Now
  <2> QED BY <2>1, CountIsNat
<1> HIDE DEF Now
<1>6. ASSUME NEW n \in TypeNames,
             n # "UNKNOWN" \/ AtMostOneUnnamed(report.timeline \cup touched)
      PROVE  Near(counts[n], Cardinality(Called(n)))
  <2>1. counts[n] = Cardinality(Now(n))
    BY <1>2, <1>3, <1>4, <1>6
  <2> QED BY <1>1, <2>1
<1>7. counts["UNKNOWN"] <= Cardinality(Called("UNKNOWN")) + Cardinality(touched)
  <2>1. Cardinality(Now("UNKNOWN"))
          <= Cardinality(Called("UNKNOWN")) + Cardinality(touched)
    BY <1>1, <1>5 DEF Near
  <2>2. counts["UNKNOWN"] \in Nat
    BY <1>2, NamesOfKeys
  <2> QED BY <1>2, <1>5, <2>1, <2>2
<1> QED BY <1>6, <1>7

LEMMA RInvCounts ==
    ASSUME TypeOK, RInv, ProcessStatistics
    PROVE  RInv'
<1>0. report \in Report
  BY DEF TypeOK
<1>1. CASE CountTotal
  <2>1. Reads("total", "files") /\ cut' = cut
    BY <1>1 DEF CountTotal, Gather, Statement, Reads
  <2>2. /\ report'.timeline = report.timeline /\ report'.parent = report.parent
        /\ report'.children = report.children
        /\ report'.total = Cardinality(History)
    BY <1>0, <1>1 DEF CountTotal, Gather, Report
  <2>3. TotalInv'
    BY <2>1, <2>2, CountsKeepLists, PartsAreNear DEF TotalInv, Near
  <2> QED BY <2>1, <2>2, <2>3, CountsKeepLists
          DEF RInv, FilesInv, NetworkInv, TypesInv, Reads
<1>2. CASE CountFiles
  <2>1. Reads("files", "network") /\ cut' = cut
    BY <1>2 DEF CountFiles, Gather, Statement, Reads
  <2>2. /\ report'.timeline = report.timeline /\ report'.parent = report.parent
        /\ report'.children = report.children /\ report'.total = report.total
        /\ report'.files
             = Cardinality({k \in History : Event[k].target \in Files})
    BY <1>0, <1>2 DEF CountFiles, Gather, Report
  <2>3. FilesInv'
    BY <2>1, <2>2, CountsKeepLists, PartsAreNear DEF FilesInv, Near
  <2>4. TotalInv'
    BY <2>1, <2>2, CountsKeepLists
       DEF RInv, TotalInv, Near, Reads, AfterChildren
  <2> QED BY <2>1, <2>2, <2>3, <2>4, CountsKeepLists
          DEF RInv, NetworkInv, TypesInv, Reads
<1>3. CASE CountNetwork
  <2>1. Reads("network", "types") /\ cut' = cut
    BY <1>3 DEF CountNetwork, Gather, Statement, Reads
  <2>2. /\ report'.timeline = report.timeline /\ report'.parent = report.parent
        /\ report'.children = report.children /\ report'.total = report.total
        /\ report'.files = report.files
        /\ report'.network
             = Cardinality({k \in History : Event[k].type \in Network})
    BY <1>0, <1>3 DEF CountNetwork, Gather, Report
  <2>3. NetworkInv'
    BY <2>1, <2>2, CountsKeepLists, PartsAreNear DEF NetworkInv, Near
  <2>4. TotalInv' /\ FilesInv'
    BY <2>1, <2>2, CountsKeepLists
       DEF RInv, TotalInv, FilesInv, Near, Reads, AfterChildren
  <2> QED BY <2>1, <2>2, <2>3, <2>4, CountsKeepLists
          DEF RInv, TypesInv, Reads
<1>4. CASE CountTypes
  <2>1. Reads("types", "done") /\ cut' = cut
    BY <1>4 DEF CountTypes, GatherOneOf, Statement, Reads
  <2>2. PICK counts \in CountsByName(History) :
            report' = [report EXCEPT !.byType = counts]
    BY <1>4 DEF CountTypes, GatherOneOf
  <2>3. /\ report'.timeline = report.timeline /\ report'.parent = report.parent
        /\ report'.children = report.children /\ report'.total = report.total
        /\ report'.files = report.files /\ report'.network = report.network
        /\ report'.byType = counts
    BY <1>0, <2>2 DEF Report
  <2>4. TypesInv'
    BY <2>1, <2>3, CountsKeepLists, TypesAreNear DEF TypesInv, Called, Near
  <2>5. TotalInv' /\ FilesInv' /\ NetworkInv'
    BY <2>1, <2>3, CountsKeepLists
       DEF RInv, TotalInv, FilesInv, NetworkInv, Near, Reads, AfterChildren
  <2> QED BY <2>1, <2>3, <2>4, <2>5, CountsKeepLists DEF RInv
<1> QED BY <1>1, <1>2, <1>3, <1>4, RInvCut DEF ProcessStatistics

(* The statistics, the start, the failures and the end say nothing of a
   report. *)
LEMMA RInvOthers ==
    ASSUME RInv, GetEventStatistics \/ GetEventByID \/ Begin \/ Fail \/ Forget,
           TypeOK
    PROVE  RInv'
<1> USE DEF RInv, OrderInv, ListInv, ParentInv, ChildrenInv, TotalInv,
            FilesInv, NetworkInv, TypesInv, AfterList, AfterChildren
<1>1. CASE GetEventStatistics
  BY <1>1 DEF GetEventStatistics, CountAll, CountRisks, CountAllTypes,
              CountLast24, CountAgents, CountRisksCut, CountAllTypesCut,
              CountAgentsCut, Gather, GatherOneOf, GatherCut, Statement
<1>2. CASE GetEventByID
  <2>1. PICK k \in Present : subject' = [key |-> k, ts |-> rows[k].ts]
    BY <1>2 DEF GetEventByID
  <2>2. k \in Keys /\ rows[k].ts \in Int
    BY RowsReadAreRows, PresentAreKeys DEF TypeOK
  <2>3. subject' # None
    BY <2>1, <2>2, NoneAssumption
  <2> QED BY <1>2, <2>3 DEF GetEventByID, Statement
<1>3. CASE Begin
  BY <1>3 DEF Begin, Kinds
<1>4. CASE Fail
  BY <1>4 DEF Fail, Statement
<1>5. CASE Forget
  BY <1>5 DEF Forget
<1> QED BY <1>1, <1>2, <1>3, <1>4, <1>5

LEMMA RInvNext == TypeOK /\ RInv /\ [Next]_vars => RInv'
<1> SUFFICES ASSUME TypeOK, RInv, [Next]_vars PROVE RInv'
  OBVIOUS
<1>1. CASE Meanwhile
  BY <1>1, TypeNext, RInvMeanwhile
<1>2. CASE UNCHANGED vars
  <2>1. UNCHANGED <<kind, at, subject, report, touched, cut, rows>>
    BY <1>2 DEF vars, rvars, tvars
  <2>2. TypesInv'
    BY <2>1 DEF RInv, TypesInv, Near, Called, AtMostOneUnnamed, UnnamedTypes
  <2> QED BY <2>1, <2>2
          DEF RInv, OrderInv, ListInv, ParentInv, ChildrenInv, TotalInv,
              FilesInv, NetworkInv, Near, History, HistoryIn, InWindow,
              Present, Untouched, OfSubject
<1> QED BY <1>1, <1>2, RInvList, RInvParent, RInvChildren, RInvCut,
           RInvCounts, RInvOthers
        DEF Next, GenerateReport

LEMMA RequestInvariant == Spec => [](TypeOK /\ RInv)
<1>1. Init => TypeOK /\ RInv
  BY TypeInit, RInvInit
<1>2. TypeOK /\ RInv /\ [Next]_vars => (TypeOK /\ RInv)'
  BY TypeNext, RInvNext
<1> QED BY <1>1, <1>2, PTL DEF Spec

(* What a report or a timeline does not list was written or deleted while it
   was made, or an error cut the list off. *)
THEOREM HistoriesAreComplete == Spec => []HistoryIsComplete
<1>1. TypeOK /\ RInv => HistoryIsComplete
  <2> SUFFICES ASSUME TypeOK, RInv, at = "done", kind # "statistics", ~cut
               PROVE  HistoryIsComplete
    BY DEF HistoryIsComplete
  <2>1. ASSUME NEW k \in Untouched, Event[k].pid = Event[subject.key].pid,
               subject.ts - rows[k].ts \in 0 .. Window
        PROVE  k \in report.timeline
    <3>1. k \in Keys \ touched /\ k \in Present
      BY PresentAreKeys DEF Untouched
    <3>2. rows[k].ts \in Int /\ subject.ts \in Int
      <4>1. subject # None
        BY DEF RInv, OrderInv, AfterList, AfterChildren
      <4> QED BY <4>1, <3>1, RowsReadAreRows DEF TypeOK
    <3>3. k \in History
      BY <3>1, <3>2, <2>1, WindowAssumption DEF History, HistoryIn, InWindow
    <3> QED BY <3>1, <3>3 DEF RInv, ListInv, AfterList, AfterChildren
  <2>2. ASSUME kind = "report", NEW k \in Untouched,
               Event[k].ppid = Event[subject.key].pid
        PROVE  Event[k].pid \in report.children
    BY <2>2 DEF RInv, ChildrenInv, AfterChildren
  <2>3. ASSUME kind = "report", NEW k \in Untouched, NEW q \in Untouched,
               Event[q].pid = Event[subject.key].pid,
               Event[k].pid = Event[q].ppid
        PROVE  report.parent # None
    <3>1. q \in OfSubject(Keys)
      BY <2>3, PresentAreKeys DEF OfSubject, Untouched
    <3> QED BY <2>3, <3>1 DEF RInv, ParentInv, AfterChildren
  <2> QED BY <2>1, <2>2, <2>3 DEF HistoryIsComplete
<1> QED BY <1>1, RequestInvariant, PTL

(* The numbers of a report tell of its list, up to the rows that changed while
   the report was made. *)
THEOREM ReportsAgree == Spec => []ReportAgrees
<1>1. TypeOK /\ RInv => ReportAgrees
  BY DEF RInv, TotalInv, FilesInv, NetworkInv, TypesInv, AfterChildren,
         ReportAgrees, Called, Done
<1> QED BY <1>1, RequestInvariant, PTL
-----------------------------------------------------------------------------
(* What Sum counts. *)
Pairs(f) == UNION {{v} \X (1 .. f[v]) : v \in DOMAIN f}

LEMMA SumOfPairs == \A f : Sum(f) = Cardinality(Pairs(f))
BY DEF Sum, Pairs

(* The numbers of the groups of a set add up to the number of its elements:
   what counts the elements of each group counts, taken together, all of
   them. *)
LEMMA GroupsAddUp ==
    ASSUME NEW S \in SUBSET Keys, NEW column, NEW Vs,
           \A k \in S : column[k] \in Vs
    PROVE  /\ Sum(GroupBy(S, column, Vs)) = Cardinality(S)
           /\ IsFiniteSet(Pairs(GroupBy(S, column, Vs)))
<1> DEFINE Group(v) == {k \in S : column[k] = v}
           f == GroupBy(S, column, Vs)
           All == Pairs(f)
           Numbering(v) == CHOOSE g : g \in Bijection(1 .. f[v], Group(v))
           h == [p \in All |-> Numbering(p[1])[p[2]]]
<1>1. \A v \in Vs : Numbering(v) \in Bijection(1 .. f[v], Group(v))
  <2> TAKE v \in Vs
  <2>1. Group(v) \in SUBSET Keys
    OBVIOUS
  <2>2. f[v] = Cardinality(Group(v))
    BY DEF GroupBy
  <2> HIDE DEF f, Group
  <2>3. IsFiniteSet(Group(v))
    BY <2>1, CountIsNat
  <2>4. ExistsBijection(1 .. f[v], Group(v))
    BY <2>2, <2>3, FS_CardinalityType
  <2>5. \E g : g \in Bijection(1 .. f[v], Group(v))
    BY <2>4 DEF ExistsBijection
  <2> QED BY <2>5
<1>2. \A v \in Vs : /\ Numbering(v) \in [1 .. f[v] -> Group(v)]
                    /\ \A i, j \in 1 .. f[v] :
                          Numbering(v)[i] = Numbering(v)[j] => i = j
                    /\ \A k \in Group(v) : \E i \in 1 .. f[v] : Numbering(v)[i] = k
  <2> TAKE v \in Vs
  <2> DEFINE g == Numbering(v)
  <2>1. g \in Bijection(1 .. f[v], Group(v))
    BY <1>1
  <2> HIDE DEF g, f, Group
  <2>2. /\ g \in [1 .. f[v] -> Group(v)]
        /\ \A i, j \in 1 .. f[v] : g[i] = g[j] => i = j
        /\ \A k \in Group(v) : \E i \in 1 .. f[v] : g[i] = k
    BY <2>1 DEF Bijection, Injection, Surjection, IsInjective
  <2> QED BY <2>2 DEF g
<1>3. DOMAIN f = Vs
  BY DEF GroupBy
<1>4. \A p : p \in All <=> \E v \in Vs : \E i \in 1 .. f[v] : p = <<v, i>>
  BY <1>3 DEF Pairs
<1> HIDE DEF f, Numbering, All
<1>5. h \in [All -> S]
  <2> SUFFICES ASSUME NEW p \in All PROVE Numbering(p[1])[p[2]] \in S
    OBVIOUS
  <2>1. PICK v \in Vs : \E i \in 1 .. f[v] : p = <<v, i>>
    BY <1>4
  <2>2. PICK i \in 1 .. f[v] : p = <<v, i>>
    BY <2>1
  <2>3. Numbering(v)[i] \in Group(v)
    BY <1>2
  <2> QED BY <2>2, <2>3
<1>5a. \A v \in Vs : \A i \in 1 .. f[v] : column[Numbering(v)[i]] = v
  <2> TAKE v \in Vs
  <2> TAKE i \in 1 .. f[v]
  <2>1. Numbering(v)[i] \in Group(v)
    BY <1>2
  <2> QED BY <2>1
<1>6. \A p, q \in All : h[p] = h[q] => p = q
  <2> SUFFICES ASSUME NEW p \in All, NEW q \in All, h[p] = h[q]
               PROVE  p = q
    OBVIOUS
  <2>1. PICK v \in Vs : \E i \in 1 .. f[v] : p = <<v, i>>
    BY <1>4
  <2>2. PICK i \in 1 .. f[v] : p = <<v, i>>
    BY <2>1
  <2>3. PICK w \in Vs : \E j \in 1 .. f[w] : q = <<w, j>>
    BY <1>4
  <2>4. PICK j \in 1 .. f[w] : q = <<w, j>>
    BY <2>3
  <2>5. Numbering(v)[i] = Numbering(w)[j]
    BY <2>2, <2>4
  <2>6. column[Numbering(v)[i]] = v /\ column[Numbering(w)[j]] = w
    BY <1>5a
  <2>7. v = w
    BY <2>5, <2>6
  <2>8. i = j
    BY <1>2, <2>5, <2>7
  <2> QED BY <2>2, <2>4, <2>7, <2>8
<1>7. \A k \in S : \E p \in All : h[p] = k
  <2> TAKE k \in S
  <2>1. column[k] \in Vs /\ k \in Group(column[k])
    OBVIOUS
  <2>2. PICK i \in 1 .. f[column[k]] : Numbering(column[k])[i] = k
    BY <1>2, <2>1
  <2>3. <<column[k], i>> \in All
    BY <1>4, <2>1
  <2> QED BY <2>2, <2>3
<1> HIDE DEF h
<1>8. h \in Injection(All, S) /\ h \in Surjection(All, S)
  BY <1>5, <1>6, <1>7 DEF Injection, Surjection, IsInjective
<1>9. Cardinality(All) = Cardinality(S) /\ IsFiniteSet(All)
  BY <1>8, CountIsNat, FS_Injection
<1> QED BY <1>9, SumOfPairs DEF All, f

(* Of the counts by name the sum is not larger, and it is as large where no
   two types have to share a name. *)
LEMMA NamesAddUp ==
    ASSUME NEW S \in SUBSET Keys, NEW counts \in CountsByName(S)
    PROVE  /\ Sum(counts) \in Nat /\ Sum(counts) <= Cardinality(S)
           /\ AtMostOneUnnamed(S) => Sum(counts) = Cardinality(S)
<1> DEFINE f == GroupBy(S, NameOf, TypeNames)
<1>1. Sum(f) = Cardinality(S) /\ IsFiniteSet(Pairs(f))
  BY NamesOfKeys, GroupsAddUp
<1>2. /\ counts \in [TypeNames -> Nat]
      /\ \A n \in TypeNames : counts[n] <= f[n] /\ f[n] \in Nat
      /\ AtMostOneUnnamed(S) => counts = f
  <2>1. \A n \in TypeNames : f[n] \in Nat
    <3> TAKE n \in TypeNames
    <3>1. {k \in S : NameOf[k] = n} \in SUBSET Keys
      OBVIOUS
    <3> QED BY <3>1, CountIsNat DEF GroupBy
  <2>2. \A n \in TypeNames \ {"UNKNOWN"} : counts[n] = f[n]
    BY CountedByName DEF GroupBy
  <2>3. counts["UNKNOWN"] <= f["UNKNOWN"]
    BY CountedByName, NamesOfKeys DEF GroupBy
  <2> HIDE DEF f
  <2>4. \A n \in TypeNames : counts[n] <= f[n]
    BY <2>1, <2>2, <2>3
  <2> QED BY <2>1, <2>4, CountedByName DEF f
<1>3. DOMAIN f = TypeNames
  BY DEF GroupBy
<1> HIDE DEF f
<1>4. Pairs(counts) \subseteq Pairs(f)
  <2> SUFFICES ASSUME NEW n \in TypeNames, NEW i \in 1 .. counts[n]
               PROVE  <<n, i>> \in Pairs(f)
    BY <1>2 DEF Pairs
  <2>1. i \in 1 .. f[n]
    BY <1>2
  <2> QED BY <1>3, <2>1 DEF Pairs
<1>5. /\ Cardinality(Pairs(counts)) \in Nat
      /\ Cardinality(Pairs(counts)) <= Cardinality(Pairs(f))
  BY <1>1, <1>4, FS_Subset, FS_CardinalityType
<1>6. AtMostOneUnnamed(S) => Sum(counts) = Cardinality(S)
  BY <1>1, <1>2
<1> QED BY <1>1, <1>5, <1>6, SumOfPairs

(* A number that was read while the request ran counts at least the rows that
   have not changed since, and no more than these and the ones that have. *)
Within(n) ==
    /\ n \in Nat
    /\ Cardinality(Untouched) <= n
    /\ n <= Cardinality(Untouched \cup touched)

AfterCount == {"risks", "allTypes", "last24", "agents", "done"}

(* One that counts by name may be too small, where two types have none. *)
WithinByName(n) ==
    /\ n \in Nat
    /\ n <= Cardinality(Untouched \cup touched)
    /\ AtMostOneUnnamed(Present \cup touched) => Within(n)

SInv ==
    (kind = "statistics" /\ ~cut) =>
        /\ at \in AfterCount => Within(report.total)
        /\ at \in AfterCount \ {"risks"} => Within(Sum(report.byRisk))
        /\ at \in {"last24", "agents", "done"} => WithinByName(Sum(report.byType))
        /\ at \in {"agents", "done"} =>
              report.last24 <= Cardinality(Untouched \cup touched)
        /\ at = "done" => Within(Sum(report.byAgent))

LEMMA UntouchedAndTouched ==
    ASSUME TypeOK
    PROVE  /\ Untouched \in SUBSET Keys /\ touched \in SUBSET Keys
           /\ Untouched \cup touched \in SUBSET Keys
           /\ Untouched \subseteq Present
           /\ Present \subseteq Untouched \cup touched
BY PresentAreKeys DEF TypeOK, Untouched

(* What a statement counts now is within. *)
LEMMA PresentIsWithin == TypeOK => Within(Cardinality(Present))
<1> SUFFICES ASSUME TypeOK PROVE Within(Cardinality(Present))
  OBVIOUS
<1>1. Cardinality(Untouched) <= Cardinality(Present)
  BY UntouchedAndTouched, PresentAreKeys, CountGrows
<1>2. Cardinality(Present) <= Cardinality(Untouched \cup touched)
  BY UntouchedAndTouched, PresentAreKeys, CountGrows
<1> QED BY <1>1, <1>2, CountsAreNat DEF Within

LEMMA GroupsAreWithin ==
    ASSUME TypeOK, NEW column, NEW Vs, \A k \in Present : column[k] \in Vs
    PROVE  Within(Sum(GroupBy(Present, column, Vs)))
<1>1. Sum(GroupBy(Present, column, Vs)) = Cardinality(Present)
  BY PresentAreKeys, GroupsAddUp
<1> QED BY <1>1, PresentIsWithin

LEMMA NamesAreWithin ==
    ASSUME TypeOK, NEW counts \in CountsByName(Present)
    PROVE  WithinByName(Sum(counts))
<1>1. /\ Sum(counts) \in Nat /\ Sum(counts) <= Cardinality(Present)
      /\ AtMostOneUnnamed(Present) => Sum(counts) = Cardinality(Present)
  BY PresentAreKeys, NamesAddUp
<1>2. AtMostOneUnnamed(Present \cup touched) => AtMostOneUnnamed(Present)
  BY DEF AtMostOneUnnamed, UnnamedTypes
<1>3. /\ Within(Cardinality(Present))
      /\ Cardinality(Present) \in Nat
      /\ Cardinality(Untouched \cup touched) \in Nat
  BY PresentIsWithin, UntouchedAndTouched, CountsAreNat, CountIsNat
<1>4. Sum(counts) <= Cardinality(Untouched \cup touched)
  BY <1>1, <1>3 DEF Within
<1> QED BY <1>1, <1>2, <1>3, <1>4 DEF WithinByName

(* What is written or deleted meanwhile leaves what was within there. *)
LEMMA MeanwhileWidens ==
    ASSUME TypeOK, TypeOK', Meanwhile, at # "idle"
    PROVE  /\ Cardinality(Untouched') <= Cardinality(Untouched)
           /\ Cardinality(Untouched \cup touched)
                <= Cardinality(Untouched' \cup touched')
           /\ Cardinality(Untouched') \in Nat /\ Cardinality(Untouched) \in Nat
           /\ Cardinality(Untouched \cup touched) \in Nat
           /\ Cardinality(Untouched' \cup touched') \in Nat
<1>1. /\ Untouched \in SUBSET Keys /\ Untouched' \in SUBSET Keys
      /\ Untouched \cup touched \in SUBSET Keys
      /\ Untouched' \cup touched' \in SUBSET Keys
  BY PresentAreKeys DEF TypeOK, Untouched, Present
<1>2. /\ touched \subseteq touched'
      /\ \A k \in Keys \ touched' : rows'[k] = rows[k]
  BY DEF Meanwhile
<1>3. Untouched' \subseteq Untouched
  BY <1>2 DEF Untouched, Present
<1>4. Untouched \cup touched \subseteq Untouched' \cup touched'
  BY <1>2 DEF Untouched, Present
<1>5. Cardinality(Untouched') <= Cardinality(Untouched)
  BY <1>1, <1>3, CountGrows
<1>6. Cardinality(Untouched \cup touched)
        <= Cardinality(Untouched' \cup touched')
  BY <1>1, <1>4, CountGrows
<1> QED BY <1>1, <1>5, <1>6, CountIsNat

LEMMA SInvMeanwhile ==
    ASSUME TypeOK, TypeOK', SInv, Meanwhile
    PROVE  SInv'
<1>1. CASE at = "idle"
  BY <1>1 DEF Meanwhile, SInv, AfterCount
<1>2. CASE at' = "failed"
  BY <1>2 DEF SInv, AfterCount
<1>3. CASE at # "idle" /\ at' = at
  <2>1. UNCHANGED <<kind, report, cut>>
    BY DEF Meanwhile
  <2>2. \A n : Within(n) => Within(n)'
    BY <1>3, MeanwhileWidens DEF Within
  <2>2a. \A n : WithinByName(n) => WithinByName(n)'
    <3>1. Present \cup touched \subseteq Present' \cup touched'
      BY <1>3 DEF Meanwhile, Present
    <3>2. AtMostOneUnnamed(Present' \cup touched')
            => AtMostOneUnnamed(Present \cup touched)
      BY <3>1 DEF AtMostOneUnnamed, UnnamedTypes
    <3>3. \A n : (n \in Nat /\ n <= Cardinality(Untouched \cup touched))
                    => n <= Cardinality(Untouched' \cup touched')
      BY <1>3, MeanwhileWidens
    <3> QED BY <2>2, <3>2, <3>3 DEF WithinByName, AtMostOneUnnamed, UnnamedTypes
  <2>3. /\ Sum(report.byRisk)' = Sum(report.byRisk)
        /\ Sum(report.byType)' = Sum(report.byType)
        /\ Sum(report.byAgent)' = Sum(report.byAgent)
    BY <2>1
  <2>4. report.last24 \in Nat
    BY DEF TypeOK, Report
  <2>5. report.last24 <= Cardinality(Untouched \cup touched)
          => report'.last24 <= Cardinality(Untouched' \cup touched')
    BY <1>3, <2>1, <2>4, MeanwhileWidens
  <2> QED BY <1>3, <2>1, <2>2, <2>2a, <2>3, <2>5 DEF SInv
<1> QED BY <1>1, <1>2, <1>3 DEF Meanwhile

(* The statements of the statistics. *)
LEMMA ReadsKeepWithin ==
    ASSUME NEW from, NEW to, Reads(from, to)
    PROVE  /\ \A n : Within(n) <=> Within(n)'
           /\ \A n : WithinByName(n) <=> WithinByName(n)'
           /\ touched' = touched /\ Untouched' = Untouched
<1>1. /\ \A n : Within(n) <=> Within(n)'
      /\ touched' = touched /\ Untouched' = Untouched /\ Present' = Present
  BY ReadsKeepTable DEF Within, Reads, Untouched
<1>2. AtMostOneUnnamed(Present \cup touched)'
        <=> AtMostOneUnnamed(Present \cup touched)
  BY <1>1 DEF AtMostOneUnnamed, UnnamedTypes
<1> QED BY <1>1, <1>2 DEF WithinByName

LEMMA SInvStatements ==
    ASSUME TypeOK, SInv, GetEventStatistics
    PROVE  SInv'
<1>0. report \in Report
  BY DEF TypeOK
<1>1. CASE CountAll
  <2>1. Reads("count", "risks") /\ report'.total = Cardinality(Present)
    BY <1>0, <1>1 DEF CountAll, Gather, Statement, Reads, Report
  <2>2. Within(report.total)'
    BY <2>1, PresentIsWithin, ReadsKeepWithin
  <2> QED BY <2>1, <2>2 DEF SInv, AfterCount, Reads
<1>2. CASE CountRisks
  <2>1. /\ Reads("risks", "allTypes") /\ cut' = cut
        /\ report'.byRisk = GroupBy(Present, RiskOf, Risks)
        /\ report'.total = report.total
    BY <1>0, <1>2 DEF CountRisks, Gather, Statement, Reads, Report
  <2>2. \A k \in Present : RiskOf[k] \in Risks
    BY RowsReadAreRows DEF RiskOf, TypeOK, Row
  <2>3. Within(Sum(report.byRisk))'
    BY <2>1, <2>2, GroupsAreWithin, ReadsKeepWithin
  <2>4. (kind = "statistics" /\ ~cut) => Within(report.total)'
    BY <2>1, ReadsKeepWithin DEF SInv, AfterCount, Reads
  <2> QED BY <2>1, <2>3, <2>4 DEF SInv, AfterCount, Reads
<1>3. CASE CountAllTypes
  <2>1. /\ Reads("allTypes", "last24") /\ cut' = cut
        /\ \E counts \in CountsByName(Present) :
              report' = [report EXCEPT !.byType = counts]
    BY <1>3 DEF CountAllTypes, GatherOneOf, Statement, Reads
  <2>1a. PICK counts \in CountsByName(Present) :
             report' = [report EXCEPT !.byType = counts]
    BY <2>1
  <2>2. /\ report'.byType = counts
        /\ report'.total = report.total /\ report'.byRisk = report.byRisk
    BY <1>0, <2>1a DEF Report
  <2>3. WithinByName(Sum(report.byType))'
    BY <2>1, <2>2, NamesAreWithin, ReadsKeepWithin
  <2>4. (kind = "statistics" /\ ~cut) =>
           Within(report.total)' /\ Within(Sum(report.byRisk))'
    BY <2>1, <2>2, ReadsKeepWithin DEF SInv, AfterCount, Reads
  <2> QED BY <2>1, <2>3, <2>4 DEF SInv, AfterCount, Reads
<1>4. CASE CountLast24
  <2> DEFINE Recent == {k \in Present : rows[k].ts >= now - Day}
  <2>1. /\ Reads("last24", "agents") /\ cut' = cut
        /\ report'.last24 = Cardinality(Recent)
        /\ report'.total = report.total /\ report'.byRisk = report.byRisk
        /\ report'.byType = report.byType
    BY <1>0, <1>4 DEF CountLast24, Gather, Statement, Reads, Report
  <2>2. Recent \in SUBSET Keys /\ Recent \subseteq Untouched \cup touched
    BY UntouchedAndTouched, PresentAreKeys
  <2>3. Cardinality(Recent) <= Cardinality(Untouched \cup touched)
    <3> HIDE DEF Recent
    <3> QED BY <2>2, UntouchedAndTouched, CountGrows
  <2>4. (kind = "statistics" /\ ~cut) =>
           /\ Within(report.total)' /\ Within(Sum(report.byRisk))'
           /\ WithinByName(Sum(report.byType))'
    BY <2>1, ReadsKeepWithin DEF SInv, AfterCount, Reads
  <2>5. report'.last24 <= Cardinality(Untouched' \cup touched')
    <3> HIDE DEF Recent
    <3> QED BY <2>1, <2>3, ReadsKeepWithin
  <2> HIDE DEF Recent
  <2> QED BY <2>1, <2>4, <2>5 DEF SInv, AfterCount, Reads
<1>5. CASE CountAgents
  <2>1. /\ Reads("agents", "done") /\ cut' = cut
        /\ report'.byAgent = GroupBy(Present, AgentOf, Agents)
        /\ report'.total = report.total /\ report'.byRisk = report.byRisk
        /\ report'.byType = report.byType /\ report'.last24 = report.last24
    BY <1>0, <1>5 DEF CountAgents, Gather, Statement, Reads, Report
  <2>2. \A k \in Present : AgentOf[k] \in Agents
    BY EventAssumption, PresentAreKeys DEF AgentOf
  <2>3. Within(Sum(report.byAgent))'
    BY <2>1, <2>2, GroupsAreWithin, ReadsKeepWithin
  <2>4. (kind = "statistics" /\ ~cut) =>
           /\ Within(report.total)' /\ Within(Sum(report.byRisk))'
           /\ WithinByName(Sum(report.byType))'
           /\ report.last24 <= Cardinality(Untouched' \cup touched')
    BY <2>1, ReadsKeepWithin DEF SInv, AfterCount, Reads
  <2> QED BY <2>1, <2>3, <2>4 DEF SInv, AfterCount, Reads
<1>6. CASE CountRisksCut \/ CountAllTypesCut \/ CountAgentsCut
  BY <1>6 DEF CountRisksCut, CountAllTypesCut, CountAgentsCut, GatherCut, SInv
<1> QED BY <1>1, <1>2, <1>3, <1>4, <1>5, <1>6 DEF GetEventStatistics

(* The statements of a report or a timeline are not those of statistics. *)
LEMMA SInvReport ==
    ASSUME RInv, GenerateReport
    PROVE  SInv'
<1>1. /\ kind' = kind
      /\ at \in {"event", "timeline", "parent", "children", "total", "files",
                 "network", "types"}
  BY DEF GenerateReport, ProcessStatistics, GetEventByID, GetProcessTimeline,
         GetProcessTimelineCut, GetParent, GetParentNone, GetParentError,
         GetChildren, GetChildrenCut, CountTotal, CountFiles, CountNetwork,
         CountTypes, CountTypesCut, Gather, GatherOneOf, GatherCut, Statement
<1>2. kind # "statistics"
  BY <1>1 DEF RInv, OrderInv, AfterList, AfterChildren
<1> QED BY <1>1, <1>2 DEF SInv

LEMMA SInvNext == TypeOK /\ RInv /\ SInv /\ [Next]_vars => SInv'
<1> SUFFICES ASSUME TypeOK, RInv, SInv, [Next]_vars PROVE SInv'
  OBVIOUS
<1>1. CASE Meanwhile
  BY <1>1, TypeNext, SInvMeanwhile
<1>2. CASE Begin \/ Fail \/ Forget
  BY <1>2 DEF Begin, Kinds, Fail, Statement, Forget, SInv, AfterCount
<1>3. CASE UNCHANGED vars
  BY <1>3 DEF vars, rvars, tvars, SInv, Within, WithinByName,
                  AtMostOneUnnamed, UnnamedTypes, Untouched, Present
<1> QED BY <1>1, <1>2, <1>3, SInvStatements, SInvReport DEF Next

(* Each distribution of the statistics adds up to their total - that of the
   types to less where two of them have no name -, and the last day has no more events than there are, up to the rows that changed while
   the five statements ran. *)
THEOREM StatisticsAreConsistent == Spec => []StatisticsAgree
<1>1. Init => SInv
  BY DEF Init, SInv, AfterCount
<1>2. TypeOK /\ SInv => StatisticsAgree
  <2> SUFFICES ASSUME TypeOK, SInv, Done("statistics"), ~cut
               PROVE  StatisticsAgree
    BY DEF StatisticsAgree
  <2>1. /\ Within(report.total) /\ Within(Sum(report.byRisk))
        /\ WithinByName(Sum(report.byType)) /\ Within(Sum(report.byAgent))
        /\ report.last24 <= Cardinality(Untouched \cup touched)
    BY DEF SInv, Done, AfterCount
  <2>2. Cardinality(Untouched \cup touched)
           <= Cardinality(Untouched) + Cardinality(touched)
    BY UntouchedAndTouched, CountExceedsBy
  <2>3. /\ Cardinality(Untouched) \in Nat /\ Cardinality(touched) \in Nat
        /\ Cardinality(Untouched \cup touched) \in Nat
        /\ report.last24 \in Nat
    BY UntouchedAndTouched, CountIsNat DEF TypeOK, Report
  <2>4. \A m, n : Within(m) /\ Within(n) => Near(m, n)
    BY <2>2, <2>3 DEF Within, Near
  <2>5. report.last24 <= report.total + Cardinality(touched)
    BY <2>1, <2>2, <2>3 DEF Within
  <2>6. Sum(report.byType) <= report.total + Cardinality(touched)
    BY <2>1, <2>2, <2>3 DEF Within, WithinByName
  <2> QED BY <2>1, <2>4, <2>5, <2>6 DEF StatisticsAgree, WithinByName
<1> QED BY <1>1, <1>2, SInvNext, RequestInvariant, PTL DEF Spec
=============================================================================
