----------------------------- MODULE AlertsProofs -----------------------------
(***************************************************************************)
(* Proofs about AlertTrigger, for any slots and dispatches, and about      *)
(* TransferAccounting, for any bounds of counters, reports, reboots and    *)
(* restarts: recorded results are those of reservations, and the table of  *)
(* transfers has what was transferred, once.                               *)
(***************************************************************************)
EXTENDS MCAlerts, AlertEngineProofs

-----------------------------------------------------------------------------
(* AlertTrigger *)

\* The instance's cardinality is that of the theorems about finite sets.
LEMMA SameCardinality ==
  ASSUME NEW S
  PROVE  /\ Trigger!IsFiniteSet(S) <=> IsFiniteSet(S)
         /\ Trigger!Cardinality(S) = Cardinality(S)
<1>1. Trigger!IsFiniteSet(S) = IsFiniteSet(S)
  BY DEF Trigger!IsFiniteSet, IsFiniteSet
<1>2. Trigger!Cardinality(S) = Cardinality(S)
  BY DEF Trigger!Cardinality, Cardinality
<1> QED BY <1>1, <1>2

\* Invariants about cardinalities, in those terms.
LEMMA OpenMeans ==
  Trigger!ReservationsAreOpen <=>
    \A p \in Slot :
      /\ IsFiniteSet(Trigger!Reserved(p)) /\ made[p] = Cardinality(Trigger!Reserved(p))
      /\ p \notin spoiled => stale[p] = 0 /\ fresh[p] = Cardinality(Trigger!Reserved(p) \ judged)
BY SameCardinality DEF Trigger!ReservationsAreOpen

\* What is reserved, with the sets of dispatches left unexpanded.
LEMMA ReservedMeans ==
  Trigger!ResultsAreReserved <=>
    \A p \in Slot : /\ fresh[p] + stale[p] + counted[p] <= made[p]
                     /\ made[p] <= Cardinality(Trigger!Reserved(p))
BY SameCardinality DEF Trigger!ResultsAreReserved

\* At start nothing is dispatched.
LEMMA TriggerInit == Trigger!Init => Trigger!TriggerIInv
<1> SUFFICES ASSUME Trigger!Init PROVE Trigger!TriggerIInv
  OBVIOUS
<1> USE DEF Trigger!Init
<1>1. Trigger!TypeOK
  BY DEF Trigger!TypeOK, Trigger!Steps
<1>2. Trigger!ResultsComeOnce /\ Trigger!RecordedOnce
  BY DEF Trigger!ResultsComeOnce, Trigger!RecordedOnce
<1>3. \A p \in Slot : Trigger!Reserved(p) = {}
  BY DEF Trigger!Reserved
<1>4. Trigger!ReservationsAreOpen
  BY <1>3, FS_EmptySet, OpenMeans
<1>5. Trigger!ResultsAreReserved
  BY <1>3, FS_EmptySet, ReservedMeans
<1> QED BY <1>1, <1>2, <1>4, <1>5 DEF Trigger!TriggerIInv

\* The dispatches reserved for a slot are the same as long as none is reserved.
LEMMA SameReserved ==
  ASSUME Trigger!TypeOK, UNCHANGED slot, NEW d \in Dispatch, NEW s,
         step' = [step EXCEPT ![d] = s], s # "reserved", step[d] # "reserved"
  PROVE  \A p \in Slot : Trigger!Reserved(p)' = Trigger!Reserved(p)
BY DEF Trigger!Reserved, Trigger!TypeOK

\* A step of a dispatch that is neither reserved before nor after, and touches nothing else.
LEMMA MoveStep ==
  ASSUME Trigger!TriggerIInv, NEW d \in Dispatch, NEW s \in Trigger!Steps,
         step' = [step EXCEPT ![d] = s], s # "reserved", step[d] # "reserved",
         UNCHANGED <<slot, fresh, stale, coming, ran, recorded, counted, judged, made, spoiled>>
  PROVE  Trigger!TriggerIInv'
<1> USE DEF Trigger!TriggerIInv
<1>1. Trigger!TypeOK'
  BY DEF Trigger!TypeOK
<1>2. \A p \in Slot : Trigger!Reserved(p)' = Trigger!Reserved(p)
  BY SameReserved
<1>3. Trigger!ResultsComeOnce' /\ Trigger!RecordedOnce'
  BY DEF Trigger!ResultsComeOnce, Trigger!RecordedOnce, Trigger!TypeOK
<1>4. Trigger!ReservationsAreOpen' /\ Trigger!ResultsAreReserved'
  BY <1>2 DEF Trigger!ReservationsAreOpen, Trigger!ResultsAreReserved
<1> QED BY <1>1, <1>3, <1>4

\* One dispatch and one reservation more; its result is not judged yet.
LEMMA ReserveStep ==
  ASSUME Trigger!TriggerIInv, NEW d \in Dispatch, Trigger!Reserve(d)
  PROVE  Trigger!TriggerIInv'
<1> USE DEF Trigger!TriggerIInv, Trigger!Reserve, Trigger!Move
<1>1. Trigger!TypeOK'
  BY DEF Trigger!TypeOK, Trigger!Steps
<1>2. d \notin judged
  BY DEF Trigger!ResultsComeOnce
<1>3. Trigger!ResultsComeOnce' /\ Trigger!RecordedOnce'
  BY <1>2 DEF Trigger!ResultsComeOnce, Trigger!RecordedOnce, Trigger!TypeOK
<1>4. ASSUME NEW p \in Slot
      PROVE  /\ IsFiniteSet(Trigger!Reserved(p)') /\ made'[p] = Cardinality(Trigger!Reserved(p)')
             /\ p \notin spoiled' => /\ stale'[p] = 0
                                     /\ fresh'[p] = Cardinality(Trigger!Reserved(p)' \ judged')
  <2>0. /\ IsFiniteSet(Trigger!Reserved(p)) /\ made[p] = Cardinality(Trigger!Reserved(p))
        /\ p \notin spoiled => stale[p] = 0 /\ fresh[p] = Cardinality(Trigger!Reserved(p) \ judged)
    BY OpenMeans
  <2>1. CASE slot[d] # p
    <3>1. Trigger!Reserved(p)' = Trigger!Reserved(p)
      BY <2>1 DEF Trigger!Reserved, Trigger!TypeOK
    <3> QED BY <2>0, <2>1, <3>1 DEF Trigger!TypeOK
  <2>2. CASE slot[d] = p
    <3>1. Trigger!Reserved(p)' = Trigger!Reserved(p) \union {d} /\ d \notin Trigger!Reserved(p)
      BY <2>2 DEF Trigger!Reserved, Trigger!TypeOK
    <3>2. Trigger!Reserved(p)' \ judged' = (Trigger!Reserved(p) \ judged) \union {d}
      BY <3>1, <1>2
    <3>3. IsFiniteSet(Trigger!Reserved(p) \ judged)
      BY <2>0, FS_Subset
    <3>4. /\ IsFiniteSet(Trigger!Reserved(p)')
          /\ Cardinality(Trigger!Reserved(p)') = Cardinality(Trigger!Reserved(p)) + 1
      BY <3>1, <2>0, FS_AddElement
    <3>5. Cardinality(Trigger!Reserved(p)' \ judged') = Cardinality(Trigger!Reserved(p) \ judged) + 1
      BY <3>1, <3>2, <3>3, FS_AddElement
    <3>6. made'[p] = made[p] + 1 /\ fresh'[p] = fresh[p] + 1
      BY <2>2 DEF Trigger!TypeOK
    <3> QED BY <2>0, <3>4, <3>5, <3>6
  <2> QED BY <2>1, <2>2
<1>5. Trigger!ReservationsAreOpen'
  BY <1>4, SameCardinality DEF Trigger!ReservationsAreOpen
<1>6. \A p \in Slot : fresh'[p] + stale'[p] + counted'[p] <= made'[p]
  BY DEF Trigger!TypeOK, Trigger!ResultsAreReserved
<1>7. Trigger!ResultsAreReserved'
  <2>1. \A p \in Slot : made'[p] \in Nat
    BY <1>1 DEF Trigger!TypeOK
  <2>2. \A p \in Slot : made'[p] = Trigger!Cardinality(Trigger!Reserved(p)')
    BY <1>4, SameCardinality
  <2> QED BY <1>6, <2>1, <2>2 DEF Trigger!ResultsAreReserved
<1> QED BY <1>1, <1>3, <1>5, <1>7

\* Where nobody is reserved, entries are not more than before: what is left to show.
LEMMA CountsStep ==
  ASSUME Trigger!TriggerIInv, Trigger!TypeOK',
         \A p \in Slot : Trigger!Reserved(p)' = Trigger!Reserved(p), UNCHANGED made,
         \A p \in Slot : fresh'[p] + stale'[p] + counted'[p] <= fresh[p] + stale[p] + counted[p],
         \A p \in Slot \ spoiled' :
           /\ p \notin spoiled
           /\ stale'[p] = 0 /\ fresh'[p] = Cardinality(Trigger!Reserved(p) \ judged')
  PROVE  Trigger!ReservationsAreOpen' /\ Trigger!ResultsAreReserved'
<1>1. Trigger!ReservationsAreOpen'
  BY SameCardinality DEF Trigger!ReservationsAreOpen, Trigger!TriggerIInv
<1>2. \A p \in Slot : /\ fresh'[p] \in Nat /\ stale'[p] \in Nat /\ counted'[p] \in Nat
                      /\ fresh[p] \in Nat /\ stale[p] \in Nat /\ counted[p] \in Nat
                      /\ made[p] \in Nat
  BY DEF Trigger!TriggerIInv, Trigger!TypeOK
<1>3. \A p \in Slot : /\ fresh[p] + stale[p] + counted[p] <= made[p]
                      /\ made[p] <= Trigger!Cardinality(Trigger!Reserved(p))
  BY DEF Trigger!TriggerIInv, Trigger!ResultsAreReserved
<1>4. \A p \in Slot : fresh'[p] + stale'[p] + counted'[p] <= made[p]
  BY <1>2, <1>3
<1> QED BY <1>1, <1>3, <1>4 DEF Trigger!ResultsAreReserved

\* Steps that take nobody's reservation: what they spoil, they say.
LEMMA RevokeStep ==
  ASSUME Trigger!TriggerIInv, NEW d \in Dispatch, Trigger!Revoke(d)
  PROVE  Trigger!TriggerIInv'
<1> USE DEF Trigger!TriggerIInv, Trigger!Revoke, Trigger!Move, Trigger!Popped
<1>1. Trigger!TypeOK'
  BY DEF Trigger!TypeOK, Trigger!Steps
<1>2. \A p \in Slot : Trigger!Reserved(p)' = Trigger!Reserved(p)
  BY SameReserved
<1>3. Trigger!ResultsComeOnce' /\ Trigger!RecordedOnce'
  BY DEF Trigger!ResultsComeOnce, Trigger!RecordedOnce, Trigger!TypeOK
<1>4. \A p \in Slot : fresh'[p] + stale'[p] + counted'[p] <= fresh[p] + stale[p] + counted[p]
  BY DEF Trigger!TypeOK
<1>5. \A p \in Slot \ spoiled' : /\ p \notin spoiled
                                 /\ stale'[p] = 0
                                 /\ fresh'[p] = Cardinality(Trigger!Reserved(p) \ judged')
  BY OpenMeans DEF Trigger!TypeOK
<1>6. Trigger!ReservationsAreOpen' /\ Trigger!ResultsAreReserved'
  BY <1>1, <1>2, <1>4, <1>5, CountsStep
<1> QED BY <1>1, <1>3, <1>6

\* A lapse spoils its slot and takes no result.
LEMMA LapseStep ==
  ASSUME Trigger!TriggerIInv, NEW q \in Slot, Trigger!Lapse(q)
  PROVE  Trigger!TriggerIInv'
<1> USE DEF Trigger!TriggerIInv, Trigger!Lapse
<1>1. Trigger!TypeOK'
  BY DEF Trigger!TypeOK
<1>2. \A p \in Slot : Trigger!Reserved(p)' = Trigger!Reserved(p)
  BY DEF Trigger!Reserved
<1>3. Trigger!ResultsComeOnce' /\ Trigger!RecordedOnce'
  BY DEF Trigger!ResultsComeOnce, Trigger!RecordedOnce
<1>4. \A p \in Slot : fresh'[p] + stale'[p] + counted'[p] <= fresh[p] + stale[p] + counted[p]
  BY DEF Trigger!TypeOK
<1>5. \A p \in Slot \ spoiled' : /\ p \notin spoiled
                                 /\ stale'[p] = 0
                                 /\ fresh'[p] = Cardinality(Trigger!Reserved(p) \ judged')
  BY OpenMeans DEF Trigger!TypeOK
<1>6. Trigger!ReservationsAreOpen' /\ Trigger!ResultsAreReserved'
  BY <1>1, <1>2, <1>4, <1>5, CountsStep
<1> QED BY <1>1, <1>3, <1>6

\* A result on its way, or lost: a reserved dispatch reports once only.
LEMMA ReportingStep ==
  ASSUME Trigger!TriggerIInv, NEW d \in Dispatch, Trigger!AgentReports(d) \/ Trigger!LoseResult(d)
  PROVE  Trigger!TriggerIInv'
<1> USE DEF Trigger!TriggerIInv, Trigger!AgentReports, Trigger!LoseResult, Trigger!history
<1>1. Trigger!TypeOK'
  BY DEF Trigger!TypeOK
<1>2. Trigger!ResultsComeOnce' /\ Trigger!RecordedOnce'
  BY DEF Trigger!ResultsComeOnce, Trigger!RecordedOnce
<1>3. \A p \in Slot : Trigger!Reserved(p)' = Trigger!Reserved(p)
  BY DEF Trigger!Reserved
<1>4. Trigger!ReservationsAreOpen' /\ Trigger!ResultsAreReserved'
  BY <1>3, SameCardinality DEF Trigger!ReservationsAreOpen, Trigger!ResultsAreReserved
<1> QED BY <1>1, <1>2, <1>4

\* A restart spoils every slot and forgets its reservations.
LEMMA TriggerRestartStep ==
  ASSUME Trigger!TriggerIInv, Trigger!Restart
  PROVE  Trigger!TriggerIInv'
<1> USE DEF Trigger!TriggerIInv, Trigger!Restart
<1>1. Trigger!TypeOK'
  BY DEF Trigger!TypeOK, Trigger!Steps
<1>2. Trigger!ResultsComeOnce' /\ Trigger!RecordedOnce'
  BY DEF Trigger!ResultsComeOnce, Trigger!RecordedOnce, Trigger!TypeOK
<1>3. \A p \in Slot : Trigger!Reserved(p)' = Trigger!Reserved(p)
  BY DEF Trigger!Reserved, Trigger!TypeOK
<1>4. \A p \in Slot : fresh'[p] + stale'[p] + counted'[p] <= fresh[p] + stale[p] + counted[p]
  BY DEF Trigger!TypeOK
<1>5. Trigger!ReservationsAreOpen' /\ Trigger!ResultsAreReserved'
  BY <1>1, <1>3, <1>4, CountsStep
<1> QED BY <1>1, <1>2, <1>5

\* A result of a reserved dispatch finds a reservation: as long as nothing else
\* happened to the slot there is one for each that did not come.
LEMMA CompleteStep ==
  ASSUME Trigger!TriggerIInv, NEW d \in Dispatch, Trigger!CompleteResult(d)
  PROVE  Trigger!TriggerIInv'
<1> USE DEF Trigger!TriggerIInv, Trigger!CompleteResult, Trigger!Record, Trigger!Popped
<1>1. Trigger!TypeOK'
  BY DEF Trigger!TypeOK
<1>2. \A p \in Slot : Trigger!Reserved(p)' = Trigger!Reserved(p)
  BY DEF Trigger!Reserved
<1>3. d \in coming /\ d \notin judged
  BY DEF Trigger!ResultsComeOnce
<1>4. Trigger!ResultsComeOnce'
  BY DEF Trigger!ResultsComeOnce
<1>5. \A p \in Slot : fresh'[p] + stale'[p] + counted'[p] <= fresh[p] + stale[p] + counted[p]
  BY DEF Trigger!TypeOK
<1>6. ASSUME NEW p \in Slot, p \notin spoiled, p \notin spoiled'
      PROVE  /\ stale'[p] = 0 /\ fresh'[p] = Cardinality(Trigger!Reserved(p) \ judged')
             /\ p = slot[d] => fresh[p] > 0
  <2>0. /\ IsFiniteSet(Trigger!Reserved(p))
        /\ fresh[p] = Cardinality(Trigger!Reserved(p) \ judged) /\ stale[p] = 0
    BY <1>6, OpenMeans
  <2>1. CASE p # slot[d]
    <3>1. d \notin Trigger!Reserved(p)
      BY <2>1 DEF Trigger!Reserved
    <3>2. Trigger!Reserved(p) \ judged' = Trigger!Reserved(p) \ judged
      BY <3>1
    <3> QED BY <2>0, <2>1, <3>2 DEF Trigger!TypeOK
  <2>2. CASE p = slot[d]
    <3>1. step[d] = "reserved" /\ judged' = judged \union {d}
      BY <1>6, <2>2
    <3>2. d \in Trigger!Reserved(p) \ judged
      BY <1>3, <2>2, <3>1 DEF Trigger!Reserved
    <3>3. Trigger!Reserved(p) \ judged' = (Trigger!Reserved(p) \ judged) \ {d}
      BY <3>1
    <3>4. IsFiniteSet(Trigger!Reserved(p) \ judged)
      BY <2>0, FS_Subset
    <3>5. Cardinality(Trigger!Reserved(p) \ judged') = Cardinality(Trigger!Reserved(p) \ judged) - 1
      BY <3>2, <3>3, <3>4, FS_RemoveElement
    <3>6. fresh[p] \in Nat /\ fresh[p] # 0
      BY <2>0, <3>2, <3>4, FS_EmptySet DEF Trigger!TypeOK
    <3>7. fresh'[p] = fresh[p] - 1 /\ stale'[p] = 0
      BY <2>2, <3>6 DEF Trigger!TypeOK
    <3> QED BY <2>0, <3>5, <3>6, <3>7
  <2> QED BY <2>1, <2>2
<1>7. \A p \in spoiled : p \in spoiled'
  OBVIOUS
<1>8. Trigger!ReservationsAreOpen' /\ Trigger!ResultsAreReserved'
  BY <1>1, <1>2, <1>5, <1>6, <1>7, CountsStep
<1>9. ASSUME NEW e \in Dispatch, slot[e] \notin spoiled'
      PROVE  recorded'[e] = IF e \in judged' THEN 1 ELSE 0
  <2>1. recorded[e] = IF e \in judged THEN 1 ELSE 0
    BY <1>7, <1>9 DEF Trigger!RecordedOnce
  <2>2. CASE e # d
    BY <2>1, <2>2 DEF Trigger!TypeOK
  <2>3. CASE e = d
    <3>1. step[d] = "reserved"
      BY <1>9, <2>3
    <3>2. slot[d] \in Slot /\ fresh[slot[d]] > 0
      BY <1>6, <1>7, <1>9, <2>3 DEF Trigger!TypeOK
    <3> QED BY <1>3, <2>1, <2>3, <3>1, <3>2 DEF Trigger!TypeOK
  <2> QED BY <2>2, <2>3
<1>10. Trigger!RecordedOnce'
  BY <1>9 DEF Trigger!RecordedOnce
<1> QED BY <1>1, <1>4, <1>8, <1>10

\* Every step of the dispatches, the agents and the store keeps the invariant.
LEMMA TriggerStep == Trigger!TriggerIInv /\ [Trigger!Next]_triggerVars => Trigger!TriggerIInv'
<1> SUFFICES ASSUME Trigger!TriggerIInv, [Trigger!Next]_triggerVars PROVE Trigger!TriggerIInv'
  OBVIOUS
<1>1. ASSUME NEW d \in Dispatch, Trigger!BeginDispatch(d) PROVE Trigger!TriggerIInv'
  BY <1>1, MoveStep DEF Trigger!BeginDispatch, Trigger!Move, Trigger!Steps, Trigger!history
<1>2. ASSUME NEW d \in Dispatch, Trigger!DispatchSent(d) PROVE Trigger!TriggerIInv'
  BY <1>2, MoveStep DEF Trigger!DispatchSent, Trigger!Move, Trigger!Steps, Trigger!history
<1>3. ASSUME NEW d \in Dispatch, Trigger!DispatchStored(d) PROVE Trigger!TriggerIInv'
  BY <1>3, MoveStep DEF Trigger!DispatchStored, Trigger!Move, Trigger!Steps, Trigger!history
<1>4. CASE UNCHANGED triggerVars
  <2> USE <1>4 DEF Trigger!TriggerIInv, triggerVars
  <2>1. \A p \in Slot : Trigger!Reserved(p)' = Trigger!Reserved(p)
    BY DEF Trigger!Reserved
  <2>2. Trigger!TypeOK' /\ Trigger!ResultsComeOnce' /\ Trigger!RecordedOnce'
    BY DEF Trigger!TypeOK, Trigger!ResultsComeOnce, Trigger!RecordedOnce
  <2>3. Trigger!ReservationsAreOpen' /\ Trigger!ResultsAreReserved'
    BY <2>1, SameCardinality DEF Trigger!ReservationsAreOpen, Trigger!ResultsAreReserved
  <2> QED BY <2>2, <2>3
<1> QED BY <1>1, <1>2, <1>3, <1>4, ReserveStep, RevokeStep, LapseStep, ReportingStep, CompleteStep,
           TriggerRestartStep DEF Trigger!Next

\* For any number of (cron, server) pairs and dispatches, a server never has more results
\* of triggered commands recorded than were reserved for it, and a result that comes after
\* its reservation is recorded once, unless the slot saw a revocation, a lapse, a restart or a
\* result ahead of its reservation (complete_task_result, send_trigger_tasks).
THEOREM ResultsMatch == AlertsSpec => []ResultsMatchReservations
<1>1. AlertsInit => Trigger!TriggerIInv
  BY TriggerInit DEF AlertsInit
<1>2. Trigger!TriggerIInv /\ [AlertsNext]_<<scene, vars, triggerVars, trafficVars>>
        => Trigger!TriggerIInv'
  BY TriggerStep DEF AlertsNext
<1>3. Trigger!TriggerIInv => ResultsMatchReservations
  BY DEF Trigger!TriggerIInv, Trigger!RecordedOnce, ResultsMatchReservations,
         Trigger!ResultsMatchReservations, Trigger!ReservedResultsCount, Trigger!ResultsComeOnce,
         Trigger!TypeOK
<1> QED BY <1>1, <1>2, <1>3, PTL DEF AlertsSpec

-----------------------------------------------------------------------------
(* TransferAccounting *)

USE TrafficAssumption

\* A pair is a function on its two places.
LEMMA PairOfSequences ==
  ASSUME NEW S, NEW a \in S, NEW b \in S
  PROVE  <<a, b>> \in [1..2 -> S]
<1>1. <<a, b>> \in Seq(S) /\ Len(<<a, b>>) = 2
  OBVIOUS
<1> QED BY <1>1, LenProperties

\* At start no report is sent and the table is empty.
LEMMA TrafficInit == Traffic!Init => Traffic!TrafficIInv
<1> SUFFICES ASSUME Traffic!Init PROVE Traffic!TrafficIInv
  OBVIOUS
<1> USE DEF Traffic!Init, Traffic!Zero, Traffic!Dir
<1>1. Traffic!TypeOK
  <2>1. streams \in [1..2 -> Seq(Traffic!Report)]
    <3>1. <<>> \in Seq(Traffic!Report)
      OBVIOUS
    <3> QED BY <3>1, PairOfSequences
  <2>2. Traffic!Zero \in Traffic!Counters /\ Traffic!Zero \in [Traffic!Dir -> Nat]
    BY DEF Traffic!Counters
  <2>3. newest \in Traffic!Report
    BY <2>2 DEF Traffic!Report
  <2>4. adding \in Seq(Traffic!Report) /\ Len(adding) <= 1
    OBVIOUS
  <2> HIDE DEF Traffic!Zero, Traffic!Dir
  <2> QED BY <2>1, <2>2, <2>3, <2>4 DEF Traffic!TypeOK
<1>2. Traffic!Waiting = {}
  BY DEF Traffic!Waiting
<1>3. Traffic!ReportsAreInOrder
  BY <1>2 DEF Traffic!ReportsAreInOrder, Traffic!GrownBy
<1>4. Traffic!TableIsBehind
  BY DEF Traffic!TableIsBehind, Traffic!Kept
<1> QED BY <1>1, <1>3, <1>4 DEF Traffic!TrafficIInv

\* What the sums and counters of a direction are, in any state.
LEMMA Numbers ==
  ASSUME Traffic!TypeOK, NEW d \in Traffic!Dir
  PROVE  /\ counter[d] \in Nat /\ snapshot[d] \in Nat /\ since[d] \in Nat
         /\ transfers[d] \in Nat /\ total[d] \in Nat /\ repeated[d] \in Nat /\ base[d] \in Nat
         /\ newest.value[d] \in Nat /\ newest.at[d] \in Nat /\ newest.n \in Nat
         /\ \A r \in Traffic!Report : r.value[d] \in Nat /\ r.at[d] \in Nat /\ r.n \in Nat
         /\ adding # <<>> => adding[1] \in Traffic!Report
<1>1. ASSUME NEW r \in Traffic!Report
      PROVE  r.value[d] \in Nat /\ r.at[d] \in Nat /\ r.n \in Nat
  BY DEF Traffic!Counters, Traffic!Report
<1>2. \A c \in Traffic!Counters : c[d] \in Nat
  BY DEF Traffic!Counters
<1>3. newest \in Traffic!Report /\ (adding # <<>> => adding[1] \in Traffic!Report)
  BY DEF Traffic!TypeOK
<1> QED BY <1>1, <1>2, <1>3 DEF Traffic!TypeOK

\* What is kept of a counter is a number.
LEMMA KeptNumber ==
  ASSUME Traffic!TypeOK, NEW d \in Traffic!Dir
  PROVE  Traffic!Kept[d] \in Nat
<1>1. CASE adding = <<>>
  BY <1>1, Numbers DEF Traffic!Kept
<1>2. CASE adding # <<>>
  <2>1. adding[1].value[d] \in Nat
    BY <1>2, Numbers
  <2> QED BY <1>2, <2>1 DEF Traffic!Kept
<1> QED BY <1>1, <1>2

\* What waits on the streams are reports, their heads among them.
LEMMA WaitingAreReports ==
  ASSUME Traffic!TypeOK
  PROVE  /\ Traffic!Waiting \union {newest} \subseteq Traffic!Report
         /\ \A s \in 1..2 : streams[s] # <<>> => Head(streams[s]) \in Traffic!Waiting
<1>1. \A s \in 1..2 : streams[s] \in Seq(Traffic!Report)
  BY DEF Traffic!TypeOK
<1>2. \A r \in Traffic!Waiting : \E s \in 1..2 : \E i \in 1..Len(streams[s]) : r = streams[s][i]
  BY DEF Traffic!Waiting
<1>3. Traffic!Waiting \subseteq Traffic!Report
  BY <1>1, <1>2
<1>4. ASSUME NEW s \in 1..2, streams[s] # <<>> PROVE Head(streams[s]) \in Traffic!Waiting
  <2>1. 1 \in 1..Len(streams[s]) /\ Head(streams[s]) = streams[s][1]
    BY <1>1, <1>4
  <2> QED BY <2>1 DEF Traffic!Waiting
<1> QED BY <1>3, <1>4 DEF Traffic!TypeOK

\* Nothing new waits, and the agent did not move.
LEMMA SameReportsStep ==
  ASSUME Traffic!ReportsAreInOrder, UNCHANGED <<counter, sent, total>>,
         (Traffic!Waiting \union {newest})' \subseteq Traffic!Waiting \union {newest}
  PROVE  Traffic!ReportsAreInOrder'
BY DEF Traffic!ReportsAreInOrder

\* The agent's counters and its reports: a later one is above an earlier one by
\* no more than was transferred between them.
LEMMA TransferStep ==
  ASSUME Traffic!TrafficIInv, NEW d \in Traffic!Dir, Traffic!Transfer(d)
  PROVE  Traffic!TrafficIInv'
<1> USE DEF Traffic!TrafficIInv, Traffic!Transfer
<1>1. Traffic!TypeOK'
  <2>1. counter \in Traffic!Counters /\ total \in [Traffic!Dir -> Nat]
    BY DEF Traffic!TypeOK
  <2>2. counter[d] + 1 \in 0..MaxBytes /\ total[d] + 1 \in Nat
    BY <2>1, TrafficAssumption DEF Traffic!Counters
  <2>3. counter' \in Traffic!Counters
    BY <2>1, <2>2 DEF Traffic!Counters
  <2>4. total' \in [Traffic!Dir -> Nat]
    BY <2>1, <2>2
  <2> QED BY <2>3, <2>4 DEF Traffic!TypeOK
<1>2. Traffic!Waiting \union {newest} \subseteq Traffic!Report
  BY WaitingAreReports
<1>3. (Traffic!Waiting \union {newest})' = Traffic!Waiting \union {newest}
  BY DEF Traffic!Waiting
<1>4. ASSUME NEW r \in Traffic!Waiting \union {newest}
      PROVE  Traffic!GrownBy(r, counter', total')
  <2>1. Traffic!GrownBy(r, counter, total)
    BY DEF Traffic!ReportsAreInOrder
  <2>2. \A e \in Traffic!Dir : \/ counter'[e] = counter[e] /\ total'[e] = total[e]
                               \/ counter'[e] = counter[e] + 1 /\ total'[e] = total[e] + 1
    BY DEF Traffic!TypeOK, Traffic!Counters
  <2> QED BY <1>2, <2>1, <2>2, Numbers DEF Traffic!GrownBy
<1>5. Traffic!ReportsAreInOrder'
  BY <1>3, <1>4 DEF Traffic!ReportsAreInOrder, Traffic!GrownBy
<1>6. Traffic!TableIsBehind'
  BY DEF Traffic!TableIsBehind, Traffic!Kept
<1> QED BY <1>1, <1>5, <1>6

\* A report that is sent is the newest, and has the counters of now.
LEMMA SendStep ==
  ASSUME Traffic!TrafficIInv, Traffic!Send
  PROVE  Traffic!TrafficIInv'
<1> DEFINE report == [n |-> sent + 1, value |-> counter, at |-> total]
<1> USE DEF Traffic!TrafficIInv, Traffic!Send
<1>1. report \in Traffic!Report /\ sent \in Nat
  BY DEF Traffic!TypeOK, Traffic!Report
<1>2. /\ streams' = [streams EXCEPT ![1] = Append(@, report)]
      /\ streams'[2] = streams[2] /\ streams'[1] = Append(streams[1], report)
      /\ streams[1] \in Seq(Traffic!Report) /\ streams[2] \in Seq(Traffic!Report)
  BY DEF Traffic!TypeOK
<1> HIDE DEF report
<1>3. Traffic!TypeOK'
  BY <1>1, <1>2 DEF Traffic!TypeOK
<1>4. Traffic!Waiting' \subseteq Traffic!Waiting \union {report}
  <2>1. ASSUME NEW s \in 1..2, NEW i \in 1..Len(streams'[s])
        PROVE  streams'[s][i] \in Traffic!Waiting \union {report}
    <3>1. CASE s = 2
      BY <1>2, <3>1 DEF Traffic!Waiting
    <3>2. CASE s = 1
      BY <1>1, <1>2, <3>2, AppendProperties DEF Traffic!Waiting
    <3> QED BY <3>1, <3>2
  <2> QED BY <2>1 DEF Traffic!Waiting
<1>5. Traffic!GrownBy(report, counter, total) /\ Traffic!GrownBy(report, report.value, report.at)
  BY Numbers DEF report, Traffic!GrownBy
<1>6. report.n = sent + 1 /\ report.value = counter /\ report.at = total
  BY DEF report
<1>7. \A r \in Traffic!Waiting \union {newest} : r.n \in Nat /\ r.n <= sent
  BY WaitingAreReports DEF Traffic!ReportsAreInOrder, Traffic!TypeOK, Traffic!Report
<1>8. Traffic!ReportsAreInOrder'
  <2>1. ASSUME NEW r \in (Traffic!Waiting \union {newest})'
        PROVE  r.n <= sent' /\ Traffic!GrownBy(r, counter', total')
    BY <1>1, <1>4, <1>5, <1>6, <1>7 DEF Traffic!ReportsAreInOrder
  <2>2. ASSUME NEW r \in (Traffic!Waiting \union {newest})', NEW q \in (Traffic!Waiting \union {newest})',
               r.n <= q.n
        PROVE  Traffic!GrownBy(r, q.value, q.at)
    BY <1>1, <1>4, <1>5, <1>6, <1>7, <2>2 DEF Traffic!ReportsAreInOrder
  <2> QED BY <2>1, <2>2 DEF Traffic!ReportsAreInOrder, Traffic!GrownBy
<1>9. Traffic!TableIsBehind'
  BY DEF Traffic!TableIsBehind, Traffic!Kept
<1> QED BY <1>3, <1>8, <1>9

\* What arrives of a broken stream is of what was sent.
LEMMA StreamBreaks ==
  ASSUME Traffic!TypeOK, NEW k \in 0..Len(streams[1]), streams' = <<<<>>, SubSeq(streams[1], 1, k)>>
  PROVE  /\ streams' \in [1..2 -> Seq(Traffic!Report)]
         /\ Traffic!Waiting' \subseteq Traffic!Waiting
<1>1. streams[1] \in Seq(Traffic!Report)
  BY DEF Traffic!TypeOK
<1>2. \A i \in 1..k : streams[1][i] \in Traffic!Report
  BY <1>1
<1>3. /\ SubSeq(streams[1], 1, k) \in Seq(Traffic!Report)
      /\ Len(SubSeq(streams[1], 1, k)) = k
      /\ \A i \in 1..k : SubSeq(streams[1], 1, k)[i] = streams[1][i]
  BY <1>1
<1>4. streams'[1] = <<>> /\ streams'[2] = SubSeq(streams[1], 1, k)
  OBVIOUS
<1>5. ASSUME NEW s \in 1..2, NEW i \in 1..Len(streams'[s])
      PROVE  streams'[s][i] \in Traffic!Waiting
  <2>1. s = 2 /\ i \in 1..k
    BY <1>3, <1>4
  <2>2. streams'[s][i] = streams[1][i] /\ i \in 1..Len(streams[1])
    BY <1>1, <1>3, <1>4, <2>1
  <2> QED BY <2>2 DEF Traffic!Waiting
<1>6. Traffic!Waiting' \subseteq Traffic!Waiting
  <2> SUFFICES ASSUME NEW r \in Traffic!Waiting' PROVE r \in Traffic!Waiting
    OBVIOUS
  <2>1. PICK s \in 1..2 : \E i \in 1..Len(streams'[s]) : r = streams'[s][i]
    BY DEF Traffic!Waiting
  <2> QED BY <1>5, <2>1
<1>7. streams' \in [1..2 -> Seq(Traffic!Report)]
  <2>1. <<>> \in Seq(Traffic!Report)
    OBVIOUS
  <2> QED BY <1>3, <2>1, PairOfSequences
<1> QED BY <1>6, <1>7

\* Of the reports on a stream that breaks, the dashboard still reads the first few or none.
LEMMA ReconnectStep ==
  ASSUME Traffic!TrafficIInv, Traffic!Reconnect
  PROVE  Traffic!TrafficIInv'
<1> USE DEF Traffic!TrafficIInv, Traffic!Reconnect, Traffic!agentVars
<1>1. streams' \in [1..2 -> Seq(Traffic!Report)] /\ Traffic!Waiting' \subseteq Traffic!Waiting
  BY StreamBreaks
<1>2. Traffic!TypeOK'
  BY <1>1 DEF Traffic!TypeOK
<1>3. Traffic!ReportsAreInOrder'
  BY <1>1, SameReportsStep
<1>4. Traffic!TableIsBehind'
  BY DEF Traffic!TableIsBehind, Traffic!Kept
<1> QED BY <1>2, <1>3, <1>4

\* A reboot takes the counters back and nothing from what was transferred.
LEMMA RebootStep ==
  ASSUME Traffic!TrafficIInv, Traffic!Reboot
  PROVE  Traffic!TrafficIInv'
<1> USE DEF Traffic!TrafficIInv, Traffic!Reboot
<1>1. streams' \in [1..2 -> Seq(Traffic!Report)] /\ Traffic!Waiting' \subseteq Traffic!Waiting
  BY StreamBreaks
<1>2. counter' \in Traffic!Counters /\ \A d \in Traffic!Dir : counter'[d] = 0
  BY DEF Traffic!Zero, Traffic!Counters
<1>3. Traffic!TypeOK'
  BY <1>1, <1>2 DEF Traffic!TypeOK
<1>4. Traffic!Waiting \union {newest} \subseteq Traffic!Report
  BY WaitingAreReports
<1>5. \A r \in Traffic!Waiting \union {newest} : Traffic!GrownBy(r, counter', total')
  BY <1>2, <1>4, Numbers DEF Traffic!ReportsAreInOrder, Traffic!GrownBy
<1>6. Traffic!ReportsAreInOrder'
  BY <1>1, <1>5 DEF Traffic!ReportsAreInOrder, Traffic!GrownBy
<1>7. Traffic!TableIsBehind'
  BY DEF Traffic!TableIsBehind, Traffic!Kept
<1> QED BY <1>3, <1>6, <1>7

-----------------------------------------------------------------------------
(* record_transfer_delta *)

\* A report is taken off its stream: it is one that waited, and no other comes.
LEMMA TakeStep ==
  ASSUME Traffic!TrafficIInv, NEW s \in 1..2, Traffic!Take(s)
  PROVE  /\ Head(streams[s]) \in Traffic!Report
         /\ streams' \in [1..2 -> Seq(Traffic!Report)] /\ newest' \in Traffic!Report
         /\ repeated' \in [Traffic!Dir -> Nat]
         /\ Traffic!ReportsAreInOrder'
         /\ ~Traffic!Late(Head(streams[s])) =>
              Traffic!GrownBy(newest, Head(streams[s]).value, Head(streams[s]).at)
<1> DEFINE h == Head(streams[s])
<1> USE DEF Traffic!TrafficIInv, Traffic!Take, Traffic!agentVars
<1>1. h \in Traffic!Waiting /\ h \in Traffic!Report
  BY WaitingAreReports
<1>2. /\ streams[s] \in Seq(Traffic!Report) /\ streams[s] # <<>>
      /\ streams' = [streams EXCEPT ![s] = Tail(streams[s])]
  BY DEF Traffic!TypeOK
<1>3. /\ Tail(streams[s]) \in Seq(Traffic!Report)
      /\ Len(Tail(streams[s])) = Len(streams[s]) - 1
      /\ \A i \in 1..Len(Tail(streams[s])) : Tail(streams[s])[i] = streams[s][i + 1]
  BY <1>2, HeadTailProperties
<1>4. streams' \in [1..2 -> Seq(Traffic!Report)]
  BY <1>2, <1>3 DEF Traffic!TypeOK
<1>5. ASSUME NEW q \in 1..2, NEW i \in 1..Len(streams'[q])
      PROVE  streams'[q][i] \in Traffic!Waiting
  <2>1. CASE q = s
    <3>1. streams'[q] = Tail(streams[s])
      BY <1>2, <2>1 DEF Traffic!TypeOK
    <3>2. Len(streams[s]) \in Nat
      BY <1>2
    <3>3. i \in 1..Len(Tail(streams[s])) /\ i \in Nat
      <4> HIDE DEF Traffic!TrafficIInv, Traffic!Take
      <4> QED BY <1>3, <3>1, <3>2
    <3>4. i + 1 \in 1..Len(streams[s])
      BY <1>3, <3>2, <3>3
    <3>5. streams'[q][i] = streams[s][i + 1]
      BY <1>3, <3>1, <3>3
    <3> QED BY <3>4, <3>5 DEF Traffic!Waiting
  <2>2. CASE q # s
    <3>1. streams'[q] = streams[q]
      BY <1>2, <2>2 DEF Traffic!TypeOK
    <3> QED BY <3>1 DEF Traffic!Waiting
  <2> QED BY <2>1, <2>2
<1>6. Traffic!Waiting' \subseteq Traffic!Waiting
  BY <1>5 DEF Traffic!Waiting
<1>7. newest' \in Traffic!Waiting \union {newest} /\ newest' \in Traffic!Report
  BY <1>1 DEF Traffic!TypeOK
<1>8. Traffic!ReportsAreInOrder'
  BY <1>6, <1>7, SameReportsStep
<1>9. repeated' \in [Traffic!Dir -> Nat]
  <2>1. \A d \in Traffic!Dir :
          repeated[d] \in Nat /\ snapshot[d] \in Nat /\ h.value[d] \in Nat
    BY <1>1, Numbers
  <2> HIDE DEF h
  <2>2. Traffic!Plus(repeated, Traffic!Apart(h.value, snapshot)) \in [Traffic!Dir -> Nat]
    BY <2>1 DEF Traffic!Plus, Traffic!Apart, Traffic!Minus
  <2> QED BY <2>2 DEF Traffic!TypeOK, h
<1>10. ~Traffic!Late(h) => newest.n <= h.n
  <2>1. h.n \in 0..MaxReports /\ newest.n \in 0..MaxReports
    BY <1>1 DEF Traffic!TypeOK, Traffic!Report
  <2> QED BY <2>1 DEF Traffic!Late
<1>11. ~Traffic!Late(h) => Traffic!GrownBy(newest, h.value, h.at)
  BY <1>1, <1>10 DEF Traffic!ReportsAreInOrder
<1> QED BY <1>1, <1>4, <1>7, <1>8, <1>9, <1>11

\* What a direction of the newest report and of the repeated bytes becomes.
LEMMA TakenNumbers ==
  ASSUME Traffic!TrafficIInv, NEW s \in 1..2, Traffic!Take(s), NEW d \in Traffic!Dir
  PROVE  LET h == Head(streams[s]) IN
         /\ h.value[d] \in Nat /\ h.at[d] \in Nat
         /\ \/ /\ newest' = h /\ repeated' = repeated
               /\ newest.at[d] <= h.at[d]
               /\ h.value[d] + newest.at[d] <= h.at[d] + newest.value[d]
            \/ /\ newest' = newest
               /\ \/ /\ h.value[d] > snapshot[d]
                     /\ repeated'[d] = repeated[d] + (h.value[d] - snapshot[d])
                  \/ /\ h.value[d] <= snapshot[d]
                     /\ repeated'[d] = repeated[d] + (snapshot[d] - h.value[d])
<1> DEFINE h == Head(streams[s])
<1>1. h \in Traffic!Report /\ (~Traffic!Late(h) => Traffic!GrownBy(newest, h.value, h.at))
  BY TakeStep
<1>2. h.value[d] \in Nat /\ h.at[d] \in Nat /\ snapshot[d] \in Nat /\ repeated[d] \in Nat
  BY <1>1, Numbers DEF Traffic!TrafficIInv
<1> HIDE DEF h
<1>3. CASE ~Traffic!Late(h)
  <2>1. newest' = h /\ repeated' = repeated
    BY <1>3 DEF Traffic!Take, h
  <2> QED BY <1>1, <1>2, <1>3, <2>1 DEF Traffic!GrownBy, h
<1>4. CASE Traffic!Late(h)
  <2>1. newest' = newest /\ repeated' = Traffic!Plus(repeated, Traffic!Apart(h.value, snapshot))
    BY <1>4 DEF Traffic!Take, h
  <2>2. repeated'[d] = repeated[d] + ((IF h.value[d] > snapshot[d] THEN h.value[d] - snapshot[d] ELSE 0)
                                    + (IF snapshot[d] > h.value[d] THEN snapshot[d] - h.value[d] ELSE 0))
    BY <2>1 DEF Traffic!Plus, Traffic!Apart, Traffic!Minus
  <2> QED BY <1>2, <2>1, <2>2 DEF h
<1> QED BY <1>3, <1>4

\* A report below the snapshot is taken for a reset.
LEMMA RecordResetStep ==
  ASSUME Traffic!TrafficIInv, NEW s \in 1..2, Traffic!RecordReset(s)
  PROVE  Traffic!TrafficIInv'
<1> DEFINE h == Head(streams[s])
<1> USE DEF Traffic!TrafficIInv, Traffic!RecordReset
<1>1. Traffic!Take(s) /\ adding = <<>> /\ UNCHANGED <<Traffic!agentVars, crashes>>
  BY DEF Traffic!Take
<1>2. Head(streams[s]).value \in Traffic!Counters
  BY <1>1, TakeStep DEF Traffic!Report
<1>3. Traffic!TypeOK'
  BY <1>1, <1>2, TakeStep DEF Traffic!TypeOK, Traffic!agentVars
<1>4. ASSUME NEW d \in Traffic!Dir
      PROVE  /\ transfers'[d] <= newest'.at[d] + repeated'[d]
             /\ transfers'[d] + newest'.value[d] <= newest'.at[d] + repeated'[d] + Traffic!Kept'[d]
             /\ snapshot'[d] <= Traffic!Kept'[d]
             /\ transfers'[d] + since'[d] >= base'[d] + Traffic!Kept'[d]
  <2>1. /\ transfers[d] <= newest.at[d] + repeated[d]
        /\ transfers[d] + newest.value[d] <= newest.at[d] + repeated[d] + snapshot[d]
    BY <1>1 DEF Traffic!TableIsBehind, Traffic!Kept
  <2>2. Traffic!Kept' = h.value
    BY <1>1 DEF Traffic!Kept
  <2>3. /\ transfers[d] \in Nat /\ repeated[d] \in Nat /\ snapshot[d] \in Nat
        /\ newest.at[d] \in Nat /\ newest.value[d] \in Nat /\ since[d] \in Nat /\ base[d] \in Nat
    BY Numbers
  <2>4. /\ h.value[d] \in Nat /\ h.at[d] \in Nat
        /\ \/ /\ newest' = h /\ repeated' = repeated
              /\ newest.at[d] <= h.at[d]
              /\ h.value[d] + newest.at[d] <= h.at[d] + newest.value[d]
           \/ /\ newest' = newest
              /\ \/ /\ h.value[d] > snapshot[d]
                    /\ repeated'[d] = repeated[d] + (h.value[d] - snapshot[d])
                 \/ /\ h.value[d] <= snapshot[d]
                    /\ repeated'[d] = repeated[d] + (snapshot[d] - h.value[d])
    BY <1>1, TakenNumbers
  <2>5. transfers' = transfers /\ since' = h.value /\ base' = transfers /\ snapshot' = h.value
    BY <1>1
  <2> HIDE DEF h, Traffic!RecordReset, Traffic!TrafficIInv
  <2> QED BY <2>1, <2>2, <2>3, <2>4, <2>5
<1>5. Traffic!TableIsBehind'
  BY <1>4 DEF Traffic!TableIsBehind
<1> QED BY <1>1, <1>3, <1>5, TakeStep

\* A report that equals the snapshot adds nothing.
LEMMA RecordNothingStep ==
  ASSUME Traffic!TrafficIInv, NEW s \in 1..2, Traffic!RecordNothing(s)
  PROVE  Traffic!TrafficIInv'
<1> DEFINE h == Head(streams[s])
<1> USE DEF Traffic!TrafficIInv, Traffic!RecordNothing
<1>1. Traffic!Take(s) /\ adding = <<>> /\ UNCHANGED <<Traffic!agentVars, crashes>>
  BY DEF Traffic!Take
<1>2. Traffic!TypeOK'
  BY <1>1, TakeStep DEF Traffic!TypeOK, Traffic!agentVars
<1>3. ASSUME NEW d \in Traffic!Dir
      PROVE  /\ transfers'[d] <= newest'.at[d] + repeated'[d]
             /\ transfers'[d] + newest'.value[d] <= newest'.at[d] + repeated'[d] + Traffic!Kept'[d]
             /\ snapshot'[d] <= Traffic!Kept'[d]
             /\ transfers'[d] + since'[d] >= base'[d] + Traffic!Kept'[d]
  <2>1. /\ transfers[d] <= newest.at[d] + repeated[d]
        /\ transfers[d] + newest.value[d] <= newest.at[d] + repeated[d] + snapshot[d]
        /\ transfers[d] + since[d] >= base[d] + snapshot[d]
    BY <1>1 DEF Traffic!TableIsBehind, Traffic!Kept
  <2>2. Traffic!Kept' = snapshot /\ h.value = snapshot
    BY <1>1 DEF Traffic!Kept
  <2>3. /\ transfers[d] \in Nat /\ repeated[d] \in Nat /\ snapshot[d] \in Nat
        /\ newest.at[d] \in Nat /\ newest.value[d] \in Nat /\ since[d] \in Nat /\ base[d] \in Nat
    BY Numbers
  <2>4. /\ h.value[d] \in Nat /\ h.at[d] \in Nat
        /\ \/ /\ newest' = h /\ repeated' = repeated
              /\ newest.at[d] <= h.at[d]
              /\ h.value[d] + newest.at[d] <= h.at[d] + newest.value[d]
           \/ /\ newest' = newest
              /\ \/ /\ h.value[d] > snapshot[d]
                    /\ repeated'[d] = repeated[d] + (h.value[d] - snapshot[d])
                 \/ /\ h.value[d] <= snapshot[d]
                    /\ repeated'[d] = repeated[d] + (snapshot[d] - h.value[d])
    BY <1>1, TakenNumbers
  <2>5. UNCHANGED <<transfers, snapshot, since, base>>
    BY <1>1
  <2> HIDE DEF h, Traffic!RecordNothing, Traffic!TrafficIInv
  <2> QED BY <2>1, <2>2, <2>3, <2>4, <2>5
<1>4. Traffic!TableIsBehind'
  BY <1>3 DEF Traffic!TableIsBehind
<1> QED BY <1>1, <1>2, <1>4, TakeStep

\* The table is ahead of the snapshot, up to the report that is kept.
LEMMA AddIncreaseStep ==
  ASSUME Traffic!TrafficIInv, NEW s \in 1..2, Traffic!AddIncrease(s)
  PROVE  Traffic!TrafficIInv'
<1> DEFINE h == Head(streams[s])
<1> USE DEF Traffic!TrafficIInv, Traffic!AddIncrease
<1>1. /\ Traffic!Take(s) /\ adding = <<>> /\ UNCHANGED <<Traffic!agentVars, crashes>>
      /\ h \in Traffic!Report
  BY TakeStep DEF Traffic!Take
<1>2. \A d \in Traffic!Dir : h.value[d] >= snapshot[d] /\ h.value[d] \in Nat
  BY <1>1, Numbers DEF Traffic!Shrunk
<1>3. \A d \in Traffic!Dir : transfers'[d] = transfers[d] + (h.value[d] - snapshot[d])
  BY <1>2, Numbers DEF Traffic!Plus, Traffic!Minus
<1>4. transfers' \in [Traffic!Dir -> Nat]
  <2>1. transfers' = [d \in Traffic!Dir |-> transfers'[d]]
    BY DEF Traffic!Plus
  <2>2. \A d \in Traffic!Dir : transfers[d] \in Nat /\ snapshot[d] \in Nat
    BY Numbers
  <2>3. \A d \in Traffic!Dir : transfers'[d] \in Nat
    BY <1>2, <1>3, <2>2
  <2> QED BY <2>1, <2>3
<1>5. adding' = <<h>> /\ adding' \in Seq(Traffic!Report) /\ Len(adding') = 1
  BY <1>1
<1>6. Traffic!TypeOK'
  BY <1>1, <1>4, <1>5, TakeStep DEF Traffic!TypeOK, Traffic!agentVars
<1>7. ASSUME NEW d \in Traffic!Dir
      PROVE  /\ transfers'[d] <= newest'.at[d] + repeated'[d]
             /\ transfers'[d] + newest'.value[d] <= newest'.at[d] + repeated'[d] + Traffic!Kept'[d]
             /\ snapshot'[d] <= Traffic!Kept'[d]
             /\ transfers'[d] + since'[d] >= base'[d] + Traffic!Kept'[d]
  <2>1. /\ transfers[d] <= newest.at[d] + repeated[d]
        /\ transfers[d] + newest.value[d] <= newest.at[d] + repeated[d] + snapshot[d]
        /\ transfers[d] + since[d] >= base[d] + snapshot[d]
    BY <1>1 DEF Traffic!TableIsBehind, Traffic!Kept
  <2>2. Traffic!Kept' = h.value
    BY <1>5 DEF Traffic!Kept
  <2>3. /\ transfers[d] \in Nat /\ repeated[d] \in Nat /\ snapshot[d] \in Nat
        /\ newest.at[d] \in Nat /\ newest.value[d] \in Nat /\ since[d] \in Nat /\ base[d] \in Nat
    BY Numbers
  <2>4. /\ h.value[d] \in Nat /\ h.at[d] \in Nat
        /\ \/ /\ newest' = h /\ repeated' = repeated
              /\ newest.at[d] <= h.at[d]
              /\ h.value[d] + newest.at[d] <= h.at[d] + newest.value[d]
           \/ /\ newest' = newest
              /\ \/ /\ h.value[d] > snapshot[d]
                    /\ repeated'[d] = repeated[d] + (h.value[d] - snapshot[d])
                 \/ /\ h.value[d] <= snapshot[d]
                    /\ repeated'[d] = repeated[d] + (snapshot[d] - h.value[d])
    BY <1>1, TakenNumbers
  <2>5. UNCHANGED <<snapshot, since, base>>
    BY <1>1
  <2> HIDE DEF h, Traffic!AddIncrease, Traffic!TrafficIInv
  <2> QED BY <1>2, <1>3, <2>1, <2>2, <2>3, <2>4, <2>5
<1>8. Traffic!TableIsBehind'
  BY <1>7 DEF Traffic!TableIsBehind
<1> QED BY <1>1, <1>6, <1>8, TakeStep

\* The second statement makes the report the snapshot.
LEMMA SetSnapshotStep ==
  ASSUME Traffic!TrafficIInv, Traffic!SetSnapshot
  PROVE  Traffic!TrafficIInv'
<1> USE DEF Traffic!TrafficIInv, Traffic!SetSnapshot, Traffic!agentVars
<1>1. adding[1] \in Traffic!Report /\ adding[1].value \in Traffic!Counters
  <2>1. Len(adding) = 1 /\ adding \in Seq(Traffic!Report)
    <3>1. adding \in Seq(Traffic!Report) /\ Len(adding) <= 1 /\ adding # <<>>
      BY DEF Traffic!TypeOK
    <3> HIDE DEF Traffic!TrafficIInv, Traffic!SetSnapshot
    <3>2. Len(adding) \in Nat /\ Len(adding) # 0
      BY <3>1, EmptySeq
    <3>3. \A n \in Nat : n # 0 /\ n <= 1 => n = 1
      OBVIOUS
    <3>4. Len(adding) = 1
      BY <3>1, <3>2, <3>3, Zenon
    <3> QED BY <3>1, <3>4
  <2>2. adding[1] \in Traffic!Report
    BY <2>1
  <2> QED BY <2>2 DEF Traffic!Report
<1>2. Traffic!TypeOK'
  BY <1>1 DEF Traffic!TypeOK
<1>3. Traffic!ReportsAreInOrder'
  BY DEF Traffic!ReportsAreInOrder, Traffic!Waiting
<1>4. Traffic!Kept' = Traffic!Kept /\ snapshot' = Traffic!Kept
  BY DEF Traffic!Kept
<1>5. \A d \in Traffic!Dir : Traffic!Kept[d] \in Nat
  BY KeptNumber
<1>6. Traffic!TableIsBehind'
  BY <1>4, <1>5 DEF Traffic!TableIsBehind
<1> QED BY <1>2, <1>3, <1>6

\* What the process added and did not note is added again: that much is repeated.
LEMMA TrafficRestartStep ==
  ASSUME Traffic!TrafficIInv, Traffic!Restart
  PROVE  Traffic!TrafficIInv'
<1> USE DEF Traffic!TrafficIInv, Traffic!Restart, Traffic!agentVars
<1>1. streams' \in [1..2 -> Seq(Traffic!Report)] /\ adding' \in Seq(Traffic!Report)
  <2>1. <<>> \in Seq(Traffic!Report)
    OBVIOUS
  <2> QED BY <2>1, PairOfSequences
<1>2. \A d \in Traffic!Dir : /\ Traffic!Kept[d] \in Nat
                             /\ repeated'[d] = repeated[d] + (Traffic!Kept[d] - snapshot[d])
  <2>1. CASE adding = <<>>
    BY <2>1, Numbers DEF Traffic!Kept
  <2>2. CASE adding # <<>>
    <3>1. \A d \in Traffic!Dir : adding[1].value[d] \in Nat /\ snapshot[d] <= adding[1].value[d]
      BY <2>2, Numbers DEF Traffic!TableIsBehind, Traffic!Kept
    <3>2. repeated' = Traffic!Plus(repeated, Traffic!Minus(adding[1].value, snapshot))
      BY <2>2
    <3> QED BY <2>2, <3>1, <3>2, Numbers DEF Traffic!Kept, Traffic!Plus, Traffic!Minus
  <2> QED BY <2>1, <2>2
<1>3. repeated' \in [Traffic!Dir -> Nat]
  <2>1. repeated' = [d \in Traffic!Dir |-> repeated'[d]]
    BY DEF Traffic!TypeOK, Traffic!Plus
  <2>2. \A d \in Traffic!Dir : /\ repeated[d] \in Nat /\ snapshot[d] \in Nat
                               /\ snapshot[d] <= Traffic!Kept[d]
    BY Numbers DEF Traffic!TableIsBehind
  <2>3. \A d \in Traffic!Dir : repeated'[d] \in Nat
    BY <1>2, <2>2
  <2> QED BY <2>1, <2>3
<1>4. Traffic!TypeOK'
  BY <1>1, <1>3 DEF Traffic!TypeOK
<1>5. Traffic!Waiting' = {}
  BY DEF Traffic!Waiting
<1>6. Traffic!ReportsAreInOrder'
  BY <1>5, SameReportsStep
<1>7. Traffic!Kept' = snapshot
  BY DEF Traffic!Kept
<1>8. ASSUME NEW d \in Traffic!Dir
      PROVE  /\ transfers'[d] <= newest'.at[d] + repeated'[d]
             /\ transfers'[d] + newest'.value[d] <= newest'.at[d] + repeated'[d] + snapshot[d]
             /\ transfers'[d] + since'[d] >= base'[d] + snapshot[d]
  <2>1. /\ transfers[d] <= newest.at[d] + repeated[d]
        /\ transfers[d] + newest.value[d] <= newest.at[d] + repeated[d] + Traffic!Kept[d]
        /\ snapshot[d] <= Traffic!Kept[d]
        /\ transfers[d] + since[d] >= base[d] + Traffic!Kept[d]
    BY DEF Traffic!TableIsBehind
  <2>2. /\ transfers[d] \in Nat /\ repeated[d] \in Nat /\ snapshot[d] \in Nat
        /\ newest.at[d] \in Nat /\ newest.value[d] \in Nat /\ since[d] \in Nat /\ base[d] \in Nat
    BY Numbers
  <2>3. UNCHANGED <<transfers, newest, since, base>>
    OBVIOUS
  <2> HIDE DEF Traffic!TrafficIInv, Traffic!Restart
  <2> QED BY <1>2, <2>1, <2>2, <2>3
<1>9. Traffic!TableIsBehind'
  <2>1. \A d \in Traffic!Dir : snapshot'[d] <= snapshot[d]
    BY Numbers
  <2> QED BY <1>7, <1>8, <2>1 DEF Traffic!TableIsBehind
<1> QED BY <1>4, <1>6, <1>9

\* Every step of the machine, its streams and the dashboard keeps the invariant.
LEMMA TrafficStep == Traffic!TrafficIInv /\ [Traffic!Next]_trafficVars => Traffic!TrafficIInv'
<1> SUFFICES ASSUME Traffic!TrafficIInv, [Traffic!Next]_trafficVars PROVE Traffic!TrafficIInv'
  OBVIOUS
<1>1. CASE UNCHANGED trafficVars
  <2>1. Traffic!TypeOK'
    BY <1>1 DEF Traffic!TrafficIInv, trafficVars, Traffic!TypeOK
  <2>2. Traffic!Waiting' = Traffic!Waiting /\ Traffic!Kept' = Traffic!Kept
    BY <1>1 DEF trafficVars, Traffic!Waiting, Traffic!Kept
  <2>3. Traffic!ReportsAreInOrder'
    BY <1>1, <2>2 DEF Traffic!TrafficIInv, trafficVars, Traffic!ReportsAreInOrder, Traffic!GrownBy
  <2>4. Traffic!TableIsBehind'
    BY <1>1, <2>2 DEF Traffic!TrafficIInv, trafficVars, Traffic!TableIsBehind
  <2> QED BY <2>1, <2>2, <2>3, <2>4 DEF Traffic!TrafficIInv
<1> QED BY <1>1, TransferStep, SendStep, ReconnectStep, RebootStep, RecordResetStep,
           RecordNothingStep, AddIncreaseStep, SetSnapshotStep, TrafficRestartStep
        DEF Traffic!Next

\* For any number of reports, reboots and restarts, the table has no more than the machine
\* transferred, but for what a restart or a late report repeats, and no less than the
\* counters grew by since they last went down (record_transfer_delta).
THEOREM TrafficCounted == AlertsSpec => []TrafficIsCounted
<1>1. AlertsInit => Traffic!TrafficIInv
  BY TrafficInit DEF AlertsInit
<1>2. Traffic!TrafficIInv /\ [AlertsNext]_<<scene, vars, triggerVars, trafficVars>>
        => Traffic!TrafficIInv'
  BY TrafficStep DEF AlertsNext
<1>3. Traffic!TrafficIInv => TrafficIsCounted
  <2> SUFFICES ASSUME Traffic!TrafficIInv, NEW d \in Traffic!Dir
               PROVE  /\ transfers[d] <= total[d] + repeated[d]
                      /\ transfers[d] + since[d] >= base[d] + snapshot[d]
    BY DEF TrafficIsCounted, Traffic!TrafficIsCounted, Traffic!NothingIsInvented,
           Traffic!NothingIsForgotten
  <2>1. newest.at[d] <= total[d]
    BY DEF Traffic!TrafficIInv, Traffic!ReportsAreInOrder, Traffic!GrownBy
  <2>2. Traffic!Kept[d] \in Nat
    BY KeptNumber DEF Traffic!TrafficIInv
  <2>3. /\ transfers[d] <= newest.at[d] + repeated[d]
        /\ transfers[d] + since[d] >= base[d] + Traffic!Kept[d]
        /\ snapshot[d] <= Traffic!Kept[d]
    BY DEF Traffic!TrafficIInv, Traffic!TableIsBehind
  <2>4. /\ transfers[d] \in Nat /\ repeated[d] \in Nat /\ snapshot[d] \in Nat /\ total[d] \in Nat
        /\ newest.at[d] \in Nat /\ since[d] \in Nat /\ base[d] \in Nat
    BY Numbers DEF Traffic!TrafficIInv
  <2> QED BY <2>1, <2>2, <2>3, <2>4
<1> QED BY <1>1, <1>2, <1>3, PTL DEF AlertsSpec

-----------------------------------------------------------------------------
(* The three *)

\* The inductive invariants of the three hold in each of their behaviours, for any bounds:
\* among them, that one command is reported once, that reports arrive in order, and that
\* samples end as the readings do.
THEOREM AlertsAreTyped == AlertsSpec => []AlertsTypeOK
<1> DEFINE Parts == /\ EngineIInv /\ WindowInv /\ Trigger!TriggerIInv /\ Traffic!TrafficIInv
                    /\ scene \in {"engine", "trigger", "traffic"}
<1>1. AlertsInit => Parts
  <2>1. Init => WindowInv
    BY DEF Init, WindowInv, WindowsEndAlike, WindowIsEnough, SameEnd
  <2> QED BY <2>1, InitHasInv, TriggerInit, TrafficInit DEF AlertsInit
<1>2. Parts /\ [AlertsNext]_<<scene, vars, triggerVars, trafficVars>> => Parts'
  <2> SUFFICES ASSUME Parts, [AlertsNext]_<<scene, vars, triggerVars, trafficVars>> PROVE Parts'
    OBVIOUS
  <2>1. [Next]_vars /\ [Trigger!Next]_triggerVars /\ [Traffic!Next]_trafficVars /\ scene' = scene
    BY DEF AlertsNext
  <2> QED BY <2>1, StepKeepsInv, StepKeepsWindow, TriggerStep, TrafficStep
<1>3. Parts => AlertsTypeOK
  BY DEF AlertsTypeOK, WindowInv
<1> HIDE DEF Parts
<1> QED BY <1>1, <1>2, <1>3, PTL DEF AlertsSpec
=============================================================================
