---------------------- MODULE RunEventRecorderProofs ----------------------
(***************************************************************************)
(* Machine-checked proofs about RunEventRecorder, for every set of run     *)
(* threads, number of events and capacity: type correctness, no accepted   *)
(* event vanishes or is written twice, a run's log keeps its order, a      *)
(* flushed read is fresh, and the worker stops only after what was         *)
(* promised when the shutdown began.                                       *)
(***************************************************************************)
EXTENDS RunEventRecorder, SequenceFacts, FiniteSetTheorems, TLAPS

LEMMA Markers == Stop \notin Event /\ Nothing \notin Event /\ Stop # Nothing
BY DEF Stop, Nothing, Event

-----------------------------------------------------------------------------
(* Types                                                                    *)

TypeInv == TypeOK /\ \A p \in Publisher : ppc[p] = "checked" => sent[p] < MaxEvents

LEMMA InitTypeInv == Init => TypeInv
<1> SUFFICES ASSUME Init PROVE TypeInv
  OBVIOUS
<1>1. closed \in BOOLEAN BY Zenon DEF Init
<1>2. queue \in Seq(Event \cup {Stop}) /\ persisted \in Seq(Event) BY DEF Init
<1> QED BY <1>1, <1>2, RunEventRecorderAssumption DEF Init, TypeInv, TypeOK, InHand

\* What the queue holds has its type and its count.
QueueType ==
  /\ queue \in Seq(Event \cup {Stop}) /\ Len(queue) <= Capacity
  /\ hand \in Event \cup {Stop, Nothing}
  /\ unfinished = Len(queue) + InHand

LEMMA NextQueueType == TypeInv /\ [Next]_vars => QueueType'
<1> SUFFICES ASSUME TypeInv, [Next]_vars PROVE QueueType'
  OBVIOUS
<1>0. /\ Capacity \in Nat /\ queue \in Seq(Event \cup {Stop}) /\ Len(queue) <= Capacity
      /\ hand \in Event \cup {Stop, Nothing} /\ unfinished = Len(queue) + InHand
      /\ InHand \in {0, 1} /\ Len(queue) \in Nat
  BY RunEventRecorderAssumption DEF TypeInv, TypeOK, InHand
<1>1. ASSUME NEW e \in Event \cup {Stop}, Len(queue) < Capacity, queue' = Append(queue, e),
             unfinished' = unfinished + 1, UNCHANGED hand
      PROVE  QueueType'
  <2>1. queue' \in Seq(Event \cup {Stop}) /\ Len(queue') = Len(queue) + 1
    BY <1>0, <1>1
  <2> QED BY <1>0, <1>1, <2>1 DEF QueueType, InHand
<1>2. CASE UNCHANGED <<queue, hand, unfinished>>
  BY <1>0, <1>2 DEF QueueType, InHand
<1>3. ASSUME NEW p \in Publisher, PutNowait(p) PROVE QueueType'
  <2>1. <<p, sent[p] + 1>> \in Event
    BY <1>3, RunEventRecorderAssumption DEF PutNowait, Event, TypeInv, TypeOK
  <2> QED BY <1>1, <1>2, <1>3, <2>1 DEF PutNowait
<1>4. CASE Take
  <2>1. Head(queue) \in Event \cup {Stop} /\ Tail(queue) \in Seq(Event \cup {Stop})
        /\ Len(Tail(queue)) = Len(queue) - 1
    BY <1>0, <1>4 DEF Take
  <2> QED BY <1>0, <1>4, <2>1, Markers DEF Take, QueueType, InHand
<1>5. CASE TaskDone
  <2>1. ToSet(persisted) \subseteq Event BY DEF ToSet, TypeInv, TypeOK
  <2>2. hand # Nothing
    BY <1>5, <2>1, Markers DEF TaskDone, Settled, TypeInv, TypeOK
  <2> QED BY <1>0, <1>5, <2>2 DEF TaskDone, QueueType, InHand
<1>6. CASE PutStop BY <1>1, <1>2, <1>6 DEF PutStop
<1> QED BY <1>2, <1>3, <1>4, <1>5, <1>6
       DEF Next, Publish, Drain, Close, Read, Over, CheckClosed, Persist, CloseBegins, CloseFlushes,
           CloseJoins, Exit, ReadBegins, ReadFlushes, ReadLists, vars

LEMMA NextTypeInv == TypeInv /\ [Next]_vars => TypeInv'
<1> SUFFICES ASSUME TypeInv, [Next]_vars PROVE TypeInv'
  OBVIOUS
<1> DEFINE Others ==
      /\ worker \in {"up", "stopped"} /\ persisted \in Seq(Event) /\ failures \subseteq Event
      /\ ppc \in [Publisher -> {"idle", "checked"}] /\ sent \in [Publisher -> 0..MaxEvents]
      /\ dropped \in Nat /\ accepted \subseteq Event
      /\ cpc \in {"open", "flushing", "marking", "joining", "closed", "exited"}
      /\ rpc \in {"idle", "flushing", "drained", "stale", "fresh", "over"}
      /\ \A p \in Publisher : ppc[p] = "checked" => sent[p] < MaxEvents
<1>0. Others BY DEF TypeInv, TypeOK
<1>12. closed' \in BOOLEAN
  <2>1. closed' = TRUE \/ closed' = closed
    BY DEF Next, Publish, Drain, Close, Read, Over, CheckClosed, PutNowait, Take, Persist, TaskDone,
           CloseBegins, CloseFlushes, PutStop, CloseJoins, Exit, ReadBegins, ReadFlushes, ReadLists,
           closing, vars
  <2>2. closed \in BOOLEAN BY DEF TypeInv, TypeOK
  <2> QED BY <2>1, <2>2, Zenon
<1>11. SUFFICES Others'
  BY <1>12, NextQueueType DEF QueueType, TypeInv, TypeOK
<1> USE RunEventRecorderAssumption DEF publish, closing, reading
<1>1. ASSUME NEW p \in Publisher, CheckClosed(p) PROVE Others'
  <2>1. CASE sent' = [sent EXCEPT ![p] = @ + 1] /\ UNCHANGED ppc
    BY <1>0, <1>1, <2>1 DEF CheckClosed
  <2>2. CASE ppc' = [ppc EXCEPT ![p] = "checked"] /\ UNCHANGED sent
    BY <1>0, <1>1, <2>2 DEF CheckClosed
  <2> QED BY <1>1, <2>1, <2>2 DEF CheckClosed
<1>2. ASSUME NEW p \in Publisher, PutNowait(p) PROVE Others'
  <2>1. <<p, sent[p] + 1>> \in Event BY <1>0, <1>2 DEF PutNowait, Event
  <2>2. sent[p] \in 0..MaxEvents /\ sent[p] < MaxEvents /\ ppc[p] = "checked"
    BY <1>0, <1>2 DEF PutNowait
  <2>3. sent' \in [Publisher -> 0..MaxEvents] /\ ppc' \in [Publisher -> {"idle", "checked"}]
    BY <1>0, <1>2, <2>2 DEF PutNowait
  <2>4. \A q \in Publisher : ppc'[q] = "checked" => sent'[q] < MaxEvents
    BY <1>0, <1>2 DEF PutNowait
  <2>5. dropped' \in Nat /\ accepted' \subseteq Event
    <3>1. dropped' \in {dropped, dropped + 1} BY <1>2 DEF PutNowait
    <3>2. accepted' \in {accepted, accepted \cup {<<p, sent[p] + 1>>}} BY <1>2 DEF PutNowait
    <3>3. dropped' \in Nat BY <1>0, <3>1
    <3>4. accepted' \subseteq Event BY <1>0, <2>1, <3>2, Zenon
    <3> QED BY <3>3, <3>4
  <2> QED BY <1>0, <1>2, <2>3, <2>4, <2>5 DEF PutNowait
<1>4. CASE Persist
  <2>1. hand \in Event BY <1>4 DEF Persist
  <2>2. Append(persisted, hand) \in Seq(Event) BY <1>0, <2>1
  <2> QED BY <1>0, <1>4, <2>1, <2>2 DEF Persist
<1>5. CASE Take \/ TaskDone BY <1>0, <1>5 DEF Take, TaskDone
<1>6. CASE CloseBegins BY <1>0, <1>6 DEF CloseBegins
<1>7. CASE CloseFlushes \/ PutStop \/ CloseJoins \/ Exit
  BY <1>0, <1>7 DEF CloseFlushes, PutStop, CloseJoins, Exit
<1>8. CASE Read BY <1>0, <1>8 DEF Read, ReadBegins, ReadFlushes, ReadLists
<1>9. CASE UNCHANGED vars BY <1>0, <1>9 DEF vars
<1> QED BY <1>1, <1>2, <1>4, <1>5, <1>6, <1>7, <1>8, <1>9 DEF Next, Publish, Drain, Close, Over

\* Every variable keeps its type, and unfinished_tasks counts what is queued or
\* in the worker's hand.
THEOREM TypeCorrect == Spec => []TypeOK
<1>1. TypeInv => TypeOK BY DEF TypeInv
<1> QED BY InitTypeInv, NextTypeInv, <1>1, PTL DEF Spec

-----------------------------------------------------------------------------
(* No accepted event vanishes or is settled twice                           *)

OnTheWay == (ToSet(queue) \cup {hand}) \ ({Stop, Nothing} \cup Settled)

\* What NoneVanishes says, and that a publisher's next event is a new one.
FlowInv ==
  /\ IsFiniteSet(accepted)
  /\ accepted = Settled \cup OnTheWay
  /\ Len(persisted) + Cardinality(failures) + Cardinality(OnTheWay) = Cardinality(accepted)
  /\ \A e \in accepted : e[2] <= sent[e[1]]

LEMMA InitFlowInv == Init => FlowInv
<1> SUFFICES ASSUME Init PROVE FlowInv
  OBVIOUS
<1>1. Settled = {} /\ OnTheWay = {} /\ accepted = {} /\ failures = {} /\ Len(persisted) = 0
  BY ToSetEmpty DEF Init, Settled, OnTheWay
<1> QED BY <1>1, FS_EmptySet DEF FlowInv

\* The steps that put nothing new on the way and settle nothing.
LEMMA FlowInvKept ==
  ASSUME FlowInv, TypeInv, TypeInv', UNCHANGED <<persisted, failures, accepted>>, OnTheWay' = OnTheWay,
         \A p \in Publisher : sent'[p] >= sent[p]
  PROVE  FlowInv'
<1>1. Settled' = Settled BY DEF Settled
<1>2. \A e \in accepted' : e[2] <= sent'[e[1]]
  <2> TAKE e \in accepted'
  <2>1. e \in Publisher \X (1..MaxEvents) /\ e \in accepted BY DEF TypeInv, TypeOK, Event
  <2>2. e[1] \in Publisher /\ e[2] \in 1..MaxEvents BY <2>1
  <2>3. sent[e[1]] \in Nat /\ sent'[e[1]] \in Nat BY <2>2, RunEventRecorderAssumption DEF TypeInv, TypeOK
  <2>4. e[2] <= sent[e[1]] BY <2>1 DEF FlowInv
  <2>5. sent'[e[1]] >= sent[e[1]] BY <2>2
  <2> QED BY <2>2, <2>3, <2>4, <2>5, RunEventRecorderAssumption
<1> QED BY <1>1, <1>2 DEF FlowInv

LEMMA NextFlowInv == TypeInv /\ FlowInv /\ [Next]_vars => FlowInv'
<1> SUFFICES ASSUME TypeInv, FlowInv, [Next]_vars PROVE FlowInv'
  OBVIOUS
<1> USE RunEventRecorderAssumption DEF publish, closing, reading
<1>0. TypeInv' BY NextTypeInv
<1>a. /\ Len(persisted) \in Nat /\ IsFiniteSet(accepted) /\ Cardinality(accepted) \in Nat
      /\ IsFiniteSet(failures) /\ Cardinality(failures) \in Nat
      /\ IsFiniteSet(OnTheWay) /\ Cardinality(OnTheWay) \in Nat
  <2>1. failures \subseteq accepted /\ OnTheWay \subseteq accepted
    BY DEF FlowInv, Settled
  <2>2. IsFiniteSet(failures) /\ IsFiniteSet(OnTheWay) BY <2>1, FS_Subset DEF FlowInv
  <2>3. Len(persisted) \in Nat BY DEF TypeInv, TypeOK
  <2> QED BY <2>2, <2>3, FS_CardinalityType DEF FlowInv
<1>b. queue \in Seq(Event \cup {Stop}) /\ persisted \in Seq(Event) /\ sent \in [Publisher -> 0..MaxEvents]
  BY DEF TypeInv, TypeOK
<1>c. UNCHANGED sent => \A p \in Publisher : sent'[p] >= sent[p]
  BY <1>b
<1>1. ASSUME NEW p \in Publisher, CheckClosed(p) PROVE FlowInv'
  <2>1. \A q \in Publisher : sent'[q] >= sent[q] BY <1>1, <1>b DEF CheckClosed
  <2>2. OnTheWay' = OnTheWay /\ UNCHANGED <<persisted, failures, accepted>>
    BY <1>1 DEF CheckClosed, OnTheWay, Settled
  <2> QED BY <1>0, <2>1, <2>2, FlowInvKept
<1>2. ASSUME NEW p \in Publisher, PutNowait(p) PROVE FlowInv'
  <2> DEFINE e == <<p, sent[p] + 1>>
  <2>1. \A q \in Publisher : sent'[q] >= sent[q] BY <1>2, <1>b DEF PutNowait
  <2>2. CASE UNCHANGED <<queue, accepted>>
    <3>1. OnTheWay' = OnTheWay /\ UNCHANGED <<persisted, failures, accepted>>
      BY <1>2, <2>2 DEF PutNowait, OnTheWay, Settled
    <3> QED BY <1>0, <2>1, <3>1, FlowInvKept
  <2>3. CASE queue' = Append(queue, e) /\ accepted' = accepted \cup {e}
    <3>1. e \in Event BY <1>2 DEF PutNowait, Event, TypeInv, TypeOK
    <3>2. e \notin accepted
      <4>1. e[1] = p /\ e[2] = sent[p] + 1 /\ sent[p] \in Nat BY <1>b
      <4> QED BY <4>1 DEF FlowInv
    <3>3. UNCHANGED <<persisted, failures, hand>> /\ Settled' = Settled
      BY <1>2 DEF PutNowait, Settled
    <3>4. ToSet(queue') = ToSet(queue) \cup {e} BY <1>b, <2>3, ToSetAppend
    <3>5. e \notin Settled /\ e \notin OnTheWay BY <3>2 DEF FlowInv
    <3>6. OnTheWay' = OnTheWay \cup {e}
      BY <3>1, <3>3, <3>4, <3>5, Markers DEF OnTheWay
    <3>7. /\ Cardinality(OnTheWay') = Cardinality(OnTheWay) + 1
          /\ Cardinality(accepted') = Cardinality(accepted) + 1
          /\ IsFiniteSet(accepted')
      BY <1>a, <2>3, <3>2, <3>5, <3>6, FS_AddElement
    <3>8. \A d \in accepted' : d[2] <= sent'[d[1]]
      <4> TAKE d \in accepted'
      <4>1. CASE d = e
        <5>1. sent'[p] = sent[p] + 1 BY <1>2, <1>b DEF PutNowait
        <5> QED BY <4>1, <5>1, <1>b
      <4>2. CASE d \in accepted
        <5>1. d \in Publisher \X (1..MaxEvents) BY <4>2 DEF TypeInv, TypeOK, Event
        <5>2. d[1] \in Publisher /\ d[2] \in Nat BY <5>1
        <5>3. d[2] <= sent[d[1]] BY <4>2 DEF FlowInv
        <5>4. sent[d[1]] \in Nat /\ sent'[d[1]] \in Nat /\ sent'[d[1]] >= sent[d[1]]
          BY <1>0, <1>b, <2>1, <5>2 DEF TypeInv, TypeOK
        <5> QED BY <5>2, <5>3, <5>4
      <4> QED BY <2>3, <4>1, <4>2
    <3>9. Len(persisted') + Cardinality(failures') + Cardinality(OnTheWay') = Cardinality(accepted')
      BY <1>a, <3>3, <3>7 DEF FlowInv
    <3>10. accepted' = Settled' \cup OnTheWay' BY <2>3, <3>3, <3>6 DEF FlowInv
    <3> QED BY <3>7, <3>8, <3>9, <3>10 DEF FlowInv
  <2> QED BY <1>2, <2>2, <2>3 DEF PutNowait
<1>3. CASE Take
  <2>1. ToSet(queue) = {hand'} \cup ToSet(queue') BY <1>3, <1>b, ToSetTail DEF Take
  <2>2. hand = Nothing /\ UNCHANGED <<persisted, failures, accepted, sent>> /\ Settled' = Settled
    BY <1>3 DEF Take, Settled
  <2>3. OnTheWay' = OnTheWay BY <2>1, <2>2 DEF OnTheWay
  <2> QED BY <1>0, <1>c, <2>2, <2>3, FlowInvKept
<1>4. CASE Persist
  <2>1. hand \in Event /\ hand \notin Settled /\ UNCHANGED <<queue, hand, accepted, sent>>
    BY <1>4 DEF Persist
  <2>2. hand \in OnTheWay BY <2>1, Markers DEF OnTheWay
  <2>3. Settled' = Settled \cup {hand}
        /\ Len(persisted') + Cardinality(failures') = Len(persisted) + Cardinality(failures) + 1
    <3>1. CASE persisted' = Append(persisted, hand) /\ UNCHANGED failures
      <4>1. ToSet(persisted') = ToSet(persisted) \cup {hand} BY <1>b, <3>1, ToSetAppend
      <4>2. Len(persisted') = Len(persisted) + 1 BY <1>b, <2>1, <3>1
      <4> QED BY <1>a, <3>1, <4>1, <4>2 DEF Settled
    <3>2. CASE failures' = failures \cup {hand} /\ UNCHANGED persisted
      <4>1. hand \notin failures BY <2>1 DEF Settled
      <4>2. Cardinality(failures') = Cardinality(failures) + 1
        BY <1>a, <3>2, <4>1, FS_AddElement
      <4> QED BY <1>a, <3>2, <4>2 DEF Settled
    <3> QED BY <1>4, <3>1, <3>2 DEF Persist
  <2>4. OnTheWay' = OnTheWay \ {hand} BY <2>1, <2>3 DEF OnTheWay
  <2>5. Cardinality(OnTheWay') = Cardinality(OnTheWay) - 1
    BY <1>a, <2>2, <2>4, FS_RemoveElement
  <2>6. accepted' = Settled' \cup OnTheWay' BY <2>1, <2>2, <2>3, <2>4 DEF FlowInv
  <2>7. Len(persisted') \in Nat /\ Cardinality(failures') \in Nat
    <3>1. failures' \subseteq accepted' BY <2>6 DEF Settled
    <3>2. IsFiniteSet(failures') BY <1>a, <2>1, <3>1, FS_Subset
    <3> QED BY <1>0, <3>2, FS_CardinalityType DEF TypeInv, TypeOK
  <2>8. Len(persisted') + Cardinality(failures') + Cardinality(OnTheWay') = Cardinality(accepted')
    BY <1>a, <2>1, <2>3, <2>5, <2>7 DEF FlowInv
  <2> QED BY <2>1, <2>6, <2>8 DEF FlowInv
<1>5. CASE TaskDone
  <2>1. hand \in Settled \cup {Stop} /\ hand' = Nothing
        /\ UNCHANGED <<queue, persisted, failures, accepted, sent>> /\ Settled' = Settled
    BY <1>5 DEF TaskDone, Settled
  <2>2. OnTheWay' = OnTheWay BY <2>1 DEF OnTheWay
  <2> QED BY <1>0, <1>c, <2>1, <2>2, FlowInvKept
<1>6. CASE PutStop
  <2>1. UNCHANGED <<hand, persisted, failures, accepted, sent>> /\ Settled' = Settled
    BY <1>6 DEF PutStop, Settled
  <2>2. ToSet(queue') \in {ToSet(queue), ToSet(queue) \cup {Stop}}
    BY <1>6, <1>b, ToSetAppend DEF PutStop
  <2>3. OnTheWay' = OnTheWay BY <2>1, <2>2 DEF OnTheWay
  <2> QED BY <1>0, <1>c, <2>1, <2>3, FlowInvKept
<1>7. CASE UNCHANGED <<queue, hand, persisted, failures, accepted, sent>>
  <2>1. OnTheWay' = OnTheWay BY <1>7 DEF OnTheWay, Settled
  <2> QED BY <1>0, <1>c, <1>7, <2>1, FlowInvKept
<1> QED BY <1>1, <1>2, <1>3, <1>4, <1>5, <1>6, <1>7
       DEF Next, Publish, Drain, Close, Read, Over, CloseBegins, CloseFlushes, CloseJoins, Exit,
           ReadBegins, ReadFlushes, ReadLists, vars

LEMMA FlowInvariance == Spec => [](TypeInv /\ FlowInv)
BY InitTypeInv, NextTypeInv, InitFlowInv, NextFlowInv, PTL DEF Spec

\* Every event that record() answered True for is written, failed or on its
\* way, and is one of these only, whatever the shutdown does.
THEOREM NoneVanishesHolds == Spec => []NoneVanishes
<1>1. FlowInv => NoneVanishes BY DEF FlowInv, NoneVanishes, OnTheWay
<1> QED BY FlowInvariance, <1>1, PTL

-----------------------------------------------------------------------------
(* A flushed read is fresh                                                  *)

ReadInv ==
  /\ rpc \in {"flushing", "drained"} => expected \subseteq accepted
  /\ rpc = "drained" => expected \subseteq Settled
  /\ rpc = "fresh" => expected \ failures \subseteq seen

LEMMA SettledGrows ==
  TypeInv /\ [Next]_vars =>
    Settled \subseteq Settled' /\ failures \subseteq failures' /\ accepted \subseteq accepted'
<1> SUFFICES ASSUME TypeInv, [Next]_vars
             PROVE  Settled \subseteq Settled' /\ failures \subseteq failures' /\ accepted \subseteq accepted'
  OBVIOUS
<1>1. CASE Persist
  <2>1. persisted \in Seq(Event) BY DEF TypeInv, TypeOK
  <2>2. ToSet(Append(persisted, hand)) = ToSet(persisted) \cup {hand} BY <2>1, ToSetAppend
  <2> QED BY <1>1, <2>2 DEF Persist, Settled, publish
<1>2. CASE UNCHANGED <<persisted, failures>> /\ accepted \subseteq accepted'
  BY <1>2 DEF Settled
<1> QED BY <1>1, <1>2
       DEF Next, Publish, Drain, Close, Read, Over, CheckClosed, PutNowait, Take, TaskDone,
           CloseBegins, CloseFlushes, PutStop, CloseJoins, Exit, ReadBegins, ReadFlushes, ReadLists,
           publish, vars

\* An empty count means that nothing is queued or in the worker's hand.
LEMMA DrainedIsSettled == TypeInv /\ FlowInv /\ unfinished = 0 => accepted = Settled
<1> SUFFICES ASSUME TypeInv, FlowInv, unfinished = 0 PROVE accepted = Settled
  OBVIOUS
<1>1. Len(queue) \in Nat /\ InHand \in {0, 1} /\ unfinished = Len(queue) + InHand
  BY DEF TypeInv, TypeOK, InHand
<1>2. queue = <<>> /\ hand = Nothing BY <1>1 DEF TypeInv, TypeOK, InHand
<1>3. OnTheWay = {} BY <1>2, ToSetEmpty DEF OnTheWay
<1> QED BY <1>3 DEF FlowInv

LEMMA NextReadInv == TypeInv /\ FlowInv /\ ReadInv /\ [Next]_vars => ReadInv'
<1> SUFFICES ASSUME TypeInv, FlowInv, ReadInv, [Next]_vars PROVE ReadInv'
  OBVIOUS
<1>0. Settled \subseteq Settled' /\ failures \subseteq failures' /\ accepted \subseteq accepted'
  BY SettledGrows
<1>1. CASE ReadBegins BY <1>1 DEF ReadBegins, ReadInv, publish
<1>2. CASE ReadFlushes BY <1>0, <1>2, DrainedIsSettled DEF ReadFlushes, ReadInv
<1>3. CASE ReadLists BY <1>3 DEF ReadLists, ReadInv, Settled
<1>4. CASE UNCHANGED reading BY <1>0, <1>4 DEF ReadInv, reading
<1> QED BY <1>1, <1>2, <1>3, <1>4
       DEF Next, Publish, Drain, Close, Read, Over, CheckClosed, PutNowait, Take, Persist, TaskDone,
           CloseBegins, CloseFlushes, PutStop, CloseJoins, Exit, reading, vars

\* A reader whose flush succeeded lists every event that was accepted before it
\* asked, except those whose INSERT failed.
THEOREM FlushedReadIsFreshHolds == Spec => []FlushedReadIsFresh
<1>1. Init => ReadInv BY DEF Init, ReadInv
<1>2. ReadInv => FlushedReadIsFresh BY DEF ReadInv, FlushedReadIsFresh
<1> QED BY FlowInvariance, NextReadInv, <1>1, <1>2, PTL DEF Spec

-----------------------------------------------------------------------------
(* The stop marker follows what was promised                                *)

StopInv ==
  /\ promised \subseteq accepted
  /\ cpc \in {"open", "flushing", "marking"} =>
       worker = "up" /\ hand # Stop /\ Stop \notin ToSet(queue)
  /\ \A i \in DOMAIN queue : queue[i] = Stop =>
       \A e \in promised : e \in Settled \/ e = hand \/ \E j \in 1..(i - 1) : queue[j] = e
  /\ hand = Stop \/ worker = "stopped" => promised \subseteq Settled

LEMMA NextStopInv == TypeInv /\ FlowInv /\ StopInv /\ [Next]_vars => StopInv'
<1> SUFFICES ASSUME TypeInv, FlowInv, StopInv, [Next]_vars PROVE StopInv'
  OBVIOUS
<1> USE DEF publish, closing, reading
<1>0. Settled \subseteq Settled' /\ accepted \subseteq accepted'
  BY SettledGrows
<1>a. /\ queue \in Seq(Event \cup {Stop}) /\ promised \subseteq Event
      /\ Len(queue) \in Nat /\ DOMAIN queue = 1..Len(queue)
  BY DEF TypeInv, TypeOK, StopInv
<1>b. \A e \in accepted : e \in Settled \/ e = hand \/ e \in ToSet(queue)
  BY DEF FlowInv, OnTheWay
<1>1. CASE CloseBegins
  <2>1. UNCHANGED <<queue, hand, worker, accepted>> /\ promised' = accepted /\ cpc' = "flushing"
        /\ cpc = "open"
    BY <1>1 DEF CloseBegins
  <2>2. Stop \notin ToSet(queue) /\ hand # Stop /\ worker = "up" BY <2>1 DEF StopInv
  <2>3. \A i \in DOMAIN queue : queue[i] # Stop BY <2>2 DEF ToSet
  <2> QED BY <2>1, <2>2, <2>3 DEF StopInv
<1>2. ASSUME NEW e, queue' = Append(queue, e), UNCHANGED <<hand, worker, promised>>,
             e = Stop => cpc = "marking" /\ cpc' = "joining",
             e # Stop => UNCHANGED cpc
      PROVE  StopInv'
  <2>1. ToSet(queue') = ToSet(queue) \cup {e} BY <1>a, <1>2, ToSetAppend
  <2>2. promised' \subseteq accepted' BY <1>0, <1>2 DEF StopInv
  <2>3. ASSUME NEW i \in DOMAIN queue', queue'[i] = Stop, NEW d \in promised'
        PROVE  d \in Settled' \/ d = hand' \/ \E j \in 1..(i - 1) : queue'[j] = d
    <3>1. i \in 1..(Len(queue) + 1) /\ \A j \in 1..Len(queue) : queue'[j] = queue[j]
      BY <1>a, <1>2
    <3>2. CASE i \in DOMAIN queue
      BY <1>0, <1>2, <1>a, <2>3, <3>1, <3>2 DEF StopInv
    <3>3. CASE i = Len(queue) + 1
      <4>1. d \in accepted BY <1>2, <2>3 DEF StopInv
      <4>2. CASE d \in ToSet(queue)
        <5>1. PICK j \in DOMAIN queue : queue[j] = d BY <4>2 DEF ToSet
        <5>2. j \in 1..(i - 1) /\ queue'[j] = d BY <1>a, <3>1, <3>3, <5>1
        <5> QED BY <5>2
      <4> QED BY <1>0, <1>2, <1>b, <4>1, <4>2
    <3> QED BY <1>a, <3>1, <3>2, <3>3
  <2>4. cpc' \in {"open", "flushing", "marking"} =>
          worker' = "up" /\ hand' # Stop /\ Stop \notin ToSet(queue')
    BY <1>2, <2>1 DEF StopInv
  <2>5. hand' = Stop \/ worker' = "stopped" => promised' \subseteq Settled'
    BY <1>0, <1>2 DEF StopInv
  <2> QED BY <2>2, <2>3, <2>4, <2>5 DEF StopInv
<1>3. ASSUME UNCHANGED <<queue, hand, worker, promised>>,
             cpc' = cpc \/ <<cpc, cpc'>> \in {<<"flushing", "marking">>, <<"marking", "joining">>,
                                             <<"joining", "closed">>, <<"closed", "exited">>}
      PROVE  StopInv'
  BY <1>0, <1>3 DEF StopInv
<1>4. ASSUME NEW p \in Publisher, PutNowait(p) PROVE StopInv'
  <2>1. <<p, sent[p] + 1>> \in Event
    BY <1>4, RunEventRecorderAssumption DEF PutNowait, Event, TypeInv, TypeOK
  <2> QED BY <1>2, <1>3, <1>4, <2>1, Markers DEF PutNowait
<1>5. CASE Take
  <2>1. /\ hand' = Head(queue) /\ queue' = Tail(queue) /\ hand = Nothing /\ worker = "up"
        /\ UNCHANGED <<worker, promised, cpc>> /\ queue # <<>>
    BY <1>5 DEF Take
  <2>2. ToSet(queue) = {hand'} \cup ToSet(queue') BY <1>a, <2>1, ToSetTail
  <2>3. /\ hand' = queue[1] /\ 1 \in DOMAIN queue
        /\ \A i \in DOMAIN queue' : i \in Nat \ {0} /\ i + 1 \in DOMAIN queue /\ queue'[i] = queue[i + 1]
    BY <1>a, <2>1
  <2>4. Nothing \notin promised BY <1>a, Markers
  <2>5. ASSUME NEW i \in DOMAIN queue', queue'[i] = Stop, NEW d \in promised'
        PROVE  d \in Settled' \/ d = hand' \/ \E j \in 1..(i - 1) : queue'[j] = d
    <3>1. d \in Settled \/ \E j \in 1..i : queue[j] = d
      <4>1. queue[i + 1] = Stop /\ i + 1 \in DOMAIN queue /\ (i + 1) - 1 = i BY <2>3, <2>5
      <4>2. d \in promised /\ d # hand BY <2>1, <2>4
      <4> QED BY <4>1, <4>2 DEF StopInv
    <3>2. ASSUME NEW j \in 1..i, queue[j] = d PROVE d = hand' \/ \E k \in 1..(i - 1) : queue'[k] = d
      <4>1. CASE j = 1 BY <2>3, <3>2, <4>1
      <4>2. CASE j # 1
        <5>1. j - 1 \in 1..(i - 1) BY <2>3, <4>2
        <5>2. j - 1 \in DOMAIN queue' BY <1>a, <2>1, <2>3, <4>2
        <5>3. queue'[j - 1] = queue[j] BY <2>3, <4>2, <5>2
        <5> QED BY <3>2, <5>1, <5>3
      <4> QED BY <4>1, <4>2
    <3> QED BY <1>0, <3>1, <3>2
  <2>6. hand' = Stop => promised' \subseteq Settled'
    <3> SUFFICES ASSUME hand' = Stop, NEW d \in promised' PROVE d \in Settled'
      OBVIOUS
    <3>1. d \in Settled \/ d = hand \/ \E j \in 1..(1 - 1) : queue[j] = d
      BY <2>1, <2>3 DEF StopInv
    <3> QED BY <1>0, <2>1, <2>4, <3>1
  <2>7. promised' \subseteq accepted' BY <1>0, <2>1 DEF StopInv
  <2>8. cpc' \in {"open", "flushing", "marking"} =>
          worker' = "up" /\ hand' # Stop /\ Stop \notin ToSet(queue')
    BY <2>1, <2>2 DEF StopInv
  <2> QED BY <2>1, <2>5, <2>6, <2>7, <2>8 DEF StopInv
<1>6. CASE Persist BY <1>3, <1>6 DEF Persist
<1>7. CASE TaskDone
  <2>1. /\ UNCHANGED <<queue, promised, cpc, accepted>> /\ hand' = Nothing
        /\ worker' = (IF hand = Stop THEN "stopped" ELSE worker)
        /\ hand \in Settled \cup {Stop}
    BY <1>7 DEF TaskDone
  <2>2. ASSUME NEW i \in DOMAIN queue', queue'[i] = Stop, NEW d \in promised'
        PROVE  d \in Settled' \/ d = hand' \/ \E j \in 1..(i - 1) : queue'[j] = d
    <3>1. d \in Settled \/ d = hand \/ \E j \in 1..(i - 1) : queue[j] = d
      BY <2>1, <2>2 DEF StopInv
    <3>2. d # Stop BY <1>a, <2>1, Markers
    <3> QED BY <1>0, <2>1, <3>1, <3>2
  <2>3. hand' # Stop BY <2>1, Markers
  <2> QED BY <1>0, <2>1, <2>2, <2>3 DEF StopInv
<1>8. CASE PutStop BY <1>2, <1>3, <1>8 DEF PutStop
<1> QED BY <1>1, <1>3, <1>4, <1>5, <1>6, <1>7, <1>8
       DEF Next, Publish, Drain, Close, Read, Over, CheckClosed, CloseFlushes, CloseJoins, Exit,
           ReadBegins, ReadFlushes, ReadLists, vars

\* The worker does not stop before each event accepted before close() is
\* settled, whether or not its waits ran into their timeouts.
THEOREM ClosingDrainsHolds == Spec => []ClosingDrains
<1>1. Init => StopInv
  <2> SUFFICES ASSUME Init PROVE StopInv
    OBVIOUS
  <2>1. queue = <<>> /\ promised = {} /\ hand = Nothing /\ worker = "up" BY DEF Init
  <2> QED BY <2>1, ToSetEmpty, Markers DEF StopInv
<1>2. StopInv => ClosingDrains BY DEF StopInv, ClosingDrains
<1> QED BY FlowInvariance, NextStopInv, <1>1, <1>2, PTL DEF Spec

-----------------------------------------------------------------------------
(* A run's events keep their order from the queue to the log                *)

Before(d, e) == d \in Event /\ e \in Event /\ d[1] = e[1] => d[2] < e[2]

OrderInv ==
  /\ \A i, j \in DOMAIN persisted : i < j => Before(persisted[i], persisted[j])
  /\ \A i, j \in DOMAIN queue : i < j => Before(queue[i], queue[j])
  /\ \A i \in DOMAIN persisted, j \in DOMAIN queue : Before(persisted[i], queue[j])
  /\ \A j \in DOMAIN queue : Before(hand, queue[j])
  /\ hand \notin Settled => \A i \in DOMAIN persisted : Before(persisted[i], hand)

LEMMA NextOrderInv == TypeInv /\ FlowInv /\ OrderInv /\ [Next]_vars => OrderInv'
<1> SUFFICES ASSUME TypeInv, FlowInv, OrderInv, [Next]_vars PROVE OrderInv'
  OBVIOUS
<1> USE DEF publish, closing, reading
<1>a. /\ queue \in Seq(Event \cup {Stop}) /\ Len(queue) \in Nat /\ DOMAIN queue = 1..Len(queue)
      /\ persisted \in Seq(Event) /\ Len(persisted) \in Nat /\ DOMAIN persisted = 1..Len(persisted)
      /\ sent \in [Publisher -> 0..MaxEvents]
  BY DEF TypeInv, TypeOK
<1>1. ASSUME NEW e, queue' = Append(queue, e), UNCHANGED <<hand, persisted, failures>>,
             \A d \in accepted : Before(d, e)
      PROVE  OrderInv'
  <2>1. /\ DOMAIN queue' = 1..(Len(queue) + 1) /\ queue'[Len(queue) + 1] = e
        /\ \A i \in DOMAIN queue : queue'[i] = queue[i]
    BY <1>a, <1>1
  <2>2. \A d : d \in Event /\ (d \in ToSet(queue) \/ d \in ToSet(persisted) \/ d = hand) => d \in accepted
    BY Markers DEF FlowInv, OnTheWay, Settled
  <2>3. \A i \in DOMAIN queue : queue[i] \in ToSet(queue) BY DEF ToSet
  <2>4. \A i \in DOMAIN persisted : persisted[i] \in ToSet(persisted) BY DEF ToSet
  <2>5. /\ \A i \in DOMAIN queue : Before(queue[i], e)
        /\ \A i \in DOMAIN persisted : Before(persisted[i], e)
        /\ Before(hand, e)
    BY <1>1, <2>2, <2>3, <2>4 DEF Before
  <2>6. \A i \in DOMAIN queue' : i \in DOMAIN queue \/ i = Len(queue) + 1 BY <1>a, <2>1
  <2>7. \A i, j \in DOMAIN queue' : i < j => i \in DOMAIN queue BY <1>a, <2>1
  <2>8. \A i, j \in DOMAIN queue' : i < j => Before(queue'[i], queue'[j])
    BY <2>1, <2>5, <2>6, <2>7 DEF OrderInv
  <2>9. \A i \in DOMAIN persisted', j \in DOMAIN queue' : Before(persisted'[i], queue'[j])
    BY <1>1, <2>1, <2>5, <2>6 DEF OrderInv
  <2>10. \A j \in DOMAIN queue' : Before(hand', queue'[j])
    BY <1>1, <2>1, <2>5, <2>6 DEF OrderInv
  <2>11. Settled' = Settled BY <1>1 DEF Settled
  <2> QED BY <1>1, <2>8, <2>9, <2>10, <2>11 DEF OrderInv
<1>2. CASE UNCHANGED <<queue, hand, persisted, failures>>
  BY <1>2 DEF OrderInv, Settled
<1>3. ASSUME NEW p \in Publisher, PutNowait(p) PROVE OrderInv'
  <2> DEFINE e == <<p, sent[p] + 1>>
  <2>1. ASSUME NEW d \in accepted PROVE Before(d, e)
    <3>1. d[2] <= sent[d[1]] BY <2>1 DEF FlowInv
    <3>2. d \in Publisher \X (1..MaxEvents) BY <2>1 DEF TypeInv, TypeOK, Event
    <3>3. d[2] \in Nat /\ sent[p] \in Nat /\ e[1] = p /\ e[2] = sent[p] + 1 BY <1>a, <3>2
    <3> QED BY <3>1, <3>3 DEF Before
  <2> QED BY <1>1, <1>2, <1>3, <2>1 DEF PutNowait
<1>4. CASE Take
  <2>1. /\ hand' = Head(queue) /\ queue' = Tail(queue) /\ queue # <<>>
        /\ UNCHANGED <<persisted, failures>>
    BY <1>4 DEF Take
  <2>2. /\ hand' = queue[1] /\ 1 \in DOMAIN queue
        /\ \A i \in DOMAIN queue' :
             i \in Nat \ {0} /\ i + 1 \in DOMAIN queue /\ 1 < i + 1 /\ queue'[i] = queue[i + 1]
    BY <1>a, <2>1
  <2>3. ASSUME NEW i \in DOMAIN queue', NEW j \in DOMAIN queue', i < j
        PROVE  Before(queue'[i], queue'[j])
    <3>1. i + 1 < j + 1 BY <2>2, <2>3
    <3> QED BY <2>2, <3>1 DEF OrderInv
  <2>4. \A j \in DOMAIN queue' : Before(hand', queue'[j]) BY <2>2 DEF OrderInv
  <2>5. \A i \in DOMAIN persisted : Before(persisted[i], hand') BY <2>2 DEF OrderInv
  <2>6. \A i \in DOMAIN persisted, j \in DOMAIN queue' : Before(persisted[i], queue'[j])
    BY <2>2 DEF OrderInv
  <2> QED BY <2>1, <2>3, <2>4, <2>5, <2>6 DEF OrderInv
<1>5. CASE Persist
  <2>1. hand \in Event /\ hand \notin Settled /\ UNCHANGED <<queue, hand>> BY <1>5 DEF Persist
  <2>2. CASE persisted' = Append(persisted, hand) /\ UNCHANGED failures
    <3>1. /\ DOMAIN persisted' = 1..(Len(persisted) + 1) /\ persisted'[Len(persisted) + 1] = hand
          /\ \A i \in DOMAIN persisted : persisted'[i] = persisted[i]
      BY <1>a, <2>1, <2>2
    <3>2. \A i \in DOMAIN persisted' : i \in DOMAIN persisted \/ i = Len(persisted) + 1
      BY <1>a, <3>1
    <3>3. \A i, j \in DOMAIN persisted' : i < j => i \in DOMAIN persisted BY <1>a, <3>1
    <3>4. \A i, j \in DOMAIN persisted' : i < j => Before(persisted'[i], persisted'[j])
      BY <2>1, <3>1, <3>2, <3>3 DEF OrderInv
    <3>5. \A i \in DOMAIN persisted', j \in DOMAIN queue' : Before(persisted'[i], queue'[j])
      BY <2>1, <3>1, <3>2 DEF OrderInv
    <3>6. hand' \in Settled'
      <4>1. ToSet(persisted') = ToSet(persisted) \cup {hand} BY <1>a, <2>2, ToSetAppend
      <4> QED BY <2>1, <4>1 DEF Settled
    <3> QED BY <2>1, <3>4, <3>5, <3>6 DEF OrderInv
  <2>3. CASE failures' = failures \cup {hand} /\ UNCHANGED persisted
    BY <2>1, <2>3 DEF OrderInv, Settled
  <2> QED BY <1>5, <2>2, <2>3 DEF Persist
<1>6. CASE TaskDone
  <2>1. hand' = Nothing /\ UNCHANGED <<queue, persisted, failures>> BY <1>6 DEF TaskDone
  <2>2. \A e : Before(Nothing, e) /\ Before(e, Nothing) BY Markers DEF Before
  <2> QED BY <2>1, <2>2 DEF OrderInv
<1>7. CASE PutStop
  <2>1. \A d : Before(d, Stop) BY Markers DEF Before
  <2> QED BY <1>1, <1>2, <1>7, <2>1 DEF PutStop
<1> QED BY <1>2, <1>3, <1>4, <1>5, <1>6, <1>7
       DEF Next, Publish, Drain, Close, Read, Over, CheckClosed, CloseBegins, CloseFlushes,
           CloseJoins, Exit, ReadBegins, ReadFlushes, ReadLists, vars

\* The log lists the events of a run in the order its thread published them,
\* each once, whatever was dropped or failed in between.
THEOREM LoggedInOrderHolds == Spec => []LoggedInOrder
<1>1. Init => OrderInv
  <2> SUFFICES ASSUME Init PROVE OrderInv
    OBVIOUS
  <2>1. queue = <<>> /\ persisted = <<>> BY DEF Init
  <2> QED BY <2>1 DEF OrderInv
<1>2. TypeInv /\ OrderInv => LoggedInOrder
  <2> SUFFICES ASSUME TypeInv, OrderInv PROVE LoggedInOrder
    OBVIOUS
  <2>1. \A i \in DOMAIN persisted : persisted[i] \in Event BY DEF TypeInv, TypeOK
  <2> QED BY <2>1 DEF OrderInv, Before, LoggedInOrder
<1> QED BY FlowInvariance, NextOrderInv, <1>1, <1>2, PTL DEF Spec

=============================================================================
