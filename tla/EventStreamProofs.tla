------------------------- MODULE EventStreamProofs -------------------------
(***************************************************************************)
(* Machine-checked proofs about EventStream, for every set of watchers,    *)
(* number of events and capacity: type correctness, the registry holds     *)
(* only queues of requests that are there, and no event overtakes another  *)
(* or vanishes on its way through the registry's copy, the loop's          *)
(* callbacks and the watcher's queue.                                      *)
(***************************************************************************)
EXTENDS EventStream, SequenceFacts, TLAPS

LEMMA EventBounds == Done \in Nat \ {0} /\ \A e \in Event : e \in Nat /\ e <= Done
BY EventStreamAssumption DEF Done, Event

\* What is posted to a copied queue is an event: the copy is made by Publish.
TypeInv == TypeOK /\ (targets # {} => published \in Event)

LEMMA InitTypeInv == Init => TypeInv
<1> SUFFICES ASSUME Init PROVE TypeInv
  OBVIOUS
<1>1. finished \in BOOLEAN BY Zenon DEF Init
<1>2. row \in [Watcher -> BOOLEAN] BY Zenon DEF Init
<1>3. ready \in Seq(Watcher \X Event) /\ queue \in [Watcher -> Seq(Event)] /\ sent \in [Watcher -> Seq(Event)]
  BY DEF Init
<1> QED BY <1>1, <1>2, <1>3, EventStreamAssumption, EventBounds DEF Init, TypeInv, TypeOK

LEMMA NextTypeInv == TypeInv /\ [Next]_vars => TypeInv'
<1> SUFFICES ASSUME TypeInv, [Next]_vars PROVE TypeInv'
  OBVIOUS
<1> USE EventStreamAssumption, EventBounds DEF TypeInv, TypeOK, loop, watch
<1>1. CASE FinishRow BY <1>1 DEF FinishRow
<1>2. CASE Publish BY <1>2 DEF Publish, Event
<1>3. ASSUME NEW w \in Watcher, Post(w) PROVE TypeInv'
  <2>1. <<w, published>> \in Watcher \X Event BY <1>3 DEF Post
  <2> QED BY <1>3, <2>1 DEF Post
<1>4. CASE PopRun BY <1>4 DEF PopRun
<1>5. CASE RunCallback
  <2>0. ready \in Seq(Watcher \X Event) /\ ready # <<>> BY <1>5 DEF RunCallback
  <2>1. PICK w \in Watcher, e \in Event : Head(ready) = <<w, e>>
    <3>1. Head(ready) \in Watcher \X Event BY <2>0, HeadTailType, Zenon
    <3> QED BY <3>1
  <2>2. ready' \in Seq(Watcher \X Event) BY <1>5 DEF RunCallback
  <2>3. UNCHANGED <<named, finished, published, targets, thread, subscribers, watch>>
    BY <1>5 DEF RunCallback
  <2>4. CASE Len(queue[w]) < Capacity /\ queue' = [queue EXCEPT ![w] = Append(@, e)] /\ UNCHANGED dropped
    <3>1. Append(queue[w], e) \in Seq(Event) /\ Len(Append(queue[w], e)) <= Capacity BY <2>4
    <3> QED BY <2>2, <2>3, <2>4, <3>1
  <2>5. CASE dropped' = [dropped EXCEPT ![w] = @ \cup {e}] /\ UNCHANGED queue
    BY <2>2, <2>3, <2>5
  <2>6. Head(ready)[1] = w /\ Head(ready)[2] = e BY <2>1
  <2>7. \/ Len(queue[w]) < Capacity /\ queue' = [queue EXCEPT ![w] = Append(@, e)] /\ UNCHANGED dropped
        \/ dropped' = [dropped EXCEPT ![w] = @ \cup {e}] /\ UNCHANGED queue
    BY <1>5, <2>6 DEF RunCallback
  <2> QED BY <2>4, <2>5, <2>7
<1>6. ASSUME NEW w \in Watcher, ReadRow(w) PROVE TypeInv' BY <1>6 DEF ReadRow
<1>7. ASSUME NEW w \in Watcher, Subscribe(w) PROVE TypeInv' BY <1>7 DEF Subscribe
<1>8. ASSUME NEW w \in Watcher, Greet(w) PROVE TypeInv' BY <1>8 DEF Greet, Unsubscribe
<1>9. ASSUME NEW w \in Watcher, Receive(w) PROVE TypeInv'
  <2>1. /\ queue[w] # <<>> /\ Head(queue[w]) \in Event
        /\ sent' = [sent EXCEPT ![w] = Append(@, Head(queue[w]))]
        /\ queue' = [queue EXCEPT ![w] = Tail(@)]
        /\ subscribers' \subseteq subscribers /\ wpc' \in {wpc, [wpc EXCEPT ![w] = "ended"]}
        /\ UNCHANGED <<named, finished, published, targets, thread, ready, dropped, row, since>>
    BY <1>9 DEF Receive, Unsubscribe
  <2>2. Tail(queue[w]) \in Seq(Event) /\ Len(Tail(queue[w])) <= Capacity BY <2>1
  <2>3. Append(sent[w], Head(queue[w])) \in Seq(Event) BY <2>1
  <2> QED BY <2>1, <2>2, <2>3
<1>10. ASSUME NEW w \in Watcher, Leave(w) PROVE TypeInv' BY <1>10 DEF Leave, Unsubscribe
<1>11. ASSUME NEW w \in Watcher, LoseClient(w) PROVE TypeInv' BY <1>11 DEF LoseClient
<1>12. CASE Quiet \/ UNCHANGED vars BY <1>12 DEF Quiet, vars
<1> QED BY <1>1, <1>2, <1>3, <1>4, <1>5, <1>6, <1>7, <1>8, <1>9, <1>10, <1>11, <1>12
        DEF Next, ThreadStep, Handle

\* Every variable keeps its type, and no queue its watcher reads outgrows its
\* capacity.
THEOREM TypeCorrect == Spec => []TypeOK
<1>1. TypeInv => TypeOK BY DEF TypeInv
<1> QED BY InitTypeInv, NextTypeInv, <1>1, PTL DEF Spec

-----------------------------------------------------------------------------
\* What is left in the registry of a closed run was registered after its last
\* event.
RegistryInv ==
  /\ \A w \in subscribers : wpc[w] \in {"subscribed", "watching", "lost"}
  /\ thread = "closed" => published = Done /\ \A w \in subscribers : since[w] = Done

\* What a step does to the registry and to where the watchers stand.
LEMMA RegistryStep ==
  ASSUME TypeOK, RegistryInv, [Next]_vars
  PROVE  RegistryInv'
<1> USE DEF TypeOK, RegistryInv, watch, loop
<1>1. CASE ThreadStep BY <1>1 DEF ThreadStep, FinishRow, Publish, Post, PopRun
<1>2. CASE RunCallback BY <1>2 DEF RunCallback
<1>3. ASSUME NEW w \in Watcher, ReadRow(w) \/ Handle(w) \/ LoseClient(w) \/ Leave(w) PROVE RegistryInv'
  <2>1. CASE ReadRow(w) BY <2>1 DEF ReadRow
  <2>2. CASE Subscribe(w) BY <2>2 DEF Subscribe
  <2>3. CASE Greet(w) BY <2>3 DEF Greet, Unsubscribe
  <2>4. CASE Receive(w) BY <2>4 DEF Receive, Unsubscribe
  <2>5. CASE Leave(w) BY <2>5 DEF Leave, Unsubscribe
  <2>6. CASE LoseClient(w) BY <2>6 DEF LoseClient
  <2> QED BY <1>3, <2>1, <2>2, <2>3, <2>4, <2>5, <2>6 DEF Handle
<1>4. CASE Quiet \/ UNCHANGED vars BY <1>4 DEF Quiet, vars
<1> QED BY <1>1, <1>2, <1>3, <1>4 DEF Next

\* A queue in the registry belongs to a request that is still there, or was lost
\* before its generator started; the latter outlives close_run only if it was
\* registered after the run's last event.
THEOREM GoneIsForgottenHolds == Spec => []GoneIsForgotten
<1>1. Init => RegistryInv BY DEF Init, RegistryInv
<1>2. RegistryInv => GoneIsForgotten BY DEF RegistryInv, GoneIsForgotten
<1> QED BY <1>1, <1>2, TypeCorrect, RegistryStep, PTL DEF Spec

-----------------------------------------------------------------------------
Increasing(s) == \A i, j \in DOMAIN s : i < j => s[i] < s[j]
Before(s, t) == \A i \in DOMAIN s, j \in DOMAIN t : s[i] < t[j]

\* On its way to w an event is in the copy, in a callback, in the queue, sent:
\* each stage holds events in order, and later ones than the next.
OrderInv(w) ==
  /\ Increasing(sent[w]) /\ Increasing(queue[w]) /\ Before(sent[w], queue[w])
  /\ \A i, j \in DOMAIN ready :
       i < j /\ ready[i][1] = w /\ ready[j][1] = w => ready[i][2] < ready[j][2]
  /\ \A j \in DOMAIN ready : ready[j][1] = w =>
       /\ \A i \in DOMAIN sent[w] : sent[w][i] < ready[j][2]
       /\ \A i \in DOMAIN queue[w] : queue[w][i] < ready[j][2]
       /\ ready[j][2] <= published /\ (w \in targets => ready[j][2] < published)
  /\ \A i \in DOMAIN sent[w] : sent[w][i] <= published /\ (w \in targets => sent[w][i] < published)
  /\ \A i \in DOMAIN queue[w] : queue[w][i] <= published /\ (w \in targets => queue[w][i] < published)

\* Appending a later element keeps a sequence increasing; its head comes before
\* the rest.
LEMMA AppendIncreasing ==
  ASSUME NEW s \in Seq(Nat), NEW e \in Nat, Increasing(s), \A i \in DOMAIN s : s[i] < e
  PROVE  Increasing(Append(s, e))
BY DEF Increasing

LEMMA TailFacts ==
  ASSUME NEW S, NEW s \in Seq(S), s # <<>>
  PROVE  /\ Tail(s) \in Seq(S) /\ Len(s) \in Nat \ {0} /\ DOMAIN s = 1..Len(s)
         /\ DOMAIN Tail(s) = 1..(Len(s) - 1)
         /\ \A i \in DOMAIN Tail(s) : Tail(s)[i] = s[i + 1] /\ i + 1 \in DOMAIN s
         /\ Head(s) = s[1] /\ 1 \in DOMAIN s
OBVIOUS

LEMMA InitOrder == Init => \A w \in Watcher : OrderInv(w)
BY DEF Init, OrderInv, Increasing, Before

LEMMA Sizes ==
  ASSUME TypeInv, NEW w \in Watcher
  PROVE  /\ published \in Nat
         /\ sent[w] \in Seq(Event) /\ \A i \in DOMAIN sent[w] : sent[w][i] \in Nat
         /\ queue[w] \in Seq(Event) /\ \A i \in DOMAIN queue[w] : queue[w][i] \in Nat
         /\ ready \in Seq(Watcher \X Event)
         /\ \A j \in DOMAIN ready : ready[j] \in Watcher \X Event /\ ready[j][2] \in Nat
BY EventBounds DEF TypeInv, TypeOK

LEMMA ThreadOrder ==
  ASSUME TypeInv, NEW w \in Watcher, OrderInv(w), ThreadStep
  PROVE  OrderInv(w)'
<1> USE Sizes DEF OrderInv, Increasing, Before, loop, watch
<1>1. CASE FinishRow BY <1>1 DEF FinishRow
<1>2. CASE Publish
  <2>1. targets = {} /\ published' = published + 1 /\ UNCHANGED <<ready, queue, sent>>
    BY <1>2 DEF Publish
  <2> QED BY <2>1
<1>3. ASSUME NEW v \in Watcher, Post(v) PROVE OrderInv(w)'
  <2>1. /\ v \in targets /\ targets' = targets \ {v}
        /\ ready' = Append(ready, <<v, published>>) /\ UNCHANGED <<published, queue, sent>>
    BY <1>3 DEF Post
  <2>2. /\ DOMAIN ready' = 1..(Len(ready) + 1) /\ DOMAIN ready = 1..Len(ready) /\ Len(ready) \in Nat
        /\ \A j \in DOMAIN ready : ready'[j] = ready[j]
        /\ ready'[Len(ready) + 1] = <<v, published>>
    BY <2>1
  <2>3. \A j \in DOMAIN ready' : j \in DOMAIN ready \/ j = Len(ready) + 1 BY <2>2
  <2>4. CASE v = w BY <2>1, <2>2, <2>3, <2>4
  <2>5. CASE v # w BY <2>1, <2>2, <2>3, <2>5
  <2> QED BY <2>4, <2>5
<1>4. CASE PopRun BY <1>4 DEF PopRun
<1> QED BY <1>1, <1>2, <1>3, <1>4 DEF ThreadStep

LEMMA CallbackOrder ==
  ASSUME TypeInv, NEW w \in Watcher, OrderInv(w), RunCallback
  PROVE  OrderInv(w)'
<1> USE DEF OrderInv, Increasing, Before, watch
<1>1. PICK v \in Watcher, e \in Event : Head(ready) = <<v, e>>
  BY Sizes, TailFacts DEF RunCallback
<1>2. Head(ready)[1] = v /\ Head(ready)[2] = e BY <1>1
<1>3. /\ ready[1][1] = v /\ ready[1][2] = e /\ 1 \in DOMAIN ready /\ e \in Nat
      /\ \A j \in DOMAIN ready' : ready'[j] = ready[j + 1] /\ j + 1 \in DOMAIN ready /\ j \in Nat \ {0}
      /\ DOMAIN ready \subseteq Nat
      /\ UNCHANGED <<published, targets, sent>>
  BY <1>2, Sizes, TailFacts, EventBounds DEF RunCallback
<1>30. \A i, j \in DOMAIN ready' :
         i < j /\ ready'[i][1] = w /\ ready'[j][1] = w => ready'[i][2] < ready'[j][2]
  <2> SUFFICES ASSUME NEW i \in DOMAIN ready', NEW j \in DOMAIN ready', i < j,
                      ready'[i][1] = w, ready'[j][1] = w
               PROVE  ready'[i][2] < ready'[j][2]
    OBVIOUS
  <2>1. i + 1 < j + 1 /\ i + 1 \in DOMAIN ready /\ j + 1 \in DOMAIN ready BY <1>3
  <2>2. ready[i + 1][2] < ready[j + 1][2] BY <1>3, <2>1
  <2> QED BY <1>3, <2>2
<1>4. CASE UNCHANGED queue
  <2>1. \A j \in DOMAIN ready' : ready'[j][1] = w =>
         /\ \A i \in DOMAIN sent'[w] : sent'[w][i] < ready'[j][2]
         /\ \A i \in DOMAIN queue'[w] : queue'[w][i] < ready'[j][2]
         /\ ready'[j][2] <= published' /\ (w \in targets' => ready'[j][2] < published')
    BY <1>3, <1>4
  <2> QED BY <1>3, <1>30, <1>4, <2>1
<1>5. CASE queue' = [queue EXCEPT ![v] = Append(@, e)]
  <2>1. CASE v # w
    <3>1. queue'[w] = queue[w] BY <1>5, <2>1 DEF TypeInv, TypeOK
    <3>2. \A j \in DOMAIN ready' : ready'[j][1] = w =>
           /\ \A i \in DOMAIN sent'[w] : sent'[w][i] < ready'[j][2]
           /\ \A i \in DOMAIN queue'[w] : queue'[w][i] < ready'[j][2]
           /\ ready'[j][2] <= published' /\ (w \in targets' => ready'[j][2] < published')
      BY <1>3, <3>1
    <3> QED BY <1>3, <1>30, <3>1, <3>2
  <2>2. CASE v = w
    <3>1. queue'[w] = Append(queue[w], e) BY <1>5, <2>2 DEF TypeInv, TypeOK
    <3>2. /\ DOMAIN queue'[w] = 1..(Len(queue[w]) + 1) /\ DOMAIN queue[w] = 1..Len(queue[w])
          /\ Len(queue[w]) \in Nat /\ queue'[w][Len(queue[w]) + 1] = e
          /\ \A i \in DOMAIN queue[w] : queue'[w][i] = queue[w][i]
      BY <3>1, Sizes, <1>3
    <3>3. \A i \in DOMAIN queue'[w] : i \in DOMAIN queue[w] \/ i = Len(queue[w]) + 1 BY <3>2
    <3>4. (\A i \in DOMAIN queue[w] : queue[w][i] < e) /\ (\A i \in DOMAIN sent[w] : sent[w][i] < e)
      BY <1>3, <2>2
    <3>5. Increasing(queue[w])' BY <3>2, <3>3, <3>4
    <3>6. Before(sent[w], queue[w])' BY <1>3, <3>2, <3>3, <3>4
    <3>7. \A j \in DOMAIN ready' : ready'[j][1] = w => e < ready'[j][2]
      BY <1>3, <2>2
    <3>8. \A j \in DOMAIN ready' : ready'[j][1] = w =>
           /\ \A i \in DOMAIN sent'[w] : sent'[w][i] < ready'[j][2]
           /\ \A i \in DOMAIN queue'[w] : queue'[w][i] < ready'[j][2]
           /\ ready'[j][2] <= published' /\ (w \in targets' => ready'[j][2] < published')
      BY <1>3, <3>2, <3>3, <3>7
    <3>9. e <= published /\ (w \in targets => e < published) BY <1>3, <2>2
    <3>10. \A i \in DOMAIN queue'[w] :
             queue'[w][i] <= published' /\ (w \in targets' => queue'[w][i] < published')
      BY <1>3, <3>2, <3>3, <3>9
    <3> QED BY <1>3, <1>30, <3>5, <3>6, <3>8, <3>10
  <2> QED BY <2>1, <2>2
<1> QED BY <1>2, <1>4, <1>5 DEF RunCallback

LEMMA ReceiveOrder ==
  ASSUME TypeInv, NEW w \in Watcher, OrderInv(w), Receive(w)
  PROVE  OrderInv(w)'
<1>1. /\ queue[w] # <<>> /\ sent'[w] = Append(sent[w], Head(queue[w]))
      /\ queue'[w] = Tail(queue[w]) /\ UNCHANGED <<ready, published, targets>>
  BY DEF Receive, TypeInv, TypeOK
<1>2. queue[w] \in Seq(Event) /\ sent[w] \in Seq(Event) BY Sizes
<1>3. /\ 1 \in DOMAIN queue[w] /\ Head(queue[w]) = queue[w][1] /\ queue[w][1] \in Event
      /\ DOMAIN queue[w] \subseteq Nat
      /\ DOMAIN Tail(queue[w]) \subseteq Nat \ {0}
      /\ \A i \in DOMAIN Tail(queue[w]) : Tail(queue[w])[i] = queue[w][i + 1] /\ i + 1 \in DOMAIN queue[w]
  BY <1>1, <1>2
<1>4. /\ DOMAIN sent[w] \subseteq Nat
      /\ \A i \in DOMAIN sent'[w] :
           \/ i \in DOMAIN sent[w] /\ sent'[w][i] = sent[w][i]
           \/ i = Len(sent[w]) + 1 /\ sent'[w][i] = queue[w][1]
      /\ \A i \in DOMAIN sent[w] : i < Len(sent[w]) + 1
  BY <1>1, <1>2, <1>3
<1>5. /\ queue[w][1] \in Nat /\ \A i \in DOMAIN sent[w] : sent[w][i] \in Nat
      /\ \A i \in DOMAIN queue[w] : queue[w][i] \in Nat
  BY <1>3, Sizes
<1> HIDE DEF Event
<1> USE DEF OrderInv, Increasing, Before
<1>6. Increasing(sent[w])'
  <2> SUFFICES ASSUME NEW i \in DOMAIN sent'[w], NEW j \in DOMAIN sent'[w], i < j
               PROVE  sent'[w][i] < sent'[w][j]
    OBVIOUS
  <2>1. i \in DOMAIN sent[w] /\ sent'[w][i] = sent[w][i]
    <3>1. j <= Len(sent[w]) + 1 /\ j \in Nat /\ i \in Nat /\ Len(sent[w]) \in Nat BY <1>2, <1>4
    <3> QED BY <1>4, <3>1
  <2> QED BY <1>3, <1>4, <2>1
<1>7. Increasing(queue[w])'
  <2> SUFFICES ASSUME NEW i \in DOMAIN queue'[w], NEW j \in DOMAIN queue'[w], i < j
               PROVE  queue'[w][i] < queue'[w][j]
    OBVIOUS
  <2>1. i + 1 < j + 1 /\ i + 1 \in DOMAIN queue[w] /\ j + 1 \in DOMAIN queue[w] BY <1>1, <1>3
  <2> QED BY <1>1, <1>3, <2>1
<1>8. Before(sent[w], queue[w])'
  <2> SUFFICES ASSUME NEW i \in DOMAIN sent'[w], NEW j \in DOMAIN queue'[w]
               PROVE  sent'[w][i] < queue'[w][j]
    OBVIOUS
  <2>1. queue'[w][j] = queue[w][j + 1] /\ j + 1 \in DOMAIN queue[w] /\ 1 < j + 1 BY <1>1, <1>3
  <2>2. queue[w][1] < queue[w][j + 1] BY <1>3, <2>1
  <2> QED BY <1>4, <2>1, <2>2
<1>9. \A j \in DOMAIN ready' : ready'[j][1] = w =>
       /\ \A i \in DOMAIN sent'[w] : sent'[w][i] < ready'[j][2]
       /\ \A i \in DOMAIN queue'[w] : queue'[w][i] < ready'[j][2]
  BY <1>1, <1>3, <1>4
<1>10. /\ \A i \in DOMAIN sent'[w] :
            sent'[w][i] <= published' /\ (w \in targets' => sent'[w][i] < published')
       /\ \A i \in DOMAIN queue'[w] :
            queue'[w][i] <= published' /\ (w \in targets' => queue'[w][i] < published')
  BY <1>1, <1>3, <1>4
<1> QED BY <1>1, <1>6, <1>7, <1>8, <1>9, <1>10

LEMMA WatchOrder ==
  ASSUME TypeInv, NEW w \in Watcher, OrderInv(w), NEW v \in Watcher, ReadRow(v) \/ Handle(v) \/ LoseClient(v) \/ Leave(v)
  PROVE  OrderInv(w)'
<1> USE DEF OrderInv, Increasing, Before, loop
<1>1. CASE ReadRow(v) BY <1>1 DEF ReadRow
<1>2. CASE Subscribe(v) BY <1>2 DEF Subscribe
<1>3. CASE Greet(v) BY <1>3 DEF Greet
<1>4. CASE Receive(v)
  <2>1. CASE v = w BY <1>4, <2>1, ReceiveOrder
  <2>2. CASE v # w
    <3>1. UNCHANGED <<sent[w], queue[w], ready, published, targets>>
      BY <1>4, <2>2 DEF Receive, TypeInv, TypeOK
    <3> QED BY <3>1
  <2> QED BY <2>1, <2>2
<1>5. CASE Leave(v) BY <1>5 DEF Leave
<1>6. CASE LoseClient(v) BY <1>6 DEF LoseClient
<1> QED BY <1>1, <1>2, <1>3, <1>4, <1>5, <1>6 DEF Handle

LEMMA NextOrder ==
  TypeInv /\ (\A w \in Watcher : OrderInv(w)) /\ [Next]_vars => \A w \in Watcher : OrderInv(w)'
<1> SUFFICES ASSUME TypeInv, NEW w \in Watcher, OrderInv(w), [Next]_vars PROVE OrderInv(w)'
  OBVIOUS
<1>1. CASE Quiet \/ UNCHANGED vars
  BY <1>1 DEF Quiet, vars, loop, watch, OrderInv, Increasing, Before
<1> QED BY <1>1, ThreadOrder, CallbackOrder, WatchOrder DEF Next

\* A watcher is sent the events of its run in the order in which they were
\* published, each once, whatever was dropped on the way.
THEOREM SentInOrderHolds == Spec => []SentInOrder
<1> DEFINE Ordered == \A w \in Watcher : OrderInv(w)
<1>1. Ordered => SentInOrder BY DEF SentInOrder, OrderInv, Increasing
<1>2. TypeInv /\ Ordered /\ [Next]_vars => Ordered' BY NextOrder
<1>3. Init => Ordered BY InitOrder
<1> HIDE DEF Ordered
<1> QED BY InitTypeInv, NextTypeInv, <1>1, <1>2, <1>3, PTL DEF Spec

-----------------------------------------------------------------------------
(* No event vanishes between its publication and a watcher                  *)

Reached(w) ==
  ToSet(sent[w]) \cup dropped[w] \cup ToSet(queue[w])
    \cup {e \in Event : <<w, e>> \in ToSet(ready)}
    \cup (IF w \in targets THEN {published} ELSE {})

Attending(w) == wpc[w] \in {"subscribed", "watching"}

\* Nothing reaches a queue before it is registered, and a registered one is
\* lost to the thread only when the run is closed, after its last event.
FlowInv(w) ==
  /\ thread = "closed" => published = Done
  /\ wpc[w] \in {"away", "read"} => Reached(w) = {} /\ w \notin subscribers
  /\ Attending(w) => since[w] <= published /\ (thread = "working" => w \in subscribers)
  /\ Attending(w) /\ since[w] < Done => Reached(w) = (since[w] + 1)..published

LEMMA InitFlow == Init => \A w \in Watcher : FlowInv(w)
<1> SUFFICES ASSUME Init, NEW w \in Watcher PROVE FlowInv(w)
  OBVIOUS
<1>1. Reached(w) = {} BY ToSetEmpty DEF Init, Reached
<1> QED BY <1>1 DEF Init, FlowInv, Attending

\* A step that moves w's events along, and nothing else of w.
LEMMA FlowKept ==
  ASSUME NEW w \in Watcher, FlowInv(w), Reached(w)' = Reached(w),
         UNCHANGED <<thread, published, subscribers, wpc, since>>
  PROVE  FlowInv(w)'
BY DEF FlowInv, Attending

LEMMA ThreadFlow ==
  ASSUME TypeInv, NEW w \in Watcher, FlowInv(w), ThreadStep
  PROVE  FlowInv(w)'
<1> USE EventBounds DEF watch, loop
<1>1. CASE FinishRow
  <2>1. Reached(w)' = Reached(w) BY <1>1 DEF FinishRow, Reached
  <2> QED BY <1>1, <2>1, FlowKept DEF FinishRow
<1>2. CASE Publish
  <2>1. /\ thread = "working" /\ published \in Nat /\ published < Done /\ published' = published + 1
        /\ since[w] \in Nat /\ UNCHANGED <<thread, subscribers, wpc, since>>
    BY <1>2 DEF Publish, TypeInv, TypeOK
  <2>2. Reached(w)' = Reached(w) \cup (IF w \in subscribers THEN {published + 1} ELSE {})
    BY <1>2 DEF Publish, Reached
  <2>3. CASE Attending(w)
    <3>1. Reached(w)' = Reached(w) \cup {published + 1} /\ since[w] <= published
      BY <2>1, <2>2, <2>3 DEF FlowInv
    <3>2. since[w] < Done => Reached(w)' = (since[w] + 1)..(published + 1)
      BY <2>1, <2>3, <3>1 DEF FlowInv
    <3> QED BY <2>1, <2>3, <3>1, <3>2 DEF FlowInv, Attending
  <2>4. CASE ~Attending(w)
    BY <2>1, <2>2, <2>4 DEF FlowInv, Attending
  <2> QED BY <2>3, <2>4
<1>3. ASSUME NEW v \in Watcher, Post(v) PROVE FlowInv(w)'
  <2>1. /\ v \in targets /\ targets' = targets \ {v} /\ published \in Event
        /\ UNCHANGED <<thread, published, subscribers, wpc, since, queue, dropped, sent>>
    BY <1>3 DEF Post, TypeInv
  <2>2. ToSet(ready') = ToSet(ready) \cup {<<v, published>>}
    BY <1>3, ToSetAppend DEF Post, TypeInv, TypeOK
  <2>3. Reached(w)' = Reached(w)
    <3>1. CASE v = w BY <2>1, <2>2, <3>1 DEF Reached
    <3>2. CASE v # w BY <2>1, <2>2, <3>2 DEF Reached
    <3> QED BY <3>1, <3>2
  <2> QED BY <2>1, <2>3, FlowKept
<1>4. CASE PopRun
  <2>1. Reached(w)' = Reached(w) BY <1>4 DEF PopRun, Reached
  <2> QED BY <1>4, <2>1 DEF PopRun, FlowInv, Attending
<1> QED BY <1>1, <1>2, <1>3, <1>4 DEF ThreadStep

LEMMA CallbackFlow ==
  ASSUME TypeInv, NEW w \in Watcher, FlowInv(w), RunCallback
  PROVE  FlowInv(w)'
<1>1. /\ ready # <<>> /\ ready' = Tail(ready)
      /\ UNCHANGED <<thread, published, subscribers, wpc, since, targets, sent>>
  BY DEF RunCallback, watch
<1>2. PICK v \in Watcher, e \in Event : Head(ready) = <<v, e>>
  BY <1>1 DEF TypeInv, TypeOK
<1>3. ToSet(ready) = {<<v, e>>} \cup ToSet(ready')
  BY <1>1, <1>2, ToSetTail DEF TypeInv, TypeOK
<1>4. Head(ready)[1] = v /\ Head(ready)[2] = e BY <1>2
<1>5. \/ queue' = [queue EXCEPT ![v] = Append(@, e)] /\ UNCHANGED dropped
      \/ dropped' = [dropped EXCEPT ![v] = @ \cup {e}] /\ UNCHANGED queue
  BY <1>4 DEF RunCallback
<1>6. ToSet(Append(queue[v], e)) = ToSet(queue[v]) \cup {e}
  BY ToSetAppend DEF TypeInv, TypeOK
<1>7. queue \in [Watcher -> Seq(Event)] /\ dropped \in [Watcher -> SUBSET Event]
  BY DEF TypeInv, TypeOK
<1>8. Reached(w)' = Reached(w)
  <2>1. CASE v = w
    <3>1. dropped'[w] \cup ToSet(queue'[w]) = dropped[w] \cup ToSet(queue[w]) \cup {e}
      BY <1>5, <1>6, <1>7, <2>1
    <3>2. {d \in Event : <<w, d>> \in ToSet(ready)} = {d \in Event : <<w, d>> \in ToSet(ready')} \cup {e}
      BY <1>3, <2>1
    <3> QED BY <1>1, <3>1, <3>2 DEF Reached
  <2>2. CASE v # w
    <3>1. dropped'[w] = dropped[w] /\ queue'[w] = queue[w] BY <1>5, <1>7, <2>2
    <3>2. {d \in Event : <<w, d>> \in ToSet(ready)} = {d \in Event : <<w, d>> \in ToSet(ready')}
      BY <1>3, <2>2
    <3> QED BY <1>1, <3>1, <3>2 DEF Reached
  <2> QED BY <2>1, <2>2
<1> QED BY <1>1, <1>8, FlowKept

LEMMA WatchFlow ==
  ASSUME TypeInv, NEW w \in Watcher, FlowInv(w), NEW v \in Watcher, ReadRow(v) \/ Handle(v) \/ LoseClient(v) \/ Leave(v)
  PROVE  FlowInv(w)'
<1> USE DEF loop
<1>0. wpc \in [Watcher -> {"away", "read", "subscribed", "watching", "ended", "left", "lost"}]
      /\ since \in [Watcher -> 0..Done] /\ published \in Nat /\ published <= Done
  BY EventBounds DEF TypeInv, TypeOK
<1>1. CASE ReadRow(v)
  <2>1. Reached(w)' = Reached(w) BY <1>1 DEF ReadRow, Reached
  <2> QED BY <1>0, <1>1, <2>1 DEF ReadRow, FlowInv, Attending
<1>2. CASE Subscribe(v)
  <2>1. Reached(w)' = Reached(w) BY <1>2 DEF Subscribe, Reached
  <2>2. CASE v = w
    <3>1. Reached(w) = {} /\ wpc'[w] = "subscribed" /\ since'[w] = published /\ w \in subscribers'
          /\ UNCHANGED <<published, thread>>
      BY <1>0, <1>2, <2>2 DEF Subscribe, FlowInv
    <3>2. (published + 1)..published = {} BY <1>0
    <3> QED BY <1>0, <2>1, <3>1, <3>2 DEF FlowInv, Attending
  <2>3. CASE v # w
    BY <1>0, <1>2, <2>1, <2>3 DEF Subscribe, FlowInv, Attending
  <2> QED BY <2>2, <2>3
<1>3. CASE Greet(v)
  <2>1. Reached(w)' = Reached(w) BY <1>3 DEF Greet, Reached
  <2> QED BY <1>0, <1>3, <2>1 DEF Greet, Unsubscribe, FlowInv, Attending
<1>4. CASE Receive(v)
  <2>1. /\ wpc[v] = "watching" /\ queue[v] # <<>>
        /\ sent' = [sent EXCEPT ![v] = Append(@, Head(queue[v]))]
        /\ queue' = [queue EXCEPT ![v] = Tail(@)]
        /\ UNCHANGED <<published, targets, thread, ready, dropped, since>>
        /\ \/ wpc' = [wpc EXCEPT ![v] = "ended"] /\ subscribers' = subscribers \ {v}
           \/ UNCHANGED <<wpc, subscribers>>
    BY <1>4 DEF Receive, Unsubscribe
  <2>2. queue \in [Watcher -> Seq(Event)] /\ sent \in [Watcher -> Seq(Event)]
    BY DEF TypeInv, TypeOK
  <2>3. Reached(w)' = Reached(w)
    <3>1. CASE v = w
      <4>1. ToSet(queue[w]) = {Head(queue[w])} \cup ToSet(queue'[w])
        BY <2>1, <2>2, <3>1, ToSetTail
      <4>2. ToSet(sent'[w]) = ToSet(sent[w]) \cup {Head(queue[w])}
        BY <2>1, <2>2, <3>1, ToSetAppend
      <4> QED BY <2>1, <4>1, <4>2 DEF Reached
    <3>2. CASE v # w
      BY <2>1, <2>2, <3>2 DEF Reached
    <3> QED BY <3>1, <3>2
  <2> QED BY <1>0, <2>1, <2>3 DEF FlowInv, Attending
<1>5. CASE Leave(v)
  <2>1. Reached(w)' = Reached(w) BY <1>5 DEF Leave, Reached
  <2> QED BY <1>0, <1>5, <2>1 DEF Leave, Unsubscribe, FlowInv, Attending
<1>6. CASE LoseClient(v)
  <2>1. Reached(w)' = Reached(w) BY <1>6 DEF LoseClient, Reached
  <2> QED BY <1>0, <1>6, <2>1 DEF LoseClient, FlowInv, Attending
<1> QED BY <1>1, <1>2, <1>3, <1>4, <1>5, <1>6 DEF Handle

\* Every event published since a watcher was registered has been sent to it,
\* has met its full queue, or is still on its way.
THEOREM NothingVanishesHolds == Spec => []NothingVanishes
<1> DEFINE Flows == \A w \in Watcher : FlowInv(w)
<1>1. Flows => NothingVanishes BY DEF NothingVanishes, FlowInv, Reached, Attending
<1>2. TypeInv /\ Flows /\ [Next]_vars => Flows'
  <2> SUFFICES ASSUME TypeInv, Flows, [Next]_vars, NEW w \in Watcher PROVE FlowInv(w)'
    OBVIOUS
  <2>1. CASE Quiet \/ UNCHANGED vars
    BY <2>1, FlowKept DEF Quiet, vars, loop, watch, Reached
  <2> QED BY <2>1, ThreadFlow, CallbackFlow, WatchFlow DEF Next
<1>3. Init => Flows BY InitFlow
<1> HIDE DEF Flows
<1> QED BY InitTypeInv, NextTypeInv, <1>1, <1>2, <1>3, PTL DEF Spec

=============================================================================
