---------------------------- MODULE ModelRouting ----------------------------
(***************************************************************************)
(* Calls of local models: AdaptiveRouter puts the route its profile has    *)
(* decided on into the TaskRouter that all threads share, lets it make the *)
(* call and takes the route out again; TaskRouter tries the models of the  *)
(* route one after the other, each under the single slot of the            *)
(* ResourceManager, whose every operation takes a lock of its own.         *)
(***************************************************************************)
EXTENDS Naturals

CONSTANTS
  Caller,     \* threads, one call each
  Task,       \* ModelTask
  Default,    \* get_default_task_routes: the route a task starts with
  Nobody,     \* the slot is free
  MaxModels   \* bound: models of a route

ASSUME ModelRoutingAssumption ==
  /\ Default \notin Caller /\ Nobody \notin Caller
  /\ MaxModels \in Nat \ {0}

VARIABLES
  routes,  \* TaskRouter._routes: who put each task's route there
  slot,    \* ResourceManager._active
  call,    \* the call each thread makes
  cpc,     \* where it stands
  saved,   \* orig_routes of _call_with_decision
  given,   \* the route its call has looked up
  left,    \* models of it not yet tried
  mixed    \* history: adaptive calls overlapped

routingVars == <<routes, slot, call, cpc, saved, given, left, mixed>>

Routes == [Task -> Caller \cup {Default}]
Kinds == {"adaptive", "plain", "embed"}

\* lighter: the task's default model is heavy and has a lighter substitute
\* that is not among the models of the route (only a decision's can lack it).
Calls == {k \in [kind : Kinds, task : Task, lighter : BOOLEAN] : k.lighter => k.kind = "adaptive"}

RoutingInit ==
  /\ routes = [t \in Task |-> Default] /\ slot = Nobody
  /\ call \in [Caller -> Calls]
  /\ cpc = [c \in Caller |-> "away"]
  /\ saved = [c \in Caller |-> [t \in Task |-> Default]]
  /\ given = [c \in Caller |-> Default] /\ left = [c \in Caller |-> 0]
  /\ mixed = FALSE

At(c, pc) == cpc[c] = pc
Goto(c, pc) == cpc' = [cpc EXCEPT ![c] = pc]
Patching(c) == call[c].kind = "adaptive" /\ cpc[c] \notin {"away", "over"}

-----------------------------------------------------------------------------
(* AdaptiveRouter                                                           *)

BeginCall(c) ==
  /\ At(c, "away") /\ Goto(c, IF call[c].kind = "adaptive" THEN "save" ELSE "look")
  /\ mixed' = (mixed \/ (call[c].kind = "adaptive" /\ \E d \in Caller : Patching(d)))
  /\ UNCHANGED <<routes, slot, call, saved, given, left>>

SaveRoutes(c) ==
  /\ At(c, "save") /\ Goto(c, "patch") /\ saved' = [saved EXCEPT ![c] = routes]
  /\ UNCHANGED <<routes, slot, call, given, left, mixed>>

PatchRoutes(c) ==
  /\ At(c, "patch") /\ Goto(c, "look")
  /\ routes' = [saved[c] EXCEPT ![call[c].task] = c]
  /\ UNCHANGED <<slot, call, saved, given, left, mixed>>

\* Mutant: the routes are restored on success only.
RestoreAfterAnswer(c) ==
  /\ At(c, "restore") /\ Goto(c, "over")
  /\ routes' = IF left[c] > 0 THEN saved[c] ELSE routes
  /\ UNCHANGED <<slot, call, saved, given, left, mixed>>

\* The finally branch of _call_with_decision.
RestoreRoutes(c) ==
  /\ At(c, "restore") /\ Goto(c, "over") /\ routes' = saved[c]
  /\ UNCHANGED <<slot, call, saved, given, left, mixed>>

-----------------------------------------------------------------------------
(* TaskRouter.call, embed                                                   *)

Return(c) == Goto(c, IF call[c].kind = "adaptive" THEN "restore" ELSE "over")

\* The route is looked up once.  (Prompts the safety filter blocks, and
\* embeddings of nothing, end here.)
LookUp(c) ==
  /\ At(c, "look")
  /\ given' = [given EXCEPT ![c] = routes[call[c].task]]
  /\ \/ Return(c) /\ UNCHANGED left
     \/ call[c].kind = "embed" /\ Goto(c, "acquire") /\ left' = [left EXCEPT ![c] = 1]
     \/ call[c].kind # "embed" /\ Goto(c, "check")
        /\ \E n \in 1..MaxModels : left' = [left EXCEPT ![c] = n]
  /\ UNCHANGED <<routes, slot, call, saved, mixed>>

\* can_run, route_to_lighter_model_if_needed.  A lighter model goes into the
\* list before the one at hand, which is what the loop then comes to again:
\* while the slot is taken, the list grows and nothing is tried.
CheckSlot(c) ==
  /\ At(c, "check") /\ (slot = Nobody \/ ~call[c].lighter)
  /\ Goto(c, "acquire")
  /\ UNCHANGED <<routes, slot, call, saved, given, left, mixed>>

InsertLighter(c) ==
  /\ At(c, "check") /\ slot # Nobody /\ call[c].lighter
  /\ UNCHANGED routingVars

\* The model at hand is done with: the next one, or a capability gap.
NextModel(c) ==
  /\ left' = [left EXCEPT ![c] = @ - 1]
  /\ IF left[c] > 1 THEN Goto(c, "check") ELSE Return(c)

\* Mutant: the slot is given back by a finally branch around the acquisition.
AcquireGuarded(c) ==
  /\ At(c, "acquire")
  /\ \/ slot = Nobody /\ slot' = c /\ Goto(c, "asking") /\ UNCHANGED left
     \/ slot # Nobody /\ slot' = Nobody /\ NextModel(c)
  /\ UNCHANGED <<routes, call, saved, given, mixed>>

\* acquire_model_slot
AcquireSlot(c) ==
  /\ At(c, "acquire")
  /\ \/ slot = Nobody /\ slot' = c /\ Goto(c, "asking") /\ UNCHANGED left
     \/ slot # Nobody /\ NextModel(c) /\ UNCHANGED slot
  /\ UNCHANGED <<routes, call, saved, given, mixed>>

\* The model answers, or the request fails or times out.
AskModel(c) ==
  /\ At(c, "asking") /\ \E answer \in {"answered", "unanswered"} : Goto(c, answer)
  /\ UNCHANGED <<routes, slot, call, saved, given, left, mixed>>

\* Mutant: nothing is released after an exception.
ReleaseAnswered(c) ==
  /\ cpc[c] \in {"answered", "unanswered"}
  /\ IF At(c, "answered") THEN slot' = Nobody /\ Return(c) /\ UNCHANGED left
     ELSE NextModel(c) /\ UNCHANGED slot
  /\ UNCHANGED <<routes, call, saved, given, mixed>>

\* release_model_slot, which clears the slot whoever holds it.
ReleaseSlot(c) ==
  /\ cpc[c] \in {"answered", "unanswered"} /\ slot' = Nobody
  /\ \/ At(c, "answered") /\ Return(c) /\ UNCHANGED left
     \/ At(c, "unanswered") /\ NextModel(c)
  /\ UNCHANGED <<routes, call, saved, given, mixed>>

CallerStep(c) ==
  \/ SaveRoutes(c) \/ PatchRoutes(c) \/ RestoreRoutes(c) \/ LookUp(c)
  \/ CheckSlot(c) \/ InsertLighter(c) \/ AcquireSlot(c) \/ AskModel(c) \/ ReleaseSlot(c)

NobodyCalls == (\A c \in Caller : At(c, "over")) /\ UNCHANGED routingVars

RoutingNext == NobodyCalls \/ \E c \in Caller : BeginCall(c) \/ CallerStep(c)
RoutingSpec == RoutingInit /\ [][RoutingNext]_routingVars

\* A thread runs, and each request to a model has a timeout.
RoutingFairness == \A c \in Caller : WF_routingVars(CallerStep(c))
-----------------------------------------------------------------------------
(* Properties *)

RoutingTypeOK ==
  /\ routes \in Routes /\ slot \in Caller \cup {Nobody}
  /\ call \in [Caller -> Calls]
  /\ cpc \in [Caller -> {"away", "save", "patch", "look", "check", "acquire", "asking",
                         "answered", "unanswered", "restore", "over"}]
  /\ saved \in [Caller -> Routes] /\ given \in [Caller -> Caller \cup {Default}]
  /\ left \in [Caller -> 0..MaxModels] /\ mixed \in BOOLEAN

Holding(c) == cpc[c] \in {"asking", "answered", "unanswered"}

\* "Sequential calls enforced (max 1 model at a time on 16 GB Mac)": who asks
\* a model has the slot, and nobody has it otherwise, although a release
\* clears the slot whoever holds it and two locks lie between check and
\* acquisition.
SlotIsHeld == \A c \in Caller : Holding(c) <=> slot = c

\* As long as adaptive calls do not overlap, each is made with the route its
\* profile decided on, and afterwards the routes are what they were.  ("Thread-
\* safe", says the class: overlapping calls undo each other's routes and leave
\* one of them in force.)
DecisionsAreTemporary ==
  ~mixed =>
    /\ (\A c \in Caller : ~Patching(c)) => routes = [t \in Task |-> Default]
    /\ \A c \in Caller : Patching(c) /\ cpc[c] \notin {"save", "patch", "look"} => given[c] = c

\* A call comes back, although it may wait for a slot by trying again and
\* again.
CallsComeBack == \A c \in Caller : ~At(c, "away") ~> At(c, "over")
RoutingFair == RoutingSpec /\ RoutingFairness
====
