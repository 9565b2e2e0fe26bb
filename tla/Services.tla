------------------------------ MODULE Services ------------------------------
(***************************************************************************)
(* The services around the runs, put side by side for TLC: no two of them  *)
(* share state, so a behaviour picks one and lets it move while the others *)
(* stand as they start.  Their reachable states add up instead of          *)
(* multiplying, and every property keeps its meaning: it says nothing of   *)
(* the behaviours that picked another service.                             *)
(***************************************************************************)
EXTENDS EventStream, StepExecution, VisualBaseline, ModelRouting, ModelHealth

VARIABLE service   \* the one this behaviour is about (never changes)

Service == {"stream", "steps", "baselines", "routing", "health"}

\* A service's own initial states if it is picked, one of them otherwise.
ServicesInit ==
  /\ service \in Service
  /\ Init /\ (service # "stream" => named = 0)
  /\ StepInit /\ (service # "steps" => ~continuous /\ hasUrl)
  /\ BaselineInit /\ (service # "baselines" => latest = NoImage)
  /\ RoutingInit /\ (service # "routing" => call = [c \in Caller |-> CHOOSE k \in Calls : TRUE])
  /\ HealthInit

ServicesNext ==
  /\ UNCHANGED service
  /\ IF service = "stream" THEN Next ELSE UNCHANGED vars
  /\ IF service = "steps" THEN StepNext ELSE UNCHANGED stepVars
  /\ IF service = "baselines" THEN BaselineNext ELSE UNCHANGED baselineVars
  /\ IF service = "routing" THEN RoutingNext ELSE UNCHANGED routingVars
  /\ IF service = "health" THEN HealthNext ELSE UNCHANGED healthVars

servicesVars == <<service, vars, stepVars, baselineVars, routingVars, healthVars>>

\* EventStream's Fairness and ModelRouting's RoutingFairness, of the services
\* that are picked.
ServicesFairness ==
  /\ WF_vars(service = "stream" /\ ThreadStep) /\ WF_vars(service = "stream" /\ RunCallback)
  /\ \A w \in Watcher : WF_vars(service = "stream" /\ Handle(w))
  /\ \A c \in Caller : WF_routingVars(service = "routing" /\ CallerStep(c))

ServicesSpec == ServicesInit /\ [][ServicesNext]_servicesVars /\ ServicesFairness
-----------------------------------------------------------------------------
(* Properties *)

\* Every service's state stays in the sets its code keeps it in; among them
\* the limit of the event stream's queues.
ServicesTypeOK ==
  /\ TypeOK /\ StepTypeOK /\ BaselineTypeOK /\ RoutingTypeOK /\ HealthTypeOK
=============================================================================
