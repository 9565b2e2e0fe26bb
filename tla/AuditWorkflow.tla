--------------------------- MODULE AuditWorkflow ---------------------------
(***************************************************************************)
(* Audits of an application, one after the other, over one artifacts       *)
(* directory: WorkflowEngine runs the phases of a plan, each of which      *)
(* loads what earlier phases saved and saves its own artifacts over those  *)
(* of the audit before.  A phase that fails leaves these where they are,   *)
(* and most failures do not stop the audit.  An artifact is abstracted to  *)
(* the audits whose results went into it and, where findings are listed,   *)
(* whether one of them is critical.                                        *)
(***************************************************************************)
EXTENDS Naturals, Sequences, SequencesExt

CONSTANTS
  MaxAudits,   \* bound: audits
  MaxBreaks    \* bound: phases that fail, writes that are cut, audits that end early

ASSUME AuditWorkflowAssumption == MaxAudits \in Nat /\ MaxBreaks \in Nat

VARIABLES
  audit,             \* audits so far
  phases,            \* phases still to run, the current one first
  stage,             \* "next", "writing" (the current phase has loaded its inputs)
  unsaved,              \* artifacts it has yet to save
  environmentReady,  \* WorkflowResult.environment_ready
  auditStatus,       \* WorkflowResult.status, or "killed"
  store,             \* ArtifactStore: the latest of each artifact
  torn,              \* those whose file was left half written
  gate,              \* what release_gate_evaluation decided in this audit
  unmet,             \* history: phases not in this audit's plan, skipped, failed or idle
  alarming,          \* history: those of this audit's OwnResults with a critical finding
  breaks             \* phases failed, audits ended early

progress == <<audit, phases, stage, unsaved, environmentReady, auditStatus>>
auditVars == <<progress, store, torn, gate, unmet, alarming, breaks>>

-----------------------------------------------------------------------------
(* Plans and artifacts                                                      *)

\* The phases whose artifacts others load; audits of one kind stand for their
\* like: "api_audit" for those that want an app_map, "security_audit" for the
\* others that are correlated, "release_readiness_audit" for those that are not.
Common == <<"discovery", "planning", "environment", "execution", "security_audit", "api_audit",
            "release_readiness_audit", "finding_correlation", "rca", "runtime_validation",
            "behavior_analysis", "execution_replay", "evidence_correlation">>

\* _default_phases; a profile's phases in ci_mode; the flutter profile's.
DefaultPhases == Common \o <<"baseline_comparison", "release_gate_evaluation", "report_generation">>
CiPhases == Common \o <<"report_generation", "baseline_comparison", "release_gate_evaluation">>
StaticPhases == <<"discovery", "planning", "environment", "security_audit", "release_readiness_audit",
                  "finding_correlation", "rca", "runtime_validation", "behavior_analysis",
                  "execution_replay", "evidence_correlation", "report_generation">>
Plans == {DefaultPhases, CiPhases, StaticPhases}
Phase == ToSet(DefaultPhases)

Critical == {"discovery", "environment"}

Writes ==
  [discovery |-> <<"app_map">>, planning |-> <<"test_plan">>, environment |-> <<>>,
   execution |-> <<"findings", "execution_results">>,
   security_audit |-> <<"security_audit_results">>, api_audit |-> <<"api_audit_results">>,
   release_readiness_audit |-> <<"release_readiness_results">>,
   finding_correlation |-> <<"correlated_findings">>,
   rca |-> <<"correlated_findings", "overall_risk_report", "runtime_risk_report">>,
   runtime_validation |-> <<"verified_findings">>, behavior_analysis |-> <<"behavioral_analysis">>,
   execution_replay |-> <<"execution_traces">>, evidence_correlation |-> <<"evidence_graph">>,
   baseline_comparison |-> <<"baseline_comparison">>,
   release_gate_evaluation |-> <<"release_gate_decision">>,
   report_generation |-> <<"audit_summary">>]

\* What each component of a phase makes its artifact from, where it is there.
PlannerReads == {"app_map"}
AuditReads == {"app_map"}
ExecutionReads == {"test_plan"}
CorrelatorReads == {"app_map", "security_audit_results", "api_audit_results"}
RiskReads == {"correlated_findings"}
RuntimeRiskReads == {"overall_risk_report", "verified_findings", "behavioral_analysis"}
ValidatorReads == {"app_map", "correlated_findings"}
AnalyzerReads == {"execution_results"}
ReplayerReads == {"execution_results", "execution_traces"}
EvidenceReads == {"app_map", "correlated_findings", "verified_findings", "execution_results"}
ComparatorReads == {"audit_summary"}
GateReads == {"correlated_findings", "findings", "evidence_graph"}
SummaryReads ==
  {"overall_risk_report", "runtime_risk_report", "evidence_graph", "release_readiness_results"}

Sources ==
  [app_map |-> {}, test_plan |-> PlannerReads,
   findings |-> ExecutionReads, execution_results |-> ExecutionReads,
   security_audit_results |-> AuditReads, api_audit_results |-> AuditReads,
   release_readiness_results |-> AuditReads, correlated_findings |-> CorrelatorReads,
   overall_risk_report |-> RiskReads,
   runtime_risk_report |-> RuntimeRiskReads, verified_findings |-> ValidatorReads,
   behavioral_analysis |-> AnalyzerReads, execution_traces |-> ReplayerReads,
   evidence_graph |-> EvidenceReads, baseline_comparison |-> ComparatorReads,
   release_gate_decision |-> GateReads, audit_summary |-> SummaryReads]

Artifact == DOMAIN Sources

\* Those whose critical findings somebody asks for: the correlator and the gate.
\* Nobody asks release_readiness_results.
OwnResults == {"findings", "security_audit_results", "api_audit_results"}
Absent == [from |-> {}, alarm |-> FALSE]
Present(a) == store[a] # Absent

\* Sources that are loaded only where another is missing or empty.
Fallback(a) ==
  CASE a = "release_gate_decision" -> {"findings"}
    [] a = "audit_summary" -> {"overall_risk_report"}
    [] a = "evidence_graph" -> {"correlated_findings"}
    [] OTHER -> {}

AuditInit ==
  /\ audit = 0 /\ phases = <<>> /\ stage = "next" /\ unsaved = <<>>
  /\ environmentReady = FALSE /\ auditStatus = "not_started"
  /\ store = [a \in Artifact |-> Absent] /\ torn = {}
  /\ gate = "none" /\ unmet = {} /\ alarming = {} /\ breaks = 0

-----------------------------------------------------------------------------
(* WorkflowEngine.run                                                       *)

StartAudit(plan) ==
  /\ auditStatus # "running" /\ audit < MaxAudits
  /\ audit' = audit + 1 /\ phases' = plan /\ stage' = "next" /\ unsaved' = <<>>
  /\ environmentReady' = FALSE /\ auditStatus' = "running"
  /\ gate' = "none" /\ unmet' = Phase \ ToSet(plan) /\ alarming' = {}
  /\ UNCHANGED <<store, torn, breaks>>

\* The status, which the finally branch saves with the phases' results; of
\* these nothing is made but a section of the next audit's summary.
EndAudit(s) ==
  /\ auditStatus' = s /\ phases' = <<>> /\ stage' = "next" /\ unsaved' = <<>>
  /\ UNCHANGED store

Current == Head(phases)
NextPhase == phases' = Tail(phases) /\ stage' = "next" /\ unsaved' = <<>> /\ UNCHANGED <<auditStatus, store>>

\* _should_run_phase
SkipPhase ==
  /\ stage = "next" /\ phases # <<>> /\ Current = "execution" /\ ~environmentReady
  /\ NextPhase /\ unmet' = unmet \cup {Current}
  /\ UNCHANGED <<audit, environmentReady, torn, gate, alarming, breaks>>

Runs(p) == phases # <<>> /\ Current = p /\ (p = "execution" => environmentReady)

\* What is made of an artifact needs it in one piece.  execution wants a plan;
\* behavior_analysis takes execution_traces for a list, which execution_replay
\* saves as an object.
Unusable(a) ==
  \/ (Sources[a] \ Fallback(a)) \cap torn # {}
  \/ a \in {"findings", "execution_results"} /\ ~Present("test_plan")
  \/ a = "behavioral_analysis" /\ Present("execution_traces")

\* The tests find something or nothing; on a platform without a runner there
\* are none, and execution succeeds.
Saves(p) ==
  IF p # "execution" THEN {Writes[p]}
  ELSE {Writes[p], Tail(Writes[p])} \cup (IF Unusable("execution_results") THEN {} ELSE {<<>>})

\* _execute_phase
BeginPhase(p) ==
  /\ stage = "next" /\ Runs(p) /\ stage' = "writing"
  /\ unsaved' \in Saves(p)
  /\ unmet' = IF p = "execution" /\ unsaved' = <<>> THEN unmet \cup {p} ELSE unmet
  /\ IF p = "environment" THEN environmentReady' \in BOOLEAN ELSE UNCHANGED environmentReady
  /\ UNCHANGED <<audit, phases, auditStatus, store, torn, gate, alarming, breaks>>

\* A phase that ended in an exception is counted, and stops the audit if it
\* is critical.
PhaseFails ==
  /\ unmet' = unmet \cup {Current}
  /\ IF Current \in Critical THEN EndAudit("failed") ELSE NextPhase

FailToLoad ==
  /\ stage = "writing" /\ unsaved # <<>>
  /\ Unusable(Head(unsaved)) \/ Fallback(Head(unsaved)) \cap torn # {}
  /\ PhaseFails
  /\ UNCHANGED <<audit, environmentReady, torn, gate, alarming, breaks>>

-----------------------------------------------------------------------------
(* save_artifact                                                            *)

From(a) == {audit} \cup UNION {store[b].from : b \in Sources[a]}

\* Mutant: what is there is added to.
Extend(a, alarm) ==
  /\ stage = "writing" /\ unsaved # <<>> /\ a = Head(unsaved) /\ ~Unusable(a)
  /\ store' = [store EXCEPT ![a] = [from |-> @.from \cup From(a), alarm |-> alarm \/ @.alarm]]
  /\ unsaved' = Tail(unsaved) /\ torn' = torn \ {a}
  /\ UNCHANGED <<audit, phases, stage, environmentReady, auditStatus, unmet, breaks>>

Save(a, alarm) ==
  /\ stage = "writing" /\ unsaved # <<>> /\ a = Head(unsaved) /\ ~Unusable(a)
  /\ store' = [store EXCEPT ![a] = [from |-> From(a), alarm |-> alarm]]
  /\ unsaved' = Tail(unsaved) /\ torn' = torn \ {a}
  /\ UNCHANGED <<audit, phases, stage, environmentReady, auditStatus, unmet, breaks>>

\* Tests and audits find what they find.
SaveResults(a, alarm) ==
  /\ a \in OwnResults /\ Save(a, alarm)
  /\ alarming' = IF alarm THEN alarming \cup {a} ELSE alarming
  /\ UNCHANGED gate

\* Mutant: the tests' findings, where there are any, are all the gate looks at.
TestsDecide ==
  LET f == IF Present("findings") THEN "findings" ELSE "correlated_findings"
  IN IF store[f].alarm \/ ~Present("evidence_graph") THEN {"blocked"} ELSE {"blocked", "open"}

\* The runtime's ReleaseGateEngine: critical findings block, and so do
\* evidence that is missing and other reasons; else it passes, with a warning
\* or without.
Decisions ==
  LET f == IF Present("correlated_findings") THEN "correlated_findings" ELSE "findings"
  IN IF store[f].alarm \/ ~Present("evidence_graph") THEN {"blocked"} ELSE {"blocked", "open"}

DecideGate(decision) ==
  /\ decision \in Decisions
  /\ Save("release_gate_decision", FALSE)
  /\ gate' = decision /\ UNCHANGED alarming

\* Correlated findings tell of a critical one if a source does; what the other
\* artifacts tell of it decides nothing.
SaveDerived(a) ==
  /\ a \notin OwnResults \cup {"release_gate_decision"}
  /\ Save(a, a = "correlated_findings" /\ \E b \in Sources[a] : store[b].alarm)
  /\ UNCHANGED <<gate, alarming>>

EndPhase ==
  /\ stage = "writing" /\ unsaved = <<>> /\ NextPhase
  /\ UNCHANGED <<audit, environmentReady, torn, gate, unmet, alarming, breaks>>

-----------------------------------------------------------------------------
(* Breaks                                                                   *)

\* The file being written may be cut off.
Tears == torn' \in {torn, IF unsaved = <<>> THEN torn ELSE torn \cup {Head(unsaved)}}

FailPhase ==
  /\ stage = "writing" /\ breaks < MaxBreaks /\ breaks' = breaks + 1
  /\ Tears /\ PhaseFails
  /\ UNCHANGED <<audit, environmentReady, gate, alarming>>

\* KeyboardInterrupt, or an intake that fails before the first phase ...
StopAudit ==
  /\ auditStatus = "running" /\ breaks < MaxBreaks /\ breaks' = breaks + 1
  /\ EndAudit("cancelled") \/ (phases \in Plans /\ stage = "next" /\ EndAudit("failed"))
  /\ Tears
  /\ UNCHANGED <<audit, environmentReady, gate, unmet, alarming>>

\* ... and the end of the process, which saves no status.
KillAudit ==
  /\ auditStatus = "running" /\ breaks < MaxBreaks /\ breaks' = breaks + 1
  /\ EndAudit("killed") /\ Tears
  /\ UNCHANGED <<audit, environmentReady, gate, unmet, alarming>>

CompleteAudit ==
  /\ auditStatus = "running" /\ stage = "next" /\ phases = <<>> /\ EndAudit("completed")
  /\ UNCHANGED <<audit, environmentReady, torn, gate, unmet, alarming, breaks>>

AuditsOver == auditStatus # "running" /\ audit = MaxAudits /\ UNCHANGED auditVars

AuditNext ==
  \/ (\E plan \in Plans : StartAudit(plan)) \/ SkipPhase
  \/ (\E p \in Phase : BeginPhase(p)) \/ FailToLoad
  \/ (\E a \in Artifact, alarm \in BOOLEAN : SaveResults(a, alarm)) \/ (\E a \in Artifact : SaveDerived(a))
  \/ (\E d \in {"blocked", "open"} : DecideGate(d))
  \/ EndPhase \/ FailPhase \/ StopAudit \/ KillAudit \/ CompleteAudit \/ AuditsOver

AuditSpec == AuditInit /\ [][AuditNext]_auditVars
-----------------------------------------------------------------------------
(* Properties *)

AuditTypeOK ==
  /\ audit \in 0..MaxAudits /\ phases \in Seq(Phase) /\ stage \in {"next", "writing"}
  /\ unsaved \in Seq(Artifact) /\ environmentReady \in BOOLEAN
  /\ auditStatus \in {"not_started", "running", "completed", "failed", "cancelled", "killed"}
  /\ store \in [Artifact -> [from : SUBSET (1..MaxAudits), alarm : BOOLEAN]]
  /\ torn \subseteq Artifact /\ gate \in {"none", "blocked", "open"}
  /\ unmet \subseteq Phase /\ alarming \subseteq OwnResults /\ breaks \in 0..MaxBreaks

\* An audit that is "completed", and had no phase left out, skipped, failed or
\* without a runner but behavior_analysis, leaves findings, risks and evidence
\* that are all its own, whatever earlier audits left in the directory.
CompletedAuditIsItsOwn ==
  auditStatus = "completed" /\ unmet \subseteq {"behavior_analysis"} =>
    \A a \in {"correlated_findings", "overall_risk_report", "verified_findings", "evidence_graph"} :
      store[a].from = {audit}

\* "Release gates ... block unsafe delivery conditions": a gate opens only on
\* evidence.  Over a critical finding of an audit that is correlated it opens
\* only if both phases that correlate failed and the findings it looked at are
\* an earlier audit's, or none; over one of the tests' only if there are
\* correlated findings, whoever's, which it prefers.  Of the results that are
\* neither (readiness for release, dependencies) it never hears, so over their
\* critical findings it may open in any audit.
OpenGateIsExplained ==
  gate = "open" =>
    /\ Present("evidence_graph")
    /\ alarming \cap CorrelatorReads # {} =>
         /\ {"finding_correlation", "rca"} \subseteq unmet
         /\ audit \notin store["correlated_findings"].from
    /\ "findings" \in alarming => Present("correlated_findings")

\* "Detect anomalies in execution traces": what behavior_analysis leaves is
\* about the audit that ran it.
BehaviorIsAnalyzed ==
  auditStatus = "completed" /\ unmet \subseteq {"behavior_analysis"} =>
    audit \in store["behavioral_analysis"].from
=============================================================================
