--------------------------- MODULE ScheduleOrAudit ---------------------------
(***************************************************************************)
(* The pack scheduler and audits, put side by side for TLC as Services     *)
(* puts the other services: the two share no state, what is checked of     *)
(* them here needs no fairness, and a behaviour is about one of them.      *)
(***************************************************************************)
EXTENDS PackScheduler, AuditWorkflow

VARIABLE subject   \* what this behaviour is about (never changes)

\* The scheduler's own initial states if it is picked, one of them otherwise.
ScheduleOrAuditInit ==
  /\ subject \in {"schedule", "audits"}
  /\ Init /\ (subject # "schedule" => packs = [p \in Pack |-> CHOOSE row \in InitialRow : TRUE])
  /\ AuditInit

ScheduleOrAuditNext ==
  /\ UNCHANGED subject
  /\ IF subject = "schedule" THEN Next ELSE UNCHANGED vars
  /\ IF subject = "audits" THEN AuditNext ELSE UNCHANGED auditVars

ScheduleOrAuditSpec ==
  ScheduleOrAuditInit /\ [][ScheduleOrAuditNext]_<<subject, vars, auditVars>>
=============================================================================
