--------------------------- MODULE RetestLineage ---------------------------
(***************************************************************************)
(* Retests: a run whose row says it is finished may get a child run for    *)
(* its failed steps, the child may be retested in turn, up to MaxDepth     *)
(* generations, and a parent has at most one unfinished child at a time.   *)
(* The check and the INSERT are one critical section of ProductStorage;    *)
(* the look at the parent's row before it and the start of the child's     *)
(* thread after it are not.  The run's own life is that of RunLifecycle,   *)
(* or, of a manual run, that of ManualRun, reduced to what the lineage can *)
(* tell.  A manual run can be retested; a retest is never manual.          *)
(***************************************************************************)
EXTENDS Integers, FiniteSets, TLC

CONSTANTS
  Run,         \* ids of the runs that may be created
  NoRun,       \* retest_of IS NULL
  Client,      \* concurrent requests that create runs
  MaxDepth,    \* MAX_RETEST_LINEAGE_DEPTH
  MaxTrouble   \* bound: failing operations plus deaths of the process

ASSUME RetestLineageAssumption ==
  /\ NoRun \notin Run
  /\ MaxDepth \in Nat /\ MaxTrouble \in Nat

VARIABLES
  status,    \* live_runs.status
  parent,    \* live_runs.retest_of
  manual,    \* live_runs.execution_mode: the runs where it is "manual"
  thread,    \* what RunManager holds of a run: "none", a thread that is "live"
             \* or has "begun", or one that never started ("stillborn")
  req,       \* POST requests: idle, or how far they got
  direct,    \* runs for which a DELETE found no thread to signal
  revived,   \* runs whose row said finished and was overwritten: "cancelled" by
             \* the run's thread, any of a manual run by a late result of a step
  trouble    \* failing operations plus deaths of the process

vars == <<status, parent, manual, thread, req, direct, revived, trouble>>

Active == {"pending", "running"}
Finished == {"completed", "failed", "cancelled"}

Idle == [at |-> "idle"]
Checked(p) == [at |-> "checked", parent |-> p]
Created(r) == [at |-> "created", child |-> r]
Recording(r, s) == [at |-> "recording", run |-> r, read |-> s]

Works == UNCHANGED trouble
Fails == trouble < MaxTrouble /\ trouble' = trouble + 1

Init ==
  /\ status = [r \in Run |-> "absent"]
  /\ parent = [r \in Run |-> NoRun]
  /\ manual = {}
  /\ thread = [r \in Run |-> "none"]
  /\ req = [c \in Client |-> Idle]
  /\ direct = {} /\ revived = {}
  /\ trouble = 0

-----------------------------------------------------------------------------
(* get_retest_lineage_info: the walk from a run up to its root              *)

\* The run reached after n hops.  The code stops at a run it has visited, at
\* a missing one and at a cap; in each case it gives up, as this does when no
\* number of hops below the number of runs ends at a root.
Above(r) ==
  LET up[n \in 0..Cardinality(Run)] ==
        IF n = 0 THEN r ELSE IF up[n - 1] = NoRun THEN NoRun ELSE parent[up[n - 1]]
  IN up
Hops(r) == {n \in 0..(Cardinality(Run) - 1) : Above(r)[n] # NoRun /\ Above(r)[n + 1] = NoRun}

Resolved(r) == Hops(r) # {}
Depth(r) == CHOOSE n \in Hops(r) : TRUE

ActiveChildren(p) == {r \in Run : parent[r] = p /\ status[r] \in Active}

\* Mutant: the active child is looked for among the running ones.
NoActiveChildRunning(p) == \A r \in Run : parent[r] = p => status[r] # "running"

DepthAllowed(p) == Resolved(p) /\ Depth(p) + 1 <= MaxDepth
NoActiveChild(p) == ActiveChildren(p) = {}

-----------------------------------------------------------------------------
(* POST /validation-packs/{id}/run and POST /runs/{id}/retest-failed        *)

\* The INSERT.
Insert(r, p) ==
  /\ status[r] = "absent"
  /\ status' = [status EXCEPT ![r] = "pending"]
  /\ parent' = [parent EXCEPT ![r] = p]

CreateRoot(c) ==
  /\ req[c] = Idle
  /\ \E r \in Run :
       /\ Insert(r, NoRun)
       /\ \/ req' = [req EXCEPT ![c] = Created(r)] /\ UNCHANGED manual
          \/ manual' = manual \cup {r} /\ UNCHANGED req
  /\ UNCHANGED <<thread, direct, revived, trouble>>

\* Mutant: any run can be retested.
RetestReadsAny(c, p) ==
  /\ req[c] = Idle
  /\ status[p] # "absent"
  /\ req' = [req EXCEPT ![c] = Checked(p)]
  /\ UNCHANGED <<status, parent, manual, thread, direct, revived, trouble>>

\* The handler reads the row; "Cannot retest an in-progress run" otherwise.
RetestReads(c, p) ==
  /\ req[c] = Idle
  /\ status[p] \in Finished
  /\ req' = [req EXCEPT ![c] = Checked(p)]
  /\ UNCHANGED <<status, parent, manual, thread, direct, revived, trouble>>

\* create_retest_child_if_allowed: 409, or the child.
CreateChild(c) ==
  /\ req[c].at = "checked"
  /\ LET p == req[c].parent IN
       \/ /\ DepthAllowed(p) /\ NoActiveChild(p)
          /\ \E r \in Run : Insert(r, p) /\ req' = [req EXCEPT ![c] = Created(r)]
       \/ /\ ~(DepthAllowed(p) /\ NoActiveChild(p))
          /\ req' = [req EXCEPT ![c] = Idle] /\ UNCHANGED <<status, parent>>
  /\ UNCHANGED <<manual, thread, direct, revived, trouble>>

\* start_run.  Its ValueError, which would fail the child's row, needs a
\* thread that is alive under a fresh id, so it does not arise; a thread that
\* the operating system refuses raises another exception, and stays in the
\* registry.  A pack's run may also be given up before start_run.
StartRun(c) ==
  /\ req[c].at = "created"
  /\ req' = [req EXCEPT ![c] = Idle]
  /\ LET r == req[c].child IN
       \/ thread' = [thread EXCEPT ![r] = "live"] /\ Works
       \/ thread' = [thread EXCEPT ![r] = "stillborn"] /\ Fails
       \/ parent[r] = NoRun /\ Fails /\ UNCHANGED thread
  /\ UNCHANGED <<status, parent, manual, direct, revived>>

-----------------------------------------------------------------------------
(* A manual run: results of its steps, and POST /live-runs/{id}/finalize    *)

\* record_manual_step_result reads the row, of whatever status ...
RecordReads(c, r) ==
  /\ req[c] = Idle
  /\ status[r] # "absent" /\ r \in manual
  /\ req' = [req EXCEPT ![c] = Recording(r, status[r])]
  /\ UNCHANGED <<status, parent, manual, thread, direct, revived, trouble>>

\* ... and writes the status back with the results, wherever the row has got to.
RecordWrites(c) ==
  /\ req[c].at = "recording"
  /\ req' = [req EXCEPT ![c] = Idle]
  /\ LET r == req[c].run
         s == IF req[c].read = "pending" THEN "running" ELSE req[c].read
     IN  \/ /\ status' = [status EXCEPT ![r] = s] /\ Works
            /\ revived' = IF status[r] \in Finished /\ s \in Active THEN revived \cup {r}
                          ELSE revived
         \/ Fails /\ UNCHANGED <<status, revived>>
  /\ UNCHANGED <<parent, manual, thread, direct>>

\* The verdict overwrites any status.
Finalize(r) ==
  /\ r \in manual
  /\ \E s \in {"completed", "failed"} : status' = [status EXCEPT ![r] = s]
  /\ UNCHANGED <<parent, manual, thread, req, direct, revived, trouble>>

-----------------------------------------------------------------------------
(* The run's thread                                                         *)

RunBegins(r) ==
  /\ thread[r] = "live"
  /\ thread' = [thread EXCEPT ![r] = "begun"]
  /\ \/ /\ status' = [status EXCEPT ![r] = "running"] /\ Works
        /\ revived' = IF status[r] = "cancelled" THEN revived \cup {r} ELSE revived
     \/ Fails /\ UNCHANGED <<status, revived>>
  /\ UNCHANGED <<parent, manual, req, direct>>

\* The last UPDATE of the thread, and the end of its registration.
RunEnds(r) ==
  /\ thread[r] = "begun"
  /\ thread' = [thread EXCEPT ![r] = "none"]
  /\ \/ \E s \in Finished : status' = [status EXCEPT ![r] = s] /\ Works
     \/ Fails /\ UNCHANGED status
  /\ UNCHANGED <<parent, manual, req, direct, revived>>

-----------------------------------------------------------------------------
(* DELETE /runs/{id}.  A signal leaves nothing the lineage can see.         *)

DeleteLooks(r) ==
  /\ status[r] \in Active /\ thread[r] = "none"
  /\ direct' = direct \cup {r}
  /\ UNCHANGED <<status, parent, manual, thread, req, revived, trouble>>

DeleteWrites(r) ==
  /\ r \in direct
  /\ direct' = direct \ {r}
  /\ status' = IF status[r] \in Active THEN [status EXCEPT ![r] = "cancelled"] ELSE status
  /\ UNCHANGED <<parent, manual, thread, req, revived, trouble>>

Restart ==
  /\ Fails
  /\ thread' = [r \in Run |-> "none"]
  /\ req' = [c \in Client |-> Idle]
  /\ direct' = {}
  /\ UNCHANGED <<status, parent, manual, revived>>

\* Every id is used up, and no request has one that it has yet to start.
Quiet ==
  /\ \A c \in Client : req[c].at # "created"
  /\ \A r \in Run : status[r] # "absent"
  /\ UNCHANGED vars

RequestStep(c) == CreateChild(c) \/ StartRun(c) \/ RecordWrites(c)
RunStep(r) == RunBegins(r) \/ RunEnds(r) \/ Finalize(r)
DeleteStep(r) == DeleteLooks(r) \/ DeleteWrites(r)

Next ==
  \/ \E c \in Client :
       CreateRoot(c) \/ (\E p \in Run : RetestReads(c, p) \/ RecordReads(c, p)) \/ RequestStep(c)
  \/ \E r \in Run : RunStep(r) \/ DeleteStep(r)
  \/ Restart
  \/ Quiet

Spec == Init /\ [][Next]_vars

\* Runs and requests are interchangeable.
Symmetric == Permutations(Run) \cup Permutations(Client)

-----------------------------------------------------------------------------
(* Properties *)

TypeOK ==
  /\ status \in [Run -> {"absent"} \cup Active \cup Finished]
  /\ parent \in [Run -> Run \cup {NoRun}]
  /\ manual \subseteq Run
  /\ thread \in [Run -> {"none", "live", "begun", "stillborn"}]
  /\ req \in [Client -> {Idle} \cup {Checked(p) : p \in Run} \cup {Created(r) : r \in Run}
                          \cup {Recording(r, s) : r \in Run, s \in Active \cup Finished}]
  /\ direct \subseteq Run /\ revived \subseteq Run
  /\ trouble \in 0..MaxTrouble

\* Two racing retest requests never leave a parent with two unfinished
\* children: the only way to two is a child that was cancelled before its
\* thread began, replaced by another, and then revived by its thread.
OneActiveChild ==
  \A p \in Run : Cardinality(ActiveChildren(p) \ revived) <= 1

\* "Cannot retest an in-progress run": while a child is unfinished its parent
\* is finished, unless the parent's row said so and was overwritten: by the
\* thread of a run cancelled before it began, or by a manual result that was
\* read before the parent was finalized or cancelled.
ParentIsFinished ==
  \A r \in Run :
    status[r] \in Active /\ parent[r] \in Run \ revived => status[parent[r]] \in Finished
=============================================================================
