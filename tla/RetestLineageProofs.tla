------------------------ MODULE RetestLineageProofs ------------------------
(***************************************************************************)
(* Machine-checked proofs about RetestLineage, for every set of runs and   *)
(* requests, every depth and every bound: type correctness, one unfinished *)
(* child per parent, and the parent of an unfinished child finished.  (The *)
(* bound on the depth of a lineage is an induction along the chain and is  *)
(* left to model checking.)                                                *)
(***************************************************************************)
EXTENDS RetestLineage, FiniteSetTheorems, TLAPS

LEMMA InitTypeOK == Init => TypeOK
BY RetestLineageAssumption DEF Init, TypeOK

LEMMA NextTypeOK == TypeOK /\ [Next]_vars => TypeOK'
<1> SUFFICES ASSUME TypeOK, [Next]_vars PROVE TypeOK'
  OBVIOUS
<1> USE RetestLineageAssumption DEF TypeOK, Works, Fails, Active, Finished
<1>1. ASSUME NEW c \in Client, CreateRoot(c) PROVE TypeOK'
  BY <1>1 DEF CreateRoot, Insert
<1>2. ASSUME NEW c \in Client, NEW p \in Run, RetestReads(c, p) PROVE TypeOK'
  BY <1>2 DEF RetestReads
<1>2a. ASSUME NEW c \in Client, NEW r \in Run, RecordReads(c, r) PROVE TypeOK'
  BY <1>2a DEF RecordReads
<1>2b. ASSUME NEW c \in Client, RecordWrites(c) PROVE TypeOK'
  BY <1>2b DEF RecordWrites, Idle, Checked, Created, Recording
<1>2c. ASSUME NEW r \in Run, Finalize(r) PROVE TypeOK'
  BY <1>2c DEF Finalize
<1>3. ASSUME NEW c \in Client, CreateChild(c) PROVE TypeOK'
  BY <1>3 DEF CreateChild, Insert, Idle, Checked, Created, Recording
<1>4. ASSUME NEW c \in Client, StartRun(c) PROVE TypeOK'
  BY <1>4 DEF StartRun, Idle, Checked, Created, Recording
<1>5. ASSUME NEW r \in Run, RunBegins(r) PROVE TypeOK'
  BY <1>5 DEF RunBegins
<1>6. ASSUME NEW r \in Run, RunEnds(r) PROVE TypeOK'
  BY <1>6 DEF RunEnds
<1>7. ASSUME NEW r \in Run, DeleteStep(r) PROVE TypeOK'
  BY <1>7 DEF DeleteStep, DeleteLooks, DeleteWrites
<1>8. CASE Restart BY <1>8 DEF Restart
<1>9. CASE Quiet \/ UNCHANGED vars BY <1>9 DEF Quiet, vars
<1> QED BY <1>1, <1>2, <1>2a, <1>2b, <1>2c, <1>3, <1>4, <1>5, <1>6, <1>7, <1>8, <1>9 DEF Next, RequestStep, RunStep

\* Every variable keeps its type.
THEOREM TypeCorrect == Spec => []TypeOK
BY InitTypeOK, NextTypeOK, PTL DEF Spec

-----------------------------------------------------------------------------
\* A run belongs to the request that inserted it, then to its thread; before
\* the thread begins, its row is pending or was cancelled directly.  A manual run
\* has no thread and no parent.
OwnerInv ==
  /\ \A r \in Run : thread[r] \in {"live", "stillborn"} => status[r] \in {"pending", "cancelled"}
  /\ \A c \in Client, r \in Run :
       req[c] = Created(r) =>
         /\ status[r] \in {"pending", "cancelled"} /\ thread[r] = "none" /\ r \notin manual
         /\ \A d \in Client : req[d] = Created(r) => d = c
  /\ \A r \in Run : status[r] = "absent" => thread[r] = "none"
  /\ \A r \in direct : status[r] # "absent"
  /\ \A r \in manual : status[r] # "absent" /\ thread[r] = "none" /\ parent[r] = NoRun
  /\ \A c \in Client, r \in Run, s \in Active \cup Finished :
       req[c] = Recording(r, s) => r \in manual

\* Two children of one parent are not unfinished at once, but for the revived.
ChildInv ==
  \A q, r \in Run \ revived :
    status[q] \in Active /\ status[r] \in Active /\ parent[q] = parent[r] /\ parent[q] # NoRun => q = r

\* The look at the parent's row is not out of date when the child is inserted,
\* unless the parent has been revived: a finished run does not become
\* unfinished in any other way than those `revived` notes.  This holds of every child, a cancelled one
\* included: its thread may revive it.
ParentInv ==
  /\ \A c \in Client, p \in Run : req[c] = Checked(p) => status[p] \in Finished \/ p \in revived
  /\ \A r \in Run : status[r] # "absent" /\ parent[r] \in Run =>
       status[parent[r]] \in Finished \/ parent[r] \in revived

IInv == TypeOK /\ OwnerInv /\ ChildInv /\ ParentInv

LEMMA InitIInv == Init => IInv
BY InitTypeOK DEF Init, IInv, OwnerInv, ChildInv, ParentInv, Idle, Created, Checked, Recording, Active, Finished

\* Requests of different kinds are different.
LEMMA Kinds ==
  /\ \A p, r \in Run : Idle # Checked(p) /\ Idle # Created(r) /\ Checked(p) # Created(r)
  /\ \A p, r \in Run : (Checked(p) = Checked(r) => p = r) /\ (Created(p) = Created(r) => p = r)
  /\ \A p, r \in Run, s, t \in Active \cup Finished :
       /\ Recording(r, s) \notin {Idle, Checked(p), Created(p)}
       /\ Recording(r, s) = Recording(p, t) => r = p /\ s = t
BY DEF Idle, Checked, Created, Recording

LEMMA NextIInv == IInv /\ [Next]_vars => IInv'
<1> SUFFICES ASSUME IInv, [Next]_vars PROVE IInv'
  OBVIOUS
<1>0. TypeOK' BY NextTypeOK DEF IInv
<1> USE RetestLineageAssumption, Kinds
    DEF IInv, OwnerInv, ChildInv, ParentInv, Works, Fails, Active, Finished
<1>1. ASSUME NEW c \in Client, CreateRoot(c) PROVE IInv'
  BY <1>0, <1>1 DEF CreateRoot, Insert, TypeOK
<1>2. ASSUME NEW c \in Client, NEW p \in Run, RetestReads(c, p) PROVE IInv'
  BY <1>0, <1>2 DEF RetestReads, TypeOK
<1>2a. ASSUME NEW c \in Client, NEW r \in Run, RecordReads(c, r) PROVE IInv'
  BY <1>0, <1>2a DEF RecordReads, TypeOK
<1>2b. ASSUME NEW c \in Client, RecordWrites(c) PROVE IInv'
  <2>1. PICK r \in Run, read \in Active \cup Finished : req[c] = Recording(r, read)
    BY <1>2b DEF RecordWrites, TypeOK, Idle, Checked, Created
  <2>2. req[c].run = r /\ req[c].read = read BY <2>1 DEF Recording
  <2>3. r \in manual /\ thread[r] = "none" /\ parent[r] = NoRun /\ status[r] # "absent"
    BY <2>1
  <2>4. /\ req' = [req EXCEPT ![c] = Idle]
        /\ UNCHANGED <<parent, manual, thread, direct>>
    BY <1>2b DEF RecordWrites
  <2>5. CASE UNCHANGED <<status, revived>> BY <1>0, <2>4, <2>5 DEF TypeOK
  <2>6. ASSUME NEW s \in Active \cup Finished, status' = [status EXCEPT ![r] = s],
               revived' = IF status[r] \in Finished /\ s \in Active THEN revived \cup {r}
                          ELSE revived
        PROVE  IInv'
    <3>1. OwnerInv' BY <2>3, <2>4, <2>6 DEF TypeOK
    <3>2. ChildInv' BY <2>3, <2>4, <2>6 DEF TypeOK
    <3>3. ParentInv' BY <2>3, <2>4, <2>6 DEF TypeOK
    <3> QED BY <1>0, <3>1, <3>2, <3>3
  <2> QED BY <1>2b, <2>2, <2>5, <2>6 DEF RecordWrites
<1>2c. ASSUME NEW r \in Run, Finalize(r) PROVE IInv'
  BY <1>0, <1>2c DEF Finalize, TypeOK
<1>3. ASSUME NEW c \in Client, CreateChild(c) PROVE IInv'
  <2>1. PICK p \in Run : req[c] = Checked(p)
    BY <1>3 DEF CreateChild, TypeOK, Idle, Created, Recording
  <2>2. req[c].parent = p BY <2>1 DEF Checked
  <2>3. ASSUME NEW r \in Run, NoActiveChild(p), Insert(r, p), req' = [req EXCEPT ![c] = Created(r)],
               UNCHANGED <<manual, thread, direct, revived, trouble>>
        PROVE  IInv'
    <3>1. /\ status[r] = "absent" /\ status' = [status EXCEPT ![r] = "pending"]
          /\ parent' = [parent EXCEPT ![r] = p]
          /\ \A q \in Run : parent[q] = p => status[q] \notin Active
      BY <2>3 DEF Insert, NoActiveChild, ActiveChildren
    <3>2. OwnerInv' BY <2>3, <3>1 DEF TypeOK
    <3>3. ChildInv' BY <2>3, <3>1 DEF TypeOK
    <3>4. ParentInv' BY <2>1, <2>3, <3>1 DEF TypeOK
    <3> QED BY <1>0, <3>2, <3>3, <3>4
  <2>4. ASSUME req' = [req EXCEPT ![c] = Idle],
               UNCHANGED <<status, parent, manual, thread, direct, revived, trouble>>
        PROVE  IInv'
    BY <1>0, <2>4 DEF TypeOK
  <2> QED BY <1>3, <2>2, <2>3, <2>4 DEF CreateChild
<1>4. ASSUME NEW c \in Client, StartRun(c) PROVE IInv'
  <2>1. PICK r \in Run : req[c] = Created(r)
    <3>1. req[c].at = "created" BY <1>4 DEF StartRun
    <3> QED BY <3>1 DEF TypeOK, Idle, Checked, Recording
  <2>2. req[c].child = r BY <2>1 DEF Created
  <2>3. /\ req' = [req EXCEPT ![c] = Idle] /\ UNCHANGED <<status, parent, manual, direct, revived>>
        /\ \E t \in {"live", "stillborn", "none"} : thread' = [thread EXCEPT ![r] = t]
    <3>1. thread[r] = "none" BY <2>1
    <3>2. thread = [thread EXCEPT ![r] = "none"] BY <3>1 DEF TypeOK
    <3> QED BY <1>4, <2>2, <3>2 DEF StartRun
  <2>4. status[r] \in {"pending", "cancelled"} /\ r \notin manual /\ \A d \in Client \ {c} : req'[d] # Created(r)
    BY <2>1, <2>3 DEF TypeOK
  <2>5. OwnerInv' BY <2>3, <2>4 DEF TypeOK
  <2>6. ChildInv' /\ ParentInv' BY <2>3 DEF TypeOK
  <2> QED BY <1>0, <2>5, <2>6
<1>5. ASSUME NEW r \in Run, RunBegins(r) PROVE IInv'
  <2>1. /\ thread[r] = "live" /\ status[r] \in {"pending", "cancelled"}
        /\ thread' = [thread EXCEPT ![r] = "begun"] /\ UNCHANGED <<parent, manual, req, direct>>
    BY <1>5 DEF RunBegins
  <2>2. CASE status' = [status EXCEPT ![r] = "running"]
             /\ revived' = IF status[r] = "cancelled" THEN revived \cup {r} ELSE revived
    <3>1. OwnerInv' BY <2>1, <2>2 DEF TypeOK
    <3>2. ChildInv' BY <2>1, <2>2 DEF TypeOK
    <3>3. ParentInv' BY <2>1, <2>2 DEF TypeOK
    <3> QED BY <1>0, <3>1, <3>2, <3>3
  <2>3. CASE UNCHANGED <<status, revived>> BY <1>0, <2>1, <2>3 DEF TypeOK
  <2> QED BY <1>5, <2>2, <2>3 DEF RunBegins
<1>6. ASSUME NEW r \in Run, RunEnds(r) PROVE IInv'
  BY <1>0, <1>6 DEF RunEnds, TypeOK
<1>7. ASSUME NEW r \in Run, DeleteLooks(r) PROVE IInv'
  BY <1>0, <1>7 DEF DeleteLooks, TypeOK
<1>8. ASSUME NEW r \in Run, DeleteWrites(r) PROVE IInv'
  BY <1>0, <1>8 DEF DeleteWrites, TypeOK
<1>9. CASE Restart BY <1>0, <1>9 DEF Restart, TypeOK
<1>10. CASE Quiet \/ UNCHANGED vars BY <1>0, <1>10 DEF Quiet, vars
<1> QED BY <1>1, <1>2, <1>2a, <1>2b, <1>2c, <1>3, <1>4, <1>5, <1>6, <1>7, <1>8, <1>9, <1>10
        DEF Next, RequestStep, RunStep, DeleteStep

LEMMA Invariance == Spec => []IInv
BY InitIInv, NextIInv, PTL DEF Spec

-----------------------------------------------------------------------------
LEMMA AtMostOne ==
  ASSUME NEW S, \A x, y \in S : x = y
  PROVE  Cardinality(S) <= 1
<1>1. CASE S = {} BY <1>1, FS_EmptySet
<1>2. CASE S # {}
  <2>1. PICK x \in S : TRUE BY <1>2
  <2>2. S = {x} BY <2>1
  <2> QED BY <2>2, FS_Singleton
<1> QED BY <1>1, <1>2

\* However requests, cancels, failures and restarts meet, a parent has at most
\* one unfinished child that its own thread did not revive.
THEOREM OneActiveChildHolds == Spec => []OneActiveChild
<1>1. IInv => OneActiveChild
  <2> SUFFICES ASSUME IInv, NEW p \in Run
               PROVE  Cardinality(ActiveChildren(p) \ revived) <= 1
    BY DEF OneActiveChild
  <2>1. \A q, r \in ActiveChildren(p) \ revived : q = r
    BY RetestLineageAssumption DEF IInv, ChildInv, ActiveChildren
  <2> QED BY <2>1, AtMostOne
<1> QED BY Invariance, <1>1, PTL

\* While a child is unfinished its parent is finished, or was revived: however
\* late a manual result or a cancelled run's thread overwrites the parent's row.
THEOREM ParentIsFinishedHolds == Spec => []ParentIsFinished
<1>1. IInv => ParentIsFinished BY DEF IInv, ParentInv, ParentIsFinished, Active
<1> QED BY Invariance, <1>1, PTL

=============================================================================
