------------------------------ MODULE RunFeed ------------------------------
(***************************************************************************)
(* What a run's event stream promises to whoever watches it, without       *)
(* threads, flags, rows or failures: a run is announced as running, is     *)
(* concluded once, by a final status or by run_failed, and then ends; a    *)
(* run that fails before it was announced is concluded without it.  Only   *)
(* the death of the server cuts a feed short.                              *)
(***************************************************************************)
CONSTANT Run

VARIABLES
  phase,  \* "silent", "announced", "concluded", "ended" or "cut"
  last    \* the last run-level event of the feed

feed == <<phase, last>>

Conclusion == {"completed", "failed", "cancelled", "run_failed"}
Open == {r \in Run : phase[r] \in {"silent", "announced", "concluded"}}

Init ==
  /\ phase = [r \in Run |-> "silent"]
  /\ last = [r \in Run |-> "none"]

Announce(r) ==
  /\ phase[r] = "silent"
  /\ phase' = [phase EXCEPT ![r] = "announced"]
  /\ last' = [last EXCEPT ![r] = "running"]

Conclude(r) ==
  /\ phase[r] \in {"silent", "announced"}
  /\ phase' = [phase EXCEPT ![r] = "concluded"]
  /\ \E v \in (IF phase[r] = "silent" THEN {"run_failed"} ELSE Conclusion) :
       last' = [last EXCEPT ![r] = v]

End(r) ==
  /\ phase[r] = "concluded"
  /\ phase' = [phase EXCEPT ![r] = "ended"]
  /\ UNCHANGED last

Cut ==
  /\ \E S \in SUBSET Open : phase' = [r \in Run |-> IF r \in S THEN "cut" ELSE phase[r]]
  /\ UNCHANGED last

Next == Cut \/ \E r \in Run : Announce(r) \/ Conclude(r) \/ End(r)

\* A feed that was announced is concluded, and a concluded one ends.
Progress ==
  \A r \in Run : WF_feed(phase[r] = "announced" /\ Conclude(r)) /\ WF_feed(End(r))

SafeSpec == Init /\ [][Next]_feed
Spec == SafeSpec /\ Progress
=============================================================================
