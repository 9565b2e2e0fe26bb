------------------------ MODULE PackSchedulerProofs ------------------------
(***************************************************************************)
(* Machine-checked proofs about PackScheduler, for every set of packs and  *)
(* of PATCH requests, every limit and every bound: type correctness, that  *)
(* an occurrence fires once, and - as long as what counts is within reach  *)
(* of the queries that count it - the two limits on scheduled runs.        *)
(***************************************************************************)
EXTENDS PackScheduler, FiniteSetTheorems, SequenceFacts

Asked ==
  {Unsent, Answered}
    \cup [at : {"stored"}, pack : Pack]
    \cup [at : {"reread"}, pack : Pack, enabled : BOOLEAN, every : Period]
    \cup [at : {"computed"}, pack : Pack, slot : Nat]

\* TypeOK with the types of the PATCH requests.
\* Whatever the API does to the table meanwhile, the tick works on its copies.
TypeInv ==
  /\ TypeOK
  /\ patch \in [Client -> Asked]
  /\ faults \in Nat /\ crashes \in Nat

\* What get_scheduled_packs returns: copies of rows, each pack once.
LEMMA SnapshotIsCopies ==
  ASSUME TypeInv, NEW list \in Snapshots
  PROVE  /\ list \in Seq(PackCopy)
         /\ \A k \in DOMAIN list :
              packs[list[k].pack].there /\ list[k].slot = packs[list[k].pack].slot
         /\ \A k, l \in DOMAIN list : k # l => list[k].pack # list[l].pack
<1>1. PICK order \in SetToSeqs(Scheduled) : list = [i \in DOMAIN order |-> Copy(order[i])]
  BY DEF Snapshots
<1> DEFINE n == Cardinality(Scheduled)
<1>2. n \in Nat BY PackSchedulerAssumption, FS_Subset, FS_CardinalityType DEF Scheduled
<1>3. /\ order \in [1..n -> Scheduled]
      /\ \A k, l \in 1..n : k # l => order[k] # order[l]
  BY DEF SetToSeqs
<1>4. \A p \in Scheduled :
        p \in Pack /\ packs[p].there /\ packs[p].every \in Period /\ packs[p].slot \in Nat
  <2>1. \A p \in Scheduled : p \in Pack /\ packs[p] \in Row
    BY DEF Scheduled, TypeInv, TypeOK, NoRow
  <2> QED BY <2>1 DEF Row
<1>5. \A p \in Scheduled : Copy(p) \in PackCopy /\ Copy(p).pack = p /\ Copy(p).slot = packs[p].slot
  BY <1>4 DEF Copy, PackCopy
<1>6. DOMAIN list = 1..n /\ \A k \in 1..n : list[k] = Copy(order[k])
  BY <1>1, <1>3
<1>7. list \in [1..n -> PackCopy] BY <1>1, <1>3, <1>5
<1>8. list \in Seq(PackCopy) BY <1>2, <1>7
<1> QED BY <1>3, <1>4, <1>5, <1>6, <1>8

\* A slot computed by the scheduler or for a PATCH request has the type of the column.
LEMMA StoreSlotType ==
  ASSUME TypeInv, NEW p \in Pack, NEW slot \in Nat, StoreSlot(p, slot)
  PROVE  packs' \in [Pack -> Row \cup {NoRow}]
<1>1. packs \in [Pack -> Row \cup {NoRow}] BY DEF TypeInv, TypeOK
<1>2. CASE packs[p].there
  <2>1. packs[p] \in Row BY <1>1, <1>2 DEF NoRow
  <2>2. [packs[p] EXCEPT !.slot = slot] \in Row BY <2>1 DEF Row
  <2> QED BY <1>1, <1>2, <2>2 DEF StoreSlot
<1> QED BY <1>1, <1>2 DEF StoreSlot

\* The next slot is later than the time it is computed from.
LEMMA NextRunIsLater ==
  ASSUME NEW every \in Period, NEW after \in Nat
  PROVE  NextRunAt(every, after) \in Nat /\ NextRunAt(every, after) > after
BY PackSchedulerAssumption DEF NextRunAt

LEMMA TimesAreNat == TypeInv => now \in Nat /\ clock \in Nat
<1>1. MaxClock \in Nat BY PackSchedulerAssumption
<1> QED BY <1>1 DEF TypeInv, TypeOK

LEMMA HeadIsCopy ==
  ASSUME TypeInv, todo # <<>>
  PROVE  /\ Head(todo) \in PackCopy /\ Tail(todo) \in Seq(PackCopy)
         /\ Head(todo).pack \in Pack /\ Head(todo).slot \in Nat
         /\ NextRunAt(Head(todo).every, now) \in Nat
         /\ NextRunAt(Head(todo).every, now) > now
<1>1. Head(todo) \in PackCopy /\ Tail(todo) \in Seq(PackCopy)
  BY HeadTailType DEF TypeInv, TypeOK
<1>2. Head(todo).pack \in Pack /\ Head(todo).slot \in Nat /\ Head(todo).every \in Period
  BY <1>1 DEF PackCopy
<1> QED BY <1>1, <1>2, NextRunIsLater, TimesAreNat

LEMMA InitTypeInv == Init => TypeInv
<1> SUFFICES ASSUME Init PROVE TypeInv
  OBVIOUS
<1>1. InitialRow \subseteq Row
  <2>1. {FALSE} \subseteq BOOLEAN /\ {TRUE} \subseteq BOOLEAN OBVIOUS
  <2>2. {NoSlot} \subseteq Nat /\ {NoSlot, 1} \subseteq Nat BY DEF NoSlot
  <2> QED BY <2>1, <2>2 DEF InitialRow, Row
<1>2. runs \in Seq(RunRow) /\ todo \in Seq(PackCopy) BY DEF Init
<1>3. patch \in [Client -> Asked] BY DEF Init, Asked
<1>4. 1 \in 1..MaxClock /\ 0 \in 0..MaxClock BY PackSchedulerAssumption
<1> QED BY <1>1, <1>2, <1>3, <1>4 DEF Init, TypeInv, TypeOK

LEMMA FiredType == ASSUME TypeInv, Tick \/ Restart PROVE fired' \in BOOLEAN
<1>1. fired' = fired \/ fired' = TRUE \/ fired' = FALSE
  BY DEF Tick, BeginTick, ReadPacks, CountActiveRuns, EndTick, GiveFirstSlot, PassNotDue, CheckActive,
         SkipOccurrence, FireRun, AdvanceSlot, AbortTick, Sleep, Restart
<1>2. fired \in BOOLEAN BY DEF TypeInv, TypeOK
<1> QED BY <1>1, <1>2, Zenon

\* The steps of a tick.
LEMMA TickTypeInv == ASSUME TypeInv, Tick PROVE TypeInv'
<1>1. 0 \in 0..MaxClock /\ clock \in 0..MaxClock /\ fired' \in BOOLEAN
  BY PackSchedulerAssumption, FiredType DEF TypeInv, TypeOK
<1>2. todo # <<>> => /\ Tail(todo) \in Seq(PackCopy)
                     /\ Head(todo).pack \in Pack /\ Head(todo).slot \in Nat
                     /\ NextRunAt(Head(todo).every, now) \in Nat
  BY HeadIsCopy
<1>3. \A p \in Pack, slot \in Nat : StoreSlot(p, slot) => packs' \in [Pack -> Row \cup {NoRow}]
  BY StoreSlotType
<1>4. \A list \in Snapshots : list \in Seq(PackCopy) BY SnapshotIsCopies
<1>5. Cardinality({i \in Listed : IsActive(runs[i])}) \in Nat
  <2>1. Listed \subseteq 1..Len(runs) /\ Len(runs) \in Nat
    BY DEF Listed, Newest, TypeInv, TypeOK
  <2>2. IsFiniteSet(1..Len(runs)) BY <2>1, FS_Interval
  <2>3. {i \in Listed : IsActive(runs[i])} \subseteq 1..Len(runs) BY <2>1
  <2> QED BY <2>2, <2>3, FS_Subset, FS_CardinalityType
<1> USE <1>1, <1>2 DEF TypeInv, TypeOK, Works, Fails, Sleep, Visiting, AbortTick, budget, request
<1>5a. CASE BeginTick BY <1>5a DEF BeginTick
<1>6. CASE ReadPacks
  <2>1. todo' \in Seq(PackCopy)
    <3>1. <<>> \in Seq(PackCopy) OBVIOUS
    <3> QED BY <1>4, <1>6, <3>1 DEF ReadPacks
  <2>2. UNCHANGED <<clock, packs, runs, patch, late, crashes>> /\ tpc' \in {"asleep", "count"}
    BY <1>6 DEF ReadPacks
  <2>3. faults' \in Nat /\ running' \in Nat /\ now' \in 0..MaxClock BY <1>6 DEF ReadPacks
  <2> QED BY <2>1, <2>2, <2>3
<1>7. CASE CountActiveRuns BY <1>5, <1>7 DEF CountActiveRuns
<1>8. CASE EndTick BY <1>8 DEF EndTick
<1>9. CASE GiveFirstSlot
  <2>1. packs' \in [Pack -> Row \cup {NoRow}] BY <1>3, <1>9 DEF GiveFirstSlot
  <2>2. UNCHANGED <<clock, runs, patch, late, crashes>> BY <1>9 DEF GiveFirstSlot
  <2>3. faults' \in Nat BY <1>9 DEF GiveFirstSlot
  <2>4. running' \in Nat BY <1>9 DEF GiveFirstSlot
  <2>5. tpc' \in {"asleep", "visit"} BY <1>9 DEF GiveFirstSlot
  <2>6. now' \in 0..MaxClock BY <1>9 DEF GiveFirstSlot
  <2>7. todo' = <<>> \/ (todo # <<>> /\ todo' = Tail(todo)) BY <1>9 DEF GiveFirstSlot
  <2>8. todo' \in Seq(PackCopy)
    <3>1. <<>> \in Seq(PackCopy) OBVIOUS
    <3> QED BY <1>2, <2>7, <3>1, Zenon
  <2> QED BY <2>1, <2>2, <2>3, <2>4, <2>5, <2>6, <2>8
<1>10. CASE PassNotDue BY <1>10 DEF PassNotDue
<1>11. CASE CheckActive BY <1>11 DEF CheckActive
<1>12. CASE SkipOccurrence
  <2>1. packs' \in [Pack -> Row \cup {NoRow}] BY <1>3, <1>12 DEF SkipOccurrence
  <2>2. UNCHANGED <<clock, runs, patch, late, crashes>> BY <1>12 DEF SkipOccurrence
  <2>3. faults' \in Nat BY <1>12 DEF SkipOccurrence
  <2>4. running' \in Nat BY <1>12 DEF SkipOccurrence
  <2>5. tpc' \in {"asleep", "visit"} BY <1>12 DEF SkipOccurrence
  <2>6. now' \in 0..MaxClock BY <1>12 DEF SkipOccurrence
  <2>7. todo' = <<>> \/ (todo # <<>> /\ todo' = Tail(todo)) BY <1>12 DEF SkipOccurrence
  <2>8. todo' \in Seq(PackCopy)
    <3>1. <<>> \in Seq(PackCopy) OBVIOUS
    <3> QED BY <1>2, <2>7, <3>1, Zenon
  <2> QED BY <2>1, <2>2, <2>3, <2>4, <2>5, <2>6, <2>8
<1>13. CASE FireRun
  <2> DEFINE run == NewRun(Head(todo).pack, "scheduler", Head(todo).slot)
  <2>1. todo # <<>> BY <1>13 DEF FireRun
  <2>2. run \in RunRow /\ [run EXCEPT !.state = "orphan"] \in RunRow
    BY <1>2, <2>1 DEF NewRun, RunRow
  <2>3. runs' \in {runs, Append(runs, run), Append(runs, [run EXCEPT !.state = "orphan"])}
    BY <1>13 DEF FireRun
  <2> HIDE DEF run
  <2>4. runs' \in Seq(RunRow)
    <3>1. \A r \in RunRow : Append(runs, r) \in Seq(RunRow) OBVIOUS
    <3> QED BY <2>2, <2>3, <3>1
  <2>5. late' \subseteq Pack \X Nat BY <1>13 DEF FireRun
  <2> QED BY <1>13, <2>4, <2>5 DEF FireRun
<1>14. CASE AdvanceSlot
  <2>1. packs' \in [Pack -> Row \cup {NoRow}] BY <1>3, <1>14 DEF AdvanceSlot
  <2>2. UNCHANGED <<clock, runs, patch, late, crashes>> BY <1>14 DEF AdvanceSlot
  <2>3. faults' \in Nat BY <1>14 DEF AdvanceSlot
  <2>4. running' \in Nat BY <1>14 DEF AdvanceSlot
  <2>5. tpc' \in {"asleep", "visit"} BY <1>14 DEF AdvanceSlot
  <2>6. now' \in 0..MaxClock BY <1>14 DEF AdvanceSlot
  <2>7. todo' = <<>> \/ (todo # <<>> /\ todo' = Tail(todo)) BY <1>14 DEF AdvanceSlot
  <2>8. todo' \in Seq(PackCopy)
    <3>1. <<>> \in Seq(PackCopy) OBVIOUS
    <3> QED BY <1>2, <2>7, <3>1, Zenon
  <2> QED BY <2>1, <2>2, <2>3, <2>4, <2>5, <2>6, <2>8
<1> QED BY <1>5a, <1>6, <1>7, <1>8, <1>9, <1>10, <1>11, <1>12, <1>13, <1>14 DEF Tick

\* The steps of everyone else.
LEMMA OthersTypeInv == ASSUME TypeInv, [Next]_vars, ~Tick PROVE TypeInv'
<1>1. \A p \in Pack, slot \in Nat : StoreSlot(p, slot) => packs' \in [Pack -> Row \cup {NoRow}]
  BY StoreSlotType
<1>2. /\ 0 \in 0..MaxClock /\ clock \in Nat /\ (Restart => fired' \in BOOLEAN)
      /\ \A n \in 1..MaxClock : n < MaxClock => n + 1 \in 1..MaxClock
  BY PackSchedulerAssumption, TimesAreNat, FiredType
<1>3. ASSUME NEW p \in Pack, packs[p].there
      PROVE  packs[p] \in Row /\ packs[p].enabled \in BOOLEAN /\ packs[p].every \in Period
  <2>1. packs[p] \in Row BY <1>3 DEF TypeInv, TypeOK, NoRow
  <2> QED BY <2>1 DEF Row
<1>4. \A r \in RunRow : Append(runs, r) \in Seq(RunRow) BY DEF TypeInv, TypeOK
<1> USE DEF TypeInv, TypeOK, tick, request, budget
<1>5. ASSUME NEW c \in Client, PatchSchedule(c) PROVE TypeInv'
  <2>1. PICK p \in Pack, on \in BOOLEAN, every \in Period :
          /\ packs[p].there
          /\ packs' = [packs EXCEPT ![p].enabled = on, ![p].every = every]
          /\ patch' = [patch EXCEPT ![c] = [at |-> "stored", pack |-> p]]
    BY <1>5 DEF PatchSchedule
  <2>2. [packs[p] EXCEPT !.enabled = on, !.every = every] \in Row BY <1>3, <2>1 DEF Row
  <2>3. packs' \in [Pack -> Row \cup {NoRow}]
    <3>1. packs' = [packs EXCEPT ![p] = [packs[p] EXCEPT !.enabled = on, !.every = every]]
      BY <2>1
    <3> QED BY <2>2, <3>1
  <2>4. patch' \in [Client -> Asked] BY <2>1 DEF Asked
  <2> QED BY <1>5, <2>3, <2>4 DEF PatchSchedule
<1>6. ASSUME NEW c \in Client, RereadPack(c) PROVE TypeInv'
  <2>1. patch[c].at = "stored" /\ patch[c] \in Asked BY <1>6 DEF RereadPack
  <2>2. patch[c].pack \in Pack BY <2>1 DEF Asked, Unsent, Answered
  <2>3. patch' \in [Client -> Asked] BY <1>3, <1>6, <2>2 DEF RereadPack, Asked
  <2> QED BY <1>6, <2>3 DEF RereadPack
<1>7. ASSUME NEW c \in Client, NotifyScheduleChanged(c) PROVE TypeInv'
  <2>1. patch[c].at = "reread" /\ patch[c] \in Asked BY <1>7 DEF NotifyScheduleChanged
  <2>2. patch[c].pack \in Pack /\ patch[c].every \in Period
    BY <2>1 DEF Asked, Unsent, Answered
  <2>3. NextRunAt(patch[c].every, clock) \in Nat /\ NoSlot \in Nat
    BY <1>2, <2>2, NextRunIsLater DEF NoSlot
  <2>4. packs' \in [Pack -> Row \cup {NoRow}]
    BY <1>1, <1>7, <2>2, <2>3 DEF NotifyScheduleChanged
  <2>5. [at |-> "computed", pack |-> patch[c].pack, slot |-> NextRunAt(patch[c].every, clock)] \in Asked
    BY <2>2, <2>3 DEF Asked
  <2>6. Answered \in Asked BY DEF Asked
  <2>7. patch' \in [Client -> Asked] BY <1>7, <2>5, <2>6 DEF NotifyScheduleChanged
  <2> QED BY <1>7, <2>4, <2>7 DEF NotifyScheduleChanged
<1>7a. ASSUME NEW c \in Client, StoreComputed(c) PROVE TypeInv'
  <2>1. patch[c].at = "computed" /\ patch[c] \in Asked BY <1>7a DEF StoreComputed
  <2>2. patch[c].pack \in Pack /\ patch[c].slot \in Nat
    BY <2>1 DEF Asked, Unsent, Answered
  <2>3. packs' \in [Pack -> Row \cup {NoRow}] BY <1>1, <1>7a, <2>2 DEF StoreComputed
  <2>4. patch' \in [Client -> Asked] BY <1>7a DEF StoreComputed, Asked
  <2>5. late' \subseteq Pack \X Nat BY <1>7a, <2>2 DEF StoreComputed
  <2> QED BY <1>7a, <2>3, <2>4, <2>5 DEF StoreComputed
<1>8. ASSUME NEW p \in Pack, DeletePack(p) PROVE TypeInv' BY <1>8 DEF DeletePack
<1>9. ASSUME NEW p \in Pack, UserRun(p) PROVE TypeInv'
  <2>1. PICK by \in {"user", "manual"} : runs' = Append(runs, NewRun(p, by, NoSlot))
    BY <1>9 DEF UserRun
  <2>2. NewRun(p, by, NoSlot) \in RunRow BY DEF NewRun, RunRow, NoSlot
  <2> QED BY <1>4, <1>9, <2>1, <2>2 DEF UserRun
<1>10. ASSUME NEW i \in DOMAIN runs, RunEnds(i) PROVE TypeInv'
  <2>1. runs[i] \in RunRow OBVIOUS
  <2>2. [runs[i] EXCEPT !.state = "over"] \in RunRow BY <2>1 DEF RunRow
  <2>3. runs' = [runs EXCEPT ![i] = [runs[i] EXCEPT !.state = "over"]] BY <1>10 DEF RunEnds
  <2>4. runs' \in Seq(RunRow) BY <2>2, <2>3
  <2> QED BY <1>10, <2>4 DEF RunEnds
<1>11. CASE TimePasses BY <1>2, <1>11 DEF TimePasses
<1>12. CASE Restart
  <2>1. ASSUME NEW i \in DOMAIN runs
        PROVE  runs[i] \in RunRow /\ [runs[i] EXCEPT !.state = "orphan"] \in RunRow
    <3>1. runs[i] \in RunRow OBVIOUS
    <3> QED BY <3>1 DEF RunRow
  <2>2. runs' \in [1..Len(runs) -> RunRow] /\ Len(runs) \in Nat
    BY <1>12, <2>1 DEF Restart
  <2>3. runs' \in Seq(RunRow) BY <2>2
  <2>4. patch' \in [Client -> Asked] BY <1>12 DEF Restart, Asked
  <2> QED BY <1>2, <1>12, <2>3, <2>4 DEF Restart, Sleep
<1>13. CASE UNCHANGED vars BY <1>13 DEF vars
<1> QED BY <1>5, <1>6, <1>7, <1>7a, <1>8, <1>9, <1>10, <1>11, <1>12, <1>13 DEF Next, Answer

LEMMA NextTypeInv == TypeInv /\ [Next]_vars => TypeInv'
BY TickTypeInv, OthersTypeInv

\* TypeOK is an invariant: whatever the API does to the table, a tick works on
\* well-formed copies, one at hand whenever it skips, fires or advances a pack.
THEOREM TypeCorrect == Spec => []TypeOK
<1>1. TypeInv => TypeOK BY DEF TypeInv
<1> QED BY InitTypeInv, NextTypeInv, <1>1, PTL DEF Spec

-----------------------------------------------------------------------------
(* What the steps do to the scheduled runs *)

InFlight == {i \in DOMAIN runs : runs[i].by = "scheduler" /\ IsActive(runs[i])}

\* No scheduled run is added, and none that is over starts again.
RunsKept ==
  \A i \in DOMAIN runs' : runs'[i].by = "scheduler" =>
    /\ i \in DOMAIN runs /\ runs[i].by = "scheduler"
    /\ runs'[i].pack = runs[i].pack /\ runs'[i].slot = runs[i].slot
    /\ IsActive(runs'[i]) => IsActive(runs[i])

LEMMA OnlyFireRunAdds == ASSUME TypeInv, [Next]_vars, ~FireRun PROVE RunsKept
<1> USE DEF RunsKept
<1>1. runs \in Seq(RunRow) BY DEF TypeInv, TypeOK
<1>2. ASSUME NEW p \in Pack, UserRun(p) PROVE RunsKept
  <2>1. PICK by \in {"user", "manual"} : runs' = Append(runs, NewRun(p, by, NoSlot))
    BY <1>2 DEF UserRun
  <2>2. /\ DOMAIN runs' = 1..(Len(runs) + 1) /\ DOMAIN runs = 1..Len(runs)
        /\ \A i \in DOMAIN runs : runs'[i] = runs[i]
        /\ runs'[Len(runs) + 1].by # "scheduler"
    BY <1>1, <2>1 DEF NewRun
  <2>3. \A i \in DOMAIN runs' : i \in DOMAIN runs \/ i = Len(runs) + 1 BY <1>1, <2>2
  <2> QED BY <2>2, <2>3
<1>3. ASSUME NEW i \in DOMAIN runs, RunEnds(i) PROVE RunsKept
  BY <1>1, <1>3 DEF RunEnds, RunRow, IsActive
<1>4. CASE Restart
  <2>1. DOMAIN runs' = DOMAIN runs BY <1>1, <1>4 DEF Restart
  <2>2. ASSUME NEW i \in DOMAIN runs
        PROVE  /\ runs'[i].by = runs[i].by /\ runs'[i].pack = runs[i].pack
               /\ runs'[i].slot = runs[i].slot /\ (runs'[i].state = "over" <=> runs[i].state = "over")
    <3>1. runs[i] \in RunRow BY <1>1
    <3> QED BY <1>1, <1>4, <3>1 DEF Restart, RunRow
  <2> QED BY <2>1, <2>2 DEF IsActive
<1>5. CASE UNCHANGED runs BY <1>5
<1>6. ASSUME NEW c \in Client, PatchSchedule(c) \/ Answer(c)
      PROVE  UNCHANGED runs
  BY <1>6 DEF PatchSchedule, RereadPack, NotifyScheduleChanged, StoreComputed, Answer
<1>7. CASE Tick
  BY <1>5, <1>7 DEF Tick, BeginTick, ReadPacks, CountActiveRuns, EndTick, GiveFirstSlot, PassNotDue,
                   CheckActive, SkipOccurrence, AdvanceSlot
<1>8. CASE TimePasses \/ UNCHANGED vars \/ \E p \in Pack : DeletePack(p)
  BY <1>5, <1>8 DEF TimePasses, vars, DeletePack
<1> QED BY <1>2, <1>3, <1>4, <1>5, <1>6, <1>7, <1>8 DEF Next

\* FireRun adds a run for the occurrence in the copy, or none.
LEMMA FireRunAdds ==
  ASSUME TypeInv, FireRun, runs' # runs
  PROVE  \E run \in RunRow :
           /\ runs' = Append(runs, run) /\ run.by = "scheduler"
           /\ run.pack = Head(todo).pack /\ run.slot = Head(todo).slot
           /\ (fired' = TRUE /\ faults' = faults) \/ (fired' = FALSE /\ faults' = faults + 1)
<1> DEFINE new == NewRun(Head(todo).pack, "scheduler", Head(todo).slot)
           left == [new EXCEPT !.state = "orphan"]
<1>1. todo # <<>> BY DEF FireRun, TypeInv, TypeOK
<1>2. /\ new \in RunRow /\ left \in RunRow
      /\ new.by = "scheduler" /\ left.by = "scheduler"
      /\ new.pack = Head(todo).pack /\ left.pack = Head(todo).pack
      /\ new.slot = Head(todo).slot /\ left.slot = Head(todo).slot
  BY <1>1, HeadIsCopy DEF NewRun, RunRow
<1>3. \/ runs' = Append(runs, new) /\ fired' = TRUE /\ faults' = faults
      \/ runs' = Append(runs, left) /\ fired' = FALSE /\ faults' = faults + 1
  BY DEF FireRun, Works, Fails
<1> QED BY <1>2, <1>3

LEMMA RunsAreFinite ==
  ASSUME TypeInv
  PROVE  /\ \A S \in SUBSET DOMAIN runs : IsFiniteSet(S) /\ Cardinality(S) \in Nat
         /\ Cardinality(InFlight) \in Nat
         /\ \A p : Cardinality(ActiveScheduled(p)) \in Nat
<1>1. DOMAIN runs = 1..Len(runs) /\ Len(runs) \in Nat BY DEF TypeInv, TypeOK
<1>2. IsFiniteSet(DOMAIN runs) BY <1>1, FS_Interval
<1>3. \A S \in SUBSET DOMAIN runs : IsFiniteSet(S) /\ Cardinality(S) \in Nat
  BY <1>2, FS_Subset, FS_CardinalityType
<1> QED BY <1>3 DEF InFlight, ActiveScheduled, ScheduledBy

LEMMA KeptRunsCount ==
  ASSUME TypeInv, RunsKept
  PROVE  /\ Cardinality(InFlight') <= Cardinality(InFlight)
         /\ \A p : Cardinality(ActiveScheduled(p)') <= Cardinality(ActiveScheduled(p))
<1>1. IsFiniteSet(InFlight) /\ \A p : IsFiniteSet(ActiveScheduled(p))
  BY RunsAreFinite DEF InFlight, ActiveScheduled, ScheduledBy
<1>2. InFlight' \subseteq InFlight BY DEF RunsKept, InFlight
<1>3. \A p : ActiveScheduled(p)' \subseteq ActiveScheduled(p)
  BY DEF RunsKept, ActiveScheduled, ScheduledBy
<1> QED BY <1>1, <1>2, <1>3, FS_Subset

LEMMA AddedRunCounts ==
  ASSUME TypeInv, NEW run \in RunRow, runs' = Append(runs, run)
  PROVE  /\ Cardinality(InFlight') <= Cardinality(InFlight) + 1
         /\ \A p : Cardinality(ActiveScheduled(p)')
                     <= Cardinality(ActiveScheduled(p)) + (IF p = run.pack THEN 1 ELSE 0)
<1> DEFINE n == Len(runs) + 1
<1>1. runs \in Seq(RunRow) BY DEF TypeInv, TypeOK
<1>2. /\ \A i \in DOMAIN runs' : i = n \/ (i \in DOMAIN runs /\ runs'[i] = runs[i])
      /\ runs'[n] = run
  <2>1. /\ DOMAIN runs' = 1..(Len(runs) + 1) /\ DOMAIN runs = 1..Len(runs)
        /\ \A i \in DOMAIN runs : runs'[i] = runs[i]
        /\ runs'[n] = run
    BY <1>1
  <2>2. \A i \in DOMAIN runs' : i \in DOMAIN runs \/ i = n BY <1>1, <2>1
  <2> QED BY <2>1, <2>2
<1> HIDE DEF n
<1>3. ASSUME NEW S, NEW T, IsFiniteSet(S), T \subseteq S \cup {n}
      PROVE  Cardinality(T) <= Cardinality(S) + 1
  <2>1. /\ IsFiniteSet(S \cup {n})
        /\ Cardinality(S \cup {n}) = IF n \in S THEN Cardinality(S) ELSE Cardinality(S) + 1
    BY <1>3, FS_AddElement
  <2>2. Cardinality(T) <= Cardinality(S \cup {n}) /\ IsFiniteSet(T)
    BY <1>3, <2>1, FS_Subset
  <2>3. Cardinality(S) \in Nat /\ Cardinality(T) \in Nat BY <1>3, <2>2, FS_CardinalityType
  <2> QED BY <2>1, <2>2, <2>3
<1>4. IsFiniteSet(InFlight) /\ \A p : IsFiniteSet(ActiveScheduled(p))
  BY RunsAreFinite DEF InFlight, ActiveScheduled, ScheduledBy
<1>5. InFlight' \subseteq InFlight \cup {n} BY <1>2 DEF InFlight
<1>6. \A p : ActiveScheduled(p)' \subseteq ActiveScheduled(p) \cup {n}
  BY <1>2 DEF ActiveScheduled, ScheduledBy
<1>7. \A p : p # run.pack => ActiveScheduled(p)' \subseteq ActiveScheduled(p)
  BY <1>2 DEF ActiveScheduled, ScheduledBy
<1>8. Cardinality(InFlight') <= Cardinality(InFlight) + 1 BY <1>3, <1>4, <1>5
<1>9. \A p : Cardinality(ActiveScheduled(p)') <= Cardinality(ActiveScheduled(p)) + 1
  BY <1>3, <1>4, <1>6
<1>10. \A p : p # run.pack => Cardinality(ActiveScheduled(p)') <= Cardinality(ActiveScheduled(p))
  BY <1>4, <1>7, FS_Subset
<1>11. \A p : Cardinality(ActiveScheduled(p)) \in Nat BY RunsAreFinite
<1> QED BY <1>8, <1>9, <1>10, <1>11

-----------------------------------------------------------------------------
(* At most MAX_CONCURRENT scheduled runs *)

\* The scheduled runs that count against MAX_CONCURRENT: each failed call may
\* have let one tick's worth of them start uncounted.
Counted == Cardinality(InFlight) - MaxConcurrent * faults

\* The count a tick started from, and one for each run it fired since, is
\* never behind the scheduled runs in flight.
CountInv ==
  /\ Counted <= MaxConcurrent
  /\ tpc \in {"visit", "skip", "fire"} => Counted <= running
  /\ tpc = "advance" => Counted <= running + (IF fired THEN 1 ELSE 0)
  /\ tpc \in {"skip", "fire", "advance"} => running < MaxConcurrent

\* The scheduled runs in flight are among the rows that _count_active_runs reads.
RunsReach == \A p \in Pack : ActiveScheduled(p) \subseteq Listed

LEMMA InFlightByPack == TypeInv => InFlight = UNION {ActiveScheduled(p) : p \in Pack}
<1> SUFFICES ASSUME TypeInv PROVE InFlight = UNION {ActiveScheduled(p) : p \in Pack}
  OBVIOUS
<1>1. \A i \in DOMAIN runs : runs[i] \in RunRow BY DEF TypeInv, TypeOK
<1>2. \A i \in DOMAIN runs : runs[i].pack \in Pack BY <1>1 DEF RunRow
<1> QED BY <1>2 DEF InFlight, ActiveScheduled, ScheduledBy

\* The count taken by a tick misses no scheduled run that it can see.
LEMMA CountIsEnough ==
  ASSUME TypeInv, RunsReach
  PROVE  Cardinality(InFlight) <= Cardinality({i \in Listed : IsActive(runs[i])})
<1>1. InFlight \subseteq {i \in Listed : IsActive(runs[i])}
  BY InFlightByPack DEF RunsReach, InFlight
<1>2. {i \in Listed : IsActive(runs[i])} \in SUBSET DOMAIN runs BY DEF Listed, Newest
<1>3. IsFiniteSet({i \in Listed : IsActive(runs[i])}) BY <1>2, RunsAreFinite
<1> QED BY <1>1, <1>3, FS_Subset

\* How a step may move Counted.
LEMMA CountedMoves ==
  ASSUME TypeInv, [Next]_vars
  PROVE  /\ Counted \in Int /\ Counted' \in Int
         /\ ~FireRun => Counted' <= Counted
         /\ FireRun => Counted' <= Counted + (IF fired' THEN 1 ELSE 0)
         /\ ~FireRun /\ faults' = faults + 1 => Counted' <= Counted - MaxConcurrent
<1>1. MaxConcurrent \in Nat \ {0} BY PackSchedulerAssumption
<1>2. faults \in Nat /\ Cardinality(InFlight) \in Nat BY RunsAreFinite DEF TypeInv
<1>3. TypeInv' BY NextTypeInv
<1>4. faults' \in Nat /\ Cardinality(InFlight') \in Nat
  <2>1. \A S \in SUBSET (DOMAIN runs)' : Cardinality(S) \in Nat
    <3>1. (DOMAIN runs)' = 1..Len(runs') /\ Len(runs') \in Nat BY <1>3 DEF TypeInv, TypeOK
    <3>2. IsFiniteSet((DOMAIN runs)') BY <3>1, FS_Interval
    <3> QED BY <3>2, FS_Subset, FS_CardinalityType
  <2> QED BY <1>3, <2>1 DEF TypeInv, InFlight
<1>5. faults' \in {faults, faults + 1}
  BY DEF Next, Tick, BeginTick, ReadPacks, CountActiveRuns, EndTick, GiveFirstSlot, PassNotDue, CheckActive,
         SkipOccurrence, FireRun, AdvanceSlot, Works, Fails, TimePasses, Restart, PatchSchedule,
         RereadPack, NotifyScheduleChanged, StoreComputed, Answer, DeletePack, UserRun, RunEnds, budget, vars
<1>6. MaxConcurrent * (faults + 1) = MaxConcurrent * faults + MaxConcurrent
  BY <1>1, <1>2
<1>7. MaxConcurrent * faults \in Nat /\ MaxConcurrent * faults' \in Nat
  <2>1. \A m, n \in Nat : m * n \in Nat OBVIOUS
  <2> QED BY <1>1, <1>2, <1>4, <2>1
<1>8. CASE ~FireRun \/ UNCHANGED runs
  <2>1. Cardinality(InFlight') <= Cardinality(InFlight)
    BY <1>8, OnlyFireRunAdds, KeptRunsCount, <1>2 DEF InFlight
  <2>2. CASE faults' = faults BY <1>1, <1>2, <1>4, <1>7, <2>1, <2>2 DEF Counted
  <2>3. CASE faults' = faults + 1 BY <1>1, <1>2, <1>4, <1>6, <1>7, <2>1, <2>3 DEF Counted
  <2> QED BY <1>5, <2>2, <2>3
<1>9. CASE FireRun /\ runs' # runs
  <2>1. PICK run \in RunRow :
          /\ runs' = Append(runs, run)
          /\ (fired' = TRUE /\ faults' = faults) \/ (fired' = FALSE /\ faults' = faults + 1)
    BY <1>9, FireRunAdds
  <2>2. Cardinality(InFlight') <= Cardinality(InFlight) + 1 BY <2>1, AddedRunCounts
  <2>3. CASE faults' = faults
    <3> DEFINE m == MaxConcurrent * faults
    <3>1. Counted = Cardinality(InFlight) - m /\ Counted' = Cardinality(InFlight') - m /\ m \in Nat
      BY <1>7, <2>3 DEF Counted
    <3>2. fired' = TRUE BY <1>2, <2>1, <2>3
    <3> HIDE DEF m
    <3>3. Counted \in Int /\ Counted' \in Int /\ Counted' <= Counted + 1
      BY <1>2, <1>4, <2>2, <3>1
    <3> QED BY <1>2, <1>9, <2>3, <3>2, <3>3
  <2>4. CASE faults' = faults + 1
    BY <1>1, <1>2, <1>4, <1>6, <1>7, <1>9, <2>1, <2>2, <2>4 DEF Counted
  <2> QED BY <1>5, <2>3, <2>4
<1> QED BY <1>8, <1>9

LEMMA InitCountInv == Init => CountInv
<1> SUFFICES ASSUME Init PROVE CountInv
  OBVIOUS
<1>1. InFlight = {} BY DEF Init, InFlight
<1>2. Cardinality(InFlight) = 0 BY <1>1, FS_EmptySet
<1>3. MaxConcurrent \in Nat \ {0} BY PackSchedulerAssumption
<1>4. Counted = 0 BY <1>2, <1>3 DEF Init, Counted
<1> QED BY <1>3, <1>4 DEF Init, CountInv

LEMMA NextCountInv == TypeInv /\ CountInv /\ RunsReach /\ [Next]_vars => CountInv'
<1> SUFFICES ASSUME TypeInv, CountInv, RunsReach, [Next]_vars PROVE CountInv'
  OBVIOUS
<1>1. MaxConcurrent \in Nat \ {0} BY PackSchedulerAssumption
<1>2. running \in Nat BY DEF TypeInv, TypeOK
<1>3. /\ Counted \in Int /\ Counted' \in Int
      /\ ~FireRun => Counted' <= Counted
      /\ FireRun => Counted' <= Counted + (IF fired' THEN 1 ELSE 0)
      /\ ~FireRun /\ faults' = faults + 1 => Counted' <= Counted - MaxConcurrent
  BY CountedMoves
<1> USE <1>1, <1>2, <1>3 DEF CountInv
<1>4. CASE BeginTick \/ ReadPacks \/ EndTick \/ Restart
  <2>1. tpc' \in {"asleep", "read", "count"} BY <1>4 DEF BeginTick, ReadPacks, EndTick, Restart, Sleep
  <2>2. ~FireRun BY <2>1 DEF FireRun
  <2> QED BY <2>1, <2>2
<1>5. CASE CountActiveRuns
  <2>1. tpc' = "visit" /\ ~FireRun BY <1>5 DEF CountActiveRuns, FireRun
  <2>2. CASE running' = Cardinality({i \in Listed : IsActive(runs[i])}) /\ Works
    <3>1. UNCHANGED <<runs, faults>> BY <1>5, <2>2 DEF CountActiveRuns, Works
    <3>2. Cardinality(InFlight') <= running' BY <2>2, <3>1, CountIsEnough DEF InFlight
    <3>3. faults' \in Nat /\ running' \in Nat /\ Cardinality(InFlight') \in Nat
      BY <3>1, NextTypeInv, RunsAreFinite DEF TypeInv, TypeOK, InFlight
    <3>4. Counted' <= running' BY <3>2, <3>3 DEF Counted
    <3> QED BY <2>1, <3>4
  <2>3. CASE running' = 0 /\ Fails
    <3>1. Counted' <= Counted - MaxConcurrent BY <2>1, <2>3 DEF Fails
    <3> QED BY <2>1, <2>3, <3>1
  <2> QED BY <1>5, <2>2, <2>3 DEF CountActiveRuns
<1>6. CASE GiveFirstSlot \/ PassNotDue \/ CheckActive \/ SkipOccurrence
  <2>1. ~FireRun
    BY <1>6 DEF GiveFirstSlot, PassNotDue, CheckActive, SkipOccurrence, FireRun, Visiting
  <2>2. \/ tpc' = "asleep"
        \/ /\ tpc \in {"visit", "skip"} /\ running' = running
           /\ tpc' = "visit" \/ (tpc' \in {"skip", "fire"} /\ running < MaxConcurrent)
    BY <1>6 DEF GiveFirstSlot, PassNotDue, CheckActive, SkipOccurrence, Visiting, AbortTick, Sleep
  <2> QED BY <2>1, <2>2
<1>7. CASE FireRun
  <2>1. tpc = "fire" /\ tpc' = "advance" /\ running' = running BY <1>7 DEF FireRun
  <2> QED BY <1>7, <2>1
<1>8. CASE AdvanceSlot
  <2>1. tpc = "advance" /\ ~FireRun BY <1>8 DEF AdvanceSlot, FireRun
  <2>2. \/ tpc' = "asleep"
        \/ tpc' = "visit" /\ running' = running + (IF fired THEN 1 ELSE 0)
    BY <1>8 DEF AdvanceSlot, AbortTick, Sleep
  <2> QED BY <2>1, <2>2
<1>9. CASE UNCHANGED tick /\ ~FireRun BY <1>9 DEF tick
<1>10. CASE ~Tick /\ ~Restart
  <2>1. UNCHANGED tick
    BY <1>10 DEF Next, TimePasses, PatchSchedule, RereadPack, NotifyScheduleChanged, StoreComputed, Answer, DeletePack,
             UserRun, RunEnds, vars
  <2> QED BY <1>9, <1>10, <2>1 DEF Tick
<1> QED BY <1>4, <1>5, <1>6, <1>7, <1>8, <1>10 DEF Tick

\* As long as the scheduled runs in flight are among the 100 newest rows, at
\* most MAX_CONCURRENT of them are in flight at once, and one tick's worth more
\* for each storage call that failed: whatever ends, starts or is patched
\* between a tick's count and its last run.
THEOREM AtMostMaxConcurrentHolds == Spec /\ []RunsReach => []AtMostMaxConcurrent
<1>1. TypeInv /\ CountInv => AtMostMaxConcurrent
  <2> SUFFICES ASSUME TypeInv, CountInv PROVE AtMostMaxConcurrent
    OBVIOUS
  <2>1. MaxConcurrent \in Nat /\ faults \in Nat /\ Cardinality(InFlight) \in Nat
    BY PackSchedulerAssumption, RunsAreFinite DEF TypeInv
  <2>2. MaxConcurrent * (1 + faults) = MaxConcurrent + MaxConcurrent * faults
        /\ MaxConcurrent * faults \in Nat
    BY <2>1
  <2>3. Cardinality(InFlight) <= MaxConcurrent * (1 + faults)
    BY <2>1, <2>2 DEF CountInv, Counted
  <2> QED BY <2>3, InFlightByPack DEF AtMostMaxConcurrent
<1> QED BY InitTypeInv, NextTypeInv, InitCountInv, NextCountInv, <1>1, PTL DEF Spec

-----------------------------------------------------------------------------
(* One scheduled run per pack *)

\* A tick about to fire a pack has found it idle, failed calls aside.
IdleInv ==
  /\ OneScheduledRunPerPack
  /\ tpc = "fire" => Cardinality(ActiveScheduled(Head(todo).pack)) <= faults

\* The unfinished scheduled runs of a pack are among the rows that
\* _pack_is_active reads.
PackReach == \A p \in Pack : ActiveScheduled(p) \subseteq ListedOf(p)

LEMMA InitIdleInv == Init => IdleInv
<1> SUFFICES ASSUME Init PROVE IdleInv
  OBVIOUS
<1>1. \A p \in Pack : ActiveScheduled(p) = {} BY DEF Init, ActiveScheduled, ScheduledBy
<1>2. \A p \in Pack : Cardinality(ActiveScheduled(p)) = 0 BY <1>1, FS_EmptySet
<1> QED BY <1>2 DEF Init, IdleInv, OneScheduledRunPerPack

LEMMA NextIdleInv == TypeInv /\ IdleInv /\ PackReach /\ [Next]_vars => IdleInv'
<1> SUFFICES ASSUME TypeInv, IdleInv, PackReach, [Next]_vars PROVE IdleInv'
  OBVIOUS
<1>1. \A p : Cardinality(ActiveScheduled(p)) \in Nat BY RunsAreFinite
<1>2. faults \in Nat /\ faults' \in Nat /\ faults' >= faults
  <2>1. faults' \in {faults, faults + 1}
    BY DEF Next, Tick, BeginTick, ReadPacks, CountActiveRuns, EndTick, GiveFirstSlot, PassNotDue, CheckActive,
           SkipOccurrence, FireRun, AdvanceSlot, Works, Fails, TimePasses, Restart, PatchSchedule,
           RereadPack, NotifyScheduleChanged, StoreComputed, Answer, DeletePack, UserRun, RunEnds, budget, vars
  <2> QED BY <2>1 DEF TypeInv
<1>3. \A p : Cardinality(ActiveScheduled(p)') \in Nat
  <2>1. TypeInv' BY NextTypeInv
  <2>2. (DOMAIN runs)' = 1..Len(runs') /\ Len(runs') \in Nat BY <2>1 DEF TypeInv, TypeOK
  <2>3. IsFiniteSet((DOMAIN runs)') BY <2>2, FS_Interval
  <2>4. \A p : ActiveScheduled(p)' \subseteq (DOMAIN runs)' BY DEF ActiveScheduled, ScheduledBy
  <2> QED BY <2>3, <2>4, FS_Subset, FS_CardinalityType
<1> USE DEF IdleInv, OneScheduledRunPerPack
<1>4. CASE FireRun
  <2>1. tpc = "fire" /\ tpc' # "fire" BY <1>4 DEF FireRun
  <2>2. CASE runs' = runs
    <3>1. \A p : ActiveScheduled(p)' = ActiveScheduled(p) BY <2>2 DEF ActiveScheduled, ScheduledBy
    <3> QED BY <1>1, <1>2, <2>1, <3>1
  <2>3. CASE runs' # runs
    <3>1. PICK run \in RunRow : runs' = Append(runs, run) /\ run.pack = Head(todo).pack
      BY <1>4, <2>3, FireRunAdds
    <3>2. \A p : Cardinality(ActiveScheduled(p)')
                   <= Cardinality(ActiveScheduled(p)) + (IF p = run.pack THEN 1 ELSE 0)
      BY <3>1, AddedRunCounts
    <3>3. Cardinality(ActiveScheduled(run.pack)) <= faults BY <2>1, <3>1
    <3> QED BY <1>1, <1>2, <1>3, <2>1, <3>2, <3>3
  <2> QED BY <2>2, <2>3
<1>5. CASE ~FireRun
  <2>1. \A p : Cardinality(ActiveScheduled(p)') <= Cardinality(ActiveScheduled(p))
    BY <1>5, OnlyFireRunAdds, KeptRunsCount
  <2>2. OneScheduledRunPerPack' BY <1>1, <1>2, <1>3, <2>1
  <2>3. CASE tpc = "fire" /\ UNCHANGED <<tpc, todo>> BY <1>1, <1>2, <1>3, <2>1, <2>2, <2>3
  <2>4. CASE tpc' # "fire" BY <2>2, <2>4
  <2>5. CASE CheckActive /\ tpc' = "fire"
    <3> DEFINE p == Head(todo).pack
    <3>1. todo' = todo /\ runs' = runs /\ todo # <<>> BY <2>5 DEF CheckActive, Visiting
    <3>2. p \in Pack BY <3>1, HeadIsCopy
    <3>3. ActiveScheduled(p)' = ActiveScheduled(p) BY <3>1 DEF ActiveScheduled, ScheduledBy
    <3> HIDE DEF p
    <3>4. CASE ~PackIsActive(p) /\ Works
      <4>1. ActiveScheduled(p) = {}
        BY <3>2, <3>4 DEF PackReach, PackIsActive, ActiveScheduled
      <4>2. Cardinality(ActiveScheduled(p)) = 0 BY <4>1, FS_EmptySet
      <4> QED BY <1>2, <2>2, <3>1, <3>3, <4>2 DEF p
    <3>5. CASE Fails
      <4>1. Cardinality(ActiveScheduled(p)) <= 1 + faults /\ faults' = faults + 1
        BY <3>2, <3>5 DEF Fails
      <4> QED BY <1>1, <1>2, <2>2, <3>1, <3>3, <4>1 DEF p
    <3> QED BY <2>5, <3>4, <3>5 DEF CheckActive, p
  <2>6. \/ tpc = "fire" /\ UNCHANGED <<tpc, todo>>
        \/ tpc' # "fire" \/ CheckActive
    <3>1. CASE Tick
      BY <1>5, <3>1 DEF Tick, BeginTick, ReadPacks, CountActiveRuns, EndTick, GiveFirstSlot, PassNotDue,
             SkipOccurrence, AdvanceSlot, AbortTick, Sleep, Visiting
    <3>2. CASE Restart BY <3>2 DEF Restart, Sleep
    <3>3. CASE ~Tick /\ ~Restart
      <4>1. UNCHANGED tick
        BY <3>3 DEF Next, TimePasses, PatchSchedule, RereadPack, NotifyScheduleChanged, StoreComputed, Answer, DeletePack,
                 UserRun, RunEnds, vars
      <4> QED BY <4>1 DEF tick
    <3> QED BY <3>1, <3>2, <3>3
  <2> QED BY <2>3, <2>4, <2>5, <2>6
<1> QED BY <1>4, <1>5

\* As long as a pack's unfinished scheduled runs are among its 5 newest rows,
\* it never has two of them at once, orphans of dead processes included, and
\* one more for each storage call that failed.
THEOREM OneScheduledRunPerPackHolds == Spec /\ []PackReach => []OneScheduledRunPerPack
<1>1. IdleInv => OneScheduledRunPerPack BY DEF IdleInv
<1> QED BY InitTypeInv, NextTypeInv, InitIdleInv, NextIdleInv, <1>1, PTL DEF Spec

-----------------------------------------------------------------------------
(* An occurrence fires once *)

Undisturbed == faults = 0 /\ crashes = 0

\* A slot still to come is later than every occurrence of the pack fired so
\* far, or known to have been stored late.
Ahead(p, slot) ==
  \/ slot = NoSlot \/ <<p, slot>> \in late
  \/ \A i \in ScheduledBy(p) : runs[i].slot < slot

\* The pack between its run and its next slot.
Firing(p) == tpc = "advance" /\ p = Head(todo).pack

\* A tick visits each pack once, and skips, fires or advances one that is due.
TodoInv ==
  /\ \A k, l \in DOMAIN todo : k # l => todo[k].pack # todo[l].pack
  /\ tpc \in {"skip", "fire", "advance"} => Head(todo).slot # NoSlot /\ Head(todo).slot <= now
  /\ now <= clock

\* Occurrences fired lie in the past, those in the table and in a tick's copies
\* in the future of every one fired.
SlotInv ==
  Undisturbed =>
    /\ \A p \in Pack : \A i \in ScheduledBy(p) :
         runs[i].slot <= clock /\ (tpc # "asleep" => runs[i].slot <= now)
    /\ \A p \in Pack : packs[p].there /\ ~Firing(p) => Ahead(p, packs[p].slot)
    /\ \A k \in DOMAIN todo : ~Firing(todo[k].pack) => Ahead(todo[k].pack, todo[k].slot)

\* The packs that are left to visit, after the first.
LEMMA TailIsLater ==
  ASSUME NEW T, NEW s \in Seq(T), s # <<>>
  PROVE  /\ 1 \in DOMAIN s /\ Head(s) = s[1]
         /\ \A k \in DOMAIN Tail(s) : k + 1 \in DOMAIN s /\ k + 1 # 1 /\ Tail(s)[k] = s[k + 1]
         /\ \A k, l \in DOMAIN Tail(s) : k # l => k + 1 # l + 1
<1>1. Len(s) \in Nat \ {0} /\ DOMAIN s = 1..Len(s) OBVIOUS
<1>2. DOMAIN Tail(s) = 1..(Len(s) - 1) OBVIOUS
<1>3. \A k \in DOMAIN Tail(s) : Tail(s)[k] = s[k + 1] OBVIOUS
<1> QED BY <1>1, <1>2, <1>3

LEMMA InitSlotInv == Init => TodoInv /\ SlotInv
BY DEF Init, TodoInv, SlotInv, InitialRow, Ahead, ScheduledBy

\* How a tick's list may change.
LEMMA TodoMoves ==
  ASSUME TypeInv, [Next]_vars
  PROVE  \/ todo' = <<>> /\ tpc' = "asleep" /\ now' = 0
         \/ tpc = "asleep" /\ tpc' = "read" /\ now' = clock /\ todo' = todo
         \/ ReadPacks /\ tpc = "read" /\ tpc' = "count" /\ now' = now /\ todo' \in Snapshots
         \/ /\ todo # <<>> /\ todo' = Tail(todo) /\ now' = now
            /\ tpc # "asleep" /\ tpc' = "visit"
         \/ /\ todo' = todo /\ now' = now
            /\ tpc = "asleep" => tpc' = "asleep"
            /\ tpc = "advance" => tpc' = "advance"
            /\ tpc' \in {"skip", "fire", "advance"} =>
                 \/ tpc' = tpc
                 \/ tpc = "fire" /\ tpc' = "advance"
                 \/ tpc = "visit" /\ Head(todo).slot # NoSlot /\ Head(todo).slot <= now
<1>1. CASE BeginTick BY <1>1 DEF BeginTick
<1>1a. CASE ReadPacks BY <1>1a DEF ReadPacks, Sleep
<1>2. CASE CountActiveRuns BY <1>2 DEF CountActiveRuns
<1>3. CASE EndTick BY <1>3 DEF EndTick, Sleep
<1>4. CASE GiveFirstSlot BY <1>4 DEF GiveFirstSlot, AbortTick, Sleep, Visiting
<1>5. CASE PassNotDue BY <1>5 DEF PassNotDue, Visiting
<1>6. CASE CheckActive BY <1>6 DEF CheckActive, Visiting
<1>7. CASE SkipOccurrence BY <1>7 DEF SkipOccurrence, AbortTick, Sleep, TypeInv, TypeOK
<1>8. CASE FireRun BY <1>8 DEF FireRun
<1>9. CASE AdvanceSlot BY <1>9 DEF AdvanceSlot, AbortTick, Sleep, TypeInv, TypeOK
<1>10. CASE Restart BY <1>10 DEF Restart, Sleep
<1>11. CASE ~Tick /\ ~Restart
  <2>1. UNCHANGED tick
    BY <1>11 DEF Next, TimePasses, PatchSchedule, RereadPack, NotifyScheduleChanged, StoreComputed, Answer, DeletePack,
             UserRun, RunEnds, vars
  <2> QED BY <2>1 DEF tick
<1> QED BY <1>1, <1>1a, <1>2, <1>3, <1>4, <1>5, <1>6, <1>7, <1>8, <1>9, <1>10, <1>11 DEF Tick

LEMMA NextTodoInv == TypeInv /\ TodoInv /\ [Next]_vars => TodoInv'
<1> SUFFICES ASSUME TypeInv, TodoInv, [Next]_vars PROVE TodoInv'
  OBVIOUS
<1>1. clock' \in Nat /\ clock \in Nat /\ now \in Nat /\ clock <= clock'
  <2>1. clock' = clock \/ clock' = clock + 1
    BY DEF Next, Tick, BeginTick, ReadPacks, CountActiveRuns, EndTick, GiveFirstSlot, PassNotDue, CheckActive,
           SkipOccurrence, FireRun, AdvanceSlot, TimePasses, Restart, PatchSchedule,
           RereadPack, NotifyScheduleChanged, StoreComputed, Answer, DeletePack, UserRun, RunEnds, vars
  <2> QED BY <2>1, TimesAreNat
<1> USE <1>1 DEF TodoInv
<1>2. CASE todo' = <<>> /\ tpc' = "asleep" /\ now' = 0 BY <1>2
<1>2a. CASE tpc' = "read" /\ now' = clock /\ todo' = todo
  BY <1>2a
<1>3. CASE tpc' = "count" /\ now' = now /\ todo' \in Snapshots
  BY <1>3, SnapshotIsCopies
<1>4. CASE todo # <<>> /\ todo' = Tail(todo) /\ tpc' = "visit" /\ now' = now
  <2>1. todo \in Seq(PackCopy) BY DEF TypeInv, TypeOK
  <2> QED BY <1>4, <2>1, TailIsLater
<1>5. CASE /\ todo' = todo /\ now' = now
           /\ tpc' \in {"skip", "fire", "advance"} =>
                \/ tpc' = tpc
                \/ tpc = "fire" /\ tpc' = "advance"
                \/ tpc = "visit" /\ Head(todo).slot # NoSlot /\ Head(todo).slot <= now
  BY <1>5
<1> QED BY <1>2, <1>2a, <1>3, <1>4, <1>5, TodoMoves

\* A step that is not FireRun leaves the occurrences fired as they are.
LEMMA KeptRunsFired ==
  ASSUME RunsKept, NEW p
  PROVE  \A i \in ScheduledBy(p)' : i \in ScheduledBy(p) /\ runs'[i].slot = runs[i].slot
BY DEF RunsKept, ScheduledBy

\* What a step writes into the table lies in the future of every occurrence fired.
Future(slot) ==
  \/ slot = NoSlot
  \/ slot > clock
  \/ slot > now /\ tpc # "asleep"

LEMMA StoreSlotMoves ==
  ASSUME TypeInv, NEW p \in Pack, NEW q \in Pack, NEW slot, StoreSlot(p, slot), packs'[q].there
  PROVE  /\ packs[q].there
         /\ q # p => packs'[q].slot = packs[q].slot
         /\ q = p => packs'[q].slot = slot
<1>1. packs \in [Pack -> Row \cup {NoRow}] BY DEF TypeInv, TypeOK
<1>2. CASE packs[p].there
  <2>1. packs[p] \in Row BY <1>1, <1>2 DEF NoRow
  <2>2. packs' = [packs EXCEPT ![p] = [packs[p] EXCEPT !.slot = slot]] BY <1>2 DEF StoreSlot
  <2>3. [packs[p] EXCEPT !.slot = slot].slot = slot BY <2>1 DEF Row
  <2> QED BY <1>1, <1>2, <2>2, <2>3
<1>3. CASE ~packs[p].there BY <1>3 DEF StoreSlot
<1> QED BY <1>2, <1>3

LEMMA RowsMove ==
  ASSUME TypeInv, [Next]_vars, NEW p \in Pack, packs'[p].there
  PROVE  /\ packs[p].there
         /\ \/ packs'[p].slot = packs[p].slot
            \/ Future(packs'[p].slot) /\ UNCHANGED runs
            \/ <<p, packs'[p].slot>> \in late'
         /\ Firing(p) =>
              \/ Firing(p)' \/ faults' = faults + 1 \/ crashes' = crashes + 1
              \/ Future(packs'[p].slot) /\ UNCHANGED runs
<1> DEFINE next == NextRunAt(Head(todo).every, now)
           goal == /\ packs[p].there
                   /\ \/ packs'[p].slot = packs[p].slot
                      \/ Future(packs'[p].slot) /\ UNCHANGED runs
                      \/ <<p, packs'[p].slot>> \in late'
                   /\ Firing(p) =>
                        \/ Firing(p)' \/ faults' = faults + 1 \/ crashes' = crashes + 1
                        \/ Future(packs'[p].slot) /\ UNCHANGED runs
<1>1. packs \in [Pack -> Row \cup {NoRow}] BY DEF TypeInv, TypeOK
<1>2. todo # <<>> => Head(todo).pack \in Pack /\ next > now BY HeadIsCopy
<1>3. ASSUME todo # <<>>, StoreSlot(Head(todo).pack, next), tpc # "asleep", UNCHANGED runs
      PROVE  goal
  <2>1. CASE p = Head(todo).pack
    <3>1. packs'[p].slot = next /\ packs[p].there BY <1>2, <1>3, <2>1, StoreSlotMoves
    <3>2. Future(packs'[p].slot) BY <1>2, <1>3, <3>1 DEF Future
    <3> QED BY <1>3, <3>1, <3>2
  <2>2. CASE p # Head(todo).pack
    <3>1. packs'[p].slot = packs[p].slot /\ packs[p].there BY <1>2, <1>3, <2>2, StoreSlotMoves
    <3> QED BY <2>2, <3>1 DEF Firing
  <2> QED BY <2>1, <2>2
<1>4. ASSUME UNCHANGED packs, ~AdvanceSlot \/ faults' = faults + 1 PROVE goal
  <2>1. CASE UNCHANGED <<tpc, todo>> BY <1>4, <2>1 DEF Firing
  <2>2. CASE tpc # "advance" BY <1>4, <2>2 DEF Firing
  <2>3. CASE Restart BY <1>4, <2>3 DEF Restart
  <2>4. tpc # "advance" \/ UNCHANGED <<tpc, todo>> \/ Restart \/ AdvanceSlot
    BY DEF Next, Tick, BeginTick, ReadPacks, CountActiveRuns, EndTick, GiveFirstSlot, PassNotDue, CheckActive,
           SkipOccurrence, FireRun, TimePasses, PatchSchedule, Visiting, tick,
           RereadPack, NotifyScheduleChanged, StoreComputed, Answer, DeletePack, UserRun, RunEnds, vars
  <2>5. CASE faults' = faults + 1 BY <1>4, <2>5
  <2> QED BY <1>4, <2>1, <2>2, <2>3, <2>4, <2>5
<1>5. CASE GiveFirstSlot \/ SkipOccurrence \/ AdvanceSlot
  <2>1. todo # <<>> /\ tpc # "asleep" /\ UNCHANGED runs
    BY <1>5 DEF GiveFirstSlot, SkipOccurrence, AdvanceSlot, Visiting, TypeInv, TypeOK
  <2>2. \/ StoreSlot(Head(todo).pack, next)
        \/ UNCHANGED packs /\ faults' = faults + 1
    BY <1>5 DEF GiveFirstSlot, SkipOccurrence, AdvanceSlot, AbortTick, Fails
  <2> QED BY <1>3, <1>4, <2>1, <2>2
<1>6. ASSUME NEW c \in Client, PatchSchedule(c) PROVE goal
  <2>1. PICK q \in Pack, on \in BOOLEAN, every \in Period :
          packs[q].there /\ packs' = [packs EXCEPT ![q].enabled = on, ![q].every = every]
    BY <1>6 DEF PatchSchedule
  <2>2. packs[q] \in Row BY <1>1, <2>1 DEF NoRow
  <2>3. packs' = [packs EXCEPT ![q] = [packs[q] EXCEPT !.enabled = on, !.every = every]] BY <2>1
  <2>4. [packs[q] EXCEPT !.enabled = on, !.every = every].slot = packs[q].slot BY <2>2 DEF Row
  <2>5. packs[p].there /\ packs'[p].slot = packs[p].slot BY <1>1, <2>1, <2>3, <2>4
  <2>6. UNCHANGED <<tpc, todo>> BY <1>6 DEF PatchSchedule, tick
  <2> QED BY <2>5, <2>6 DEF Firing
<1>7. ASSUME NEW c \in Client, NotifyScheduleChanged(c) PROVE goal
  <2>1. patch[c].at = "reread" /\ UNCHANGED <<runs, tpc, todo>>
    BY <1>7 DEF NotifyScheduleChanged, tick
  <2>2. patch[c] \in Asked BY DEF TypeInv
  <2>3. patch[c].pack \in Pack BY <2>1, <2>2 DEF Asked, Unsent, Answered
  <2>4. UNCHANGED packs \/ StoreSlot(patch[c].pack, NoSlot) BY <1>7 DEF NotifyScheduleChanged
  <2>5. packs[p].there /\ (packs'[p].slot = packs[p].slot \/ packs'[p].slot = NoSlot)
    BY <2>3, <2>4, StoreSlotMoves
  <2> QED BY <2>1, <2>5 DEF Firing, Future
<1>7a. ASSUME NEW c \in Client, StoreComputed(c) PROVE goal
  <2> DEFINE q == patch[c].pack
             slot == patch[c].slot
  <2>1. /\ patch[c].at = "computed" /\ StoreSlot(q, slot) /\ UNCHANGED <<runs, tpc, todo>>
        /\ slot <= clock => <<q, slot>> \in late'
    BY <1>7a DEF StoreComputed, tick
  <2>2. patch[c] \in Asked BY DEF TypeInv
  <2>3. q \in Pack /\ slot \in Nat BY <2>1, <2>2 DEF Asked, Unsent, Answered
  <2>4. slot > clock \/ <<q, slot>> \in late' BY <2>1, <2>3, TimesAreNat
  <2> HIDE DEF q, slot
  <2>5. /\ packs[p].there
        /\ p # q => packs'[p].slot = packs[p].slot
        /\ p = q => packs'[p].slot = slot
    BY <2>1, <2>3, StoreSlotMoves
  <2> QED BY <2>1, <2>4, <2>5 DEF Firing, Future
<1>8. ASSUME NEW q \in Pack, DeletePack(q) PROVE goal
  <2>1. packs' = [packs EXCEPT ![q] = NoRow] /\ UNCHANGED <<tpc, todo>>
    BY <1>8 DEF DeletePack, tick
  <2>2. p # q BY <1>1, <2>1 DEF NoRow
  <2> QED BY <1>1, <2>1, <2>2 DEF Firing
<1>9. CASE UNCHANGED packs BY <1>4, <1>5, <1>9
<1>10. \/ GiveFirstSlot \/ SkipOccurrence \/ AdvanceSlot \/ UNCHANGED packs
       \/ \E c \in Client : PatchSchedule(c) \/ NotifyScheduleChanged(c) \/ StoreComputed(c)
       \/ \E q \in Pack : DeletePack(q)
  BY DEF Next, Tick, BeginTick, ReadPacks, CountActiveRuns, EndTick, PassNotDue, CheckActive, FireRun,
         TimePasses, Restart, Answer, RereadPack, UserRun, RunEnds, vars
<1> QED BY <1>5, <1>6, <1>7, <1>7a, <1>8, <1>9, <1>10

\* What lies in the future is later than every occurrence fired.
LEMMA FutureIsAhead ==
  ASSUME TypeInv, TodoInv, SlotInv, Undisturbed, NEW p \in Pack, NEW slot \in Nat, Future(slot)
  PROVE  Ahead(p, slot)
<1>1. \A i \in ScheduledBy(p) : runs[i].slot \in Nat
  <2>1. \A i \in DOMAIN runs : runs[i] \in RunRow BY DEF TypeInv, TypeOK
  <2> QED BY <2>1 DEF RunRow, ScheduledBy
<1>2. now \in Nat /\ clock \in Nat BY TimesAreNat
<1> QED BY <1>1, <1>2 DEF Future, Ahead, SlotInv

\* Only a run that is fired is struck off the late ones.
LEMMA LateIsKept ==
  ASSUME [Next]_vars, ~FireRun \/ runs' = runs
  PROVE  late \subseteq late'
BY DEF Next, Tick, BeginTick, ReadPacks, CountActiveRuns, EndTick, GiveFirstSlot, PassNotDue, CheckActive,
       SkipOccurrence, FireRun, AdvanceSlot, TimePasses, Restart, PatchSchedule,
       RereadPack, NotifyScheduleChanged, StoreComputed, Answer, DeletePack, UserRun, RunEnds, request, vars

LEMMA NextSlotInv == TypeInv /\ TodoInv /\ SlotInv /\ [Next]_vars => SlotInv'
<1> SUFFICES ASSUME TypeInv, TodoInv, SlotInv, [Next]_vars, Undisturbed' PROVE SlotInv'
  BY DEF SlotInv
<1>1. faults \in Nat /\ crashes \in Nat BY DEF TypeInv
<1>2. faults' \in {faults, faults + 1} /\ crashes' \in {crashes, crashes + 1}
  BY DEF Next, Tick, BeginTick, ReadPacks, CountActiveRuns, EndTick, GiveFirstSlot, PassNotDue, CheckActive,
         SkipOccurrence, FireRun, AdvanceSlot, Works, Fails, TimePasses, Restart, PatchSchedule,
         RereadPack, NotifyScheduleChanged, StoreComputed, Answer, DeletePack, UserRun, RunEnds, budget, vars
<1>3. Undisturbed /\ faults' # faults + 1 /\ crashes' # crashes + 1
  BY <1>1, <1>2 DEF Undisturbed
<1>4. /\ \A p \in Pack : \A i \in ScheduledBy(p) :
           runs[i].slot <= clock /\ (tpc # "asleep" => runs[i].slot <= now)
      /\ \A p \in Pack : packs[p].there /\ ~Firing(p) => Ahead(p, packs[p].slot)
      /\ \A k \in DOMAIN todo : ~Firing(todo[k].pack) => Ahead(todo[k].pack, todo[k].slot)
  BY <1>3 DEF SlotInv
<1>5. now \in Nat /\ clock \in Nat /\ clock' \in Nat /\ clock <= clock'
  <2>1. clock' = clock \/ clock' = clock + 1
    BY DEF Next, Tick, BeginTick, ReadPacks, CountActiveRuns, EndTick, GiveFirstSlot, PassNotDue, CheckActive,
           SkipOccurrence, FireRun, AdvanceSlot, TimePasses, Restart, PatchSchedule,
           RereadPack, NotifyScheduleChanged, StoreComputed, Answer, DeletePack, UserRun, RunEnds, vars
  <2> QED BY <2>1, TimesAreNat
<1>6. todo \in Seq(PackCopy) /\ runs \in Seq(RunRow) BY DEF TypeInv, TypeOK
<1>7. \A i \in DOMAIN runs : runs[i].slot \in Nat
  <2>1. \A i \in DOMAIN runs : runs[i] \in RunRow BY <1>6
  <2> QED BY <2>1 DEF RunRow
<1>8. CASE ~FireRun \/ runs' = runs
  <2>1. RunsKept
    <3>1. CASE runs' = runs BY <3>1 DEF RunsKept
    <3> QED BY <1>8, <3>1, OnlyFireRunAdds
  <2>2. \A p : \A i \in ScheduledBy(p)' : i \in ScheduledBy(p) /\ runs'[i].slot = runs[i].slot
    BY <2>1, KeptRunsFired
  <2>2a. late \subseteq late' BY <1>8, LateIsKept
  <2>3. ASSUME NEW p \in Pack, NEW i \in ScheduledBy(p)'
        PROVE  runs'[i].slot <= clock' /\ (tpc' # "asleep" => runs'[i].slot <= now')
    <3>1. i \in ScheduledBy(p) /\ runs'[i].slot = runs[i].slot /\ runs[i].slot \in Nat
      BY <1>7, <2>2 DEF ScheduledBy
    <3>2. tpc' # "asleep" => now' = clock \/ (now' = now /\ tpc # "asleep") BY TodoMoves
    <3> QED BY <1>4, <1>5, <3>1, <3>2
  <2>4. ASSUME NEW p \in Pack, packs'[p].there, ~Firing(p)' PROVE Ahead(p, packs[p].slot)'
    <3>1. /\ packs[p].there
          /\ \/ packs'[p].slot = packs[p].slot /\ ~Firing(p)
             \/ Future(packs'[p].slot)
             \/ <<p, packs'[p].slot>> \in late'
      BY <1>3, <2>4, RowsMove
    <3>2. packs'[p].slot \in Nat
      <4>1. packs'[p] \in Row BY <2>4, NextTypeInv DEF TypeInv, TypeOK, NoRow
      <4> QED BY <4>1 DEF Row
    <3>3. Ahead(p, packs'[p].slot) \/ <<p, packs'[p].slot>> \in late'
      BY <1>3, <1>4, <3>1, <3>2, FutureIsAhead
    <3> QED BY <2>2, <2>2a, <3>3 DEF Ahead
  <2>5. ASSUME NEW k \in (DOMAIN todo)', ~Firing(todo[k].pack)'
        PROVE  Ahead(todo[k].pack, todo[k].slot)'
    <3>1. CASE todo' = <<>> BY <3>1
    <3>2. CASE tpc = "read" /\ todo' \in Snapshots
      <4>1. tpc # "advance" BY <3>2
      <4>2. todo'[k].pack \in Pack /\ packs[todo'[k].pack].there
            /\ todo'[k].slot = packs[todo'[k].pack].slot
        <5>1. todo' \in Seq(PackCopy) BY <3>2, SnapshotIsCopies
        <5>2. todo'[k] \in PackCopy BY <5>1
        <5>3. todo'[k].pack \in Pack BY <5>2 DEF PackCopy
        <5> QED BY <3>2, <5>3, SnapshotIsCopies
      <4> QED BY <1>4, <2>2, <2>2a, <4>1, <4>2 DEF Firing, Ahead
    <3>3. CASE todo # <<>> /\ todo' = Tail(todo)
      <4>1. k + 1 \in DOMAIN todo /\ todo'[k] = todo[k + 1] /\ todo[k + 1].pack # Head(todo).pack
        BY <1>6, <3>3, TailIsLater DEF TodoInv
      <4>2. Ahead(todo[k + 1].pack, todo[k + 1].slot) BY <1>4, <4>1 DEF Firing
      <4> QED BY <2>2, <2>2a, <4>1, <4>2 DEF Ahead
    <3>4. CASE todo' = todo /\ (tpc = "advance" => tpc' = "advance")
      <4>1. ~Firing(todo[k].pack) BY <2>5, <3>4 DEF Firing
      <4> QED BY <1>4, <2>2, <2>2a, <3>4, <4>1 DEF Ahead
    <3> QED BY <3>1, <3>2, <3>3, <3>4, TodoMoves
  <2> QED BY <2>3, <2>4, <2>5 DEF SlotInv
<1>9. CASE FireRun /\ runs' # runs
  <2> DEFINE n == Len(runs) + 1
  <2>1. PICK run \in RunRow :
          /\ runs' = Append(runs, run) /\ run.by = "scheduler"
          /\ run.pack = Head(todo).pack /\ run.slot = Head(todo).slot
    BY <1>9, FireRunAdds
  <2>2. /\ tpc = "fire" /\ tpc' = "advance" /\ UNCHANGED <<clock, packs, now, todo>>
        /\ todo # <<>>
    BY <1>9 DEF FireRun, TypeInv, TypeOK
  <2>3. run.slot # NoSlot /\ run.slot <= now /\ now <= clock /\ run.slot \in Nat
    BY <2>1, <2>2, HeadIsCopy DEF TodoInv
  <2>4. \A p, slot : p # run.pack /\ <<p, slot>> \in late => <<p, slot>> \in late'
    BY <1>9, <2>1 DEF FireRun
  <2>5. /\ \A i \in DOMAIN runs' : i = n \/ (i \in DOMAIN runs /\ runs'[i] = runs[i] /\ i < n)
        /\ runs'[n] = run
    <3>1. /\ DOMAIN runs' = 1..(Len(runs) + 1) /\ DOMAIN runs = 1..Len(runs)
          /\ \A i \in DOMAIN runs : runs'[i] = runs[i]
          /\ runs'[n] = run
      BY <1>6, <2>1
    <3>2. \A i \in DOMAIN runs' : (i \in DOMAIN runs /\ i < n) \/ i = n BY <1>6, <3>1
    <3> QED BY <3>1, <3>2
  <2>6. n \in Nat BY <1>6
  <2> HIDE DEF n
  <2>7. \A p : p # run.pack => ScheduledBy(p)' \subseteq ScheduledBy(p)
               /\ \A i \in ScheduledBy(p)' : runs'[i] = runs[i]
    BY <2>5 DEF ScheduledBy
  <2>8. \A i \in ScheduledBy(run.pack)' :
          (i = n /\ runs'[i] = run) \/ (i \in ScheduledBy(run.pack) /\ i < n /\ runs'[i] = runs[i])
    BY <2>5 DEF ScheduledBy
  <2>9. \A p \in Pack : \A i \in ScheduledBy(p)' :
          runs'[i].slot <= clock' /\ (tpc' # "asleep" => runs'[i].slot <= now')
    <3>1. \A p \in Pack : \A i \in ScheduledBy(p)' : runs'[i].slot <= now
      BY <1>4, <2>2, <2>3, <2>7, <2>8
    <3>2. \A p \in Pack : \A i \in ScheduledBy(p)' : runs'[i].slot \in Nat
      BY <1>7, <2>3, <2>5 DEF ScheduledBy
    <3> QED BY <1>5, <2>2, <2>3, <3>1, <3>2
  <2>10. \A p : ~Firing(p)' => p # run.pack /\ ~Firing(p) BY <2>1, <2>2 DEF Firing
  <2>11. ASSUME NEW p \in Pack, packs'[p].there, ~Firing(p)' PROVE Ahead(p, packs[p].slot)'
    <3>1. p # run.pack /\ Ahead(p, packs[p].slot) BY <1>4, <2>2, <2>10, <2>11
    <3> QED BY <2>2, <2>4, <2>7, <3>1 DEF Ahead
  <2>12. ASSUME NEW k \in (DOMAIN todo)', ~Firing(todo[k].pack)'
         PROVE  Ahead(todo[k].pack, todo[k].slot)'
    <3>1. todo[k].pack # run.pack /\ Ahead(todo[k].pack, todo[k].slot)
      BY <1>4, <2>2, <2>10, <2>12 DEF Firing
    <3> QED BY <2>2, <2>4, <2>7, <3>1 DEF Ahead
  <2> QED BY <2>9, <2>11, <2>12 DEF SlotInv
<1> QED BY <1>8, <1>9

\* What a step adds to a pack's scheduled runs is later than all of them, or
\* known to have been stored late.
LEMMA AddedRunIsAhead ==
  ASSUME TypeInv, TodoInv, SlotInv, [Next]_vars, faults' = 0, crashes' = 0,
         NEW p \in Pack, NEW j \in ScheduledBy(p)' \ ScheduledBy(p), NEW i \in ScheduledBy(p)
  PROVE  runs[i].slot < runs'[j].slot \/ <<p, runs'[j].slot>> \in late
<1>1. FireRun /\ runs' # runs
  <2>1. CASE ~FireRun
    <3>1. RunsKept BY <2>1, OnlyFireRunAdds
    <3> QED BY <3>1, KeptRunsFired
  <2>2. CASE runs' = runs BY <2>2 DEF ScheduledBy
  <2> QED BY <2>1, <2>2
<1>2. PICK run \in RunRow :
        /\ runs' = Append(runs, run)
        /\ run.pack = Head(todo).pack /\ run.slot = Head(todo).slot
        /\ faults' = faults \/ faults' = faults + 1
  BY <1>1, FireRunAdds
<1>3. runs \in Seq(RunRow) /\ todo \in Seq(PackCopy) BY DEF TypeInv, TypeOK
<1>4. runs'[j] = run
  <2>1. /\ DOMAIN runs' = 1..(Len(runs) + 1) /\ DOMAIN runs = 1..Len(runs)
        /\ \A k \in DOMAIN runs : runs'[k] = runs[k]
        /\ runs'[Len(runs) + 1] = run
    BY <1>2, <1>3
  <2>2. \A k \in DOMAIN runs' : k \in DOMAIN runs \/ k = Len(runs) + 1 BY <1>3, <2>1
  <2> QED BY <2>1, <2>2 DEF ScheduledBy
<1>5. Undisturbed
  <2>1. faults \in Nat /\ crashes' = crashes BY <1>1 DEF TypeInv, FireRun
  <2> QED BY <1>2, <2>1 DEF Undisturbed
<1>6. tpc = "fire" /\ todo # <<>> BY <1>1 DEF FireRun, TypeInv, TypeOK
<1>7. 1 \in DOMAIN todo /\ Head(todo) = todo[1] BY <1>3, <1>6, TailIsLater
<1>8. Ahead(Head(todo).pack, Head(todo).slot) BY <1>5, <1>6, <1>7 DEF SlotInv, Firing
<1>9. Head(todo).slot # NoSlot BY <1>6 DEF TodoInv
<1>10. p = run.pack BY <1>4 DEF ScheduledBy
<1> QED BY <1>2, <1>4, <1>8, <1>9, <1>10 DEF Ahead

\* While no storage call fails and no process dies, an occurrence of a pack's
\* schedule fires at most once, and never after a later one, whatever PATCH
\* requests, skipped occurrences and other runs do to the slot meanwhile; but
\* for one that notify_schedule_changed computed before its time and stored
\* after it, which may fire once more each time.
THEOREM OccurrenceFiresOnceHolds == Spec => OccurrenceFiresOnce
<1>1. TypeInv /\ TodoInv /\ SlotInv /\ [Next]_vars =>
        [faults' = 0 /\ crashes' = 0 =>
           \A p \in Pack : \A j \in ScheduledBy(p)' \ ScheduledBy(p) : \A i \in ScheduledBy(p) :
             runs[i].slot < runs'[j].slot \/ <<p, runs'[j].slot>> \in late]_vars
  BY AddedRunIsAhead
<1> QED BY InitTypeInv, NextTypeInv, InitSlotInv, NextTodoInv, NextSlotInv, <1>1, PTL
  DEF Spec, OccurrenceFiresOnce
=============================================================================
