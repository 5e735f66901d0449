-------------------------- MODULE Migrations_proofs --------------------------
(***************************************************************************)
(* Proofs about Migrations, for any processes, any number of migrations,   *)
(* any number of connection attempts and of faults.                        *)
(*                                                                         *)
(* The invariant needs one fact that is not a property: the row lock.  A   *)
(* transaction that has inserted its version holds it alone and the        *)
(* version is not committed yet, so its commit cannot be a second one.     *)
(***************************************************************************)
EXTENDS Migrations, FiniteSetTheorems, TLAPS

OneHolder ==
    \A p \in Procs : stage[p] = "commit" =>
       /\ at[p] \notin record
       /\ \A q \in Procs : stage[q] = "commit" /\ at[q] = at[p] => q = p

IInv == TypeOK /\ RecordedIffAppliedOnce /\ InFilenameOrder /\ OneHolder

-----------------------------------------------------------------------------
\* The first states satisfy the invariant: nothing is recorded.
LEMMA InitIInv == Init => IInv
BY MigrationsAssumption
   DEF Init, IInv, TypeOK, RecordedIffAppliedOnce, InFilenameOrder, OneHolder, Versions, Stages

\* A commit keeps the facts about the schema: it adds the first version that
\* is not recorded.
LEMMA CommittedKeeps ==
    ASSUME IInv, NEW p \in Procs, stage[p] = "commit", Committed(at[p]),
           at' \in [Procs -> 1..(NumMigrations + 1)],
           \A q \in Procs : at'[q] = at[q] \/ (q = p /\ at'[q] = at[q] + 1),
           stage' \in [Procs -> Stages],
           stage'[p] \in {"down", "check"},
           \A q \in Procs : q # p => stage'[q] = stage[q]
    PROVE  /\ record' \subseteq Versions /\ effect' \in [Versions -> Nat]
           /\ RecordedIffAppliedOnce' /\ InFilenameOrder' /\ OneHolder'
<1> DEFINE v == at[p]
<1>1. v \in Versions /\ v \notin record /\ 1..(v - 1) \subseteq record
  BY DEF IInv, TypeOK, OneHolder, InFilenameOrder
<1>2. record' = record \cup {v} /\ effect' = [effect EXCEPT ![v] = @ + 1]
  BY DEF Committed
<1>3. record \subseteq Versions /\ effect \in [Versions -> Nat]
  BY DEF IInv, TypeOK
<1>4. record' \subseteq Versions /\ effect' \in [Versions -> Nat]
  BY <1>1, <1>2, <1>3
<1>5. RecordedIffAppliedOnce'
  <2>1. \A w \in Versions : effect[w] = IF w \in record THEN 1 ELSE 0
    BY DEF IInv, RecordedIffAppliedOnce
  <2> QED
    BY <1>1, <1>2, <1>3, <2>1 DEF RecordedIffAppliedOnce
<1>6. InFilenameOrder'
  <2>1. \A w \in record' : 1..w \subseteq record'
    <3>1. v \in Nat \ {0} /\ 1..v = 1..(v - 1) \cup {v}
      BY <1>1, MigrationsAssumption DEF Versions
    <3> QED
      BY <1>1, <1>2, <3>1 DEF IInv, InFilenameOrder
  <2>2. \A q \in Procs : 1..(at'[q] - 1) \subseteq record'
    <3> SUFFICES ASSUME NEW q \in Procs PROVE 1..(at'[q] - 1) \subseteq record'
      OBVIOUS
    <3>1. CASE at'[q] = at[q]
      BY <1>2, <3>1 DEF IInv, InFilenameOrder
    <3>2. CASE q = p /\ at'[q] = at[q] + 1
      <4>1. at'[q] - 1 = v
        BY <1>1, <3>2, MigrationsAssumption DEF Versions
      <4> QED
        BY <1>2, <2>1, <4>1
    <3> QED
      BY <3>1, <3>2
  <2>3. \A q \in Procs : stage'[q] = "running" => record' = Versions
    BY <1>1, <1>2 DEF IInv, InFilenameOrder
  <2> QED
    BY <2>1, <2>2, <2>3 DEF InFilenameOrder
<1>7. OneHolder'
  <2> SUFFICES ASSUME NEW q \in Procs, stage'[q] = "commit"
               PROVE  /\ at'[q] \notin record'
                      /\ \A r \in Procs : stage'[r] = "commit" /\ at'[r] = at'[q] => r = q
    BY DEF OneHolder
  <2>1. q # p /\ stage[q] = "commit" /\ at'[q] = at[q]
    OBVIOUS
  <2>2. at[q] # v /\ at[q] \notin record
    BY <2>1 DEF IInv, OneHolder
  <2>3. \A r \in Procs : stage'[r] = "commit" => r # p /\ stage[r] = "commit" /\ at'[r] = at[r]
    OBVIOUS
  <2> QED
    BY <1>2, <2>1, <2>2, <2>3 DEF IInv, OneHolder
<1> QED
  BY <1>4, <1>5, <1>6, <1>7

\* Every step keeps the invariant.
LEMMA NextIInv == IInv /\ [Next]_vars => IInv'
<1> SUFFICES ASSUME IInv, [Next]_vars PROVE IInv'
  OBVIOUS
<1>1. ASSUME NEW p \in Procs, Start(p) PROVE IInv'
  BY <1>1, MigrationsAssumption
     DEF Start, IInv, TypeOK, RecordedIffAppliedOnce, InFilenameOrder, OneHolder, Versions, Stages,
          Schema, Go, Fault
<1>2. ASSUME NEW p \in Procs, Connect(p) PROVE IInv'
  BY <1>2, MigrationsAssumption
     DEF Connect, IInv, TypeOK, RecordedIffAppliedOnce, InFilenameOrder, OneHolder, Versions, Stages,
          Schema, Go, Fault
<1>3. ASSUME NEW p \in Procs, ConnectFails(p) PROVE IInv'
  <2>1. CASE tries[p] = Attempts - 1
    <3>1. stage' = [stage EXCEPT ![p] = "down"] /\ UNCHANGED <<up, record, effect, at, tries, faults>>
      BY <1>3, <2>1 DEF ConnectFails, Go, Schema
    <3> QED
      BY <3>1 DEF IInv, TypeOK, RecordedIffAppliedOnce, InFilenameOrder, OneHolder, Versions, Stages
  <2>2. CASE tries[p] # Attempts - 1
    <3>1. tries' = [tries EXCEPT ![p] = @ + 1] /\ UNCHANGED <<up, record, effect, stage, at, faults>>
      BY <1>3, <2>2 DEF ConnectFails, Go, Schema
    <3>2. tries' \in [Procs -> 0..(Attempts - 1)]
      BY <2>2, <3>1, MigrationsAssumption DEF IInv, TypeOK
    <3> QED
      BY <3>1, <3>2 DEF IInv, TypeOK, RecordedIffAppliedOnce, InFilenameOrder, OneHolder, Versions, Stages
  <2> QED
    BY <2>1, <2>2
<1>4. ASSUME NEW p \in Procs, CreateTable(p) PROVE IInv'
  BY <1>4, MigrationsAssumption
     DEF CreateTable, IInv, TypeOK, RecordedIffAppliedOnce, InFilenameOrder, OneHolder, Versions, Stages,
          Schema, Go, Fault
<1>5. ASSUME NEW p \in Procs, Check(p) PROVE IInv'
  <2>1. UNCHANGED <<up, record, effect, tries, faults>>
    BY <1>5 DEF Check, Schema
  <2>2. CASE at[p] > NumMigrations
    <3>1. stage' = [stage EXCEPT ![p] = "running"] /\ UNCHANGED at
      BY <1>5, <2>2 DEF Check, Go
    <3>2. at[p] - 1 = NumMigrations
      BY <2>2, MigrationsAssumption DEF IInv, TypeOK
    <3>3. record = Versions
      BY <3>2 DEF IInv, TypeOK, InFilenameOrder, Versions
    <3> QED
      BY <2>1, <3>1, <3>3 DEF IInv, TypeOK, RecordedIffAppliedOnce, InFilenameOrder, OneHolder, Stages
  <2>3. CASE ~(at[p] > NumMigrations) /\ at[p] \in record
    <3>1. at' = [at EXCEPT ![p] = @ + 1] /\ UNCHANGED stage /\ stage[p] = "check"
      BY <1>5, <2>3 DEF Check, Applied
    <3>2. at' \in [Procs -> 1..(NumMigrations + 1)]
      BY <2>3, <3>1, MigrationsAssumption DEF IInv, TypeOK
    <3>3. 1..(at'[p] - 1) \subseteq record'
      <4>1. at'[p] - 1 = at[p]
        BY <3>1 DEF IInv, TypeOK
      <4> QED
        BY <2>1, <2>3, <4>1 DEF IInv, InFilenameOrder
    <3> QED
      BY <2>1, <3>1, <3>2, <3>3
         DEF IInv, TypeOK, RecordedIffAppliedOnce, InFilenameOrder, OneHolder
  <2>4. CASE ~(at[p] > NumMigrations) /\ at[p] \notin record
    <3>1. stage' = [stage EXCEPT ![p] = "begin"] /\ UNCHANGED at
      BY <1>5, <2>4 DEF Check, Applied, Go
    <3>2. at[p] \in Versions
      BY <2>4, MigrationsAssumption DEF IInv, TypeOK, Versions
    <3> QED
      BY <2>1, <3>1, <3>2
         DEF IInv, TypeOK, RecordedIffAppliedOnce, InFilenameOrder, OneHolder, Stages
  <2> QED
    BY <2>2, <2>3, <2>4
<1>6. ASSUME NEW p \in Procs, BeginApply(p) PROVE IInv'
  BY <1>6, MigrationsAssumption
     DEF BeginApply, IInv, TypeOK, RecordedIffAppliedOnce, InFilenameOrder, OneHolder, Versions, Stages,
          Schema, Go, Fault
<1>7. ASSUME NEW p \in Procs, InsertRecord(p) PROVE IInv'
  BY <1>7, MigrationsAssumption
     DEF InsertRecord, Holders, IInv, TypeOK, RecordedIffAppliedOnce, InFilenameOrder, OneHolder, Versions, Stages,
          Schema, Go, Fault
<1>8. ASSUME NEW p \in Procs, Commit(p) PROVE IInv'
  <2>1. /\ stage[p] = "commit" /\ Committed(at[p])
        /\ at' = [at EXCEPT ![p] = @ + 1]
        /\ stage' = [stage EXCEPT ![p] = "check"]
        /\ UNCHANGED <<up, tries, faults>>
    BY <1>8 DEF Commit, Go
  <2>2. at' \in [Procs -> 1..(NumMigrations + 1)] /\ stage' \in [Procs -> Stages]
    BY <2>1, MigrationsAssumption DEF IInv, TypeOK, Versions, Stages
  <2>3. /\ \A q \in Procs : at'[q] = at[q] \/ (q = p /\ at'[q] = at[q] + 1)
        /\ stage'[p] = "check" /\ \A q \in Procs : q # p => stage'[q] = stage[q] /\ at'[q] = at[q]
    BY <2>1 DEF IInv, TypeOK
  <2>4. /\ record' \subseteq Versions /\ effect' \in [Versions -> Nat]
        /\ RecordedIffAppliedOnce' /\ InFilenameOrder' /\ OneHolder'
    BY <2>1, <2>2, <2>3, CommittedKeeps
  <2>5. \A q \in Procs : stage'[q] \in {"begin", "insert", "commit"} => at'[q] \in Versions
    BY <2>3 DEF IInv, TypeOK
  <2> QED
    BY <2>1, <2>2, <2>4, <2>5 DEF IInv, TypeOK, Versions
<1>9. ASSUME NEW p \in Procs, Fails(p) PROVE IInv'
  <2>1. stage' = [stage EXCEPT ![p] = "down"] /\ UNCHANGED <<up, at, tries>>
    BY <1>9 DEF Fails, Go
  <2>2. faults' \in 0..MaxFaults
    BY <1>9, MigrationsAssumption DEF Fails, Fault, IInv, TypeOK
  <2>3. stage' \in [Procs -> Stages] /\ at' \in [Procs -> 1..(NumMigrations + 1)]
    BY <2>1 DEF IInv, TypeOK, Stages
  <2>4. stage'[p] = "down" /\ \A q \in Procs : q # p => stage'[q] = stage[q]
    BY <2>1 DEF IInv, TypeOK
  <2>5. CASE UNCHANGED <<record, effect>>
    BY <2>1, <2>2, <2>3, <2>4, <2>5
       DEF IInv, TypeOK, RecordedIffAppliedOnce, InFilenameOrder, OneHolder, Versions
  <2>6. CASE stage[p] = "commit" /\ Committed(at[p])
    <3>1. /\ record' \subseteq Versions /\ effect' \in [Versions -> Nat]
          /\ RecordedIffAppliedOnce' /\ InFilenameOrder' /\ OneHolder'
      BY <2>1, <2>3, <2>4, <2>6, CommittedKeeps
    <3> QED
      BY <2>1, <2>2, <2>3, <2>4, <3>1 DEF IInv, TypeOK, Versions
  <2> QED
    BY <1>9, <2>5, <2>6 DEF Fails, Schema
<1>10. ASSUME NEW p \in Procs, Finish(p) PROVE IInv'
  BY <1>10, MigrationsAssumption
     DEF Finish, IInv, TypeOK, RecordedIffAppliedOnce, InFilenameOrder, OneHolder, Versions, Stages,
          Schema, Go, Fault
<1>11. CASE DbDown \/ DbUp
  <2>1. up' \in BOOLEAN
    BY <1>11, Zenon DEF DbDown, DbUp
  <2>2. UNCHANGED <<record, effect, stage, at, tries>>
    BY <1>11 DEF DbDown, DbUp, Schema
  <2>3. faults' \in 0..MaxFaults
    BY <1>11, MigrationsAssumption DEF DbDown, DbUp, Fault, IInv, TypeOK
  <2> QED
    BY <2>1, <2>2, <2>3
       DEF IInv, TypeOK, RecordedIffAppliedOnce, InFilenameOrder, OneHolder, Versions
<1>12. CASE UNCHANGED vars
  BY <1>12
     DEF vars, IInv, TypeOK, RecordedIffAppliedOnce, InFilenameOrder, OneHolder, Versions
<1> QED
  BY <1>1, <1>2, <1>3, <1>4, <1>5, <1>6, <1>7, <1>8, <1>9, <1>10, <1>11, <1>12
     DEF Next, Step

\* Type correctness of the runner, in every reachable state.
THEOREM TypeCorrect == Spec => []TypeOK
<1>1. IInv => TypeOK
  BY DEF IInv
<1> QED
  BY InitIInv, NextIInv, <1>1, PTL DEF Spec

\* A migration is recorded exactly when its SQL has taken effect, and it
\* takes effect once, for any number of racing and failing processes
\* (applyOne's transaction and the primary key).
THEOREM AppliedOnce == Spec => []RecordedIffAppliedOnce
<1>1. IInv => RecordedIffAppliedOnce
  BY DEF IInv
<1> QED
  BY InitIInv, NextIInv, <1>1, PTL DEF Spec

\* Migrations are applied in the order of their files, and a process that is
\* past Migrate has all of them (Migrate's loop).
THEOREM AppliedInOrder == Spec => []InFilenameOrder
<1>1. IInv => InFilenameOrder
  BY DEF IInv
<1> QED
  BY InitIInv, NextIInv, <1>1, PTL DEF Spec

-----------------------------------------------------------------------------
(* The refinement.                                                         *)

Version == Cardinality(record)
Users   == {p \in Procs : stage[p] = "running"}

\* The number of versions recorded is a version, the last one just when all
\* are recorded.
LEMMA VersionBound ==
    ASSUME TypeOK
    PROVE  /\ IsFiniteSet(record)
           /\ Version \in Nat
           /\ Version <= NumMigrations
           /\ Version = NumMigrations <=> record = Versions
<1>1. IsFiniteSet(Versions) /\ Cardinality(Versions) = NumMigrations
  <2>1. 1 \in Int /\ NumMigrations \in Int /\ NumMigrations \in Nat
    BY MigrationsAssumption
  <2>2. IsFiniteSet(1..NumMigrations)
        /\ Cardinality(1..NumMigrations) = IF 1 > NumMigrations THEN 0 ELSE NumMigrations - 1 + 1
    BY <2>1, FS_Interval
  <2> QED
    BY <2>1, <2>2 DEF Versions
<1>2. record \in SUBSET Versions
  BY DEF TypeOK
<1>3. /\ IsFiniteSet(record)
      /\ Cardinality(record) <= Cardinality(Versions)
      /\ Cardinality(Versions) = Cardinality(record) => Versions = record
  BY <1>1, <1>2, FS_Subset
<1> QED
  BY <1>1, <1>3, FS_CardinalityType DEF Version

\* A commit of a version that is not there yet is the next abstract version.
LEMMA CommitIsUpgrade ==
    ASSUME IInv, NEW v \in Versions, v \notin record, Committed(v), Users' = Users
    PROVE  Promise!Upgrade
<1>1. IsFiniteSet(record) /\ Version \in Nat /\ Version < NumMigrations
  BY VersionBound, MigrationsAssumption DEF IInv
<1>2. Cardinality(record') = Cardinality(record) + 1
  BY <1>1, FS_AddElement DEF Committed
<1> QED
  BY <1>1, <1>2 DEF Promise!Upgrade, Version, Users

\* Every step is an abstract step or changes nothing that the abstract
\* specification sees.
LEMMA StepRefines == IInv /\ [Next]_vars => [Promise!Next]_<<Version, Users>>
<1> SUFFICES ASSUME IInv, [Next]_vars, ~UNCHANGED <<Version, Users>>
             PROVE  Promise!Next
  OBVIOUS
<1> USE DEF Go, Schema
<1>1. stage \in [Procs -> Stages] /\ at \in [Procs -> 1..(NumMigrations + 1)]
  BY DEF IInv, TypeOK
<1>2. ASSUME NEW p \in Procs, Start(p) \/ Connect(p) \/ ConnectFails(p) \/ CreateTable(p)
                              \/ BeginApply(p) \/ InsertRecord(p)
      PROVE  FALSE
  <2>1. record' = record
    BY <1>2 DEF Start, Connect, ConnectFails, CreateTable, BeginApply, InsertRecord
  <2>2. \A q \in Procs : stage'[q] = "running" <=> stage[q] = "running"
    BY <1>1, <1>2 DEF Start, Connect, ConnectFails, CreateTable, BeginApply, InsertRecord
  <2> QED
    BY <2>1, <2>2 DEF Version, Users
<1>3. ASSUME NEW p \in Procs, Check(p) PROVE Promise!Next
  <2>1. record' = record /\ Version' = Version
    BY <1>3 DEF Check, Version
  <2>2. CASE at[p] > NumMigrations
    <3>1. Users' = Users \cup {p}
      BY <1>1, <1>3, <2>2 DEF Check, Users
    <3>2. record = Versions
      <4>1. at[p] - 1 = NumMigrations
        BY <1>1, <2>2, MigrationsAssumption
      <4> QED
        BY <4>1 DEF IInv, TypeOK, InFilenameOrder, Versions
    <3>3. Version = NumMigrations
      BY <3>2, VersionBound DEF IInv
    <3>4. Promise!Enter(p)
      BY <2>1, <3>1, <3>3 DEF Promise!Enter, Version, Users
    <3> QED
      BY <3>4 DEF Promise!Next
  <2>3. CASE ~(at[p] > NumMigrations)
    <3>1. Users' = Users
      BY <1>1, <1>3, <2>3 DEF Check, Users
    <3> QED
      BY <2>1, <3>1
  <2> QED
    BY <2>2, <2>3
<1>4. ASSUME NEW p \in Procs, Commit(p) PROVE Promise!Next
  <2>1. Users' = Users
    BY <1>1, <1>4 DEF Commit, Users
  <2>2. at[p] \in Versions /\ at[p] \notin record /\ Committed(at[p])
    BY <1>4 DEF Commit, IInv, TypeOK, OneHolder
  <2> QED
    BY <2>1, <2>2, CommitIsUpgrade DEF Promise!Next
<1>5. ASSUME NEW p \in Procs, Fails(p) \/ Finish(p) PROVE Promise!Next
  <2>1. Users' = Users \ {p}
    BY <1>1, <1>5 DEF Fails, Finish, Users
  <2>2. CASE stage[p] = "commit" /\ Committed(at[p])
    <3>1. Users' = Users
      BY <2>1, <2>2 DEF Users
    <3>2. at[p] \in Versions /\ at[p] \notin record
      BY <2>2 DEF IInv, TypeOK, OneHolder
    <3> QED
      BY <2>2, <3>1, <3>2, CommitIsUpgrade DEF Promise!Next
  <2>3. CASE record' = record
    <3>1. Version' = Version
      BY <2>3 DEF Version
    <3>2. CASE p \in Users
      <4>1. Promise!Leave(p)
        BY <2>1, <3>1, <3>2 DEF Promise!Leave, Version, Users
      <4> QED
        BY <4>1 DEF Promise!Next
    <3>3. CASE p \notin Users
      BY <2>1, <3>1, <3>3
    <3> QED
      BY <3>2, <3>3
  <2> QED
    BY <1>5, <2>2, <2>3 DEF Fails, Finish
<1>6. CASE DbDown \/ DbUp \/ UNCHANGED vars
  BY <1>6 DEF DbDown, DbUp, vars, Version, Users
<1> QED
  BY <1>2, <1>3, <1>4, <1>5, <1>6 DEF Next, Step

\* The runner implements SchemaVersion: the schema goes up by one version at
\* a time, is never taken back, and no process uses it before it is complete.
THEOREM MigrationsImplementSchemaVersion == Spec => ImplementsSchemaVersion
<1>1. Init => Promise!Init
  BY FS_EmptySet DEF Init, Promise!Init
<1>2. IInv /\ [Next]_vars => [Promise!Next]_<<Cardinality(record), {p \in Procs : stage[p] = "running"}>>
  BY StepRefines DEF Version, Users
<1> QED
  BY InitIInv, NextIInv, <1>1, <1>2, PTL DEF Spec, ImplementsSchemaVersion, Promise!Spec
=============================================================================
