----------------------------- MODULE Migrations -----------------------------
(***************************************************************************)
(* The start of an analytics process up to the point where it uses the     *)
(* schema (internal/store: Connect, Migrate, applyOne), run by several     *)
(* processes on one database: `serve` restarted by its supervisor and      *)
(* `seed` started by hand.  Stages of a process:                           *)
(*                                                                         *)
(*   down -> connect -> create -> check -> begin -> insert -> commit       *)
(*                                  ^ \                         |          *)
(*                                  |  +-> running              |          *)
(*                                  +---------------------------+          *)
(*                                                                         *)
(* A migration's transaction is open in the stages insert and commit.      *)
(***************************************************************************)
EXTENDS Integers, FiniteSets

CONSTANTS Procs,
          Supervised,     \* the processes that are restarted (compose: restart)
          NumMigrations,  \* files under migrations/, in filename order
          Attempts,       \* of Connect
          MaxFaults       \* bound: failing calls, kills and database outages

ASSUME MigrationsAssumption ==
    /\ NumMigrations \in Nat /\ Attempts \in Nat \ {0} /\ MaxFaults \in Nat
    /\ Supervised \subseteq Procs

VARIABLES
    up,       \* the database accepts connections
    record,   \* rows of schema_migrations
    effect,   \* how often the SQL of each migration has taken effect
    stage, at, tries,   \* of each process: stage, next file, failed attempts
    faults

vars == <<up, record, effect, stage, at, tries, faults>>

Versions == 1..NumMigrations
Stages   == {"down", "connect", "create", "check", "begin", "insert", "commit", "running"}

TypeOK ==
    /\ up \in BOOLEAN
    /\ record \subseteq Versions
    /\ effect \in [Versions -> Nat]
    /\ stage \in [Procs -> Stages]
    /\ at \in [Procs -> 1..(NumMigrations + 1)]
    /\ \A p \in Procs : stage[p] \in {"begin", "insert", "commit"} => at[p] \in Versions
    /\ tries \in [Procs -> 0..(Attempts - 1)]
    /\ faults \in 0..MaxFaults

Init ==
    /\ up \in BOOLEAN
    /\ record = {}
    /\ effect = [v \in Versions |-> 0]
    /\ stage = [p \in Procs |-> "down"]
    /\ at = [p \in Procs |-> 1]
    /\ tries = [p \in Procs |-> 0]
    /\ faults = 0

Fault == faults < MaxFaults /\ faults' = faults + 1

Go(p, s) == stage' = [stage EXCEPT ![p] = s]

Schema == <<record, effect>>

-----------------------------------------------------------------------------
Start(p) ==
    /\ stage[p] = "down"
    /\ Go(p, "connect")
    /\ at' = [at EXCEPT ![p] = 1]
    /\ tries' = [tries EXCEPT ![p] = 0]
    /\ UNCHANGED <<up, Schema, faults>>

\* Connect: a new pool and a Ping.
Connect(p) ==
    /\ stage[p] = "connect" /\ up
    /\ Go(p, "create")
    /\ UNCHANGED <<up, Schema, at, tries, faults>>

\* A failed attempt; the last one ends the process.
ConnectFails(p) ==
    /\ stage[p] = "connect" /\ ~up
    /\ IF tries[p] = Attempts - 1
       THEN Go(p, "down") /\ UNCHANGED tries
       ELSE tries' = [tries EXCEPT ![p] = @ + 1] /\ UNCHANGED stage
    /\ UNCHANGED <<up, Schema, at, faults>>

\* CREATE TABLE IF NOT EXISTS schema_migrations.
CreateTable(p) ==
    /\ stage[p] = "create"
    /\ Go(p, "check")
    /\ UNCHANGED <<up, Schema, at, tries, faults>>

\* Variant: a migration counts as applied as soon as somebody is at it.
Applied_Seen(v) == v \in record \/ \E p \in Procs : stage[p] = "commit" /\ at[p] = v

\* Variant: the check is dropped, for the primary key to find out.
Applied_Unchecked(v) == FALSE

\* SELECT EXISTS: committed rows only.
Applied(v) == v \in record

\* The loop over the files.
Check(p) ==
    /\ stage[p] = "check"
    /\ IF at[p] > NumMigrations THEN Go(p, "running") /\ UNCHANGED at
       ELSE IF Applied(at[p])   THEN at' = [at EXCEPT ![p] = @ + 1] /\ UNCHANGED stage
       ELSE Go(p, "begin") /\ UNCHANGED at
    /\ UNCHANGED <<up, Schema, tries, faults>>

\* applyOne: Begin and the SQL of the file.
BeginApply(p) ==
    /\ stage[p] = "begin"
    /\ Go(p, "insert")
    /\ UNCHANGED <<up, Schema, at, tries, faults>>

\* The other transactions that have inserted this version and not ended.
\* The primary key makes an insert wait for them.
Holders(p) == {q \in Procs \ {p} : stage[q] = "commit" /\ at[q] = at[p]}

\* Variant: ON CONFLICT DO NOTHING on the record.
InsertRecord_IgnoresConflict(p) ==
    /\ stage[p] = "insert" /\ Holders(p) = {}
    /\ Go(p, "commit")
    /\ UNCHANGED <<up, Schema, at, tries, faults>>

\* INSERT INTO schema_migrations: a committed row is an error, which rolls
\* back and ends the process.
InsertRecord(p) ==
    /\ stage[p] = "insert" /\ Holders(p) = {}
    /\ Go(p, IF at[p] \in record THEN "down" ELSE "commit")
    /\ UNCHANGED <<up, Schema, at, tries, faults>>

Committed(v) ==
    /\ record' = record \cup {v}
    /\ effect' = [effect EXCEPT ![v] = @ + 1]

Commit(p) ==
    /\ stage[p] = "commit"
    /\ Committed(at[p])
    /\ at' = [at EXCEPT ![p] = @ + 1]
    /\ Go(p, "check")
    /\ UNCHANGED <<up, tries, faults>>

\* A call returns an error, the context is canceled or the process is
\* killed: an open transaction is rolled back, or its commit is done and the
\* answer lost.  Every one of them ends the process.
Fails(p) ==
    /\ stage[p] # "down" /\ Fault
    /\ Go(p, "down")
    /\ UNCHANGED Schema \/ (stage[p] = "commit" /\ Committed(at[p]))
    /\ UNCHANGED <<up, at, tries>>

\* The service is shut down, or the seed run is over.
Finish(p) ==
    /\ stage[p] = "running"
    /\ Go(p, "down")
    /\ UNCHANGED <<up, Schema, at, tries, faults>>

\* The database stops or starts accepting connections.
DbDown == up /\ Fault /\ up' = FALSE /\ UNCHANGED <<Schema, stage, at, tries>>
DbUp   == ~up /\ up' = TRUE /\ UNCHANGED <<Schema, stage, at, tries, faults>>

Step(p) ==
    \/ Connect(p) \/ ConnectFails(p) \/ CreateTable(p) \/ Check(p)
    \/ BeginApply(p) \/ InsertRecord(p) \/ Commit(p)

Next ==
    \/ \E p \in Procs : Start(p) \/ Step(p) \/ Fails(p) \/ Finish(p)
    \/ DbDown \/ DbUp

Spec == Init /\ [][Next]_vars

\* A live process takes its next step, the supervisor restarts its own, and
\* the database comes up (compose starts both with restart: unless-stopped).
FairSpec ==
    /\ Spec
    /\ \A p \in Procs : WF_vars(Step(p))
    /\ \A p \in Supervised : WF_vars(Start(p))
    /\ WF_vars(DbUp)

-----------------------------------------------------------------------------
(* Properties.                                                             *)

\* However many processes race through the check and whatever fails in the
\* middle, a migration is recorded exactly when its SQL has taken effect, and
\* that happens once (applyOne: one transaction for both).
RecordedIffAppliedOnce ==
    \A v \in Versions : effect[v] = IF v \in record THEN 1 ELSE 0

\* The recorded versions are a prefix of the files, and whatever a process
\* has behind it is recorded: a migration can rely on the ones before it
\* (0004 grants on tables of 0001 to 0003), a process on all of them.
InFilenameOrder ==
    /\ \A v \in record : 1..v \subseteq record
    /\ \A p \in Procs : 1..(at[p] - 1) \subseteq record
    /\ \A p \in Procs : stage[p] = "running" => record = Versions

Promise == INSTANCE SchemaVersion WITH
             version <- Cardinality(record),
             users   <- {p \in Procs : stage[p] = "running"}

\* The runner implements the abstract schema: one version up at a time and
\* no user before the last (Migrate).
ImplementsSchemaVersion == Promise!Spec

\* A restarted service gets through: lost races for a migration, failed
\* connection attempts and lost answers only cost restarts (Connect, Migrate:
\* "Safe to call repeatedly").
SupervisedEventuallyRuns == \A p \in Supervised : <>(stage[p] = "running")
=============================================================================
