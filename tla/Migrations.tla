----------------------------- MODULE Migrations -----------------------------
(***************************************************************************)
(* The schema migrations of tasks.db and the lock file that should keep    *)
(* migrators apart.  `migrate up`, `down`, `all` and `init` hold the guard *)
(* of LockGuard; the loop, `batch` and `current` migrate when they open    *)
(* the database, with no guard.  A migrator reads the version once, then   *)
(* runs one transaction per migration.  Processes die between any two      *)
(* steps.                                                                  *)
(***************************************************************************)
EXTENDS LockGuard

CONSTANTS
  NumMigrations,  \* MIGRATIONS, in the order of their versions 1, 2, ...
  Repeatable,     \* those whose up runs again without an error
  Kept            \* those whose down leaves their columns in the tables

Versions == 1 .. NumMigrations

ASSUME MigrationsAssumption ==
  /\ NumMigrations \in Nat
  /\ Repeatable \subseteq Versions /\ Kept \subseteq Versions
  /\ Repeatable \cap Kept = {}

Guarded == {"up", "down", "all"}
Kinds == Guarded \cup {"open"}
NoJob == [kind |-> "none", next |-> 0]
Jobs == {NoJob} \cup [kind : Kinds, next : Nat]

VARIABLES
  version,   \* global_state.schema_version, 0 where there is no such column
  present,   \* migrations whose tables and columns exist
  job,       \* what each process migrates, and the migration it is about to run
  raced,     \* ghost: a migrator ran beside one that holds no guard
  left       \* ghost: a down has left columns behind

schema == <<version, present, job, raced, left>>

\* A database as some release, new or old, has left it.
SchemaInit ==
  /\ Init
  /\ version \in 0 .. NumMigrations /\ present = 1 .. version
  /\ job = [p \in Procs |-> NoJob]
  /\ raced = FALSE /\ left = FALSE

-----------------------------------------------------------------------------
Working(p) == job[p] # NoJob
SetJob(p, j) == job' = [job EXCEPT ![p] = j]
Finish(p) == SetJob(p, NoJob)

\* p runs a transaction while another migrator is at work, and one of the two
\* has no guard.
Races(p) ==
  \E q \in Procs \ {p} : Working(q) /\ "open" \in {job[p].kind, job[q].kind}

\* Reading the version: the first migration above it, or the one to revert.
Current(v) == v
Following(v) == v + 1
Begin(p, kind) ==
  /\ ~Working(p)
  /\ pc[p] = IF kind \in Guarded THEN "holding" ELSE "idle"
  /\ SetJob(p, [kind |-> kind,
                next |-> IF kind = "down" THEN version ELSE Following(version)])
  /\ UNCHANGED <<vars, version, present, raced, left>>

\* One transaction: the statements of the migration, then its version.  A
\* column that exists already is an error, and the migrator gives up.
CanApply(m) == m \notin present \/ m \in Repeatable
Apply(p) ==
  /\ job[p].kind \in Kinds \ {"down"} /\ job[p].next <= NumMigrations
  /\ LET m == job[p].next
     IN  IF CanApply(m)
         THEN /\ version' = m /\ present' = present \cup {m}
              /\ raced' = (raced \/ Races(p))
              /\ IF job[p].kind = "up" THEN Finish(p)
                 ELSE SetJob(p, [job[p] EXCEPT !.next = m + 1])
         ELSE Finish(p) /\ UNCHANGED <<version, present, raced>>
  /\ UNCHANGED <<vars, left>>

\* migrate_down reverts one migration, or none at version 0; a column that is
\* not there is an error.
RevertedToSame(m) == m
RevertedTo(m) == m - 1
Revert(p) ==
  /\ job[p].kind = "down" /\ job[p].next > 0
  /\ LET m == job[p].next
     IN  IF m \in present \cup Repeatable
         THEN /\ version' = RevertedTo(m)
              /\ present' = IF m \in Kept THEN present ELSE present \ {m}
              /\ left' = (left \/ m \in Kept)
              /\ raced' = (raced \/ Races(p))
         ELSE UNCHANGED <<version, present, left, raced>>
  /\ Finish(p)
  /\ UNCHANGED vars

\* Nothing to do (any more), or the database refused a transaction, which is
\* rolled back.
End(p) ==
  /\ Working(p) /\ Finish(p)
  /\ UNCHANGED <<vars, version, present, raced, left>>

\* The guard is taken before the migration and dropped after it.
LockAnyTime(p) ==
  /\ \/ OpenLock(p) \/ TryLock(p) \/ Unlock(p) \/ RemoveFile(p)
     \/ OpenProbe(p) \/ ProbeLock(p) \/ ProbeUnlock(p)
  /\ UNCHANGED schema
Lock(p) ==
  /\ ~Working(p)
  /\ \/ OpenLock(p) \/ TryLock(p) \/ Unlock(p) \/ RemoveFile(p)
     \/ OpenProbe(p) \/ ProbeLock(p) \/ ProbeUnlock(p)
  /\ UNCHANGED schema

\* A process dies: an open transaction is rolled back with it.
DieWorking(p) ==
  /\ Working(p) \/ pc[p] # "idle"
  /\ IF pc[p] = "idle" THEN UNCHANGED vars ELSE Die(p)
  /\ Finish(p)
  /\ UNCHANGED <<version, present, raced, left>>

SchemaNext ==
  \E p \in Procs :
    \/ Lock(p) \/ DieWorking(p)
    \/ \E kind \in Kinds : Begin(p, kind)
    \/ Apply(p) \/ Revert(p) \/ End(p)

SchemaSpec == SchemaInit /\ [][SchemaNext]_<<vars, schema>>

-----------------------------------------------------------------------------
(* Properties.                                                             *)

\* Type invariant: a migrator with a guarded command holds a guard, one without
\* has no lock file open; only a down may name migration 0.
SchemaTypeOK ==
  /\ version \in Nat /\ present \in SUBSET Versions
  /\ job \in [Procs -> Jobs] /\ raced \in BOOLEAN /\ left \in BOOLEAN
  /\ \A p \in Procs : Working(p) =>
       /\ pc[p] = IF job[p].kind \in Guarded THEN "holding" ELSE "idle"
       /\ job[p].kind = "down" \/ job[p].next > 0

\* What may upset the schema: a stolen guard, a migrator beside one that took
\* no guard, or a down that left its columns.
Upset == stolen \/ raced \/ left

\* The version tells which migrations the tables have seen, wherever migrators
\* died in between, so that the next one runs exactly the missing ones.
VersionTellsSchema == Upset \/ present = 1 .. version

\* A migrator never meets a column that is already there, nor misses the one
\* it reverts: commands of every kind, crashes and locks in any order do not
\* leave a database that refuses its migrations, unless it was upset.
MigrationsApply ==
  Upset \/ \A p \in Procs :
    LET m == job[p].next
    IN  /\ job[p].kind \in Kinds \ {"down"} => m \notin present
        /\ (job[p].kind = "down" /\ m > 0) => m \in present
=============================================================================
