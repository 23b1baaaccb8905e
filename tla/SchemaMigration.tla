-------------------------- MODULE SchemaMigration --------------------------
(***************************************************************************)
(* The schema check that every process makes when it starts                *)
(* (SchemaMigrationRunner.run, on MySQL).                                  *)
(*                                                                         *)
(* The migrations are the numbers 1..Head.  A runner takes the named lock, *)
(* compares the migration recorded in alembic_schema with the newest of    *)
(* its image, records the missing ones and lets Alembic run them.  Alembic *)
(* goes by a table of its own, alembic_version.  Everything happens in one *)
(* transaction, but a migration that changes tables commits, as it begins, *)
(* all that the transaction has written so far.                            *)
(*                                                                         *)
(* A recorded migration is never taken back and rows only say "upgrade":   *)
(* the branch that downgrades is unreachable, for an image does not know   *)
(* the migrations that are newer than its own.                             *)
(***************************************************************************)
EXTENDS Naturals, FiniteSets, FiniteSetsExt

CONSTANTS
    Runners,    \* the processes that check the schema when they start
    Nobody,     \* no runner
    Head,       \* the number of migrations
    Image,      \* the newest migration that a runner's image knows
    DataOnly,   \* the migrations that change rows and no tables
    Deployed    \* the migration up to which Alembic has brought the database

ASSUME SchemaMigrationAssumption ==
    /\ Nobody \notin Runners
    /\ Head \in Nat \ {0}
    /\ Image \in [Runners -> 1..Head]
    /\ DataOnly \subseteq 1..Head
    /\ Deployed \in 0..Head

VARIABLES
    database,     \* what is committed
    pending,      \* what the open transaction of a runner has written
    holder,       \* who holds the named lock
    pc,           \* where each runner stands
    next,         \* the migration that an upgrading runner runs next
    rerun,        \* has a migration been run that had been begun before?
    interrupted   \* has an upgrade ended before what it had recorded was done?

vars == <<database, pending, holder, pc, next, rerun, interrupted>>

-----------------------------------------------------------------------------
(* The state.                                                              *)

Migrations == 1..Head

\* recorded: the revisions in alembic_schema; version: the one in
\* alembic_version; begun and whole: the migrations whose changes the schema
\* has in part, and those it has entirely.
Database == [recorded : SUBSET Migrations,
             version  : 0..Head,
             begun    : SUBSET Migrations,
             whole    : SUBSET Migrations]

NoChange == [recorded |-> {}, version |-> 0, whole |-> {}]
Change == [recorded : SUBSET Migrations, version : 0..Head, whole : SUBSET Migrations]

\* "failing": an exception is on its way through the finally block.
PC == {"idle", "waiting", "checking", "upgrading", "changing",
       "leaving", "failing", "committing", "rolling", "done", "failed"}

With(d, change) ==
    [d EXCEPT !.recorded = @ \cup change.recorded,
              !.version  = IF change.version = 0 THEN @ ELSE change.version,
              !.begun    = @ \cup change.whole,
              !.whole    = @ \cup change.whole]

Init ==
    /\ database = [recorded |-> {}, version |-> Deployed,
                   begun |-> 1..Deployed, whole |-> 1..Deployed]
    /\ pending = [r \in Runners |-> NoChange]
    /\ holder = Nobody
    /\ pc = [r \in Runners |-> "idle"]
    /\ next = [r \in Runners |-> 0]
    /\ rerun = FALSE
    /\ interrupted = FALSE

Goto(r, l) == pc' = [pc EXCEPT ![r] = l]

-----------------------------------------------------------------------------
(* The named lock.                                                         *)

Start(r) ==
    /\ pc[r] = "idle"
    /\ Goto(r, "waiting")
    /\ UNCHANGED <<database, pending, holder, next, rerun, interrupted>>

\* Mutant: the named lock keeps nobody out.
LockAlwaysFree == TRUE

LockFree == holder = Nobody

Acquire(r) ==
    /\ pc[r] = "waiting"
    /\ LockFree
    /\ holder' = r
    /\ Goto(r, "checking")
    /\ UNCHANGED <<database, pending, next, rerun, interrupted>>

\* GET_LOCK gives up after a minute: the process ends with SystemExit(1).
LockTimeout(r) ==
    /\ pc[r] = "waiting"
    /\ ~LockFree
    /\ Goto(r, "failed")
    /\ UNCHANGED <<database, pending, holder, next, rerun, interrupted>>

-----------------------------------------------------------------------------
(* The comparison.                                                         *)

\* _get_db_revision: the newest recorded revision, else what Alembic says; 0 is
\* a fresh database.
DbRevision(d) == IF d.recorded = {} THEN d.version ELSE Max(d.recorded)

\* Mutant: the sources are recorded when the upgrade is over.
SourcesLater(from, to) == {}

\* Mutant: off by one.
SourcesOneMore(from, to) == (from + 1)..(to + 1)

\* _store_migration_sources
Sources(from, to) == (from + 1)..to

\* The revision is the newest of the image: the sources of all its migrations
\* are recorded again.
UpToDate(r) ==
    /\ pc[r] = "checking"
    /\ DbRevision(database) = Image[r]
    /\ pending' = [pending EXCEPT ![r].recorded = @ \cup Sources(0, Image[r])]
    /\ Goto(r, "leaving")
    /\ UNCHANGED <<database, holder, next, rerun, interrupted>>

\* The revision is older, or there is none: the sources are recorded, and
\* Alembic starts from the version it knows.
Behind(r) ==
    /\ pc[r] = "checking"
    /\ DbRevision(database) < Image[r]
    /\ pending' = [pending EXCEPT
         ![r].recorded = @ \cup Sources(DbRevision(database), Image[r])]
    /\ next' = [next EXCEPT ![r] = database.version + 1]
    /\ Goto(r, "upgrading")
    /\ UNCHANGED <<database, holder, rerun, interrupted>>

\* The revision is not in the chain of the image: SystemExit(1).
Unknown(r) ==
    /\ pc[r] = "checking"
    /\ DbRevision(database) > Image[r]
    /\ Goto(r, "failing")
    /\ UNCHANGED <<database, pending, holder, next, rerun, interrupted>>

-----------------------------------------------------------------------------
(* The migrations, run by Alembic one by one.                              *)

Advance(r) == next' = [next EXCEPT ![r] = @ + 1]

\* A migration without table changes stays in the transaction, with the
\* version it leads to.
ChangeRows(r) ==
    /\ pc[r] = "upgrading"
    /\ next[r] <= Image[r]
    /\ next[r] \in DataOnly
    /\ pending' = [pending EXCEPT ![r].whole = @ \cup {next[r]}, ![r].version = next[r]]
    /\ rerun' = (rerun \/ next[r] \in database.begun)
    /\ Advance(r)
    /\ UNCHANGED <<database, holder, pc, interrupted>>

\* The first table change of a migration commits what the transaction holds.
\* Most migrations fail on tables that are there already (see Fails).
ChangeTables(r) ==
    /\ pc[r] = "upgrading"
    /\ next[r] <= Image[r]
    /\ next[r] \notin DataOnly
    /\ database' = [With(database, pending[r]) EXCEPT !.begun = @ \cup {next[r]}]
    /\ pending' = [pending EXCEPT ![r] = NoChange]
    /\ rerun' = (rerun \/ next[r] \in database.begun)
    /\ Goto(r, "changing")
    /\ UNCHANGED <<holder, next, interrupted>>

\* Its last one is in place.  The version that it leads to is written to
\* alembic_version, and waits for the next commit.
TablesChanged(r) ==
    /\ pc[r] = "changing"
    /\ database' = [database EXCEPT !.whole = @ \cup {next[r]}]
    /\ pending' = [pending EXCEPT ![r].version = next[r]]
    /\ Advance(r)
    /\ Goto(r, "upgrading")
    /\ UNCHANGED <<holder, rerun, interrupted>>

\* Alembic has reached the target.  The row that records it adds no revision.
Upgraded(r) ==
    /\ pc[r] = "upgrading"
    /\ next[r] > Image[r]
    /\ Goto(r, "leaving")
    /\ UNCHANGED <<database, pending, holder, next, rerun, interrupted>>

\* A recorded revision is ahead of the version that Alembic has reached.
Ahead(d) == DbRevision(d) > d.version

\* A statement of the runner raises.  What is pending will be committed.
Fails(r) ==
    /\ pc[r] \in {"checking", "upgrading", "changing"}
    /\ interrupted' = (interrupted \/ Ahead(With(database, pending[r])))
    /\ Goto(r, "failing")
    /\ UNCHANGED <<database, pending, holder, next, rerun>>

-----------------------------------------------------------------------------
(* The end: the finally block releases the lock, and commits after that.   *)

Release(r) ==
    /\ pc[r] \in {"leaving", "failing"}
    /\ holder' = IF holder = r THEN Nobody ELSE holder
    /\ Goto(r, IF pc[r] = "leaving" THEN "committing" ELSE "rolling")
    /\ UNCHANGED <<database, pending, next, rerun, interrupted>>

\* A failed upgrade commits as well.
Commit(r) ==
    /\ pc[r] \in {"committing", "rolling"}
    /\ database' = With(database, pending[r])
    /\ pending' = [pending EXCEPT ![r] = NoChange]
    /\ next' = [next EXCEPT ![r] = 0]
    /\ Goto(r, IF pc[r] = "committing" THEN "done" ELSE "failed")
    /\ UNCHANGED <<holder, rerun, interrupted>>

\* The process is killed, or loses its connection: the server rolls back what
\* is pending and frees the lock.
Crash(r) ==
    /\ pc[r] \notin {"idle", "failed"}
    /\ pending' = [pending EXCEPT ![r] = NoChange]
    /\ holder' = IF holder = r THEN Nobody ELSE holder
    /\ next' = [next EXCEPT ![r] = 0]
    /\ interrupted' = (interrupted \/ (holder = r /\ Ahead(database)))
    /\ Goto(r, "failed")
    /\ UNCHANGED <<database, rerun>>

\* The platform starts it again.
Restart(r) ==
    /\ pc[r] = "failed"
    /\ Goto(r, "idle")
    /\ UNCHANGED <<database, pending, holder, next, rerun, interrupted>>

-----------------------------------------------------------------------------

Next ==
    \E r \in Runners :
        \/ Start(r)
        \/ Acquire(r)
        \/ LockTimeout(r)
        \/ UpToDate(r)
        \/ Behind(r)
        \/ Unknown(r)
        \/ ChangeRows(r)
        \/ ChangeTables(r)
        \/ TablesChanged(r)
        \/ Upgraded(r)
        \/ Fails(r)
        \/ Release(r)
        \/ Commit(r)
        \/ Crash(r)
        \/ Restart(r)

Spec == Init /\ [][Next]_vars

-----------------------------------------------------------------------------
(* Properties.                                                             *)

TypeOK ==
    /\ database \in Database
    /\ pending \in [Runners -> Change]
    /\ holder \in Runners \cup {Nobody}
    /\ pc \in [Runners -> PC]
    /\ next \in [Runners -> 0..(Head + 1)]
    /\ rerun \in BOOLEAN
    /\ interrupted \in BOOLEAN

\* A migration that has begun to change the schema since the database was taken
\* over has its source in alembic_schema, whatever crashes or fails after that
\* ("Store migration sources BEFORE running upgrade").
SourcesBeforeSchema == database.begun \subseteq 1..Deployed \cup database.recorded

\* "Check and synchronise DB schema version before starting the application":
\* a process that starts to serve finds the schema of its image complete, and
\* stays with it.
SynchronisedBeforeServing ==
    \A r \in Runners : pc[r] = "done" => 1..Image[r] \subseteq database.whole

\* Of the processes that start together one upgrades and the others wait: unless
\* an upgrade was interrupted, no migration is run a second time, and whoever
\* starts to serve finds its schema complete (the named lock of run).
UpgradesOnce == ~interrupted => ~rerun /\ SynchronisedBeforeServing

=============================================================================
