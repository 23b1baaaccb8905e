----------------------- MODULE SchemaMigration_proofs -----------------------
(* The sources of the migrations, for any number of processes, images and   *)
(* migrations, and whatever crashes or fails.  Where all images that        *)
(* upgrade have the same target (OneTarget), and no upgrade was             *)
(* interrupted, no migration runs twice and nobody serves on a part of the  *)
(* schema.                                                                  *)
EXTENDS SchemaMigration, FiniteSetTheorems, TLAPS

\* The migrations that are accounted for: done before the database was taken
\* over, or recorded.
Known == 1..Deployed \cup database.recorded

\* The same once the transaction of r is committed.
KnownTo(r) == Known \cup pending[r].recorded

\* With a migration all that come before it are accounted for.
CommittedInOrder ==
    /\ \A m \in database.recorded : 1..m \subseteq Known
    /\ 1..database.version \subseteq Known
    /\ database.begun \subseteq Known

PendingInOrder(r) ==
    /\ \A m \in pending[r].recorded : 1..m \subseteq KnownTo(r)
    /\ 1..pending[r].version \subseteq KnownTo(r)
    /\ pending[r].whole \subseteq KnownTo(r)

\* An upgrading runner has recorded the way to the newest migration it knows.
UpgradeRecorded(r) ==
    /\ pc[r] \in {"upgrading", "changing"} =>
          next[r] >= 1 /\ 1..Image[r] \subseteq KnownTo(r)
    /\ pc[r] = "changing" => next[r] <= Image[r]

IInv ==
    /\ TypeOK
    /\ CommittedInOrder
    /\ \A r \in Runners : PendingInOrder(r) /\ UpgradeRecorded(r)

-----------------------------------------------------------------------------
(* Lemmas.                                                                 *)

\* A set of numbers up to H has a largest.
LEMMA MaxExists ==
  ASSUME NEW H \in Nat, NEW S \in SUBSET (0..H), S # {}
  PROVE  Max(S) \in S /\ \A y \in S : y <= Max(S)
<1> DEFINE R == StrictSubsetOrdering(0..H)
<1> DEFINE F == FiniteSubsetsOf(0..H)
<1> DEFINE Above(m) == {y \in 0..H : y > m}
<1> DEFINE T == {Above(m) : m \in S}
<1>1. IsWellFoundedOn(R, F)
  BY FS_StrictSubsetOrderingWellFounded
<1>2. T \subseteq F
  <2>1. \A A \in SUBSET (0..H) : IsFiniteSet(A)
    <3>1. 0 \in Int /\ H \in Int
      OBVIOUS
    <3>2. IsFiniteSet(0..H)
      BY <3>1, FS_Interval
    <3>3. QED
      BY <3>2, FS_Subset
  <2>2. QED
    BY <2>1 DEF FiniteSubsetsOf
<1>3. T # {}
  OBVIOUS
<1> HIDE DEF T, R, F
<1>4. \E A \in T : \A B \in T : ~(<<B, A>> \in R)
  BY <1>1, <1>2, <1>3, WFMin
<1> USE DEF T, R, F
<1>5. PICK m \in S : \A y \in S : ~(<<Above(y), Above(m)>> \in R)
  BY <1>4
<1>6. ASSUME NEW y \in S, y > m PROVE FALSE
  <2>1. Above(y) \subseteq Above(m) /\ y \in Above(m) /\ y \notin Above(y)
    BY <1>6
  <2>2. <<Above(y), Above(m)>> \in R
    BY <2>1 DEF StrictSubsetOrdering
  <2>3. QED
    BY <2>2, <1>5
<1>7. \A y \in S : y <= m
  BY <1>6
<1>8. QED
  BY <1>7 DEF Max

\* The revision that a runner finds is one that exists, and all up to it is
\* accounted for.
LEMMA RevisionFound ==
  ASSUME TypeOK, CommittedInOrder
  PROVE  /\ DbRevision(database) \in 0..Head
         /\ 1..DbRevision(database) \subseteq Known
<1>1. /\ database.recorded \subseteq 1..Head /\ database.version \in 0..Head
      /\ Head \in Nat
  BY SchemaMigrationAssumption DEF TypeOK, Database, Migrations
<1>2. CASE database.recorded = {}
  BY <1>1, <1>2 DEF DbRevision, CommittedInOrder
<1>3. CASE database.recorded # {}
  <2> DEFINE S == database.recorded
  <2>1. S \in SUBSET (0..Head) /\ S # {}
    BY <1>1, <1>3
  <2> HIDE DEF S
  <2>2. Max(S) \in S
    BY <1>1, <2>1, MaxExists
  <2>3. DbRevision(database) = Max(S)
    BY <1>3 DEF DbRevision, S
  <2>4. QED
    BY <1>1, <2>2, <2>3 DEF CommittedInOrder, S
<1>4. QED
  BY <1>2, <1>3

LEMMA NoChangeFits ==
  /\ NoChange \in Change
  /\ NoChange.recorded = {} /\ NoChange.version = 0 /\ NoChange.whole = {}
  BY SchemaMigrationAssumption DEF NoChange, Change

LEMMA InitInv == Init => IInv
<1> SUFFICES ASSUME Init PROVE IInv
  OBVIOUS
<1>1. database \in Database
  BY SchemaMigrationAssumption DEF Init, Database, Migrations
<1>2. TypeOK
  <2>1. next \in [Runners -> 0..(Head + 1)]
    BY SchemaMigrationAssumption DEF Init
  <2>2. pending \in [Runners -> Change] /\ pc \in [Runners -> PC]
    BY NoChangeFits DEF Init, PC
  <2>3. QED
    BY <1>1, <2>1, <2>2 DEF Init, TypeOK
<1>3. CommittedInOrder
  BY DEF Init, CommittedInOrder, Known
<1>4. \A r \in Runners : PendingInOrder(r) /\ UpgradeRecorded(r)
  BY NoChangeFits DEF Init, PendingInOrder, UpgradeRecorded
<1>5. QED
  BY <1>2, <1>3, <1>4 DEF IInv

\* Recorded migrations only come: what a runner does disturbs no other.
LEMMA RunnerStep ==
  ASSUME IInv, NEW r \in Runners, TypeOK', CommittedInOrder',
         database.recorded \subseteq database'.recorded,
         \A u \in Runners \ {r} :
            pending'[u] = pending[u] /\ pc'[u] = pc[u] /\ next'[u] = next[u],
         PendingInOrder(r)', UpgradeRecorded(r)'
  PROVE  IInv'
<1>1. Known \subseteq Known'
  BY DEF Known
<1>2. ASSUME NEW u \in Runners \ {r}
      PROVE  PendingInOrder(u)' /\ UpgradeRecorded(u)'
  <2>1. KnownTo(u) \subseteq KnownTo(u)'
    BY <1>1 DEF KnownTo
  <2>2. PendingInOrder(u) /\ UpgradeRecorded(u)
    BY DEF IInv
  <2>3. PendingInOrder(u)'
    BY <2>1, <2>2 DEF PendingInOrder
  <2>4. UpgradeRecorded(u)'
    BY <2>1, <2>2 DEF UpgradeRecorded
  <2>5. QED
    BY <2>3, <2>4
<1>3. QED
  BY <1>2 DEF IInv

\* A step that leaves the database and all transactions alone, to a place where
\* the runner upgrades nothing.
LEMMA QuietStep ==
  ASSUME IInv, NEW r \in Runners, NEW l \in PC \ {"upgrading", "changing"}, Goto(r, l),
         UNCHANGED <<database, pending, next>>,
         holder' \in Runners \cup {Nobody}, rerun' \in BOOLEAN, interrupted' \in BOOLEAN
  PROVE  IInv'
<1>1. pc'[r] = l /\ \A u \in Runners \ {r} : pc'[u] = pc[u]
  BY DEF Goto, IInv, TypeOK
<1>2. TypeOK'
  BY DEF Goto, IInv, TypeOK
<1>3. CommittedInOrder'
  BY DEF IInv, CommittedInOrder, Known
<1>4. PendingInOrder(r)'
  BY DEF IInv, PendingInOrder, KnownTo, Known
<1>5. UpgradeRecorded(r)'
  BY <1>1 DEF UpgradeRecorded
<1>6. QED
  BY <1>1, <1>2, <1>3, <1>4, <1>5, RunnerStep

-----------------------------------------------------------------------------
(* The steps.                                                              *)

LEMMA QuietInv ==
  ASSUME IInv, NEW r \in Runners,
         \/ Start(r) \/ Acquire(r) \/ LockTimeout(r) \/ Unknown(r) \/ Upgraded(r)
         \/ Fails(r) \/ Release(r) \/ Restart(r)
  PROVE  IInv'
<1> USE DEF PC
<1>1. TypeOK
  BY DEF IInv
<1>2. CASE Start(r) \/ LockTimeout(r) \/ Unknown(r) \/ Upgraded(r) \/ Restart(r)
  BY <1>1, <1>2, QuietStep DEF Start, LockTimeout, Unknown, Upgraded, Restart, TypeOK
<1>3. CASE Acquire(r)
  BY <1>1, <1>3, QuietStep DEF Acquire, TypeOK
<1>4. CASE Fails(r)
  <2>1. interrupted' \in BOOLEAN
    BY <1>1, <1>4 DEF Fails, TypeOK, Ahead
  <2>2. QED
    BY <1>1, <1>4, <2>1, QuietStep DEF Fails, TypeOK
<1>5. CASE Release(r)
  BY <1>1, <1>5, QuietStep DEF Release, TypeOK
<1>6. QED
  BY <1>2, <1>3, <1>4, <1>5

\* A runner records migrations that are in order with what it knows.
LEMMA RecordStep ==
  ASSUME IInv, NEW r \in Runners, NEW S \in SUBSET Migrations, NEW l \in PC, NEW n \in 0..(Head + 1),
         pending' = [pending EXCEPT ![r].recorded = @ \cup S],
         Goto(r, l), next' = [next EXCEPT ![r] = n],
         UNCHANGED <<database, holder, rerun, interrupted>>,
         \A m \in S : 1..m \subseteq Known \cup S,
         l # "changing",
         l = "upgrading" => n >= 1 /\ 1..Image[r] \subseteq Known \cup S
  PROVE  IInv'
<1> USE DEF IInv
<1>1. /\ pending[r] \in Change
      /\ pending'[r] = [pending[r] EXCEPT !.recorded = @ \cup S]
      /\ pending' = [pending EXCEPT ![r] = [pending[r] EXCEPT !.recorded = @ \cup S]]
  BY DEF TypeOK
<1>2. /\ pending'[r] \in Change
      /\ pending'[r].recorded = pending[r].recorded \cup S
      /\ pending'[r].version = pending[r].version
      /\ pending'[r].whole = pending[r].whole
  BY <1>1 DEF Change
<1>3. \A u \in Runners \ {r} :
         pending'[u] = pending[u] /\ pc'[u] = pc[u] /\ next'[u] = next[u]
  BY <1>1 DEF Goto, TypeOK
<1>4. pc'[r] = l /\ next'[r] = n
  BY DEF Goto, TypeOK
<1>5. TypeOK'
  <2>1. pending' \in [Runners -> Change]
    BY <1>1, <1>2 DEF TypeOK
  <2>2. QED
    BY <2>1 DEF TypeOK, Goto
<1>6. CommittedInOrder' /\ Known' = Known
  BY DEF CommittedInOrder, Known
<1>7. KnownTo(r)' = KnownTo(r) \cup S
  BY <1>2, <1>6 DEF KnownTo
<1>8. PendingInOrder(r)'
  BY <1>2, <1>7 DEF PendingInOrder, KnownTo
<1>9. UpgradeRecorded(r)'
  BY <1>4, <1>7 DEF UpgradeRecorded, KnownTo
<1>10. QED
  BY <1>3, <1>5, <1>6, <1>8, <1>9, RunnerStep

LEMMA UpToDateInv == ASSUME IInv, NEW r \in Runners, UpToDate(r) PROVE IInv'
<1>1. Image[r] \in 1..Head /\ Head \in Nat /\ next[r] \in 0..(Head + 1)
  BY SchemaMigrationAssumption DEF IInv, TypeOK
<1>2. Sources(0, Image[r]) = 1..Image[r]
  BY <1>1 DEF Sources
<1>3. 1..Image[r] \in SUBSET Migrations /\ \A m \in 1..Image[r] : 1..m \subseteq 1..Image[r]
  BY <1>1 DEF Migrations
<1>4. next' = [next EXCEPT ![r] = next[r]]
  BY DEF UpToDate, IInv, TypeOK
<1>5. "leaving" \in PC
  BY DEF PC
<1>6. pending' = [pending EXCEPT ![r].recorded = @ \cup 1..Image[r]]
  BY <1>2 DEF UpToDate
<1>7. QED
  BY <1>1, <1>3, <1>4, <1>5, <1>6, RecordStep DEF UpToDate

LEMMA BehindInv == ASSUME IInv, NEW r \in Runners, Behind(r) PROVE IInv'
<1> DEFINE from == DbRevision(database)
<1> DEFINE S == (from + 1)..Image[r]
<1>1. /\ Image[r] \in 1..Head /\ Head \in Nat
      /\ database.version \in 0..Head
  BY SchemaMigrationAssumption DEF IInv, TypeOK, Database
<1>2. from \in 0..Head /\ 1..from \subseteq Known
  BY RevisionFound DEF IInv
<1>3. pending' = [pending EXCEPT ![r].recorded = @ \cup S]
  BY DEF Behind, Sources
<1> HIDE DEF from
<1>4. S \in SUBSET Migrations
  BY <1>1, <1>2 DEF Migrations
<1>5. \A m \in 1..Image[r] : m \in Known \cup S
  BY <1>1, <1>2
<1>6. \A m \in S : 1..m \subseteq Known \cup S
  BY <1>1, <1>2, <1>5
<1>7. 1..Image[r] \subseteq Known \cup S
  BY <1>5
<1>8. /\ database.version + 1 \in 0..(Head + 1) /\ database.version + 1 >= 1
      /\ "upgrading" \in PC
  BY <1>1 DEF PC
<1> HIDE DEF S
<1>9. QED
  BY <1>3, <1>4, <1>6, <1>7, <1>8, RecordStep DEF Behind

\* What is committed with the transaction of a runner.
LEMMA CommitFits ==
  ASSUME IInv, NEW r \in Runners
  PROVE  /\ With(database, pending[r]) \in Database
         /\ With(database, pending[r]).recorded = database.recorded \cup pending[r].recorded
         /\ With(database, pending[r]).begun = database.begun \cup pending[r].whole
         /\ With(database, pending[r]).whole = database.whole \cup pending[r].whole
         /\ With(database, pending[r]).version \in {database.version, pending[r].version}
<1>1. database \in Database /\ pending[r] \in Change
  BY DEF IInv, TypeOK
<1>2. QED
  BY <1>1 DEF With, Database, Change

LEMMA ChangeRowsInv == ASSUME IInv, NEW r \in Runners, ChangeRows(r) PROVE IInv'
<1> USE DEF IInv, ChangeRows
<1>1. /\ next[r] \in 1..Head /\ next[r] <= Image[r] /\ Image[r] \in 1..Head /\ Head \in Nat
      /\ 1..Image[r] \subseteq KnownTo(r)
  BY SchemaMigrationAssumption DEF TypeOK, UpgradeRecorded
<1>2. /\ pending[r] \in Change
      /\ pending' = [pending EXCEPT ![r] =
           [pending[r] EXCEPT !.whole = @ \cup {next[r]}, !.version = next[r]]]
  BY DEF TypeOK
<1>3. /\ pending'[r] \in Change
      /\ pending'[r].recorded = pending[r].recorded
      /\ pending'[r].version = next[r]
      /\ pending'[r].whole = pending[r].whole \cup {next[r]}
  BY <1>1, <1>2 DEF TypeOK, Change, Migrations
<1>4. /\ next'[r] = next[r] + 1 /\ pc' = pc
      /\ \A u \in Runners \ {r} :
           pending'[u] = pending[u] /\ pc'[u] = pc[u] /\ next'[u] = next[u]
  BY <1>2 DEF Advance, TypeOK
<1>5. TypeOK'
  <2>1. pending' \in [Runners -> Change]
    BY <1>2, <1>3 DEF TypeOK
  <2>2. next' \in [Runners -> 0..(Head + 1)]
    BY <1>1 DEF Advance, TypeOK
  <2>3. rerun' \in BOOLEAN
    BY DEF TypeOK
  <2>4. QED
    BY <2>1, <2>2, <2>3 DEF TypeOK
<1>6. CommittedInOrder' /\ KnownTo(r)' = KnownTo(r)
  BY <1>3 DEF CommittedInOrder, KnownTo, Known
<1>7. 1..next[r] \subseteq KnownTo(r) /\ next[r] \in KnownTo(r)
  BY <1>1
<1>8. PendingInOrder(r)'
  BY <1>3, <1>6, <1>7 DEF PendingInOrder
<1>9. UpgradeRecorded(r)'
  BY <1>1, <1>4, <1>6 DEF UpgradeRecorded
<1>10. QED
  BY <1>4, <1>5, <1>6, <1>8, <1>9, RunnerStep

LEMMA ChangeTablesInv == ASSUME IInv, NEW r \in Runners, ChangeTables(r) PROVE IInv'
<1> USE DEF IInv, ChangeTables
<1>1. /\ next[r] \in 1..Head /\ next[r] <= Image[r] /\ Image[r] \in 1..Head /\ Head \in Nat
      /\ 1..Image[r] \subseteq KnownTo(r)
  <2>1. next[r] \in 0..(Head + 1) /\ Image[r] \in 1..Head /\ Head \in Nat
    BY SchemaMigrationAssumption DEF TypeOK
  <2>2. pc[r] = "upgrading" /\ next[r] <= Image[r]
    OBVIOUS
  <2>3. next[r] >= 1 /\ 1..Image[r] \subseteq KnownTo(r)
    BY <2>2 DEF UpgradeRecorded
  <2>4. QED
    BY <2>1, <2>2, <2>3
<1> DEFINE d == With(database, pending[r])
<1>2. /\ d \in Database
      /\ d.recorded = database.recorded \cup pending[r].recorded
      /\ d.begun = database.begun \cup pending[r].whole
      /\ d.version \in {database.version, pending[r].version}
  BY CommitFits
<1>3. database' = [d EXCEPT !.begun = @ \cup {next[r]}]
  OBVIOUS
<1> HIDE DEF d
<1>4. /\ database' \in Database
      /\ database'.recorded = d.recorded
      /\ database'.version = d.version
      /\ database'.begun = d.begun \cup {next[r]}
  BY <1>1, <1>2, <1>3 DEF Database, Migrations
<1>5. /\ pending'[r] = NoChange /\ pc'[r] = "changing" /\ next' = next
      /\ \A u \in Runners \ {r} :
           pending'[u] = pending[u] /\ pc'[u] = pc[u] /\ next'[u] = next[u]
  BY DEF Goto, TypeOK
<1>6. TypeOK'
  <2>1. pending' \in [Runners -> Change] /\ pc' \in [Runners -> PC]
    BY NoChangeFits DEF TypeOK, Goto, PC
  <2>2. rerun' \in BOOLEAN
    BY DEF TypeOK
  <2>3. QED
    BY <1>4, <2>1, <2>2 DEF TypeOK
<1>7. Known' = KnownTo(r) /\ Known \subseteq Known' /\ KnownTo(r)' = Known'
  BY <1>2, <1>4, <1>5, NoChangeFits DEF Known, KnownTo
<1>8. CommittedInOrder'
  <2>1. \A m \in database'.recorded : 1..m \subseteq Known'
    BY <1>2, <1>4, <1>7 DEF CommittedInOrder, PendingInOrder
  <2>2. 1..database'.version \subseteq Known'
    BY <1>2, <1>4, <1>7 DEF CommittedInOrder, PendingInOrder
  <2>3. next[r] \in Known'
    BY <1>1, <1>7
  <2>4. database'.begun \subseteq Known'
    BY <1>2, <1>4, <1>7, <2>3 DEF CommittedInOrder, PendingInOrder
  <2>5. QED
    BY <2>1, <2>2, <2>4 DEF CommittedInOrder
<1>9. PendingInOrder(r)'
  BY <1>5, NoChangeFits DEF PendingInOrder
<1>10. UpgradeRecorded(r)'
  BY <1>1, <1>5, <1>7 DEF UpgradeRecorded
<1>11. database.recorded \subseteq database'.recorded
  BY <1>2, <1>4
<1>12. QED
  BY <1>5, <1>6, <1>8, <1>9, <1>10, <1>11, RunnerStep

LEMMA TablesChangedInv == ASSUME IInv, NEW r \in Runners, TablesChanged(r) PROVE IInv'
<1> USE DEF IInv, TablesChanged
<1>1. /\ next[r] \in 1..Head /\ next[r] <= Image[r] /\ Image[r] \in 1..Head /\ Head \in Nat
      /\ 1..Image[r] \subseteq KnownTo(r)
  <2>1. next[r] \in 0..(Head + 1) /\ Image[r] \in 1..Head /\ Head \in Nat
    BY SchemaMigrationAssumption DEF TypeOK
  <2>2. pc[r] = "changing"
    OBVIOUS
  <2>3. next[r] >= 1 /\ next[r] <= Image[r] /\ 1..Image[r] \subseteq KnownTo(r)
    BY <2>2 DEF UpgradeRecorded
  <2>4. QED
    BY <2>1, <2>3
<1>2. /\ database' \in Database
      /\ database'.recorded = database.recorded
      /\ database'.version = database.version
      /\ database'.begun = database.begun
  BY <1>1 DEF TypeOK, Database, Migrations
<1>3. /\ pending' = [pending EXCEPT ![r] = [pending[r] EXCEPT !.version = next[r]]]
      /\ pending[r] \in Change
  BY DEF TypeOK
<1>4. /\ pending'[r] \in Change
      /\ pending'[r].recorded = pending[r].recorded
      /\ pending'[r].version = next[r]
      /\ pending'[r].whole = pending[r].whole
  BY <1>1, <1>3 DEF TypeOK, Change
<1>5. /\ next'[r] = next[r] + 1 /\ pc'[r] = "upgrading"
      /\ \A u \in Runners \ {r} :
           pending'[u] = pending[u] /\ pc'[u] = pc[u] /\ next'[u] = next[u]
  BY <1>3 DEF Advance, Goto, TypeOK
<1>6. TypeOK'
  <2>1. pending' \in [Runners -> Change] /\ pc' \in [Runners -> PC]
    BY <1>3, <1>4 DEF TypeOK, Goto, PC
  <2>2. next' \in [Runners -> 0..(Head + 1)]
    BY <1>1 DEF Advance, TypeOK
  <2>3. QED
    BY <1>2, <2>1, <2>2 DEF TypeOK
<1>7. CommittedInOrder' /\ KnownTo(r)' = KnownTo(r)
  BY <1>2, <1>4 DEF CommittedInOrder, KnownTo, Known
<1>8. PendingInOrder(r)'
  <2>1. 1..next[r] \subseteq KnownTo(r)
    BY <1>1
  <2>2. QED
    BY <1>4, <1>7, <2>1 DEF PendingInOrder
<1>9. UpgradeRecorded(r)'
  BY <1>1, <1>5, <1>7 DEF UpgradeRecorded
<1>10. QED
  BY <1>2, <1>5, <1>6, <1>7, <1>8, <1>9, RunnerStep

LEMMA CommitInv == ASSUME IInv, NEW r \in Runners, Commit(r) PROVE IInv'
<1> USE DEF IInv, Commit
<1>1. /\ database' \in Database
      /\ database'.recorded = database.recorded \cup pending[r].recorded
      /\ database'.begun = database.begun \cup pending[r].whole
      /\ database'.version \in {database.version, pending[r].version}
  BY CommitFits
<1>2. /\ pending'[r] = NoChange /\ pc'[r] \in {"done", "failed"}
      /\ \A u \in Runners \ {r} :
           pending'[u] = pending[u] /\ pc'[u] = pc[u] /\ next'[u] = next[u]
  BY DEF Goto, TypeOK
<1>3. TypeOK'
  <2>1. pending' \in [Runners -> Change] /\ pc' \in [Runners -> PC]
    BY NoChangeFits DEF TypeOK, Goto, PC
  <2>2. next' \in [Runners -> 0..(Head + 1)]
    BY SchemaMigrationAssumption DEF TypeOK
  <2>3. QED
    BY <1>1, <2>1, <2>2 DEF TypeOK
<1>4. Known' = KnownTo(r) /\ Known \subseteq Known'
  BY <1>1 DEF Known, KnownTo
<1>5. CommittedInOrder'
  <2>1. CommittedInOrder /\ PendingInOrder(r)
    OBVIOUS
  <2>2. QED
    BY <1>1, <1>4, <2>1 DEF CommittedInOrder, PendingInOrder
<1>6. PendingInOrder(r)' /\ UpgradeRecorded(r)'
  BY <1>2, NoChangeFits DEF PendingInOrder, UpgradeRecorded
<1>7. QED
  BY <1>1, <1>2, <1>3, <1>5, <1>6, RunnerStep

LEMMA CrashInv == ASSUME IInv, NEW r \in Runners, Crash(r) PROVE IInv'
<1> USE DEF IInv, Crash
<1>1. /\ pending'[r] = NoChange /\ pc'[r] = "failed"
      /\ \A u \in Runners \ {r} :
           pending'[u] = pending[u] /\ pc'[u] = pc[u] /\ next'[u] = next[u]
  BY DEF Goto, TypeOK
<1>2. TypeOK'
  <2>1. pending' \in [Runners -> Change] /\ pc' \in [Runners -> PC]
    BY NoChangeFits DEF TypeOK, Goto, PC
  <2>2. next' \in [Runners -> 0..(Head + 1)]
    BY SchemaMigrationAssumption DEF TypeOK
  <2>3. interrupted' \in BOOLEAN /\ holder' \in Runners \cup {Nobody}
    BY DEF TypeOK, Ahead
  <2>4. QED
    BY <2>1, <2>2, <2>3 DEF TypeOK
<1>3. CommittedInOrder'
  BY DEF CommittedInOrder, Known
<1>4. PendingInOrder(r)' /\ UpgradeRecorded(r)'
  BY <1>1, NoChangeFits DEF PendingInOrder, UpgradeRecorded
<1>5. QED
  BY <1>1, <1>2, <1>3, <1>4, RunnerStep

LEMMA StutterInv == ASSUME IInv, UNCHANGED vars PROVE IInv'
  BY DEF vars, IInv, TypeOK, CommittedInOrder, PendingInOrder, UpgradeRecorded, Known, KnownTo

LEMMA StepInv == IInv /\ [Next]_vars => IInv'
  BY QuietInv, UpToDateInv, BehindInv, ChangeRowsInv, ChangeTablesInv, TablesChangedInv,
     CommitInv, CrashInv, StutterInv DEF Next

THEOREM Invariance == Spec => []IInv
<1>1. QED
  BY InitInv, StepInv, PTL DEF Spec

-----------------------------------------------------------------------------
(* The theorems.                                                           *)

\* Types of the database, the transactions and the runners.
THEOREM TypeCorrect == Spec => []TypeOK
<1>1. IInv => TypeOK
  BY DEF IInv
<1>2. QED
  BY <1>1, Invariance, PTL

\* Whatever crashes or fails, a migration that has begun to change the schema has
\* its source recorded (run, _store_migration_sources).
THEOREM SourcesFirst == Spec => []SourcesBeforeSchema
<1>1. IInv => SourcesBeforeSchema
  BY DEF IInv, CommittedInOrder, Known, SourcesBeforeSchema
<1>2. QED
  BY <1>1, Invariance, PTL

-----------------------------------------------------------------------------
(* One upgrade.  Of the processes that start together the first upgrades,   *)
(* and whoever comes later finds either an untouched database or, after the *)
(* lock is free, a complete schema, although the last version may still     *)
(* wait for its commit.                                                    *)

\* The images know the deployed chain or all of the new one, which ends in a
\* table change: the lock is released before the commit, so what the upgrade has
\* recorded must be committed by its last migration at the latest.
OneTarget ==
    /\ \A r \in Runners : Image[r] <= Deployed \/ Image[r] = Head
    /\ Deployed < Head => Head \notin DataOnly

InUpgrade == {"upgrading", "changing"}

LockHeld ==
    \A r \in Runners :
        pc[r] \in InUpgrade \cup {"checking", "leaving", "failing"} => holder = r

NothingPending ==
    \A r \in Runners :
        pc[r] \in {"idle", "waiting", "checking", "done", "failed"} => pending[r] = NoChange

Locks == LockHeld /\ NothingPending

\* An upgrade has committed what it records.
Started == Deployed < Head /\ Head \in database.recorded

Complete == 1..Head \subseteq database.whole

DatabaseFits ==
    /\ 1..Deployed \subseteq database.whole
    /\ ~Started => /\ database.recorded \in {{}, 1..Deployed}
                   /\ database.version = Deployed
                   /\ database.begun = 1..Deployed
                   /\ database.whole = 1..Deployed
    /\ Started => Complete \/ \E r \in Runners : pc[r] \in InUpgrade

\* The version that the commit of r leaves.
VersionTo(r) == IF pending[r].version = 0 THEN database.version ELSE pending[r].version

\* Between two migrations all before the next one are done, here or in the open
\* transaction.
UpgradeFits(r) ==
    pc[r] = "upgrading" =>
        /\ Image[r] = Head /\ Deployed < next[r]
        /\ Head \in database.recorded \cup pending[r].recorded
        /\ database.begun \cup pending[r].whole = 1..(next[r] - 1)
        /\ database.whole \cup pending[r].whole = 1..(next[r] - 1)
        /\ database.version <= next[r] - 1
        /\ VersionTo(r) = next[r] - 1
        /\ next[r] > Head => Started /\ pending[r].whole = {}

ChangeFits(r) ==
    pc[r] = "changing" =>
        /\ Image[r] = Head /\ Deployed < next[r] /\ next[r] <= Head
        /\ Started /\ pending[r] = NoChange
        /\ database.begun = 1..next[r]
        /\ database.whole = 1..(next[r] - 1)
        /\ database.version <= next[r] - 1

\* What waits to be committed when the lock is free changes no table, and is no
\* news to the database but for the version of a complete schema.
EndFits(r) ==
    /\ pc[r] \in {"leaving", "failing", "committing", "rolling"} =>
        /\ pending[r].whole = {}
        /\ Started \/ pending[r].recorded \in {{}, 1..Deployed}
        /\ pending[r].version # 0 => pending[r].version = Head /\ Started /\ Complete
    /\ pc[r] \in {"leaving", "committing", "done"} => 1..Image[r] \subseteq database.whole

Fits ==
    /\ ~rerun
    /\ DatabaseFits
    /\ \A r \in Runners : UpgradeFits(r) /\ ChangeFits(r) /\ EndFits(r)

UInv == Locks /\ (~interrupted => Fits)

\* The lock.
LEMMA LocksNext == IInv /\ Locks /\ [Next]_vars => Locks'
<1> SUFFICES ASSUME IInv, Locks, [Next]_vars
             PROVE  Locks'
  OBVIOUS
<1>0. /\ pc \in [Runners -> PC] /\ pending \in [Runners -> Change]
      /\ Nobody \notin Runners
  BY SchemaMigrationAssumption DEF IInv, TypeOK
<1>1. CASE UNCHANGED vars
  BY <1>1 DEF vars, Locks, LockHeld, NothingPending
<1>2. ASSUME NEW r \in Runners, Start(r) \/ LockTimeout(r) \/ Restart(r)
      PROVE  Locks'
  BY <1>0, <1>2 DEF Start, LockTimeout, Restart, Goto, Locks, LockHeld, NothingPending, InUpgrade
<1>3. ASSUME NEW r \in Runners, Acquire(r)
      PROVE  Locks'
  BY <1>0, <1>3 DEF Acquire, LockFree, Goto, Locks, LockHeld, NothingPending, InUpgrade
<1>4. ASSUME NEW r \in Runners,
             \/ UpToDate(r) \/ Behind(r) \/ Unknown(r) \/ Upgraded(r) \/ Fails(r)
             \/ ChangeRows(r) \/ ChangeTables(r) \/ TablesChanged(r)
      PROVE  Locks'
  <2>1. /\ holder' = holder /\ holder = r
        /\ \A u \in Runners : u # r => pc'[u] = pc[u] /\ pending'[u] = pending[u]
        /\ pc'[r] \in InUpgrade \cup {"leaving", "failing"}
    BY <1>0, <1>4 DEF UpToDate, Behind, Unknown, Upgraded, Fails, ChangeRows, ChangeTables,
       TablesChanged, Goto, Locks, LockHeld, InUpgrade
  <2>2. QED
    BY <2>1 DEF Locks, LockHeld, NothingPending, InUpgrade
<1>5. ASSUME NEW r \in Runners, Release(r)
      PROVE  Locks'
  <2>1. holder = r /\ pending' = pending /\ pc'[r] \in {"committing", "rolling"}
    BY <1>0, <1>5 DEF Release, Goto, Locks, LockHeld
  <2>2. \A u \in Runners : u # r => pc'[u] = pc[u] /\ holder # u
    BY <1>0, <1>5, <2>1 DEF Release, Goto
  <2>3. QED
    BY <2>1, <2>2 DEF Locks, LockHeld, NothingPending, InUpgrade
<1>6. ASSUME NEW r \in Runners, Commit(r)
      PROVE  Locks'
  BY <1>0, <1>6 DEF Commit, Goto, Locks, LockHeld, NothingPending, InUpgrade
<1>7. ASSUME NEW r \in Runners, Crash(r)
      PROVE  Locks'
  BY <1>0, <1>7 DEF Crash, Goto, Locks, LockHeld, NothingPending, InUpgrade
<1>8. QED
  BY <1>1, <1>2, <1>3, <1>4, <1>5, <1>6, <1>7 DEF Next

\* The revision of a database in which an upgrade has recorded its target, and
\* of one in which none has.
LEMMA HeadFound ==
  ASSUME NEW d \in Database, Head \in d.recorded
  PROVE  DbRevision(d) = Head
<1> DEFINE S == d.recorded
<1>1. S \in SUBSET (0..Head) /\ S # {} /\ Head \in Nat
  BY SchemaMigrationAssumption DEF Database, Migrations
<1> HIDE DEF S
<1>2. Max(S) \in S /\ \A y \in S : y <= Max(S)
  BY <1>1, MaxExists
<1>3. Head \in S /\ DbRevision(d) = Max(S)
  BY <1>1 DEF DbRevision, S
<1>4. Max(S) \in 0..Head /\ Head <= Max(S)
  BY <1>1, <1>2, <1>3
<1>5. QED
  BY <1>1, <1>3, <1>4

LEMMA DeployedFound ==
  ASSUME TypeOK, DatabaseFits, ~Started
  PROVE  DbRevision(database) = Deployed
<1> DEFINE S == database.recorded
<1>1. S \in {{}, 1..Deployed} /\ database.version = Deployed /\ Deployed \in Nat
  BY SchemaMigrationAssumption DEF DatabaseFits
<1>2. CASE S = {}
  BY <1>1, <1>2 DEF DbRevision
<1>3. CASE S # {}
  <2>1. S = 1..Deployed /\ Deployed \in S
    BY <1>1, <1>3
  <2>2. S \in SUBSET (0..Deployed) /\ DbRevision(database) = Max(S)
    BY <1>1, <1>3, <2>1 DEF DbRevision
  <2> HIDE DEF S
  <2>3. Max(S) \in S /\ \A y \in S : y <= Max(S)
    BY <1>1, <1>3, <2>2, MaxExists
  <2>4. QED
    BY <1>1, <2>1, <2>2, <2>3
<1>4. QED
  BY <1>2, <1>3

LEMMA Numbers ==
  ASSUME IInv, NEW r \in Runners
  PROVE  /\ Head \in Nat \ {0} /\ Deployed \in 0..Head /\ Image[r] \in 1..Head
         /\ next[r] \in 0..(Head + 1)
         /\ database \in Database /\ pending[r] \in Change
         /\ database.version \in 0..Head /\ pending[r].version \in 0..Head
         /\ database.whole \subseteq 1..Head /\ database.begun \subseteq 1..Head
         /\ database.recorded \subseteq 1..Head /\ pending[r].recorded \subseteq 1..Head
         /\ pending[r].whole \subseteq 1..Head
  BY SchemaMigrationAssumption DEF IInv, TypeOK, Database, Change, Migrations

LEMMA VersionCommitted ==
  ASSUME IInv, NEW r \in Runners
  PROVE  With(database, pending[r]).version = VersionTo(r)
<1>1. database \in Database /\ pending[r] \in Change
  BY Numbers
<1>2. QED
  BY <1>1 DEF With, VersionTo, Database

\* Other runners, while the database grows.
LEMMA EndKept ==
  ASSUME NEW u \in Runners, EndFits(u), pc'[u] = pc[u], pending'[u] = pending[u],
         database.recorded \subseteq database'.recorded,
         database.whole \subseteq database'.whole
  PROVE  EndFits(u)'
  BY DEF EndFits, Started, Complete

LEMMA OthersWait ==
  ASSUME Locks, NEW r \in Runners, pc[r] \in InUpgrade, NEW u \in Runners, u # r
  PROVE  pc[u] \notin InUpgrade
  BY DEF Locks, LockHeld, InUpgrade

\* A step of one runner that leaves the database alone.
LEMMA DatabaseKept ==
  ASSUME Fits, NEW r \in Runners, database' = database, ~rerun',
         \A u \in Runners \ {r} :
             pending'[u] = pending[u] /\ pc'[u] = pc[u] /\ next'[u] = next[u],
         UpgradeFits(r)', ChangeFits(r)', EndFits(r)',
         pc[r] \in InUpgrade /\ Started => Complete \/ pc'[r] \in InUpgrade
  PROVE  Fits'
<1>1. Started' = Started /\ Complete' = Complete
  BY DEF Started, Complete
<1>2. DatabaseFits'
  BY <1>1 DEF Fits, DatabaseFits
<1>3. ASSUME NEW u \in Runners \ {r}
      PROVE  UpgradeFits(u)' /\ ChangeFits(u)' /\ EndFits(u)'
  <2>1. UpgradeFits(u) /\ ChangeFits(u) /\ EndFits(u)
    BY DEF Fits
  <2>2. VersionTo(u)' = VersionTo(u)
    BY DEF VersionTo
  <2>3. UpgradeFits(u)'
    BY <1>1, <2>1, <2>2 DEF UpgradeFits
  <2>4. ChangeFits(u)'
    BY <1>1, <2>1 DEF ChangeFits
  <2>5. EndFits(u)'
    BY <1>1, <2>1 DEF EndFits
  <2>6. QED
    BY <2>3, <2>4, <2>5
<1>4. QED
  BY <1>2, <1>3 DEF Fits

\* A step of a runner to a place where it upgrades nothing.
LEMMA FitsQuiet ==
  ASSUME OneTarget, IInv, Locks, Fits, ~interrupted', NEW r \in Runners,
         \/ Start(r) \/ Acquire(r) \/ LockTimeout(r) \/ Unknown(r) \/ Upgraded(r)
         \/ Fails(r) \/ Release(r) \/ Restart(r)
  PROVE  Fits'
<1>0. /\ pc \in [Runners -> PC]
      /\ UNCHANGED <<database, pending, next, rerun>>
      /\ \A u \in Runners \ {r} : pc'[u] = pc[u]
  BY DEF IInv, TypeOK, Start, Acquire, LockTimeout, Unknown, Upgraded, Fails, Release, Restart, Goto
<1>1. UpgradeFits(r) /\ ChangeFits(r) /\ EndFits(r) /\ ~rerun
  BY DEF Fits
<1>2. ASSUME pc'[r] \notin InUpgrade, EndFits(r)',
             pc[r] \in InUpgrade /\ Started => Complete
      PROVE  Fits'
  <2>1. UpgradeFits(r)' /\ ChangeFits(r)'
    BY <1>2 DEF UpgradeFits, ChangeFits, InUpgrade
  <2>2. QED
    BY <1>0, <1>1, <1>2, <2>1, DatabaseKept
<1>3. CASE Start(r) \/ Acquire(r) \/ LockTimeout(r) \/ Restart(r)
  <2>1. pc[r] \notin InUpgrade /\ pc'[r] \in {"waiting", "checking", "failed", "idle"}
    BY <1>0, <1>3 DEF Start, Acquire, LockTimeout, Restart, Goto, InUpgrade
  <2>2. EndFits(r)'
    BY <2>1 DEF EndFits
  <2>3. QED
    BY <1>2, <2>1, <2>2 DEF InUpgrade
<1>4. CASE Release(r)
  <2>1. \/ pc[r] = "leaving" /\ pc'[r] = "committing"
        \/ pc[r] = "failing" /\ pc'[r] = "rolling"
    BY <1>0, <1>4 DEF Release, Goto
  <2>2. EndFits(r)'
    BY <1>0, <1>1, <2>1 DEF EndFits, Started, Complete
  <2>3. QED
    BY <1>2, <2>1, <2>2 DEF InUpgrade
<1>5. CASE pc[r] = "checking" /\ pc'[r] = "failing"
  <2>1. pending[r].whole = {} /\ pending[r].recorded = {} /\ pending[r].version = 0
    BY <1>5, NoChangeFits DEF Locks, NothingPending
  <2>2. EndFits(r)'
    BY <1>0, <1>5, <2>1 DEF EndFits
  <2>3. QED
    BY <1>2, <1>5, <2>2 DEF InUpgrade
<1>6. CASE pc[r] = "upgrading" /\ next[r] > Head /\ pc'[r] \in {"leaving", "failing"}
  <2>1. next[r] - 1 = Head /\ Head \in Nat
    BY <1>6, Numbers
  <2>2. /\ Image[r] = Head /\ Started /\ pending[r].whole = {}
        /\ database.whole = 1..Head
        /\ pending[r].version # 0 => pending[r].version = Head
    BY <1>1, <1>6, <2>1 DEF UpgradeFits, VersionTo
  <2>3. Complete
    BY <2>2 DEF Complete
  <2>4. EndFits(r)'
    BY <1>0, <1>6, <2>2, <2>3 DEF EndFits, Started, Complete
  <2>5. QED
    BY <1>2, <1>6, <2>3, <2>4 DEF InUpgrade
<1>7. CASE Unknown(r)
  BY <1>0, <1>5, <1>7 DEF Unknown, Goto
<1>8. CASE Upgraded(r)
  BY <1>0, <1>1, <1>6, <1>8 DEF Upgraded, Goto, UpgradeFits
<1>9. CASE Fails(r)
  <2> DEFINE d == With(database, pending[r])
  <2>1. /\ pc[r] \in {"checking", "upgrading", "changing"} /\ pc'[r] = "failing"
        /\ ~Ahead(d)
    BY <1>0, <1>9 DEF Fails, Goto
  <2>2. d \in Database /\ d.recorded = database.recorded \cup pending[r].recorded
    BY CommitFits
  <2>3. d.version = VersionTo(r)
    BY VersionCommitted
  <2> HIDE DEF d
  <2>4. ~(Head \in d.recorded /\ VersionTo(r) < Head)
    BY <2>1, <2>2, <2>3, HeadFound DEF Ahead
  <2>5. pc[r] # "changing"
    <3>1. SUFFICES ASSUME pc[r] = "changing"
                   PROVE  FALSE
      OBVIOUS
    <3>2. /\ Head \in d.recorded
          /\ VersionTo(r) = database.version /\ database.version <= next[r] - 1 /\ next[r] <= Head
      BY <1>1, <2>2, <3>1, NoChangeFits DEF ChangeFits, Started, VersionTo
    <3>3. QED
      BY <2>4, <3>2, Numbers
  <2>6. pc[r] = "upgrading" => next[r] > Head
    <3>1. SUFFICES ASSUME pc[r] = "upgrading", ~(next[r] > Head)
                   PROVE  FALSE
      OBVIOUS
    <3>2. Head \in d.recorded /\ VersionTo(r) = next[r] - 1
      BY <1>1, <2>2, <3>1 DEF UpgradeFits
    <3>3. QED
      BY <2>4, <3>1, <3>2, Numbers
  <2>7. QED
    BY <1>5, <1>6, <2>1, <2>5, <2>6
<1>10. QED
  BY <1>3, <1>4, <1>7, <1>8, <1>9

LEMMA FitsUpToDate ==
  ASSUME OneTarget, IInv, Locks, Fits, NEW r \in Runners, UpToDate(r)
  PROVE  Fits'
<1>1. /\ Head \in Nat \ {0} /\ Deployed \in 0..Head /\ Image[r] \in 1..Head
      /\ database \in Database
      /\ pc[r] = "checking" /\ DbRevision(database) = Image[r]
      /\ pc'[r] = "leaving" /\ UNCHANGED <<database, next, rerun>>
      /\ TypeOK
  BY Numbers DEF UpToDate, Goto, IInv, TypeOK
<1>2. /\ pending'[r].recorded = 1..Image[r]
      /\ pending'[r].version = 0
      /\ pending'[r].whole = {}
  <2>1. pending' = [pending EXCEPT ![r].recorded = @ \cup 1..Image[r]]
    BY <1>1 DEF UpToDate, Sources
  <2>2. pending[r] \in Change /\ pending[r] = NoChange
    BY <1>1, Numbers DEF Locks, NothingPending
  <2>3. QED
    BY <1>1, <2>1, <2>2, NoChangeFits DEF TypeOK, Change
<1>3. \A u \in Runners \ {r} :
         pending'[u] = pending[u] /\ pc'[u] = pc[u] /\ next'[u] = next[u]
  BY <1>1 DEF UpToDate, Goto, TypeOK
<1>4. CASE Started
  <2>1. Image[r] = Head
    BY <1>1, <1>4, HeadFound DEF Started
  <2>2. Complete
    BY <1>1, <1>4 DEF Fits, DatabaseFits, Locks, LockHeld, InUpgrade
  <2>3. EndFits(r)'
    BY <1>1, <1>2, <1>4, <2>1, <2>2 DEF EndFits, Started, Complete
  <2>4. QED
    BY <1>1, <1>3, <2>3, DatabaseKept DEF Fits, UpgradeFits, ChangeFits, InUpgrade
<1>5. CASE ~Started
  <2>1. Image[r] = Deployed
    BY <1>1, <1>5, DeployedFound DEF Fits
  <2>2. EndFits(r)'
    BY <1>1, <1>2, <2>1 DEF EndFits, Fits, DatabaseFits
  <2>3. QED
    BY <1>1, <1>3, <2>2, DatabaseKept DEF Fits, UpgradeFits, ChangeFits, InUpgrade
<1>6. QED
  BY <1>4, <1>5

LEMMA FitsBehind ==
  ASSUME OneTarget, IInv, Locks, Fits, NEW r \in Runners, Behind(r)
  PROVE  Fits'
<1>1. /\ Head \in Nat \ {0} /\ Deployed \in 0..Head /\ Image[r] \in 1..Head
      /\ database \in Database
      /\ pc[r] = "checking" /\ DbRevision(database) < Image[r]
      /\ pc'[r] = "upgrading" /\ UNCHANGED <<database, rerun>>
      /\ TypeOK
  BY Numbers DEF Behind, Goto, IInv, TypeOK
<1>2. ~Started
  BY <1>1, HeadFound DEF Started
<1>3. DbRevision(database) = Deployed
  BY <1>1, <1>2, DeployedFound DEF Fits
<1>4. Image[r] = Head /\ Deployed < Head
  BY <1>1, <1>3 DEF OneTarget
<1>5. /\ database.version = Deployed
      /\ database.begun = 1..Deployed /\ database.whole = 1..Deployed
  BY <1>2 DEF Fits, DatabaseFits
<1>6. next'[r] = Deployed + 1
  BY <1>1, <1>5 DEF Behind, TypeOK
<1>7. /\ Head \in pending'[r].recorded
      /\ pending'[r].version = 0
      /\ pending'[r].whole = {}
  <2>1. pending' = [pending EXCEPT ![r].recorded = @ \cup (Deployed + 1)..Head]
    BY <1>3, <1>4 DEF Behind, Sources
  <2>2. pending[r] \in Change /\ pending[r] = NoChange
    BY <1>1, Numbers DEF Locks, NothingPending
  <2>3. Head \in (Deployed + 1)..Head
    BY <1>1, <1>4
  <2>4. QED
    BY <1>1, <2>1, <2>2, <2>3, NoChangeFits DEF TypeOK, Change
<1>8. \A u \in Runners \ {r} :
         pending'[u] = pending[u] /\ pc'[u] = pc[u] /\ next'[u] = next[u]
  BY <1>1 DEF Behind, Goto, TypeOK
<1>9. UpgradeFits(r)'
  <2>1. next'[r] - 1 = Deployed /\ Deployed < next'[r] /\ ~(next'[r] > Head)
    BY <1>1, <1>4, <1>6
  <2>2. VersionTo(r)' = Deployed
    BY <1>1, <1>5, <1>7 DEF VersionTo
  <2>3. QED
    BY <1>1, <1>4, <1>5, <1>7, <2>1, <2>2 DEF UpgradeFits
<1>10. ChangeFits(r)' /\ EndFits(r)'
  BY <1>1 DEF ChangeFits, EndFits
<1>11. QED
  BY <1>1, <1>8, <1>9, <1>10, DatabaseKept DEF Fits, InUpgrade

LEMMA FitsChangeRows ==
  ASSUME OneTarget, IInv, Locks, Fits, NEW r \in Runners, ChangeRows(r)
  PROVE  Fits'
<1> DEFINE n == next[r]
<1>1. /\ Head \in Nat \ {0} /\ Deployed \in 0..Head
      /\ pc[r] = "upgrading" /\ n <= Image[r] /\ n \in DataOnly
      /\ UNCHANGED <<database, pc>>
      /\ database \in Database /\ pending[r] \in Change /\ n \in 0..(Head + 1)
      /\ database.version \in 0..Head
      /\ TypeOK
  BY Numbers DEF ChangeRows, IInv
<1>2. /\ Image[r] = Head /\ Deployed < n
      /\ Head \in database.recorded \cup pending[r].recorded
      /\ database.begun \cup pending[r].whole = 1..(n - 1)
      /\ database.whole \cup pending[r].whole = 1..(n - 1)
      /\ database.version <= n - 1
  BY <1>1 DEF Fits, UpgradeFits
<1>3. n < Head
  BY <1>1, <1>2 DEF OneTarget
<1>4. ~rerun'
  <2>1. n \notin database.begun
    BY <1>1, <1>2
  <2>2. rerun' = (rerun \/ n \in database.begun) /\ ~rerun
    BY DEF ChangeRows, Fits
  <2>3. QED
    BY <2>1, <2>2
<1>5. /\ pending'[r].recorded = pending[r].recorded
      /\ pending'[r].version = n
      /\ pending'[r].whole = pending[r].whole \cup {n}
  <2>1. pending' = [pending EXCEPT ![r].whole = @ \cup {n}, ![r].version = n]
    BY DEF ChangeRows
  <2>2. pending' = [pending EXCEPT ![r] = [pending[r] EXCEPT !.whole = @ \cup {n}, !.version = n]]
    BY <1>1, <2>1 DEF TypeOK
  <2> HIDE DEF n
  <2>3. QED
    BY <1>1, <2>2 DEF TypeOK, Change
<1>6. /\ next'[r] = n + 1
      /\ \A u \in Runners \ {r} :
           pending'[u] = pending[u] /\ pc'[u] = pc[u] /\ next'[u] = next[u]
  BY <1>1 DEF ChangeRows, Advance, TypeOK
<1> HIDE DEF n
<1>7. UpgradeFits(r)'
  <2>1. next'[r] - 1 = n /\ Deployed < next'[r] /\ ~(next'[r] > Head) /\ n # 0
    BY <1>1, <1>2, <1>3, <1>6
  <2>2. VersionTo(r)' = n
    BY <1>5, <2>1 DEF VersionTo
  <2>3. 1..(n - 1) \cup {n} = 1..n
    BY <1>1, <1>2
  <2>4. /\ database.begun \cup pending'[r].whole = 1..n
        /\ database.whole \cup pending'[r].whole = 1..n
    BY <1>2, <1>5, <2>3
  <2>5. database.version <= n
    BY <1>1, <1>2
  <2>6. QED
    BY <1>1, <1>2, <1>5, <2>1, <2>2, <2>4, <2>5 DEF UpgradeFits
<1>8. ChangeFits(r)' /\ EndFits(r)'
  BY <1>1 DEF ChangeFits, EndFits
<1>9. QED
  BY <1>1, <1>4, <1>6, <1>7, <1>8, DatabaseKept DEF InUpgrade

LEMMA FitsChangeTables ==
  ASSUME IInv, Locks, Fits, NEW r \in Runners, ChangeTables(r)
  PROVE  Fits'
<1> DEFINE n == next[r]
           d == With(database, pending[r])
<1>1. /\ Head \in Nat \ {0} /\ Deployed \in 0..Head
      /\ pc[r] = "upgrading" /\ pc'[r] = "changing" /\ n <= Image[r]
      /\ next' = next /\ n \in 0..(Head + 1)
      /\ pending'[r] = NoChange
      /\ \A u \in Runners \ {r} : pending'[u] = pending[u] /\ pc'[u] = pc[u]
  BY Numbers DEF ChangeTables, IInv, TypeOK, Goto
<1>2. /\ Image[r] = Head /\ Deployed < n
      /\ Head \in database.recorded \cup pending[r].recorded
      /\ database.begun \cup pending[r].whole = 1..(n - 1)
      /\ database.whole \cup pending[r].whole = 1..(n - 1)
      /\ VersionTo(r) = n - 1
  BY <1>1 DEF Fits, UpgradeFits
<1>3. /\ d \in Database
      /\ d.recorded = database.recorded \cup pending[r].recorded
      /\ d.begun = 1..(n - 1) /\ d.whole = 1..(n - 1)
      /\ d.version = n - 1
  BY <1>2, CommitFits, VersionCommitted
<1>4. database' = [d EXCEPT !.begun = @ \cup {n}]
  BY DEF ChangeTables
<1>5. ~rerun'
  <2>1. n \notin database.begun
    BY <1>1, <1>2
  <2>2. rerun' = (rerun \/ n \in database.begun) /\ ~rerun
    BY DEF ChangeTables, Fits
  <2>3. QED
    BY <2>1, <2>2
<1> HIDE DEF n, d
<1>6. /\ database'.recorded = d.recorded
      /\ database'.begun = 1..n /\ database'.whole = 1..(n - 1)
      /\ database'.version = n - 1
  <2>1. 1..(n - 1) \cup {n} = 1..n
    BY <1>1, <1>2
  <2>2. QED
    BY <1>3, <1>4, <2>1 DEF Database
<1>7. Started'
  BY <1>1, <1>2, <1>3, <1>6 DEF Started
<1>8. DatabaseFits'
  <2>1. 1..Deployed \subseteq database'.whole
    BY <1>1, <1>2, <1>6
  <2>2. QED
    BY <1>1, <1>7, <2>1 DEF DatabaseFits, InUpgrade
<1>9. /\ database.recorded \subseteq database'.recorded
      /\ database.whole \subseteq database'.whole
  BY <1>2, <1>3, <1>6
<1>10. UpgradeFits(r)' /\ ChangeFits(r)' /\ EndFits(r)'
  BY <1>1, <1>2, <1>6, <1>7 DEF UpgradeFits, ChangeFits, EndFits, n
<1>11. ASSUME NEW u \in Runners \ {r}
       PROVE  UpgradeFits(u)' /\ ChangeFits(u)' /\ EndFits(u)'
  <2>1. pc'[u] \notin InUpgrade
    BY <1>1, OthersWait DEF InUpgrade
  <2>2. EndFits(u)'
    BY <1>1, <1>9, EndKept DEF Fits
  <2>3. QED
    BY <2>1, <2>2 DEF UpgradeFits, ChangeFits, InUpgrade
<1>12. QED
  BY <1>5, <1>8, <1>10, <1>11 DEF Fits

LEMMA FitsTablesChanged ==
  ASSUME IInv, Locks, Fits, NEW r \in Runners, TablesChanged(r)
  PROVE  Fits'
<1> DEFINE n == next[r]
<1>1. /\ Head \in Nat \ {0} /\ Deployed \in 0..Head
      /\ pc[r] = "changing" /\ pc'[r] = "upgrading" /\ rerun' = rerun
      /\ n \in 0..(Head + 1) /\ database \in Database /\ pending[r] \in Change
      /\ \A u \in Runners \ {r} : pending'[u] = pending[u] /\ pc'[u] = pc[u]
      /\ next'[r] = n + 1
      /\ TypeOK
  BY Numbers DEF TablesChanged, IInv, TypeOK, Goto, Advance
<1>2. /\ Image[r] = Head /\ Deployed < n /\ n <= Head
      /\ Started /\ pending[r] = NoChange
      /\ database.begun = 1..n
      /\ database.whole = 1..(n - 1)
      /\ database.version <= n - 1
  BY <1>1 DEF Fits, ChangeFits
<1>3. database' = [database EXCEPT !.whole = @ \cup {n}]
  BY DEF TablesChanged
<1>4. /\ pending'[r].version = n
      /\ pending'[r].whole = {}
  <2>1. pending' = [pending EXCEPT ![r] = [pending[r] EXCEPT !.version = n]]
    BY <1>1 DEF TablesChanged, TypeOK
  <2> HIDE DEF n
  <2>2. QED
    BY <1>1, <1>2, <2>1, NoChangeFits DEF TypeOK, Change
<1> HIDE DEF n
<1>5. /\ database'.recorded = database.recorded
      /\ database'.begun = 1..n /\ database'.whole = 1..n
      /\ database'.version = database.version
  <2>1. 1..(n - 1) \cup {n} = 1..n
    BY <1>1, <1>2
  <2>2. QED
    BY <1>1, <1>2, <1>3, <2>1 DEF Database
<1>6. Started'
  BY <1>2, <1>5 DEF Started
<1>7. DatabaseFits'
  <2>1. 1..Deployed \subseteq database'.whole
    BY <1>1, <1>2, <1>5
  <2>2. QED
    BY <1>1, <1>6, <2>1 DEF DatabaseFits, InUpgrade
<1>8. UpgradeFits(r)'
  <2>1. next'[r] - 1 = n /\ Deployed < next'[r] /\ n # 0
    BY <1>1, <1>2
  <2>2. VersionTo(r)' = n
    BY <1>4, <2>1 DEF VersionTo
  <2>3. database.version \in 0..Head /\ database.version <= n
    BY <1>1, <1>2, Numbers
  <2>4. Head \in database'.recorded
    BY <1>6 DEF Started
  <2>5. QED
    BY <1>2, <1>4, <1>5, <1>6, <2>1, <2>2, <2>3, <2>4 DEF UpgradeFits
<1>9. ChangeFits(r)' /\ EndFits(r)'
  BY <1>1 DEF ChangeFits, EndFits
<1>10. /\ database.recorded \subseteq database'.recorded
       /\ database.whole \subseteq database'.whole
  BY <1>1, <1>2, <1>5
<1>11. ASSUME NEW u \in Runners \ {r}
       PROVE  UpgradeFits(u)' /\ ChangeFits(u)' /\ EndFits(u)'
  <2>1. pc'[u] \notin InUpgrade
    BY <1>1, OthersWait DEF InUpgrade
  <2>2. EndFits(u)'
    BY <1>1, <1>10, EndKept DEF Fits
  <2>3. QED
    BY <2>1, <2>2 DEF UpgradeFits, ChangeFits, InUpgrade
<1>12. QED
  BY <1>1, <1>7, <1>8, <1>9, <1>11 DEF Fits

LEMMA FitsCommit ==
  ASSUME IInv, Locks, Fits, NEW r \in Runners, Commit(r)
  PROVE  Fits'
<1>1. /\ Head \in Nat \ {0} /\ Deployed \in 0..Head
      /\ \/ pc[r] = "committing" /\ pc'[r] = "done"
         \/ pc[r] = "rolling" /\ pc'[r] = "failed"
      /\ rerun' = rerun
      /\ \A u \in Runners \ {r} :
           pending'[u] = pending[u] /\ pc'[u] = pc[u] /\ next'[u] = next[u]
      /\ database' = With(database, pending[r])
  BY Numbers DEF Commit, IInv, TypeOK, Goto
<1>2. /\ pending[r].whole = {}
      /\ Started \/ pending[r].recorded \in {{}, 1..Deployed}
      /\ pending[r].version # 0 => pending[r].version = Head /\ Started /\ Complete
      /\ pc[r] = "committing" => 1..Image[r] \subseteq database.whole
  BY <1>1 DEF Fits, EndFits
<1>3. /\ database'.recorded = database.recorded \cup pending[r].recorded
      /\ database'.begun = database.begun
      /\ database'.whole = database.whole
      /\ database'.version = VersionTo(r)
  BY <1>1, <1>2, CommitFits, VersionCommitted
<1>4. Started' = Started
  BY <1>1, <1>2, <1>3 DEF Started
<1>5. DatabaseFits'
  <2>1. ~Started => /\ database'.recorded \in {{}, 1..Deployed}
                    /\ database'.version = Deployed
    BY <1>2, <1>3 DEF Fits, DatabaseFits, VersionTo
  <2>2. (\E u \in Runners : pc[u] \in InUpgrade) => \E u \in Runners : pc'[u] \in InUpgrade
    BY <1>1 DEF InUpgrade
  <2>3. QED
    BY <1>3, <1>4, <2>1, <2>2 DEF Fits, DatabaseFits, Complete
<1>6. UpgradeFits(r)' /\ ChangeFits(r)' /\ EndFits(r)'
  BY <1>1, <1>2, <1>3 DEF UpgradeFits, ChangeFits, EndFits
<1>7. ASSUME NEW u \in Runners \ {r}
      PROVE  UpgradeFits(u)' /\ ChangeFits(u)' /\ EndFits(u)'
  <2>0. /\ next[u] \in 0..(Head + 1) /\ database.version \in 0..Head
        /\ UpgradeFits(u) /\ ChangeFits(u) /\ EndFits(u)
    BY Numbers DEF Fits
  <2>1. EndFits(u)'
    BY <1>1, <1>3, <2>0, EndKept
  <2>2. CASE pending[r].version = 0
    <3>1. database'.version = database.version
      BY <1>3, <2>2 DEF VersionTo
    <3>2. VersionTo(u)' = VersionTo(u)
      BY <1>1, <3>1 DEF VersionTo
    <3>3. UpgradeFits(u)'
      BY <1>1, <1>3, <1>4, <2>0, <3>1, <3>2 DEF UpgradeFits
    <3>4. ChangeFits(u)'
      BY <1>1, <1>3, <1>4, <2>0, <3>1 DEF ChangeFits
    <3>5. QED
      BY <2>1, <3>3, <3>4
  <2>3. CASE pending[r].version # 0
    <3>1. database'.version = Head /\ Complete
      BY <1>2, <1>3, <2>3 DEF VersionTo
    <3>2. pc[u] # "changing"
      <4>1. Head \in database.whole
        BY <1>1, <3>1 DEF Complete
      <4>2. QED
        BY <1>1, <2>0, <4>1 DEF ChangeFits
    <3>3. pc[u] = "upgrading" => next[u] - 1 = Head
      <4>1. Head \in database.whole
        BY <1>1, <3>1 DEF Complete
      <4>2. pc[u] = "upgrading" => Head \in 1..(next[u] - 1)
        BY <2>0, <4>1 DEF UpgradeFits
      <4>3. QED
        BY <1>1, <2>0, <4>2
    <3>4. UpgradeFits(u)'
      <4>1. SUFFICES ASSUME pc[u] = "upgrading"
                     PROVE  UpgradeFits(u)'
        BY <1>1 DEF UpgradeFits
      <4>2. VersionTo(u)' = next[u] - 1
        BY <1>1, <2>0, <3>1, <3>3, <4>1 DEF UpgradeFits, VersionTo
      <4>3. database'.version <= next[u] - 1
        BY <1>1, <3>1, <3>3, <4>1
      <4>4. QED
        BY <1>1, <1>3, <1>4, <2>0, <4>1, <4>2, <4>3 DEF UpgradeFits
    <3>5. QED
      BY <1>1, <2>1, <3>2, <3>4 DEF ChangeFits
  <2>4. QED
    BY <2>2, <2>3
<1>8. QED
  BY <1>1, <1>5, <1>6, <1>7 DEF Fits

\* A holder that dies in an upgrade it has recorded has interrupted it, unless
\* the schema was complete.
LEMMA FitsCrash ==
  ASSUME IInv, Locks, Fits, ~interrupted', NEW r \in Runners, Crash(r)
  PROVE  Fits'
<1>1. /\ Head \in Nat \ {0}
      /\ pc'[r] = "failed" /\ UNCHANGED <<database, rerun>>
      /\ \A u \in Runners \ {r} :
           pending'[u] = pending[u] /\ pc'[u] = pc[u] /\ next'[u] = next[u]
      /\ next[r] \in 0..(Head + 1) /\ database.version \in 0..Head /\ database \in Database
      /\ ~(holder = r /\ Ahead(database))
  BY Numbers DEF Crash, IInv, TypeOK, Goto
<1>2. UpgradeFits(r)' /\ ChangeFits(r)' /\ EndFits(r)'
  BY <1>1 DEF UpgradeFits, ChangeFits, EndFits
<1>3. pc[r] \in InUpgrade /\ Started => Complete
  <2>1. SUFFICES ASSUME pc[r] \in InUpgrade, Started
                 PROVE  Complete
    OBVIOUS
  <2>2. holder = r /\ DbRevision(database) = Head
    BY <1>1, <2>1, HeadFound DEF Locks, LockHeld, Started
  <2>3. database.version >= Head
    BY <1>1, <2>2 DEF Ahead
  <2>4. pc[r] = "upgrading" /\ next[r] - 1 = Head
    <3>1. UpgradeFits(r) /\ ChangeFits(r)
      BY DEF Fits
    <3>2. QED
      BY <1>1, <2>1, <2>3, <3>1 DEF UpgradeFits, ChangeFits, InUpgrade
  <2>5. pending[r].whole = {} /\ database.whole \cup pending[r].whole = 1..Head
    <3>1. next[r] > Head
      BY <1>1, <2>4
    <3>2. QED
      BY <2>4, <3>1 DEF Fits, UpgradeFits
  <2>6. QED
    BY <2>5 DEF Complete
<1>4. QED
  BY <1>1, <1>2, <1>3, DatabaseKept DEF Fits

LEMMA UpgradeNext == OneTarget /\ IInv /\ UInv /\ [Next]_vars => UInv'
<1> SUFFICES ASSUME OneTarget, IInv, UInv, [Next]_vars
             PROVE  UInv'
  OBVIOUS
<1>1. Locks'
  BY LocksNext DEF UInv
<1>2. ASSUME ~interrupted'
      PROVE  Fits'
  <2>1. Locks /\ Fits
    <3>1. interrupted => interrupted'
      BY DEF Next, vars, Start, Acquire, LockTimeout, UpToDate, Behind, Unknown, ChangeRows,
         ChangeTables, TablesChanged, Upgraded, Fails, Release, Commit, Crash, Restart
    <3>2. QED
      BY <1>2, <3>1 DEF UInv
  <2>2. CASE UNCHANGED vars
    BY <2>1, <2>2 DEF vars, Fits, DatabaseFits, UpgradeFits, ChangeFits, EndFits, Started, Complete,
       VersionTo
  <2>3. CASE Next
    BY <1>2, <2>1, <2>3, FitsQuiet, FitsUpToDate, FitsBehind, FitsChangeRows, FitsChangeTables,
       FitsTablesChanged, FitsCommit, FitsCrash DEF Next
  <2>4. QED
    BY <2>2, <2>3
<1>3. QED
  BY <1>1, <1>2 DEF UInv

LEMMA UpgradeInit == Init => UInv
<1> SUFFICES ASSUME Init
             PROVE  UInv
  OBVIOUS
<1>1. \A r \in Runners : pc[r] = "idle" /\ pending[r] = NoChange
  BY DEF Init
<1>2. Locks
  BY <1>1 DEF Locks, LockHeld, NothingPending, InUpgrade
<1>3. DatabaseFits
  BY DEF Init, DatabaseFits, Started
<1>4. QED
  BY <1>1, <1>2, <1>3 DEF Init, UInv, Fits, UpgradeFits, ChangeFits, EndFits

\* Where all new images are of one chain that ends in a table change, of the
\* processes that start together one upgrades: unless an upgrade was
\* interrupted no migration is run twice, and whoever starts to serve finds its
\* schema complete, although run releases the lock before it commits.
THEOREM OneUpgrade ==
  ASSUME OneTarget
  PROVE  Spec => []UpgradesOnce
<1>1. UInv => UpgradesOnce
  BY DEF UInv, Fits, EndFits, UpgradesOnce, SynchronisedBeforeServing
<1>2. IInv /\ UInv /\ [Next]_vars => IInv' /\ UInv'
  BY StepInv, UpgradeNext
<1>3. QED
  BY <1>1, <1>2, InitInv, UpgradeInit, PTL DEF Spec

=============================================================================
