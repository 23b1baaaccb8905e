--------------------------- MODULE RuntimeConfig ---------------------------
(***************************************************************************)
(* The versioned runtime configuration: the revisions, the state row that  *)
(* names the active one, the admin requests that create, activate and      *)
(* archive revisions, and the copy of the settings that each process keeps *)
(* (get_settings is an lru_cache).                                         *)
(*                                                                         *)
(* A request is a transaction: it reads a snapshot, and what it has decided *)
(* is written when the session commits, over whatever the rows have become. *)
(* An activation or an archival clears the cache of its process between    *)
(* the two.  Loading the cache is two steps as well.  The insert of a new  *)
(* revision waits for an open insert of the same version and fails if that *)
(* one commits, so insert and commit are one step.                         *)
(***************************************************************************)
EXTENDS Naturals, Sequences, FiniteSets

CONSTANTS
    Clients,        \* threads that serve admin requests
    Processes,      \* processes that hold settings
    Servers,        \* those of them that serve the API; the others are workers
    Nobody,         \* no process
    MaxRevisions    \* bound on the number of revisions

ASSUME RuntimeConfigAssumption ==
    /\ Servers \subseteq Processes
    /\ Nobody \notin Processes
    /\ MaxRevisions \in Nat \ {0}

VARIABLES
    revision,     \* the runtime_config_revision rows, in the order of their ids
    active,       \* active_revision_id of the state row
    request,      \* the transaction of each client's request
    cache,        \* the revision whose settings a process holds
    loading,      \* what the calls of get_settings in a process have read
    overlapped,   \* has a write committed while another one was open?
    publisher     \* who must hold the active settings: see Commit

vars == <<revision, active, request, cache, loading, overlapped, publisher>>

-----------------------------------------------------------------------------
(* The state.                                                              *)

ConfigRevisionStatus == {"DRAFT", "ACTIVE", "ARCHIVED"}

NoRevision == 0
RevisionIds == 1..Len(revision)
RevisionRef == 0..MaxRevisions

\* published: is published_at set?
Revision == [version_no       : 1..MaxRevisions,
             status           : ConfigRevisionStatus,
             base_revision_id : RevisionRef,
             published        : BOOLEAN]

\* The columns that the UPDATEs of a request will name: the rows whose status
\* it changes, the row it publishes, the new value of the state row; whether it
\* has cleared the cache of its process, and that cache was filled since.
Write == [op        : {"activate", "archive"},
          at        : Servers,
          archives  : SUBSET (1..MaxRevisions),
          activates : SUBSET (1..MaxRevisions),
          publishes : RevisionRef,
          state     : RevisionRef,
          cleared   : BOOLEAN,
          filled    : BOOLEAN]
Creation == [op : {"create"}, version_no : 1..(MaxRevisions + 1), base_revision_id : RevisionRef]
NoRequest == [op |-> "none"]

Open(c) == request[c].op # "none"
Writing(c) == request[c].op \in {"activate", "archive"}

\* What the migration of the tables leaves; every process has loaded its
\* settings when it started.
Init ==
    /\ revision = << [version_no |-> 1, status |-> "ACTIVE",
                      base_revision_id |-> NoRevision, published |-> TRUE] >>
    /\ active = 1
    /\ request = [c \in Clients |-> NoRequest]
    /\ cache = [p \in Processes |-> 1]
    /\ loading = [p \in Processes |-> {}]
    /\ overlapped = FALSE
    /\ publisher = Nobody

-----------------------------------------------------------------------------
(* Creation of a revision.                                                 *)

Versions == {revision[i].version_no : i \in RevisionIds}

\* Mutant: one too many.
NextVersionSkips == 2 + (CHOOSE v \in Versions : \A w \in Versions : w <= v)

NextVersion == 1 + (CHOOSE v \in Versions : \A w \in Versions : w <= v)

\* Mutant: the base is not compared with the active revision.
BaseAllowedAlways(b) == TRUE

\* base_revision_id is optional, and must name the active revision if given.
BaseAllowed(b) == b \in {NoRevision, active}

CreateRead(c, b) ==
    /\ ~Open(c)
    /\ Len(revision) < MaxRevisions
    /\ BaseAllowed(b)
    /\ request' = [request EXCEPT ![c] =
         [op |-> "create", version_no |-> NextVersion, base_revision_id |-> b]]
    /\ UNCHANGED <<revision, active, cache, loading, overlapped, publisher>>

\* Mutant: version_no is not unique.
VersionFreeAlways(v) == TRUE

\* The unique constraint on version_no.
VersionFree(v) == v \notin Versions

\* Mutant: a new revision is ACTIVE at once.
NewRevisionActive(r) ==
    [version_no |-> r.version_no, status |-> "ACTIVE",
     base_revision_id |-> r.base_revision_id, published |-> FALSE]

NewRevision(r) ==
    [version_no |-> r.version_no, status |-> "DRAFT",
     base_revision_id |-> r.base_revision_id, published |-> FALSE]

CreateCommit(c) ==
    /\ request[c].op = "create"
    /\ Len(revision) < MaxRevisions
    /\ VersionFree(request[c].version_no)
    /\ revision' = Append(revision, NewRevision(request[c]))
    /\ request' = [request EXCEPT ![c] = NoRequest]
    /\ UNCHANGED <<active, cache, loading, overlapped, publisher>>

\* Any request may fail and is rolled back.  A creation whose version is taken
\* ends this way and no other.
Fails(c) ==
    /\ Open(c)
    /\ request' = [request EXCEPT ![c] = NoRequest]
    /\ UNCHANGED <<revision, active, cache, loading, overlapped, publisher>>

-----------------------------------------------------------------------------
(* Activation and archival.                                                *)

\* Mutant: the revision that was active is left as it is.
ActivatesKeepingOld(r, p) ==
    [op        |-> "activate",
     at        |-> p,
     archives  |-> {},
     activates |-> {r} \ {i \in RevisionIds : revision[i].status = "ACTIVE"},
     publishes |-> r,
     state     |-> IF active = r THEN NoRevision ELSE r,
     cleared   |-> FALSE,
     filled    |-> FALSE]

\* Only values that differ from the snapshot are written.
Activates(r, p) ==
    [op        |-> "activate",
     at        |-> p,
     archives  |-> ({active} \ {r}) \ {i \in RevisionIds : revision[i].status = "ARCHIVED"},
     activates |-> {r} \ {i \in RevisionIds : revision[i].status = "ACTIVE"},
     publishes |-> r,
     state     |-> IF active = r THEN NoRevision ELSE r,
     cleared   |-> FALSE,
     filled    |-> FALSE]

ActivateRead(c, r, p) ==
    /\ ~Open(c)
    /\ request' = [request EXCEPT ![c] = Activates(r, p)]
    /\ UNCHANGED <<revision, active, cache, loading, overlapped, publisher>>

\* Mutant: the active revision may be archived.
ArchivableAlways(r) == TRUE

\* "Active revision cannot be archived".
Archivable(r) == active # r

ArchiveRead(c, r, p) ==
    /\ ~Open(c)
    /\ Archivable(r)
    /\ request' = [request EXCEPT ![c] =
         [op        |-> "archive",
          at        |-> p,
          archives  |-> {r} \ {i \in RevisionIds : revision[i].status = "ARCHIVED"},
          activates |-> {},
          publishes |-> NoRevision,
          state     |-> NoRevision,
          cleared   |-> FALSE,
          filled    |-> FALSE]]
    /\ UNCHANGED <<revision, active, cache, loading, overlapped, publisher>>

\* Mutant: the request keeps the settings of its process.
ClearedNot(p) == cache

\* clear_settings_caches: what its process holds, not what it is loading.
Cleared(p) == [cache EXCEPT ![p] = NoRevision]

\* The route clears the caches of its process while the session is still open.
Clear(c) ==
    /\ Writing(c)
    /\ ~request[c].cleared
    /\ request' = [request EXCEPT ![c].cleared = TRUE]
    /\ cache' = Cleared(request[c].at)
    /\ UNCHANGED <<revision, active, loading, overlapped, publisher>>

Updated(w, i) ==
    [revision[i] EXCEPT
       !.status = IF i \in w.archives THEN "ARCHIVED"
                  ELSE IF i \in w.activates THEN "ACTIVE" ELSE @,
       !.published = @ \/ i = w.publishes]

\* The session commits.  publisher is the process that served the last
\* activation, if no call of get_settings had stored its answer there since the
\* cache was cleared or was under way when the activation committed.
Commit(c) ==
    LET w == request[c] IN
    /\ Writing(c)
    /\ w.cleared
    /\ revision' = [i \in RevisionIds |-> Updated(w, i)]
    /\ active' = IF w.state = NoRevision THEN active ELSE w.state
    /\ request' = [request EXCEPT ![c] = NoRequest]
    /\ overlapped' = (overlapped \/ \E d \in Clients \ {c} : Writing(d))
    /\ publisher' = IF w.state = NoRevision THEN publisher
                    ELSE IF ~w.filled /\ loading[w.at] = {} THEN w.at
                    ELSE Nobody
    /\ UNCHANGED <<cache, loading>>

-----------------------------------------------------------------------------
(* The settings of the processes.                                          *)

\* Mutant: the newest revision, not the active one.
TemplateNewest == Len(revision)

\* The revision whose template get_settings reads.
Template == active

\* get_settings finds the cache empty and reads the active revision.
LoadRead(p) ==
    /\ cache[p] = NoRevision
    /\ loading' = [loading EXCEPT ![p] = @ \cup {Template}]
    /\ UNCHANGED <<revision, active, request, cache, overlapped, publisher>>

\* A call ends.  lru_cache stores its result unless another call has stored
\* one; other calls may still hold the same answer.
LoadStore(p, r) ==
    /\ r \in loading[p]
    /\ loading' \in {loading, [loading EXCEPT ![p] = @ \ {r}]}
    /\ cache' = [cache EXCEPT ![p] = IF @ = NoRevision THEN r ELSE @]
    /\ request' = [c \in Clients |->
         IF Writing(c) /\ request[c].at = p
         THEN [request[c] EXCEPT !.filled = @ \/ request[c].cleared] ELSE request[c]]
    /\ UNCHANGED <<revision, active, overlapped, publisher>>

\* The process stops, its requests are rolled back, and it starts again.
Restart(p) ==
    /\ cache' = [cache EXCEPT ![p] = NoRevision]
    /\ loading' = [loading EXCEPT ![p] = {}]
    /\ request' = [c \in Clients |->
         IF Writing(c) /\ request[c].at = p THEN NoRequest ELSE request[c]]
    /\ UNCHANGED <<revision, active, overlapped, publisher>>

-----------------------------------------------------------------------------

Next ==
    \/ \E c \in Clients :
         \/ \E b \in RevisionIds \cup {NoRevision} : CreateRead(c, b)
         \/ CreateCommit(c)
         \/ \E r \in RevisionIds, p \in Servers : ActivateRead(c, r, p) \/ ArchiveRead(c, r, p)
         \/ Clear(c)
         \/ Commit(c)
         \/ Fails(c)
    \/ \E p \in Processes :
         \/ LoadRead(p)
         \/ \E r \in RevisionIds : LoadStore(p, r)
         \/ Restart(p)

Spec == Init /\ [][Next]_vars

-----------------------------------------------------------------------------
(* Properties.                                                             *)

TypeOK ==
    /\ revision \in Seq(Revision)
    /\ Len(revision) \in 1..MaxRevisions
    /\ active \in RevisionIds
    /\ request \in [Clients -> {NoRequest} \cup Creation \cup Write]
    /\ cache \in [Processes -> RevisionIds \cup {NoRevision}]
    /\ loading \in [Processes -> SUBSET RevisionIds]
    /\ overlapped \in BOOLEAN
    /\ publisher \in Servers \cup {Nobody}

\* A revision that was never activated is in use nowhere: not in the state row,
\* not in the settings of a process, not as the base of another revision, in
\* whatever order requests, failures, loads and restarts come (get_settings,
\* activate_revision, create_revision).
OnlyPublishedInUse ==
    \A r \in RevisionIds :
        \/ revision[r].published
        \/ /\ active # r
           /\ \A p \in Processes : cache[p] # r /\ r \notin loading[p]
           /\ \A i \in RevisionIds : revision[i].base_revision_id # r

\* Version numbers are unique and without gaps, however many creations have
\* read the same maximum (create_revision).
VersionsCount == Versions = 1..Len(revision) /\ Cardinality(Versions) = Len(revision)

\* As long as no two activations or archivals have overlapped, exactly one
\* revision is ACTIVE, and it is the one that the state row names
\* (activate_revision, archive_revision).
OneActive ==
    ~overlapped => {r \in RevisionIds : revision[r].status = "ACTIVE"} = {active}

\* The process that served the last activation holds the new settings or none,
\* unless a call of get_settings fell between the clearing of its cache and the
\* commit (clear_settings_caches in the route).
PublisherIsFresh ==
    publisher # Nobody => cache[publisher] \in {NoRevision, active}

=============================================================================
