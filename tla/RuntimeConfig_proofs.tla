------------------------ MODULE RuntimeConfig_proofs ------------------------
(* The revisions of the runtime configuration and the settings that are in  *)
(* use, for any number of clients, processes and revisions.                 *)
EXTENDS RuntimeConfig, FiniteSetTheorems, SequenceTheorems, TLAPS

\* The rows are numbered through, and a creation has read no more than there is.
NumberedThrough ==
    /\ \A i \in RevisionIds : revision[i].version_no = i
    /\ \A c \in Clients :
          request[c].op = "create" => request[c].version_no <= Len(revision) + 1

Published(r) == r \in RevisionIds /\ revision[r].published

\* What is in use was activated once; a request that makes a revision the
\* active one publishes it as well.
UsesPublished ==
    /\ Published(active)
    /\ \A p \in Processes : cache[p] = NoRevision \/ Published(cache[p])
    /\ \A p \in Processes : \A r \in loading[p] : Published(r)
    /\ \A i \in RevisionIds :
          LET b == revision[i].base_revision_id IN b = NoRevision \/ Published(b)
    /\ \A c \in Clients :
          request[c].op = "create" =>
             LET b == request[c].base_revision_id IN b = NoRevision \/ Published(b)

\* The row that a request makes the active one is the row that it publishes.
WritesInPlace ==
    \A c \in Clients :
        Writing(c) /\ request[c].state # NoRevision =>
            request[c].state \in RevisionIds /\ request[c].publishes = request[c].state

ActiveRows == {r \in RevisionIds : revision[r].status = "ACTIVE"}

\* Does w fit the rows as they are?  Without overlap every open request does.
Fits(w) ==
    \/ /\ w.op = "archive"
       /\ w.state = NoRevision /\ w.activates = {} /\ active \notin w.archives
    \/ /\ w.op = "activate"
       /\ w.publishes \in RevisionIds
       /\ w.state = IF active = w.publishes THEN NoRevision ELSE w.publishes
       /\ w.activates = {w.publishes} \ {active}
       /\ w.archives = {active} \ {w.publishes}

FitsWithoutOverlap ==
    ~overlapped =>
        /\ ActiveRows = {active}
        /\ \A c \in Clients : Writing(c) => Fits(request[c])

\* A cache that was cleared and not filled since is empty, and the publisher
\* has nothing but the active revision under way.
ClearedIsEmpty ==
    /\ \A c \in Clients :
          Writing(c) /\ request[c].cleared /\ ~request[c].filled =>
              cache[request[c].at] = NoRevision
    /\ publisher # Nobody =>
          /\ cache[publisher] \in {NoRevision, active}
          /\ loading[publisher] \subseteq {active}

IInv ==
    /\ TypeOK
    /\ NumberedThrough
    /\ UsesPublished
    /\ WritesInPlace
    /\ FitsWithoutOverlap
    /\ ClearedIsEmpty

-----------------------------------------------------------------------------
(* Lemmas.                                                                 *)

\* A request is of one kind.
LEMMA Kinds ==
  ASSUME TypeOK, NEW c \in Clients
  PROVE  /\ Writing(c) => request[c] \in Write
         /\ request[c].op = "create" => request[c] \in Creation
         /\ ~Writing(c) /\ request[c].op # "create" => request[c] = NoRequest
  BY DEF TypeOK, Writing, Write, Creation, NoRequest

LEMMA Lengths ==
  ASSUME TypeOK
  PROVE  /\ Len(revision) \in 1..MaxRevisions
         /\ Len(revision) \in Nat
         /\ RevisionIds \subseteq 1..MaxRevisions
         /\ \A i \in RevisionIds : i \in Nat /\ i # NoRevision
         /\ \A i \in RevisionIds : revision[i] \in Revision
<1>1. Len(revision) \in 1..MaxRevisions /\ revision \in Seq(Revision)
  BY DEF TypeOK
<1>2. \A i \in 1..Len(revision) : revision[i] \in Revision
  BY <1>1, ElementOfSeq
<1>3. QED
  BY <1>1, <1>2, RuntimeConfigAssumption DEF RevisionIds, NoRevision

LEMMA InitInv == Init => IInv
<1> SUFFICES ASSUME Init PROVE IInv
  OBVIOUS
<1> DEFINE first == [version_no |-> 1, status |-> "ACTIVE",
                     base_revision_id |-> NoRevision, published |-> TRUE]
<1>1. first \in Revision
  BY RuntimeConfigAssumption DEF Revision, ConfigRevisionStatus, RevisionRef, NoRevision
<1>2. revision = <<first>>
  BY DEF Init
<1> HIDE DEF first
<1>3. /\ revision \in Seq(Revision) /\ Len(revision) = 1 /\ RevisionIds = {1}
      /\ revision[1] = first
  BY <1>1, <1>2 DEF RevisionIds
<1>4. TypeOK
  <2>1. request \in [Clients -> {NoRequest} \cup Creation \cup Write]
    BY DEF Init
  <2>2. /\ cache \in [Processes -> RevisionIds \cup {NoRevision}]
        /\ loading \in [Processes -> SUBSET RevisionIds]
    BY <1>3 DEF Init
  <2>3. Len(revision) \in 1..MaxRevisions /\ active \in RevisionIds
    BY <1>3, RuntimeConfigAssumption DEF Init
  <2>4. QED
    BY <1>3, <2>1, <2>2, <2>3 DEF Init, TypeOK
<1>5. NumberedThrough
  BY <1>3 DEF Init, NumberedThrough, first, NoRequest
<1>6. UsesPublished
  BY <1>3 DEF Init, UsesPublished, Published, first, NoRequest
<1>7. WritesInPlace /\ FitsWithoutOverlap /\ ClearedIsEmpty
  BY <1>3 DEF Init, WritesInPlace, FitsWithoutOverlap, ClearedIsEmpty, ActiveRows,
              Writing, NoRequest, first
<1>8. QED
  BY <1>4, <1>5, <1>6, <1>7 DEF IInv

\* The newest version is the number of rows.
LEMMA NewestVersion ==
  ASSUME TypeOK, NumberedThrough
  PROVE  Versions = RevisionIds /\ NextVersion = Len(revision) + 1
<1>1. Versions = RevisionIds
  BY DEF Versions, NumberedThrough
<1>2. \A v \in Versions : (\A w \in Versions : w <= v) <=> v = Len(revision)
  BY <1>1, Lengths DEF RevisionIds
<1>3. Len(revision) \in Versions
  BY <1>1, Lengths DEF RevisionIds
<1> DEFINE newest == CHOOSE v \in Versions : \A w \in Versions : w <= v
<1>4. newest = Len(revision)
  BY <1>2, <1>3
<1>5. NextVersion = 1 + newest
  BY DEF NextVersion
<1> HIDE DEF newest
<1>6. QED
  BY <1>1, <1>4, <1>5, Lengths

\* A request that leaves the rows, the settings and the bookkeeping alone.
LEMMA RequestStep ==
  ASSUME IInv, NEW c \in Clients, NEW x \in {NoRequest} \cup Creation \cup Write,
         request' = [request EXCEPT ![c] = x],
         UNCHANGED <<revision, active, cache, loading, overlapped, publisher>>,
         x.op = "create" =>
            /\ x.version_no <= Len(revision) + 1
            /\ x.base_revision_id = NoRevision \/ Published(x.base_revision_id),
         x.op \in {"activate", "archive"} =>
            /\ x.state # NoRevision => x.state \in RevisionIds /\ x.publishes = x.state
            /\ ~overlapped => Fits(x)
            /\ ~x.cleared
  PROVE  IInv'
<1> USE DEF IInv
<1>1. /\ request'[c] = x
      /\ \A d \in Clients : d # c => request'[d] = request[d]
      /\ RevisionIds' = RevisionIds
  BY DEF TypeOK, RevisionIds
<1>2. TypeOK'
  BY <1>1 DEF TypeOK
<1>3. NumberedThrough'
  BY <1>1 DEF NumberedThrough
<1>4. \A r : Published(r)' <=> Published(r)
  BY <1>1 DEF Published
<1>5. UsesPublished'
  BY <1>1, <1>4 DEF UsesPublished
<1>6. WritesInPlace'
  BY <1>1 DEF WritesInPlace, Writing
<1>7. FitsWithoutOverlap'
  BY <1>1 DEF FitsWithoutOverlap, ActiveRows, Writing, Fits
<1>8. ClearedIsEmpty'
  BY <1>1 DEF ClearedIsEmpty, Writing
<1>9. QED
  BY <1>2, <1>3, <1>5, <1>6, <1>7, <1>8

-----------------------------------------------------------------------------
(* The steps.                                                              *)

LEMMA CreateReadInv ==
  ASSUME IInv, NEW c \in Clients, NEW b \in RevisionIds \cup {NoRevision}, CreateRead(c, b)
  PROVE  IInv'
<1> DEFINE x == [op |-> "create", version_no |-> NextVersion, base_revision_id |-> b]
<1>1. NextVersion = Len(revision) + 1 /\ Len(revision) \in 1..MaxRevisions
  BY NewestVersion, Lengths DEF IInv
<1>2. x \in Creation /\ x.op = "create"
  BY <1>1, Lengths, RuntimeConfigAssumption DEF Creation, RevisionRef, NoRevision, IInv
<1>3. x.version_no <= Len(revision) + 1
  BY <1>1
<1>4. x.base_revision_id = NoRevision \/ Published(x.base_revision_id)
  BY DEF CreateRead, BaseAllowed, IInv, UsesPublished
<1>5. request' = [request EXCEPT ![c] = x]
  BY DEF CreateRead
<1> HIDE DEF x
<1>6. QED
  BY <1>2, <1>3, <1>4, <1>5, RequestStep DEF CreateRead

LEMMA FailsInv == ASSUME IInv, NEW c \in Clients, Fails(c) PROVE IInv'
<1>1. NoRequest.op = "none"
  BY DEF NoRequest
<1>2. QED
  BY <1>1, RequestStep DEF Fails

LEMMA ActivateReadInv ==
  ASSUME IInv, NEW c \in Clients, NEW r \in RevisionIds, NEW p \in Servers, ActivateRead(c, r, p)
  PROVE  IInv'
<1> DEFINE x == Activates(r, p)
<1>1. /\ x.op = "activate" /\ x.publishes = r /\ ~x.cleared
      /\ x.state = IF active = r THEN NoRevision ELSE r
      /\ x.activates = {r} \ ActiveRows
      /\ x.archives = ({active} \ {r}) \ {i \in RevisionIds : revision[i].status = "ARCHIVED"}
  BY DEF Activates, ActiveRows
<1>2. active \in RevisionIds
  BY DEF IInv, TypeOK
<1>3. x \in Write
  <2>1. /\ {active} \ {r} \subseteq 1..MaxRevisions /\ {r} \subseteq 1..MaxRevisions
        /\ r \in RevisionRef /\ NoRevision \in RevisionRef
    BY <1>2, Lengths, RuntimeConfigAssumption DEF RevisionRef, NoRevision, IInv
  <2>2. QED
    BY <2>1 DEF Activates, Write
<1>4. ~overlapped => Fits(x)
  <2> SUFFICES ASSUME ~overlapped PROVE Fits(x)
    OBVIOUS
  <2>1. ActiveRows = {active}
    BY DEF IInv, FitsWithoutOverlap
  <2>2. revision[active].status = "ACTIVE"
    BY <2>1 DEF ActiveRows
  <2>3. QED
    BY <1>1, <2>1, <2>2 DEF Fits
<1>5. request' = [request EXCEPT ![c] = x]
  BY DEF ActivateRead
<1> HIDE DEF x
<1>6. QED
  BY <1>1, <1>3, <1>4, <1>5, RequestStep DEF ActivateRead

LEMMA ArchiveReadInv ==
  ASSUME IInv, NEW c \in Clients, NEW r \in RevisionIds, NEW p \in Servers, ArchiveRead(c, r, p)
  PROVE  IInv'
<1> DEFINE x == [op        |-> "archive",
                 at        |-> p,
                 archives  |-> {r} \ {i \in RevisionIds : revision[i].status = "ARCHIVED"},
                 activates |-> {},
                 publishes |-> NoRevision,
                 state     |-> NoRevision,
                 cleared   |-> FALSE,
                 filled    |-> FALSE]
<1>1. x \in Write
  <2>1. {r} \subseteq 1..MaxRevisions /\ NoRevision \in RevisionRef
    BY Lengths, RuntimeConfigAssumption DEF RevisionRef, NoRevision, IInv
  <2>2. QED
    BY <2>1 DEF Write
<1>2. Fits(x) /\ x.op = "archive" /\ ~x.cleared /\ x.state = NoRevision
  BY DEF ArchiveRead, Archivable, Fits
<1>3. request' = [request EXCEPT ![c] = x]
  BY DEF ArchiveRead
<1> HIDE DEF x
<1>4. QED
  BY <1>1, <1>2, <1>3, RequestStep DEF ArchiveRead

LEMMA CreateCommitInv == ASSUME IInv, NEW c \in Clients, CreateCommit(c) PROVE IInv'
<1> USE DEF IInv
<1> DEFINE new == NewRevision(request[c])
<1> DEFINE n == Len(revision)
<1>1. request[c] \in Creation /\ request[c].op = "create"
  BY Kinds DEF CreateCommit
<1>2. /\ n \in 1..MaxRevisions /\ n < MaxRevisions /\ n \in Nat
      /\ \A i \in RevisionIds : revision[i] \in Revision
  BY Lengths DEF CreateCommit
<1>3. request[c].version_no = n + 1
  <2>1. request[c].version_no \notin 1..n /\ request[c].version_no <= n + 1
    BY NewestVersion DEF CreateCommit, VersionFree, NumberedThrough, RevisionIds
  <2>2. request[c].version_no \in 1..(MaxRevisions + 1)
    BY <1>1 DEF Creation
  <2>3. QED
    BY <1>2, <2>1, <2>2, RuntimeConfigAssumption
<1>4. /\ new \in Revision /\ new.version_no = n + 1 /\ new.status = "DRAFT"
      /\ new.base_revision_id = request[c].base_revision_id
  BY <1>1, <1>2, <1>3, RuntimeConfigAssumption
  DEF NewRevision, Revision, ConfigRevisionStatus, Creation
<1> HIDE DEF new
<1>5. /\ revision' \in Seq(Revision) /\ Len(revision') = n + 1
      /\ \A i \in 1..n : revision'[i] = revision[i]
      /\ revision'[n + 1] = new
  <2>1. revision \in Seq(Revision) /\ revision' = Append(revision, new)
    BY DEF CreateCommit, TypeOK, new
  <2>2. QED
    BY <1>4, <2>1, AppendProperties
<1> HIDE DEF n
<1>6. /\ RevisionIds = 1..n /\ RevisionIds' = 1..(n + 1)
      /\ RevisionIds \subseteq RevisionIds' /\ n + 1 \notin RevisionIds
      /\ \A i \in RevisionIds' : i \in RevisionIds \/ i = n + 1
  BY <1>2, <1>5 DEF RevisionIds, n
<1>7. /\ request'[c] = NoRequest /\ NoRequest.op = "none"
      /\ \A d \in Clients : d # c => request'[d] = request[d]
  BY DEF CreateCommit, NoRequest, TypeOK
<1>8. \A r \in RevisionIds : Published(r) => Published(r)'
  BY <1>5, <1>6 DEF Published
<1>9. TypeOK'
  <2>1. Len(revision') \in 1..MaxRevisions
    BY <1>2, <1>5, RuntimeConfigAssumption
  <2>2. active' \in RevisionIds'
    BY <1>6 DEF CreateCommit, TypeOK
  <2>3. request' \in [Clients -> {NoRequest} \cup Creation \cup Write]
    BY DEF CreateCommit, TypeOK
  <2>4. /\ cache' \in [Processes -> RevisionIds' \cup {NoRevision}]
        /\ loading' \in [Processes -> SUBSET RevisionIds']
    BY <1>6 DEF CreateCommit, TypeOK
  <2>5. QED
    BY <1>5, <2>1, <2>2, <2>3, <2>4 DEF CreateCommit, TypeOK
<1>10. NumberedThrough'
  <2>1. \A i \in RevisionIds' : revision'[i].version_no = i
    BY <1>4, <1>5, <1>6 DEF NumberedThrough
  <2>2. ASSUME NEW d \in Clients, request'[d].op = "create"
        PROVE  request'[d].version_no <= Len(revision') + 1
    <3>1. request[d] = request'[d] /\ request[d] \in Creation
      BY <2>2, <1>7, Kinds
    <3>2. request[d].version_no <= n + 1 /\ request[d].version_no \in Nat
      BY <2>2, <3>1, RuntimeConfigAssumption DEF NumberedThrough, Creation, n
    <3>3. QED
      BY <1>2, <1>5, <3>1, <3>2
  <2>3. QED
    BY <2>1, <2>2 DEF NumberedThrough
<1>11. UsesPublished'
  <2>1. Published(active)'
    BY <1>8 DEF UsesPublished, CreateCommit, TypeOK
  <2>2. \A p \in Processes : (cache[p] = NoRevision \/ Published(cache[p]))'
    BY <1>8 DEF UsesPublished, CreateCommit, TypeOK, Published
  <2>3. \A p \in Processes : \A r \in loading'[p] : Published(r)'
    BY <1>8 DEF UsesPublished, CreateCommit, TypeOK, Published
  <2>4. ASSUME NEW i \in RevisionIds'
        PROVE  (LET b == revision[i].base_revision_id IN b = NoRevision \/ Published(b))'
    <3>1. CASE i \in RevisionIds
      BY <3>1, <1>5, <1>6, <1>8 DEF UsesPublished, Published
    <3>2. CASE i = n + 1
      BY <3>2, <1>1, <1>4, <1>5, <1>8 DEF UsesPublished, Published
    <3>3. QED
      BY <3>1, <3>2, <1>6
  <2>5. ASSUME NEW d \in Clients, request'[d].op = "create"
        PROVE  (LET b == request[d].base_revision_id IN b = NoRevision \/ Published(b))'
    BY <2>5, <1>7, <1>8 DEF UsesPublished, Published
  <2>6. QED
    BY <2>1, <2>2, <2>3, <2>4, <2>5 DEF UsesPublished
<1>12. WritesInPlace'
  BY <1>6, <1>7 DEF WritesInPlace, Writing
<1>13. FitsWithoutOverlap'
  <2>1. ActiveRows' = ActiveRows
    BY <1>4, <1>5, <1>6 DEF ActiveRows
  <2>2. \A w : Fits(w) => Fits(w)'
    BY <1>6 DEF Fits, CreateCommit
  <2>3. QED
    BY <1>7, <2>1, <2>2 DEF FitsWithoutOverlap, CreateCommit, Writing
<1>14. ClearedIsEmpty'
  BY <1>7 DEF ClearedIsEmpty, Writing, CreateCommit
<1>15. QED
  BY <1>9, <1>10, <1>11, <1>12, <1>13, <1>14

LEMMA ClearInv == ASSUME IInv, NEW c \in Clients, Clear(c) PROVE IInv'
<1> USE DEF IInv
<1> DEFINE x == [request[c] EXCEPT !.cleared = TRUE]
<1>1. request[c] \in Write /\ x \in Write /\ request[c].at \in Processes
  BY Kinds, RuntimeConfigAssumption DEF Clear, Write
<1>2. /\ x.op = request[c].op /\ x.state = request[c].state /\ x.at = request[c].at
      /\ x.publishes = request[c].publishes /\ x.archives = request[c].archives
      /\ x.activates = request[c].activates
  BY <1>1 DEF Write
<1>3. request' = [request EXCEPT ![c] = x]
  BY DEF Clear
<1> HIDE DEF x
<1>4. request'[c] = x /\ \A d \in Clients : d # c => request'[d] = request[d]
  BY <1>3 DEF TypeOK
<1>5. RevisionIds' = RevisionIds /\ (\A r : Published(r)' <=> Published(r))
  BY DEF RevisionIds, Published, Clear
<1>6. /\ cache' = [cache EXCEPT ![request[c].at] = NoRevision]
      /\ \A p \in Processes : cache'[p] \in {cache[p], NoRevision}
      /\ cache'[request[c].at] = NoRevision
  BY <1>1 DEF Clear, Cleared, TypeOK
<1>7. TypeOK'
  BY <1>1, <1>3, <1>5, <1>6 DEF TypeOK, Clear
<1>8. NumberedThrough'
  BY <1>2, <1>4, <1>5 DEF NumberedThrough, Clear, Writing
<1>9. UsesPublished'
  BY <1>2, <1>4, <1>5, <1>6 DEF UsesPublished, Clear, Writing
<1>10. WritesInPlace'
  BY <1>2, <1>4, <1>5 DEF WritesInPlace, Clear, Writing
<1>11. FitsWithoutOverlap'
  <2>1. ActiveRows' = ActiveRows
    BY <1>5 DEF ActiveRows, Clear
  <2>2. QED
    BY <1>2, <1>4, <1>5, <2>1 DEF FitsWithoutOverlap, Fits, Clear, Writing
<1>12. ClearedIsEmpty'
  <2>1. \A d \in Clients : Writing(d)' => request'[d].at \in Processes
    BY <1>7, Kinds, <1>1, <1>2, <1>4, RuntimeConfigAssumption DEF Writing, Write
  <2>2. publisher # Nobody => publisher \in Processes
    BY RuntimeConfigAssumption DEF TypeOK
  <2>3. QED
    BY <1>2, <1>4, <1>6, <2>1, <2>2 DEF ClearedIsEmpty, Writing, Clear
<1>13. QED
  BY <1>7, <1>8, <1>9, <1>10, <1>11, <1>12

\* What a commit does to the rows.
LEMMA CommittedRows ==
  ASSUME TypeOK, NEW c \in Clients, Commit(c)
  PROVE  /\ revision' \in Seq(Revision) /\ Len(revision') = Len(revision)
         /\ RevisionIds' = RevisionIds
         /\ \A i \in RevisionIds :
              /\ revision'[i].version_no = revision[i].version_no
              /\ revision'[i].base_revision_id = revision[i].base_revision_id
              /\ revision'[i].published <=>
                    revision[i].published \/ i = request[c].publishes
              /\ revision'[i].status =
                    IF i \in request[c].archives THEN "ARCHIVED"
                    ELSE IF i \in request[c].activates THEN "ACTIVE" ELSE revision[i].status
<1> DEFINE n == Len(revision)
<1> DEFINE u == [i \in 1..n |-> Updated(request[c], i)]
<1>1. n \in Nat /\ \A i \in 1..n : revision[i] \in Revision
  BY Lengths DEF RevisionIds
<1>2. revision' = u
  BY DEF Commit, RevisionIds
<1>3. \A i \in 1..n : Updated(request[c], i) \in Revision
  BY <1>1 DEF Updated, Revision, ConfigRevisionStatus
<1>4. \A i \in 1..n :
        /\ Updated(request[c], i).version_no = revision[i].version_no
        /\ Updated(request[c], i).base_revision_id = revision[i].base_revision_id
        /\ Updated(request[c], i).published <=>
              revision[i].published \/ i = request[c].publishes
        /\ Updated(request[c], i).status =
              IF i \in request[c].archives THEN "ARCHIVED"
              ELSE IF i \in request[c].activates THEN "ACTIVE" ELSE revision[i].status
  BY <1>1 DEF Updated, Revision
<1>5. /\ u \in [1..n -> Revision] /\ DOMAIN u = 1..n
      /\ \A i \in 1..n : u[i] = Updated(request[c], i)
  BY <1>3
<1> HIDE DEF u, n
<1>6. u \in Seq(Revision) /\ Len(u) = n
  BY <1>1, <1>5
<1>7. RevisionIds' = RevisionIds /\ RevisionIds = 1..n
  BY <1>2, <1>6 DEF RevisionIds, n
<1>8. Len(revision') = Len(revision)
  BY <1>2, <1>6 DEF n
<1>9. QED
  BY <1>2, <1>4, <1>5, <1>6, <1>7, <1>8

LEMMA CommitInv == ASSUME IInv, NEW c \in Clients, Commit(c) PROVE IInv'
<1> USE DEF IInv
<1> DEFINE w == request[c]
<1>1. w \in Write /\ w.cleared /\ w.at \in Processes /\ Writing(c)
  BY Kinds, RuntimeConfigAssumption DEF Commit, Write
<1>2. /\ revision' \in Seq(Revision) /\ Len(revision') = Len(revision)
      /\ RevisionIds' = RevisionIds
      /\ \A i \in RevisionIds :
           /\ revision'[i].version_no = revision[i].version_no
           /\ revision'[i].base_revision_id = revision[i].base_revision_id
           /\ revision'[i].published <=> revision[i].published \/ i = w.publishes
           /\ revision'[i].status =
                 IF i \in w.archives THEN "ARCHIVED"
                 ELSE IF i \in w.activates THEN "ACTIVE" ELSE revision[i].status
  BY CommittedRows
<1>3. /\ request'[c] = NoRequest /\ NoRequest.op = "none"
      /\ \A d \in Clients : d # c => request'[d] = request[d]
      /\ active' = IF w.state = NoRevision THEN active ELSE w.state
      /\ overlapped' = (overlapped \/ \E d \in Clients \ {c} : Writing(d))
      /\ UNCHANGED <<cache, loading>>
  BY DEF Commit, NoRequest, TypeOK
<1>4. publisher' = IF w.state = NoRevision THEN publisher
                   ELSE IF ~w.filled /\ loading[w.at] = {} THEN w.at ELSE Nobody
  BY DEF Commit
<1>5. w.state # NoRevision => w.state \in RevisionIds /\ w.publishes = w.state
  BY <1>1 DEF WritesInPlace
<1> HIDE DEF w
<1>6. \A r \in RevisionIds : Published(r) => Published(r)'
  BY <1>2 DEF Published
<1>7. TypeOK'
  <2>1. active' \in RevisionIds'
    BY <1>2, <1>3, <1>5 DEF TypeOK
  <2>2. request' \in [Clients -> {NoRequest} \cup Creation \cup Write]
    BY DEF Commit, TypeOK
  <2>3. w.at \in Servers /\ publisher' \in Servers \cup {Nobody}
    BY <1>1, <1>4 DEF TypeOK, Write
  <2>4. overlapped' \in BOOLEAN
    BY <1>3 DEF TypeOK
  <2>5. QED
    BY <1>2, <1>3, <2>1, <2>2, <2>3, <2>4 DEF TypeOK
<1>8. NumberedThrough'
  BY <1>2, <1>3 DEF NumberedThrough
<1>9. UsesPublished'
  <2>1. Published(active)'
    BY <1>2, <1>3, <1>5, <1>6 DEF UsesPublished, Published
  <2>2. \A p \in Processes : (cache[p] = NoRevision \/ Published(cache[p]))'
    BY <1>3, <1>6 DEF UsesPublished, Published
  <2>3. \A p \in Processes : \A r \in loading'[p] : Published(r)'
    BY <1>3, <1>6 DEF UsesPublished, Published
  <2>4. ASSUME NEW i \in RevisionIds'
        PROVE  (LET b == revision[i].base_revision_id IN b = NoRevision \/ Published(b))'
    BY <1>2, <1>6 DEF UsesPublished, Published
  <2>5. ASSUME NEW d \in Clients, request'[d].op = "create"
        PROVE  (LET b == request[d].base_revision_id IN b = NoRevision \/ Published(b))'
    BY <2>5, <1>3, <1>6 DEF UsesPublished, Published
  <2>6. QED
    BY <2>1, <2>2, <2>3, <2>4, <2>5 DEF UsesPublished
<1>10. WritesInPlace'
  BY <1>2, <1>3 DEF WritesInPlace, Writing
<1>11. FitsWithoutOverlap'
  <2> SUFFICES ASSUME ~overlapped'
               PROVE  ActiveRows' = {active'} /\ \A d \in Clients : ~Writing(d)'
    BY DEF FitsWithoutOverlap
  <2>1. ~overlapped /\ \A d \in Clients \ {c} : ~Writing(d)
    BY <1>3
  <2>2. \A d \in Clients : ~Writing(d)'
    BY <1>3, <2>1 DEF Writing
  <2>3. ActiveRows = {active} /\ Fits(w)
    BY <1>1, <2>1 DEF FitsWithoutOverlap, w
  <2>4. active \in RevisionIds /\ \A i \in RevisionIds : revision[i].status = "ACTIVE" <=> i = active
    BY <2>3 DEF ActiveRows, TypeOK
  <2>5. \A i \in RevisionIds : i # NoRevision
    BY Lengths
  <2>6. CASE w.op = "archive"
    <3>1. active' = active /\ w.activates = {} /\ active \notin w.archives
      BY <2>3, <2>6, <1>3 DEF Fits
    <3>2. \A i \in RevisionIds : revision'[i].status = "ACTIVE" <=> i = active
      BY <3>1, <2>4, <1>2
    <3>3. QED
      BY <3>1, <3>2, <2>2, <2>4, <1>2 DEF ActiveRows
  <2>7. CASE w.op = "activate"
    <3>1. /\ active' = w.publishes /\ w.publishes \in RevisionIds
          /\ w.activates = {w.publishes} \ {active}
          /\ w.archives = {active} \ {w.publishes}
      BY <2>3, <2>5, <2>7, <1>3 DEF Fits
    <3>2. \A i \in RevisionIds : revision'[i].status = "ACTIVE" <=> i = w.publishes
      BY <3>1, <2>4, <1>2
    <3>3. QED
      BY <3>1, <3>2, <2>2, <1>2 DEF ActiveRows
  <2>8. QED
    BY <2>6, <2>7, <2>3 DEF Fits
<1>12. ClearedIsEmpty'
  <2>1. ASSUME NEW d \in Clients, Writing(d)', request'[d].cleared, ~request'[d].filled
        PROVE  cache'[request'[d].at] = NoRevision
    BY <2>1, <1>3 DEF ClearedIsEmpty, Writing
  <2>2. ASSUME publisher' # Nobody
        PROVE  cache'[publisher'] \in {NoRevision, active'} /\ loading'[publisher'] \subseteq {active'}
    <3>1. CASE w.state = NoRevision
      BY <2>2, <3>1, <1>3, <1>4 DEF ClearedIsEmpty
    <3>2. CASE w.state # NoRevision
      <4>1. publisher' = w.at /\ ~w.filled /\ loading[w.at] = {}
        BY <2>2, <3>2, <1>4
      <4>2. cache[w.at] = NoRevision
        BY <4>1, <1>1 DEF ClearedIsEmpty, w
      <4>3. QED
        BY <4>1, <4>2, <1>3
    <3>3. QED
      BY <3>1, <3>2
  <2>3. QED
    BY <2>1, <2>2 DEF ClearedIsEmpty
<1>13. QED
  BY <1>7, <1>8, <1>9, <1>10, <1>11, <1>12

\* A step of a process: what it holds was published, its requests stay as they
\* are but for the mark of a filled cache, or are dropped.
LEMMA ProcessStep ==
  ASSUME IInv,
         UNCHANGED <<revision, active, overlapped, publisher>>,
         cache' \in [Processes -> RevisionIds \cup {NoRevision}],
         loading' \in [Processes -> SUBSET RevisionIds],
         request' \in [Clients -> {NoRequest} \cup Creation \cup Write],
         \A p \in Processes : cache'[p] = NoRevision \/ Published(cache'[p]),
         \A p \in Processes : \A r \in loading'[p] : Published(r),
         \A c \in Clients :
            \/ request'[c] = NoRequest
            \/ request'[c] = request[c]
            \/ Writing(c) /\ request'[c] = [request[c] EXCEPT !.filled = TRUE],
         \A c \in Clients :
            (Writing(c) /\ request[c].cleared /\ ~request[c].filled =>
                cache[request[c].at] = NoRevision)',
         publisher # Nobody =>
            /\ cache'[publisher] \in {NoRevision, active}
            /\ loading'[publisher] \subseteq {active}
  PROVE  IInv'
<1> USE DEF IInv
<1>1. RevisionIds' = RevisionIds /\ (\A r : Published(r)' <=> Published(r))
  BY DEF RevisionIds, Published
<1>2. \A c \in Clients :
         request'[c].op = "create" => request'[c] = request[c]
  BY Kinds DEF NoRequest, Write
<1>3. \A c \in Clients : Writing(c)' =>
         /\ Writing(c)
         /\ request'[c].op = request[c].op
         /\ request'[c].state = request[c].state
         /\ request'[c].publishes = request[c].publishes
         /\ request'[c].activates = request[c].activates
         /\ request'[c].archives = request[c].archives
  BY Kinds DEF NoRequest, Write, Writing
<1>4. TypeOK'
  BY <1>1 DEF TypeOK
<1>5. NumberedThrough'
  BY <1>1, <1>2 DEF NumberedThrough
<1>6. UsesPublished'
  BY <1>1, <1>2 DEF UsesPublished
<1>7. WritesInPlace'
  BY <1>1, <1>3 DEF WritesInPlace
<1>8. FitsWithoutOverlap'
  <2>1. ActiveRows' = ActiveRows
    BY <1>1 DEF ActiveRows
  <2>2. \A c \in Clients : Writing(c)' /\ Fits(request[c]) => Fits(request[c])'
    BY <1>1, <1>3 DEF Fits
  <2>3. QED
    BY <1>3, <2>1, <2>2 DEF FitsWithoutOverlap
<1>9. ClearedIsEmpty'
  BY DEF ClearedIsEmpty
<1>10. QED
  BY <1>4, <1>5, <1>6, <1>7, <1>8, <1>9

LEMMA LoadReadInv == ASSUME IInv, NEW p \in Processes, LoadRead(p) PROVE IInv'
<1> USE DEF LoadRead, Template
<1>1. active \in RevisionIds /\ Published(active)
  BY DEF IInv, TypeOK, UsesPublished
<1>2. /\ loading' \in [Processes -> SUBSET RevisionIds]
      /\ \A q \in Processes : loading'[q] \subseteq loading[q] \cup {active}
  BY <1>1 DEF IInv, TypeOK
<1>3. \A q \in Processes : \A r \in loading'[q] : Published(r)
  BY <1>1, <1>2 DEF IInv, UsesPublished
<1>4. publisher # Nobody => publisher \in Processes
  BY RuntimeConfigAssumption DEF IInv, TypeOK
<1>5. publisher # Nobody =>
         /\ cache'[publisher] \in {NoRevision, active}
         /\ loading'[publisher] \subseteq {active}
  BY <1>2, <1>4 DEF IInv, ClearedIsEmpty
<1>6. \A c \in Clients :
         (Writing(c) /\ request[c].cleared /\ ~request[c].filled =>
             cache[request[c].at] = NoRevision)'
  BY DEF IInv, ClearedIsEmpty, Writing
<1>7. \A q \in Processes : cache'[q] = NoRevision \/ Published(cache'[q])
  BY DEF IInv, UsesPublished
<1>8. /\ cache' \in [Processes -> RevisionIds \cup {NoRevision}]
      /\ request' \in [Clients -> {NoRequest} \cup Creation \cup Write]
  BY DEF IInv, TypeOK
<1>9. QED
  BY <1>2, <1>3, <1>5, <1>6, <1>7, <1>8, ProcessStep

LEMMA LoadStoreInv ==
  ASSUME IInv, NEW p \in Processes, NEW r \in RevisionIds, LoadStore(p, r)
  PROVE  IInv'
<1>1. r \in loading[p] /\ Published(r)
  BY DEF LoadStore, IInv, UsesPublished
<1>2. /\ loading' \in [Processes -> SUBSET RevisionIds]
      /\ \A q \in Processes : loading'[q] \subseteq loading[q]
  BY DEF LoadStore, IInv, TypeOK
<1>3. /\ cache' \in [Processes -> RevisionIds \cup {NoRevision}]
      /\ \A q \in Processes : q # p => cache'[q] = cache[q]
      /\ cache'[p] = IF cache[p] = NoRevision THEN r ELSE cache[p]
  BY DEF LoadStore, IInv, TypeOK
<1>4. \A q \in Processes : \A s \in loading'[q] : Published(s)
  BY <1>2 DEF IInv, UsesPublished
<1>5. \A q \in Processes : cache'[q] = NoRevision \/ Published(cache'[q])
  BY <1>1, <1>3 DEF IInv, UsesPublished
<1>6. publisher # Nobody =>
         /\ cache'[publisher] \in {NoRevision, active}
         /\ loading'[publisher] \subseteq {active}
  <2>1. publisher # Nobody => publisher \in Processes
    BY RuntimeConfigAssumption DEF IInv, TypeOK
  <2>2. QED
    BY <1>1, <1>2, <1>3, <2>1 DEF IInv, ClearedIsEmpty
<1>7. \A c \in Clients :
         request'[c] = IF Writing(c) /\ request[c].at = p
                       THEN [request[c] EXCEPT !.filled = @ \/ request[c].cleared]
                       ELSE request[c]
  BY DEF LoadStore
<1>8. ASSUME NEW c \in Clients, Writing(c), request[c].at = p
      PROVE  /\ request'[c] \in Write
             /\ request'[c] = request[c] \/ request'[c] = [request[c] EXCEPT !.filled = TRUE]
             /\ request[c].cleared => request'[c].filled
             /\ request'[c].cleared = request[c].cleared
  <2>1. request[c] \in Write
    BY <1>8, Kinds DEF IInv
  <2>2. request[c].filled \in BOOLEAN /\ request[c].cleared \in BOOLEAN
    BY <2>1 DEF Write
  <2>3. request'[c] = [request[c] EXCEPT !.filled = request[c].filled \/ request[c].cleared]
    BY <1>7, <1>8
  <2>4. CASE request[c].filled \/ request[c].cleared
    <3>1. request'[c] = [request[c] EXCEPT !.filled = TRUE]
      BY <2>2, <2>3, <2>4
    <3>2. QED
      BY <2>1, <3>1 DEF Write
  <2>5. CASE ~request[c].filled /\ ~request[c].cleared
    <3>1. request'[c] = [request[c] EXCEPT !.filled = FALSE]
      BY <2>2, <2>3, <2>5
    <3>2. request'[c] = request[c]
      BY <2>1, <2>5, <3>1 DEF Write
    <3>3. QED
      BY <2>1, <2>5, <3>2
  <2>6. QED
    BY <2>2, <2>4, <2>5
<1>9. request' \in [Clients -> {NoRequest} \cup Creation \cup Write]
  <2>1. request' = [c \in Clients |->
             IF Writing(c) /\ request[c].at = p
             THEN [request[c] EXCEPT !.filled = @ \/ request[c].cleared] ELSE request[c]]
    BY DEF LoadStore
  <2>2. \A c \in Clients : request'[c] \in {NoRequest} \cup Creation \cup Write
    BY <1>7, <1>8 DEF IInv, TypeOK
  <2>3. QED
    BY <2>1, <2>2
<1>10. \A c \in Clients :
         \/ request'[c] = NoRequest
         \/ request'[c] = request[c]
         \/ Writing(c) /\ request'[c] = [request[c] EXCEPT !.filled = TRUE]
  BY <1>7, <1>8
<1>11. \A c \in Clients :
         (Writing(c) /\ request[c].cleared /\ ~request[c].filled =>
             cache[request[c].at] = NoRevision)'
  <2> SUFFICES ASSUME NEW c \in Clients, Writing(c)', request'[c].cleared, ~request'[c].filled
               PROVE  cache'[request'[c].at] = NoRevision
    OBVIOUS
  <2>1. CASE Writing(c) /\ request[c].at = p
    BY <2>1, <1>8
  <2>2. CASE ~(Writing(c) /\ request[c].at = p)
    <3>1. request'[c] = request[c] /\ Writing(c)
      BY <2>2, <1>7 DEF Writing
    <3>2. request[c].at # p /\ request[c].at \in Processes
      BY <2>2, <3>1, Kinds, RuntimeConfigAssumption DEF IInv, Write
    <3>3. QED
      BY <1>3, <3>1, <3>2 DEF IInv, ClearedIsEmpty
  <2>3. QED
    BY <2>1, <2>2
<1>12. QED
  BY <1>2, <1>3, <1>4, <1>5, <1>6, <1>9, <1>10, <1>11, ProcessStep DEF LoadStore

LEMMA RestartInv == ASSUME IInv, NEW p \in Processes, Restart(p) PROVE IInv'
<1>1. /\ cache' \in [Processes -> RevisionIds \cup {NoRevision}]
      /\ \A q \in Processes : cache'[q] \in {cache[q], NoRevision}
  BY DEF Restart, IInv, TypeOK
<1>2. /\ loading' \in [Processes -> SUBSET RevisionIds]
      /\ \A q \in Processes : loading'[q] \subseteq loading[q]
  BY DEF Restart, IInv, TypeOK
<1>3. \A c \in Clients : request'[c] \in {NoRequest, request[c]}
  BY DEF Restart
<1>4. request' \in [Clients -> {NoRequest} \cup Creation \cup Write]
  BY <1>3 DEF Restart, IInv, TypeOK
<1>5. \A q \in Processes : cache'[q] = NoRevision \/ Published(cache'[q])
  BY <1>1 DEF IInv, UsesPublished
<1>6. \A q \in Processes : \A s \in loading'[q] : Published(s)
  BY <1>2 DEF IInv, UsesPublished
<1>7. publisher # Nobody =>
         /\ cache'[publisher] \in {NoRevision, active}
         /\ loading'[publisher] \subseteq {active}
  <2>1. publisher # Nobody => publisher \in Processes
    BY RuntimeConfigAssumption DEF IInv, TypeOK
  <2>2. QED
    BY <1>1, <1>2, <2>1 DEF IInv, ClearedIsEmpty
<1>8. \A c \in Clients :
         (Writing(c) /\ request[c].cleared /\ ~request[c].filled =>
             cache[request[c].at] = NoRevision)'
  <2> SUFFICES ASSUME NEW c \in Clients, Writing(c)', request'[c].cleared, ~request'[c].filled
               PROVE  cache'[request'[c].at] = NoRevision
    OBVIOUS
  <2>1. request'[c] = request[c] /\ Writing(c)
    BY <1>3 DEF Writing, NoRequest
  <2>2. request[c].at \in Processes
    BY <2>1, Kinds, RuntimeConfigAssumption DEF IInv, Write
  <2>3. QED
    BY <1>1, <2>1, <2>2 DEF IInv, ClearedIsEmpty
<1>9. QED
  BY <1>1, <1>2, <1>3, <1>4, <1>5, <1>6, <1>7, <1>8, ProcessStep DEF Restart

LEMMA StutterInv == ASSUME IInv, UNCHANGED vars PROVE IInv'
  BY DEF vars, IInv, TypeOK, RevisionIds, NumberedThrough, UsesPublished, Published,
         WritesInPlace, FitsWithoutOverlap, Fits, ActiveRows, ClearedIsEmpty, Writing

LEMMA StepInv == IInv /\ [Next]_vars => IInv'
<1> SUFFICES ASSUME IInv, [Next]_vars PROVE IInv'
  OBVIOUS
<1>1. ASSUME NEW c \in Clients,
             \/ \E b \in RevisionIds \cup {NoRevision} : CreateRead(c, b)
             \/ CreateCommit(c)
             \/ \E r \in RevisionIds, p \in Servers : ActivateRead(c, r, p) \/ ArchiveRead(c, r, p)
             \/ Clear(c)
             \/ Commit(c)
             \/ Fails(c)
      PROVE  IInv'
  BY <1>1, CreateReadInv, CreateCommitInv, ActivateReadInv, ArchiveReadInv, ClearInv,
     CommitInv, FailsInv
<1>2. ASSUME NEW p \in Processes,
             \/ LoadRead(p)
             \/ \E r \in RevisionIds : LoadStore(p, r)
             \/ Restart(p)
      PROVE  IInv'
  BY <1>2, LoadReadInv, LoadStoreInv, RestartInv
<1>3. CASE UNCHANGED vars
  BY <1>3, StutterInv
<1>4. QED
  BY <1>1, <1>2, <1>3 DEF Next

THEOREM Invariance == Spec => []IInv
<1>1. QED
  BY InitInv, StepInv, PTL DEF Spec

-----------------------------------------------------------------------------
(* The theorems.                                                           *)

\* Types of the rows, the requests and the settings.
THEOREM TypeCorrect == Spec => []TypeOK
<1>1. IInv => TypeOK
  BY DEF IInv
<1>2. QED
  BY <1>1, Invariance, PTL

\* No revision is in use, in the state row, in a process or as a base, that was
\* never activated (get_settings, activate_revision, create_revision).
THEOREM NothingUnpublished == Spec => []OnlyPublishedInUse
<1>1. IInv => OnlyPublishedInUse
  <2> SUFFICES ASSUME IInv, NEW r \in RevisionIds, ~revision[r].published
               PROVE  /\ active # r
                      /\ \A p \in Processes : cache[p] # r /\ r \notin loading[p]
                      /\ \A i \in RevisionIds : revision[i].base_revision_id # r
    BY DEF OnlyPublishedInUse
  <2>1. ~Published(r) /\ r # NoRevision
    BY Lengths DEF Published, IInv
  <2>2. QED
    BY <2>1 DEF IInv, UsesPublished
<1>2. QED
  BY <1>1, Invariance, PTL

\* Version numbers run from 1 to the number of rows, each taken once
\* (create_revision).
THEOREM VersionsNumbered == Spec => []VersionsCount
<1>1. IInv => VersionsCount
  <2> SUFFICES ASSUME IInv PROVE VersionsCount
    OBVIOUS
  <2> DEFINE n == Len(revision)
  <2>1. Versions = 1..n /\ n \in Nat
    BY NewestVersion, Lengths DEF IInv, RevisionIds
  <2>2. Cardinality(1..n) = n
    <3>1. n \in Int /\ 1 \in Int
      BY <2>1
    <3> HIDE DEF n
    <3>2. Cardinality(1..n) = IF 1 > n THEN 0 ELSE n - 1 + 1
      BY <3>1, FS_Interval
    <3>3. QED
      BY <3>2, <2>1
  <2>3. QED
    BY <2>1, <2>2 DEF VersionsCount
<1>2. QED
  BY <1>1, Invariance, PTL

\* Exactly the revision of the state row is ACTIVE, until two requests overlap
\* (activate_revision, archive_revision).
THEOREM OneIsActive == Spec => []OneActive
<1>1. IInv => OneActive
  BY DEF IInv, FitsWithoutOverlap, ActiveRows, OneActive
<1>2. QED
  BY <1>1, Invariance, PTL

\* The process that served an activation does not go on with the old settings,
\* unless it was reading them meanwhile (clear_settings_caches in the route).
THEOREM PublisherFollows == Spec => []PublisherIsFresh
<1>1. IInv => PublisherIsFresh
  BY DEF IInv, ClearedIsEmpty, PublisherIsFresh
<1>2. QED
  BY <1>1, Invariance, PTL

=============================================================================
