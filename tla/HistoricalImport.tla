--------------------------- MODULE HistoricalImport ---------------------------
(***************************************************************************)
(* The import of one historical file that grows (services/                 *)
(* historical_import.py, db/historical.py), the evidence and the           *)
(* embeddings made from its chunks (db/evidence.py, db/embeddings.py), and *)
(* the revocation of a source: the API's call, the request it leaves       *)
(* (db/governance.py) and the jobs that work it off (services/worker.py).  *)
(*                                                                         *)
(* The file has a source row for each fingerprint it was met with.  A      *)
(* fingerprint is taken from the size and the time of the file, the text   *)
(* is read later, so a chunk row is known by both: by the version it is    *)
(* registered under and by its line.  Statements commit one by one; only   *)
(* revoke_source and derive_from_raw_events are transactions.              *)
(***************************************************************************)
EXTENDS Integers, Sequences, FiniteSets

CONSTANTS
  MaxVersion,  \* versions of the file: version n is its first n lines
  Importers,   \* imports that may run at once, each with its idempotency key
  MaxNodes,    \* max_nodes of the traversal, the root included
  Followed,    \* bound: the chunk rows whose evidence and embedding are followed;
               \* no row's depend on another's
  Budget       \* bound: starts of an import, calls that revoke a source, and mishaps
               \* (processes that die, calls that fail), together

Versions == 1..MaxVersion
Rows == Versions \X Versions   \* <<version, line>>

ASSUME VersionAssumption == MaxVersion \in Nat \ {0}
ASSUME NodesAssumption == MaxNodes \in Nat \ {0}
ASSUME FollowedAssumption == Followed \subseteq Rows
ASSUME BoundAssumption == Budget \in Nat

VARIABLES
  file,      \* the version of the file on the disk
  source,    \* the source row of each version: "absent", "registered" (inventory_only
             \* or imported) or "revoked"
  chunk,     \* status of the chunk rows
  linked,    \* chunk rows that have the provenance edge from their source
  evidence,  \* chunk rows with an evidence item, and the edge to it
  embedded,  \* chunk rows with an embedding
  listed,    \* chunk rows that the embedding job has listed and not yet done
  importers, \* the imports
  run,       \* the run record of each import, with the lines that it parsed
  caller,    \* the operator's call that revokes a source
  requests,  \* the revocation requests, in the order of their creation
  job,       \* the revocations.invalidate job of each version, by its idempotency key
  spent,
  late,      \* history: rows that a revocation came too late for, and why
  raced,     \* history: lines that two imports found missing at the same time
  abandoned  \* history: versions whose revocation was cut short: the call, or the
             \* work on its request, died or failed before the embeddings were gone

files == <<file, source, chunk, linked>>
derived == <<evidence, embedded, listed>>
importing == <<importers, run, raced>>
revoking == <<caller, requests, job, abandoned>>
vars == <<files, derived, importing, revoking, spent, late>>

IdleImport == [pc |-> "idle", version |-> 0, todo |-> {}, line |-> 0]
IdleCall == [pc |-> "idle", version |-> 0, impacted |-> {}]

Init ==
  /\ file = 1
  /\ source = [v \in Versions |-> "absent"]
  /\ chunk = [c \in Rows |-> "absent"]
  /\ linked = {} /\ evidence = {} /\ embedded = {} /\ listed = {}
  /\ importers = [i \in Importers |-> IdleImport]
  /\ run = [i \in Importers |-> [status |-> "none", parsed |-> {}]]
  /\ caller = IdleCall
  /\ requests = <<>>
  /\ job = [v \in Versions |-> [pc |-> "none", request |-> 0]]
  /\ spent = 0
  /\ late = {} /\ raced = {} /\ abandoned = {}

Spend == spent < Budget /\ spent' = spent + 1

Grow ==
  /\ file < MaxVersion
  /\ file' = file + 1
  /\ UNCHANGED <<source, chunk, linked, derived, importing, revoking, spent, late>>

\* historical_import.discover: the inventory of a version the scan has met.
\* The upsert writes the status, whatever it was.
Discover ==
  /\ \E v \in 1..file : source' = [source EXCEPT ![v] = "registered"]
  /\ UNCHANGED <<file, chunk, linked, derived, importing, revoking, spent, late>>

-----------------------------------------------------------------------------
(* import_historical_sources *)

At(i, pc) == importers[i].pc = pc
Row(i) == <<importers[i].version, importers[i].line>>
Moved(i, pc) == importers' = [importers EXCEPT ![i].pc = pc]

ImportUnchanged == UNCHANGED <<file, derived, revoking, late>>

\* record_import_run("running") and the discovery, which takes the fingerprint
StartImport(i) ==
  /\ At(i, "idle")
  /\ Spend
  /\ importers' = [importers EXCEPT ![i].pc = "parsing", ![i].version = file]
  /\ run' = [run EXCEPT ![i] = [status |-> "running", parsed |-> {}]]
  /\ ImportUnchanged
  /\ UNCHANGED <<source, chunk, linked, raced>>

\* _parse_item: the first n lines of what the file is by now, as many as
\* max_chunks leaves room for; none, when it cannot be read.
Parse(i, n) ==
  /\ At(i, "parsing")
  /\ n \in 0..file
  /\ importers' = [importers EXCEPT ![i].pc = "registering", ![i].todo = 1..n]
  /\ run' = [run EXCEPT ![i].parsed = 1..n]
  /\ ImportUnchanged
  /\ UNCHANGED <<source, chunk, linked, raced, spent>>

\* upsert_sources, whatever the status was before
Register(i) ==
  /\ At(i, "registering")
  /\ source' = [source EXCEPT ![importers[i].version] = "registered"]
  /\ Moved(i, "choosing")
  /\ ImportUnchanged
  /\ UNCHANGED <<chunk, linked, run, raced, spent>>

\* Fault: a line whose source is not registered is passed over.
LinePassed(i, k) == [importers[i] EXCEPT !.todo = @ \ {k}]

\* raise ValueError: the import ends, its run record stays at "running".
ImportEnded(i, k) == IdleImport

\* Fault: the status is not asked for.
AnySource(i) == TRUE

\* The WHERE of record_chunks' first query
Registered(i) == source[importers[i].version] \notin {"absent", "revoked"}

Taken(i, k) == [importers[i] EXCEPT !.pc = "comparing", !.line = k, !.todo = @ \ {k}]

\* The lines in their order
CheckSource(i, k) ==
  /\ At(i, "choosing")
  /\ k \in importers[i].todo
  /\ \A j \in importers[i].todo : k <= j
  /\ importers' = [importers EXCEPT ![i] = IF Registered(i) THEN Taken(i, k)
                                                           ELSE ImportEnded(i, k)]
  /\ ImportUnchanged
  /\ UNCHANGED <<source, chunk, linked, run, raced, spent>>

\* Fault: duplicates are looked for under the same fingerprint only.
StoredHere(i) == chunk[Row(i)] # "absent"

\* canonical_duplicate: the line is there under any version, revoked or not.
Stored(i) == \E v \in Versions : chunk[<<v, importers[i].line>>] # "absent"

Compare(i) ==
  LET k == importers[i].line
      rivals == {j \in Importers \ {i} : At(j, "inserting") /\ importers[j].line = k} IN
  /\ At(i, "comparing")
  /\ Moved(i, IF Stored(i) THEN "choosing" ELSE "inserting")
  /\ raced' = IF Stored(i) \/ rivals = {} THEN raced ELSE raced \cup {k}
  /\ ImportUnchanged
  /\ UNCHANGED <<source, chunk, linked, run, spent>>

\* ON CONFLICT DO NOTHING: what is there is left as it is, and not linked.
Insert(i) ==
  /\ At(i, "inserting")
  /\ IF chunk[Row(i)] = "absent"
     THEN chunk' = [chunk EXCEPT ![Row(i)] = "observed"] /\ Moved(i, "linking")
     ELSE Moved(i, "choosing") /\ UNCHANGED chunk
  /\ ImportUnchanged
  /\ UNCHANGED <<source, linked, run, raced, spent>>

Link(i) ==
  /\ At(i, "linking")
  /\ linked' = linked \cup {Row(i)}
  /\ Moved(i, "choosing")
  /\ ImportUnchanged
  /\ UNCHANGED <<source, chunk, run, raced, spent>>

\* record_import_run("completed")
CompleteRun(i) ==
  /\ At(i, "choosing")
  /\ importers[i].todo = {}
  /\ run' = [run EXCEPT ![i].status = "completed"]
  /\ importers' = [importers EXCEPT ![i] = IdleImport]
  /\ ImportUnchanged
  /\ UNCHANGED <<source, chunk, linked, raced, spent>>

\* A statement fails, or the process dies: nothing is undone, no run is recorded
\* as failed, and the next import starts from the beginning.
ImportFails(i) ==
  /\ Spend
  /\ ~At(i, "idle")
  /\ importers' = [importers EXCEPT ![i] = IdleImport]
  /\ UNCHANGED <<files, derived, run, raced, revoking, late>>

-----------------------------------------------------------------------------
(* Evidence and embeddings *)

\* Fault: any chunk without evidence is a source of evidence.
Derivable(c) == chunk[c] # "absent"

\* derive_from_raw_events: item and edge in one transaction
Observed(c) == chunk[c] = "observed"

DeriveEvidence ==
  /\ evidence' = evidence \cup {c \in Followed : Observed(c)}
  /\ UNCHANGED <<files, embedded, listed, importing, revoking, spent, late>>

\* list_unembedded_sources
Embeddable(c) == chunk[c] = "observed" /\ c \notin embedded

ListUnembedded ==
  /\ listed = {}
  /\ listed' = {c \in Followed : Embeddable(c)}
  /\ UNCHANGED <<files, evidence, embedded, importing, revoking, spent, late>>

\* upsert_embedding of what was listed, whatever became of it since
Embed(c) ==
  /\ c \in listed
  /\ listed' = listed \ {c}
  /\ embedded' = embedded \cup {c}
  /\ UNCHANGED <<files, evidence, importing, revoking, spent, late>>

\* The embedder fails or its job dies: what is left is listed again.
EmbeddingFails ==
  /\ Spend
  /\ listed # {}
  /\ listed' = {}
  /\ UNCHANGED <<files, evidence, embedded, importing, revoking, late>>

-----------------------------------------------------------------------------
(* POST /v1/historical-import/sources/revoke *)

CallUnchanged == UNCHANGED <<file, linked, derived, importing>>

RowsOf(v) == {c \in Rows : c[1] = v /\ chunk[c] # "absent"}
BeingInserted(v) ==
  {Row(i) : i \in {j \in Importers : importers[j].version = v
                                     /\ importers[j].pc \in {"comparing", "inserting"}}}

\* The second statement of revoke_source
ChunksRevoked(v) == [c \in Rows |-> IF c \in RowsOf(v) THEN "revoked" ELSE chunk[c]]

\* revoke_source, one transaction; a source may be revoked again.
RevokeSource(v) ==
  /\ caller.pc = "idle"
  /\ Spend
  /\ source[v] # "absent"
  /\ source' = [source EXCEPT ![v] = "revoked"]
  /\ chunk' = ChunksRevoked(v)
  /\ caller' = [pc |-> "revoked", version |-> v, impacted |-> {}]
  /\ late' = late \cup ({"insert"} \X BeingInserted(v)) \cup ({"embed"} \X (listed \cap RowsOf(v)))
  /\ CallUnchanged
  /\ UNCHANGED <<requests, job, abandoned>>

\* Fault: the root is not counted.
RootForgotten == MaxNodes

\* LIMIT max_nodes, of which the root is the first
Room == MaxNodes - 1

\* preview_revocation_traversal: along the edges, by depth, the root counted.
\* The chunks come before the evidence that is made from them.
PreviewTraversal(chunks, items) ==
  LET v == caller.version
      nodes == {c \in linked : c[1] = v} IN
  /\ caller.pc = "revoked"
  /\ chunks \subseteq nodes
  /\ items \subseteq chunks \cap evidence
  /\ IF Cardinality(nodes) + Cardinality(nodes \cap evidence) <= Room
     THEN chunks = nodes /\ items = nodes \cap evidence
     ELSE /\ Cardinality(chunks) + Cardinality(items) = Room
          /\ items = {} \/ chunks = nodes
  /\ caller' = [caller EXCEPT !.pc = "previewed",
                  !.impacted = ({"chunk"} \X chunks) \cup ({"evidence"} \X items)]
  /\ late' = late \cup ({"link"} \X (RowsOf(v) \ nodes)) \cup ({"cut"} \X (nodes \ chunks))
                  \cup ({"cut item"} \X ((nodes \cap evidence) \ items))
  /\ CallUnchanged
  /\ UNCHANGED <<source, chunk, requests, job, abandoned, spent>>

\* request_revocation
RequestRevocation ==
  /\ caller.pc = "previewed"
  /\ requests' = Append(requests, [version |-> caller.version, impacted |-> caller.impacted,
                                   status |-> "queued"])
  /\ caller' = [caller EXCEPT !.pc = "requested"]
  /\ CallUnchanged
  /\ UNCHANGED <<source, chunk, job, abandoned, late, spent>>

\* enqueue_job: the key is the source's, and a job that has ended keeps it.
KeyFree(v) == job[v].pc = "none"

EnqueueInvalidate ==
  /\ caller.pc = "requested"
  /\ job' = IF KeyFree(caller.version) THEN [job EXCEPT ![caller.version].pc = "queued"] ELSE job
  /\ caller' = IdleCall
  /\ CallUnchanged
  /\ UNCHANGED <<source, chunk, requests, abandoned, late, spent>>

\* The call fails, or the API dies in it: the source is revoked all the same.
CallFails ==
  /\ Spend
  /\ caller.pc # "idle"
  /\ abandoned' = abandoned \cup {caller.version}
  /\ caller' = IdleCall
  /\ UNCHANGED <<files, derived, importing, requests, job, late>>

-----------------------------------------------------------------------------
(* revocations.invalidate *)

JobUnchanged == UNCHANGED <<files, evidence, listed, importing, caller, late>>

Queued == {n \in DOMAIN requests : requests[n].status = "queued"}

\* claim_next_revocation_request: the oldest of any source, of those that no
\* other transaction holds (EndJob: the claim that finds none); the job has
\* just been leased, or has ended a request.
ClaimRequest(v, n) ==
  /\ job[v].pc = "queued"
  /\ n \in Queued
  /\ \A m \in Queued : n <= m
  /\ requests' = [requests EXCEPT ![n].status = "processing"]
  /\ job' = [job EXCEPT ![v] = [pc |-> "invalidating", request |-> n]]
  /\ JobUnchanged
  /\ UNCHANGED <<embedded, abandoned, spent>>

\* Fault: the evidence alone is invalidated.
EvidenceOnly(n) == {}

\* The chunks of the list that the request was made with
Impacted(n) == {c \in Rows : <<"chunk", c>> \in requests[n].impacted}

\* _invalidate_revoked_objects: the embeddings of what was listed then
Invalidate(v) ==
  /\ job[v].pc = "invalidating"
  /\ embedded' = embedded \ Impacted(job[v].request)
  /\ job' = [job EXCEPT ![v].pc = "completing"]
  /\ JobUnchanged
  /\ UNCHANGED <<requests, abandoned, spent>>

\* complete_revocation_request
EndRequest(v, status) ==
  /\ requests' = [requests EXCEPT ![job[v].request].status = status]
  /\ job' = [job EXCEPT ![v] = [pc |-> "queued", request |-> 0]]
  /\ JobUnchanged
  /\ UNCHANGED embedded

CompleteRequest(v) ==
  /\ job[v].pc = "completing"
  /\ EndRequest(v, "completed")
  /\ UNCHANGED <<abandoned, spent>>

\* What the job v has in hand is not taken up again by anything.
CutShort(v) ==
  abandoned' = IF job[v].pc = "invalidating"
               THEN abandoned \cup {requests[job[v].request].version} ELSE abandoned

\* An exception, before the embeddings are gone or after
InvalidationFails(v) ==
  /\ Spend
  /\ job[v].pc \in {"invalidating", "completing"}
  /\ EndRequest(v, "failed")
  /\ CutShort(v)

\* The claim returns nothing, and the job succeeds: no request is queued, or
\* SKIP LOCKED passed over the one that is (its workspace is joined, and its row
\* is held by any transaction that ensures the workspace), or the limit is met.
EndJob(v) ==
  /\ job[v].pc = "queued"
  /\ job' = [job EXCEPT ![v].pc = "done"]
  /\ JobUnchanged
  /\ UNCHANGED <<embedded, requests, abandoned, spent>>

\* The worker dies: the job is claimed again (it has three attempts, more than
\* the Budget leaves for), its request is not.
JobCrash(v) ==
  /\ Spend
  /\ job[v].pc \in {"invalidating", "completing"}
  /\ job' = [job EXCEPT ![v] = [pc |-> "queued", request |-> 0]]
  /\ CutShort(v)
  /\ JobUnchanged
  /\ UNCHANGED <<embedded, requests>>

-----------------------------------------------------------------------------

ImportNext ==
  \E i \in Importers :
    \/ StartImport(i)
    \/ \E n \in 0..MaxVersion : Parse(i, n)
    \/ Register(i)
    \/ \E k \in Versions : CheckSource(i, k)
    \/ Compare(i) \/ Insert(i) \/ Link(i)
    \/ CompleteRun(i) \/ ImportFails(i)

DeriveNext ==
  DeriveEvidence \/ ListUnembedded \/ EmbeddingFails \/ \E c \in Followed : Embed(c)

RevokeNext ==
  \/ \E v \in Versions : RevokeSource(v)
  \/ \E chunks \in SUBSET linked : \E items \in SUBSET chunks : PreviewTraversal(chunks, items)
  \/ RequestRevocation \/ EnqueueInvalidate \/ CallFails

InvalidateNext ==
  \E v \in Versions :
    \/ Invalidate(v) \/ CompleteRequest(v) \/ InvalidationFails(v)
    \/ \E n \in DOMAIN requests : ClaimRequest(v, n)
    \/ EndJob(v) \/ JobCrash(v)

Next == Grow \/ Discover \/ ImportNext \/ DeriveNext \/ RevokeNext \/ InvalidateNext

Spec == Init /\ [][Next]_vars

-----------------------------------------------------------------------------
(* Properties *)

ImportRecord ==
  [pc : {"idle", "parsing", "registering", "choosing", "comparing", "inserting", "linking"},
   version : 0..MaxVersion, todo : SUBSET Versions, line : 0..MaxVersion]

RunRecord == [status : {"none", "running", "completed"}, parsed : SUBSET Versions]

ImportTypeOK ==
  /\ file \in Versions
  /\ source \in [Versions -> {"absent", "registered", "revoked"}]
  /\ chunk \in [Rows -> {"absent", "observed", "revoked"}]
  /\ linked \subseteq Rows /\ evidence \subseteq Rows
  /\ embedded \subseteq Rows /\ listed \subseteq Rows
  /\ importers \in [Importers -> ImportRecord]
  /\ run \in [Importers -> RunRecord]

RevokeTypeOK ==
  /\ caller.pc \in {"idle", "revoked", "previewed", "requested"}
  /\ caller.version \in 0..MaxVersion
  /\ \A n \in DOMAIN requests :
       /\ requests[n].version \in Versions
       /\ requests[n].status \in {"queued", "processing", "completed", "failed"}
       /\ requests[n].impacted \subseteq {"chunk", "evidence"} \X Rows
       /\ Cardinality(requests[n].impacted) < MaxNodes
  /\ job \in [Versions -> [pc : {"none", "queued", "invalidating", "completing", "done"},
                           request : 0..Len(requests)]]
  /\ spent \in 0..Budget

\* Every row, job and call has its declared shape; no list of a request is
\* longer than the traversal may make it.
TypeOK == ImportTypeOK /\ RevokeTypeOK

\* unified-implementation-specification.md:5991 "duplicate imports are
\* idempotent across restarts and reruns": importing again, after a crash or a
\* growth of the file, stores no line twice; it takes two imports that both
\* looked before either stored.
StoredOnce ==
  \A k \in Versions \ raced : \A u, v \in Versions :
    chunk[<<u, k>>] # "absent" /\ chunk[<<v, k>>] # "absent" => u = v

\* A run that is recorded as completed has stored, itself or before it,
\* every line that it parsed, although its sources may be revoked under it.
CompletedRunStored ==
  \A i \in Importers : run[i].status = "completed" =>
    \A k \in run[i].parsed : \E v \in Versions : chunk[<<v, k>>] # "absent"

\* Under a source that is revoked nothing is observed, except the line that
\* an import had checked its source for when the revocation came.
NothingUnderRevoked ==
  \A c \in Rows :
    source[c[1]] = "revoked" /\ chunk[c] = "observed" => <<"insert", c>> \in late

Escaped(c, reasons) == \E why \in reasons : <<why, c>> \in late

\* What revokes the version c[1] is still on its way, or was cut short.
StillRevoking(c) == caller.version = c[1] \/ c[1] \in abandoned

\* The request lists the chunk, and its invalidation is still to come: it is
\* queued, or a job that has claimed it is about to.
ToInvalidate(n, c) ==
  /\ <<"chunk", c>> \in requests[n].impacted
  /\ \/ requests[n].status = "queued"
     \/ \E v \in Versions : job[v].pc = "invalidating" /\ job[v].request = n

\* Once the request that lists a revoked row is completed, the row's embedding
\* is gone, whichever job claimed it and in whatever order, and it does not come
\* back; a request that was neither cut short nor completed has it before it.
\* Beside these, only a row that was listed for embedding when it was revoked,
\* not linked to its source or beyond the limit of the traversal keeps one.
RevocationReaches ==
  \A c \in embedded :
    chunk[c] = "revoked" =>
      \/ StillRevoking(c) \/ Escaped(c, {"embed", "link", "cut"})
      \/ \E n \in DOMAIN requests : ToInvalidate(n, c)

\* No evidence is derived from a row after its revocation: what there is was in
\* the list of a request, or out of the traversal's reach.
DerivedIsListed ==
  \A c \in evidence :
    chunk[c] = "revoked" =>
      \/ StillRevoking(c) \/ Escaped(c, {"link", "cut", "cut item"})
      \/ \E n \in DOMAIN requests : <<"evidence", c>> \in requests[n].impacted
=============================================================================
