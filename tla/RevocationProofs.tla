-------------------------- MODULE RevocationProofs --------------------------
(***************************************************************************)
(* Safety of the revocation of a historical source, for any size of the    *)
(* file, of the traversal and of the queue of requests, any interleaving   *)
(* of calls, jobs, imports and embeddings, and any failures: what is       *)
(* revoked is on its way to be invalidated, or is known to have escaped.   *)
(***************************************************************************)
EXTENDS HistoricalImportProofs, SequenceTheorems, FiniteSetTheorems

Objects == {"chunk", "evidence"} \X Rows

CallRecord ==
  [pc : {"idle", "revoked", "previewed", "requested"}, version : 0..MaxVersion,
   impacted : SUBSET Objects]
RequestRecord ==
  [version : Versions, impacted : SUBSET Objects,
   status : {"queued", "processing", "completed", "failed"}]
JobRecord == [pc : {"none", "queued", "invalidating", "completing", "done"}, request : Nat]

\* A list that the traversal may make: the root takes one place.
Bounded(list) == Cardinality(list) < MaxNodes

CallTyped ==
  /\ caller \in CallRecord
  /\ caller.pc = "idle" <=> caller.version = 0
  /\ caller.pc = "previewed" => Bounded(caller.impacted)

RequestsTyped ==
  /\ requests \in Seq(RequestRecord)
  /\ \A n \in DOMAIN requests : Bounded(requests[n].impacted)

JobsTyped ==
  /\ job \in [Versions -> JobRecord]
  /\ \A v \in Versions :
       /\ job[v].request = 0 \/ job[v].request \in DOMAIN requests
       /\ job[v].pc \in {"invalidating", "completing"} =>
            job[v].request # 0 /\ requests[job[v].request].status # "queued"

\* The call has revoked v and not yet left a request for it.
Announcing(v) == caller.pc \in {"revoked", "previewed"} /\ caller.version = v

\* The invalidation of c by a request for its version is still to come.
Awaited(c) ==
  \E n \in DOMAIN requests : requests[n].version = c[1] /\ ToInvalidate(n, c)

\* What is embedded and revoked is announced, awaits its request, or escaped.
EmbeddedInReach ==
  \A c \in embedded :
    chunk[c] = "revoked" =>
      \/ Announcing(c[1]) \/ c[1] \in abandoned
      \/ Escaped(c, {"embed", "link", "cut"}) \/ Awaited(c)

\* So is the evidence of what is revoked, though no job works it off.
EvidenceInReach ==
  \A c \in evidence :
    chunk[c] = "revoked" =>
      \/ Announcing(c[1]) \/ c[1] \in abandoned
      \/ Escaped(c, {"link", "cut", "cut item"})
      \/ \E n \in DOMAIN requests : <<"evidence", c>> \in requests[n].impacted

\* What was listed for embedding before its revocation is known to be.
ListedKnown == \A c \in listed : chunk[c] = "revoked" => <<"embed", c>> \in late

\* The traversal has met every revoked row of the source and its evidence, or
\* it is known why not.
TraversalMet ==
  caller.pc = "previewed" =>
    \A c \in Rows :
      c[1] = caller.version /\ chunk[c] = "revoked" =>
        /\ <<"chunk", c>> \in caller.impacted \/ Escaped(c, {"link", "cut"})
        /\ c \in evidence =>
             <<"evidence", c>> \in caller.impacted \/ Escaped(c, {"link", "cut", "cut item"})

RInv ==
  /\ CallTyped /\ RequestsTyped /\ JobsTyped /\ spent \in 0..Budget
  /\ EmbeddedInReach /\ EvidenceInReach /\ ListedKnown /\ TraversalMet

-----------------------------------------------------------------------------
(* Lists and requests *)

\* The rows are finitely many.
LEMMA RowsFinite == IsFiniteSet(Rows)
  <1>1. IsFiniteSet(Versions)
    BY FS_Interval, VersionAssumption DEF Versions
  <1> QED
    BY <1>1, FS_Product DEF Rows

\* A list has as many objects as it has chunks and items.
LEMMA ListSize ==
  ASSUME NEW chunks \in SUBSET Rows, NEW items \in SUBSET Rows
  PROVE  Cardinality(({"chunk"} \X chunks) \cup ({"evidence"} \X items))
           = Cardinality(chunks) + Cardinality(items)
  <1> DEFINE A == {"chunk"} \X chunks
  <1> DEFINE B == {"evidence"} \X items
  <1>1. IsFiniteSet(chunks) /\ IsFiniteSet(items)
    BY FS_Subset, RowsFinite
  <1>2. IsFiniteSet({"chunk"}) /\ Cardinality({"chunk"}) = 1
    BY FS_Singleton
  <1>3. IsFiniteSet({"evidence"}) /\ Cardinality({"evidence"}) = 1
    BY FS_Singleton
  <1>4. Cardinality(chunks) \in Nat /\ Cardinality(items) \in Nat
    BY <1>1, FS_CardinalityType
  <1>5. IsFiniteSet(A) /\ Cardinality(A) = Cardinality(chunks)
    <2>1. IsFiniteSet(A) /\ Cardinality(A) = 1 * Cardinality(chunks)
      BY <1>1, <1>2, FS_Product
    <2> QED
      BY <1>4, <2>1
  <1>6. IsFiniteSet(B) /\ Cardinality(B) = Cardinality(items)
    <2>1. IsFiniteSet(B) /\ Cardinality(B) = 1 * Cardinality(items)
      BY <1>1, <1>3, FS_Product
    <2> QED
      BY <1>4, <2>1
  <1>7. A \cap B = {}
    OBVIOUS
  <1>8. Cardinality(A \cup B) = Cardinality(A) + Cardinality(B) - Cardinality({})
    <2> HIDE DEF A, B
    <2> QED
      BY <1>5, <1>6, <1>7, FS_Union
  <1>9. Cardinality({}) = 0
    BY FS_EmptySet
  <1> QED
    BY <1>4, <1>5, <1>6, <1>8, <1>9

\* A request that is there is a request.
LEMMA RequestTyped ==
  ASSUME RequestsTyped, NEW n \in DOMAIN requests
  PROVE  /\ requests[n] \in RequestRecord /\ requests[n].version \in Versions
         /\ DOMAIN requests = 1..Len(requests) /\ Len(requests) \in Nat /\ n \in Nat
  <1>1. requests \in Seq(RequestRecord) /\ DOMAIN requests = 1..Len(requests) /\ Len(requests) \in Nat
    BY LenProperties DEF RequestsTyped
  <1>2. requests[n] \in RequestRecord
    BY <1>1, ElementOfSeq
  <1> QED
    BY <1>1, <1>2 DEF RequestRecord

\* A request that changes its status stays where it is, with its list.
LEMMA StatusChange ==
  ASSUME RequestsTyped, NEW n \in DOMAIN requests,
         NEW status \in {"queued", "processing", "completed", "failed"},
         requests' = [requests EXCEPT ![n].status = status]
  PROVE  /\ RequestsTyped'
         /\ DOMAIN requests' = DOMAIN requests
         /\ requests'[n].status = status
         /\ \A m \in DOMAIN requests :
              /\ requests'[m].version = requests[m].version
              /\ requests'[m].impacted = requests[m].impacted
              /\ m # n => requests'[m].status = requests[m].status
  <1> DEFINE r == [requests[n] EXCEPT !.status = status]
  <1>1. requests \in Seq(RequestRecord) /\ DOMAIN requests = 1..Len(requests)
    BY LenProperties DEF RequestsTyped
  <1>2. requests[n] \in RequestRecord
    BY <1>1, ElementOfSeq
  <1>3. /\ r \in RequestRecord /\ r.status = status
        /\ r.version = requests[n].version /\ r.impacted = requests[n].impacted
    BY <1>2 DEF RequestRecord
  <1>4. requests' = [requests EXCEPT ![n] = r]
    OBVIOUS
  <1> HIDE DEF r
  <1>5. /\ requests' \in Seq(RequestRecord) /\ Len(requests') = Len(requests)
        /\ \A m \in 1..Len(requests) : requests'[m] = IF m = n THEN r ELSE requests[m]
    BY <1>1, <1>3, <1>4, ExceptSeq
  <1>6. DOMAIN requests' = DOMAIN requests
    BY <1>1, <1>5, LenProperties
  <1> QED
    BY <1>1, <1>3, <1>5, <1>6 DEF RequestsTyped

\* A request that is made joins the end of the others.
LEMMA RequestMade ==
  ASSUME RequestsTyped, NEW r \in RequestRecord, Bounded(r.impacted), requests' = Append(requests, r)
  PROVE  /\ RequestsTyped'
         /\ DOMAIN requests = 1..Len(requests) /\ Len(requests) \in Nat
         /\ DOMAIN requests' = 1..(Len(requests) + 1)
         /\ \A m \in DOMAIN requests : requests'[m] = requests[m]
         /\ requests'[Len(requests) + 1] = r
  <1>1. requests \in Seq(RequestRecord) /\ DOMAIN requests = 1..Len(requests) /\ Len(requests) \in Nat
    BY LenProperties DEF RequestsTyped
  <1>2. /\ requests' \in Seq(RequestRecord) /\ Len(requests') = Len(requests) + 1
        /\ \A m \in 1..Len(requests) : requests'[m] = requests[m]
        /\ requests'[Len(requests) + 1] = r
    BY <1>1, AppendProperties
  <1>3. DOMAIN requests' = 1..(Len(requests) + 1)
    BY <1>2, LenProperties
  <1> QED
    BY <1>1, <1>2, <1>3 DEF RequestsTyped

\* Nothing is revoked, requested or embedded at the start.
LEMMA InitReaches == Init => RInv
  <1> SUFFICES ASSUME Init PROVE RInv
    OBVIOUS
  <1> USE DEF Init
  <1>1. CallTyped
    BY VersionAssumption DEF CallTyped, CallRecord, IdleCall
  <1>2. RequestsTyped /\ DOMAIN requests = {}
    BY EmptySeq DEF RequestsTyped
  <1>3. JobsTyped /\ spent \in 0..Budget
    BY BoundAssumption DEF JobsTyped, JobRecord
  <1>4. EmbeddedInReach /\ EvidenceInReach /\ ListedKnown /\ TraversalMet
    BY DEF EmbeddedInReach, EvidenceInReach, ListedKnown, TraversalMet, IdleCall
  <1> QED
    BY <1>1, <1>2, <1>3, <1>4 DEF RInv

-----------------------------------------------------------------------------
(* The inductive step, an action at a time *)

\* Imports, evidence and embeddings concern what is not revoked, but for what
\* was listed for embedding before.
LEMMA AsideReaches ==
  ASSUME RInv, UNCHANGED <<caller, requests, job, abandoned, late>>, spent' \in 0..Budget,
         ImportTypeOK,
         \A c \in Rows : chunk'[c] = "revoked" => chunk[c] = "revoked",
         evidence' \subseteq Rows, embedded' \subseteq Rows, listed' \subseteq Rows,
         \A c \in evidence' \ evidence : chunk[c] # "revoked",
         \A c \in embedded' \ embedded : c \in listed,
         \A c \in listed' \ listed : chunk[c] # "revoked"
  PROVE  RInv'
  <1> USE DEF RInv
  <1>1. CallTyped' /\ RequestsTyped' /\ JobsTyped'
    BY DEF CallTyped, RequestsTyped, JobsTyped
  <1>2. EmbeddedInReach'
    <2>1. \A c \in embedded' : Announcing(c[1])' = Announcing(c[1]) /\ Awaited(c)' = Awaited(c)
      BY DEF Announcing, Awaited, ToInvalidate
    <2>2. ASSUME NEW c \in embedded' \ embedded, chunk'[c] = "revoked"
          PROVE  <<"embed", c>> \in late
      BY <2>2 DEF ListedKnown
    <2> QED
      BY <2>1, <2>2 DEF EmbeddedInReach, Escaped
  <1>3. EvidenceInReach'
    BY DEF EvidenceInReach, Announcing, Escaped
  <1>4. ListedKnown'
    BY DEF ListedKnown
  <1>5. TraversalMet'
    BY DEF TraversalMet, Escaped
  <1> QED
    BY <1>1, <1>2, <1>3, <1>4, <1>5

\* The call that revokes a source announces all its rows, and knows what was
\* listed.
LEMMA RevokeReaches ==
  ASSUME RInv, ImportTypeOK, NEW v \in Versions, RevokeSource(v)
  PROVE  RInv'
  <1> USE DEF RInv
  <1>1. /\ caller.pc = "idle" /\ caller' = [pc |-> "revoked", version |-> v, impacted |-> {}]
        /\ chunk' = ChunksRevoked(v) /\ spent' \in 0..Budget
        /\ late' = late \cup ({"insert"} \X BeingInserted(v)) \cup ({"embed"} \X (listed \cap RowsOf(v)))
        /\ UNCHANGED <<evidence, embedded, listed, requests, job, abandoned>>
    BY BoundAssumption DEF RevokeSource, CallUnchanged, Spend, derived
  <1>2. \A c \in Rows : chunk'[c] = "revoked" => chunk[c] = "revoked" \/ c \in RowsOf(v)
    BY <1>1 DEF ChunksRevoked
  <1>3. late \subseteq late'
    BY <1>1
  <1>4. embedded \subseteq Rows /\ evidence \subseteq Rows /\ listed \subseteq Rows
    BY DEF ImportTypeOK
  <1>5. CallTyped' /\ RequestsTyped' /\ JobsTyped'
    <2>1. CallTyped'
      BY <1>1, VersionAssumption DEF CallTyped, CallRecord, Versions
    <2> QED
      BY <1>1, <2>1 DEF RequestsTyped, JobsTyped
  <1>6. EmbeddedInReach' /\ EvidenceInReach'
    <2>1. \A c \in Rows : c \in RowsOf(v) => Announcing(c[1])'
      BY <1>1 DEF RowsOf, Announcing
    <2>2. \A c \in Rows : Awaited(c)' = Awaited(c) /\ ~Announcing(c[1])
      BY <1>1 DEF Awaited, ToInvalidate, Announcing
    <2>3. EmbeddedInReach'
      BY <1>1, <1>2, <1>3, <1>4, <2>1, <2>2 DEF EmbeddedInReach, Escaped
    <2>4. EvidenceInReach'
      BY <1>1, <1>2, <1>3, <1>4, <2>1, <2>2 DEF EvidenceInReach, Escaped
    <2> QED
      BY <2>3, <2>4
  <1>7. ListedKnown'
    BY <1>1, <1>2, <1>4 DEF ListedKnown
  <1>8. TraversalMet'
    BY <1>1 DEF TraversalMet
  <1> QED
    BY <1>1, <1>5, <1>6, <1>7, <1>8

\* The traversal meets what is linked, up to its limit; the rest is known.
LEMMA PreviewReaches ==
  ASSUME RInv, ImportTypeOK, NEW chunks, NEW items, PreviewTraversal(chunks, items)
  PROVE  RInv'
  <1> USE DEF RInv
  <1> DEFINE v == caller.version
  <1> DEFINE nodes == {c \in linked : c[1] = v}
  <1> DEFINE list == ({"chunk"} \X chunks) \cup ({"evidence"} \X items)
  <1>1. /\ caller.pc = "revoked" /\ chunks \subseteq nodes /\ items \subseteq chunks \cap evidence
        /\ caller' = [caller EXCEPT !.pc = "previewed", !.impacted = list]
        /\ late' = late \cup ({"link"} \X (RowsOf(v) \ nodes)) \cup ({"cut"} \X (nodes \ chunks))
                        \cup ({"cut item"} \X ((nodes \cap evidence) \ items))
        /\ UNCHANGED <<chunk, evidence, embedded, listed, requests, job, abandoned, spent>>
    BY DEF PreviewTraversal, CallUnchanged, derived
  <1>2. chunks \in SUBSET Rows /\ items \in SUBSET Rows /\ embedded \subseteq Rows /\ evidence \subseteq Rows
    BY <1>1 DEF ImportTypeOK
  <1>3. Bounded(list)
    <2>1. /\ Cardinality(list) = Cardinality(chunks) + Cardinality(items)
          /\ Cardinality(chunks) \in Nat /\ Cardinality(items) \in Nat
      BY <1>2, ListSize, RowsFinite, FS_Subset, FS_CardinalityType
    <2>2. \/ /\ Cardinality(nodes) + Cardinality(nodes \cap evidence) <= Room
             /\ chunks = nodes /\ items = nodes \cap evidence
          \/ Cardinality(chunks) + Cardinality(items) = Room
      BY DEF PreviewTraversal
    <2> HIDE DEF nodes, list
    <2>3. Cardinality(chunks) + Cardinality(items) <= Room
      BY <2>1, <2>2, NodesAssumption DEF Room
    <2> QED
      BY <2>1, <2>3, NodesAssumption DEF Bounded, Room
  <1>4. list \subseteq Objects
    BY <1>2 DEF Objects
  <1>5. /\ caller'.pc = "previewed" /\ caller'.version = v /\ caller'.impacted = list
        /\ caller' \in CallRecord
    BY <1>1, <1>4 DEF CallTyped, CallRecord
  <1>6. CallTyped' /\ RequestsTyped' /\ JobsTyped'
    BY <1>1, <1>3, <1>5 DEF CallTyped, RequestsTyped, JobsTyped
  <1>7. EmbeddedInReach' /\ EvidenceInReach'
    <2>1. \A c \in Rows : Awaited(c) => Awaited(c)'
      BY <1>1 DEF Awaited, ToInvalidate
    <2>3. \A c \in Rows : Announcing(c[1]) => Announcing(c[1])'
      BY <1>5 DEF Announcing
    <2>2. late \subseteq late'
      BY <1>1
    <2> QED
      BY <1>1, <1>2, <2>1, <2>2, <2>3 DEF EmbeddedInReach, EvidenceInReach, Escaped
  <1>8. ListedKnown'
    BY <1>1 DEF ListedKnown
  <1>9. TraversalMet'
    <2> SUFFICES ASSUME NEW c \in Rows, c[1] = v, chunk[c] = "revoked"
                 PROVE  /\ <<"chunk", c>> \in list \/ Escaped(c, {"link", "cut"})'
                        /\ c \in evidence =>
                             <<"evidence", c>> \in list \/ Escaped(c, {"link", "cut", "cut item"})'
      BY <1>1, <1>5 DEF TraversalMet
    <2>1. c \in RowsOf(v)
      BY DEF RowsOf
    <2>2. CASE c \notin nodes
      BY <1>1, <2>1, <2>2 DEF Escaped
    <2>3. CASE c \in nodes \ chunks
      BY <1>1, <2>3 DEF Escaped
    <2>4. CASE c \in chunks
      <3>1. <<"chunk", c>> \in list
        BY <2>4
      <3>2. CASE c \in items
        BY <3>1, <3>2
      <3>3. CASE c \in evidence \ items
        BY <1>1, <2>4, <3>1, <3>3 DEF Escaped
      <3> QED
        BY <3>1, <3>2, <3>3
    <2> QED
      BY <2>2, <2>3, <2>4
  <1> QED
    BY <1>1, <1>6, <1>7, <1>8, <1>9

\* The request carries what the traversal has met.
LEMMA RequestReaches ==
  ASSUME RInv, ImportTypeOK, RequestRevocation
  PROVE  RInv'
  <1> USE DEF RInv
  <1> DEFINE r == [version |-> caller.version, impacted |-> caller.impacted, status |-> "queued"]
  <1> DEFINE n == Len(requests) + 1
  <1>1. /\ caller.pc = "previewed" /\ caller' = [caller EXCEPT !.pc = "requested"]
        /\ requests' = Append(requests, r)
        /\ UNCHANGED <<chunk, evidence, embedded, listed, job, abandoned, late, spent>>
    BY DEF RequestRevocation, CallUnchanged, derived
  <1>2. /\ caller \in CallRecord /\ caller.version \in Versions
        /\ caller' \in CallRecord /\ caller'.pc = "requested" /\ caller'.version = caller.version
    BY <1>1 DEF CallTyped, CallRecord, Versions
  <1>3. r \in RequestRecord /\ Bounded(r.impacted)
    BY <1>1, <1>2 DEF CallTyped, CallRecord, RequestRecord
  <1>4. /\ RequestsTyped'
        /\ DOMAIN requests = 1..Len(requests) /\ Len(requests) \in Nat
        /\ DOMAIN requests' = 1..n
        /\ \A m \in DOMAIN requests : requests'[m] = requests[m]
        /\ requests'[n] = r
    <2> HIDE DEF r
    <2> QED
      BY <1>1, <1>3, RequestMade
  <1>5. n \in DOMAIN requests' /\ n \notin DOMAIN requests /\ DOMAIN requests \subseteq DOMAIN requests'
    BY <1>4
  <1> HIDE DEF n
  <1>6. CallTyped'
    BY <1>1, <1>2 DEF CallTyped, Versions
  <1>7. JobsTyped'
    BY <1>1, <1>5 DEF JobsTyped
  <1>8. \A v \in Versions : job'[v].request # n
    BY <1>1, <1>4 DEF JobsTyped, n
  <1>9. EmbeddedInReach'
    <2>1. \A c \in Rows : Awaited(c) => Awaited(c)'
      BY <1>1, <1>4, <1>5 DEF Awaited, ToInvalidate
    <2>2. ASSUME NEW c \in embedded, chunk[c] = "revoked", Announcing(c[1])
          PROVE  Escaped(c, {"link", "cut"}) \/ Awaited(c)'
      <3>1. c \in Rows /\ c[1] = caller.version
        BY <2>2 DEF ImportTypeOK, Announcing
      <3>2. <<"chunk", c>> \in caller.impacted \/ Escaped(c, {"link", "cut"})
        BY <1>1, <2>2, <3>1 DEF TraversalMet
      <3>3. ASSUME <<"chunk", c>> \in caller.impacted PROVE Awaited(c)'
        BY <1>4, <1>5, <1>8, <3>1, <3>3 DEF Awaited, ToInvalidate
      <3> QED
        BY <3>2, <3>3
    <2> QED
      BY <1>1, <2>1, <2>2 DEF EmbeddedInReach, ImportTypeOK, Escaped
  <1>10. EvidenceInReach'
    <2>1. ASSUME NEW c \in evidence, chunk[c] = "revoked", Announcing(c[1])
          PROVE  Escaped(c, {"link", "cut", "cut item"}) \/ <<"evidence", c>> \in requests'[n].impacted
      <3>1. c \in Rows /\ c[1] = caller.version
        BY <2>1 DEF ImportTypeOK, Announcing
      <3>2. requests'[n].impacted = caller.impacted
        BY <1>4
      <3>3. <<"evidence", c>> \in caller.impacted \/ Escaped(c, {"link", "cut", "cut item"})
        BY <1>1, <2>1, <3>1 DEF TraversalMet
      <3> QED
        BY <3>2, <3>3
    <2> QED
      BY <1>1, <1>4, <1>5, <2>1 DEF EvidenceInReach, Escaped
  <1>11. ListedKnown' /\ TraversalMet'
    BY <1>1, <1>2 DEF ListedKnown, TraversalMet
  <1> QED
    BY <1>1, <1>4, <1>6, <1>7, <1>9, <1>10, <1>11

\* The call ends with a job for its source, an old one or a new one: no job
\* that is at a request changes.
LEMMA EnqueueReaches ==
  ASSUME RInv, ImportTypeOK, EnqueueInvalidate
  PROVE  RInv'
  <1> USE DEF RInv
  <1> DEFINE u == caller.version
  <1>1. /\ caller.pc = "requested" /\ caller' = IdleCall
        /\ job' = IF KeyFree(u) THEN [job EXCEPT ![u].pc = "queued"] ELSE job
        /\ UNCHANGED <<chunk, evidence, embedded, listed, requests, abandoned, late, spent>>
    BY DEF EnqueueInvalidate, CallUnchanged, derived
  <1>2. u \in Versions /\ job \in [Versions -> JobRecord]
    BY <1>1 DEF CallTyped, JobsTyped, CallRecord, Versions
  <1>3. /\ job' \in [Versions -> JobRecord] /\ job'[u].pc # "none"
        /\ \A v \in Versions :
             /\ job'[v].request = job[v].request
             /\ job'[v].pc # job[v].pc => v = u /\ job[v].pc = "none" /\ job'[v].pc = "queued"
    BY <1>1, <1>2 DEF KeyFree, JobRecord
  <1>4. CallTyped' /\ RequestsTyped' /\ JobsTyped'
    <2>1. CallTyped'
      BY <1>1, VersionAssumption DEF CallTyped, CallRecord, IdleCall
    <2>2. JobsTyped'
      BY <1>1, <1>3 DEF JobsTyped
    <2> QED
      BY <1>1, <2>1, <2>2 DEF RequestsTyped
  <1>5. EmbeddedInReach' /\ EvidenceInReach'
    <2>1. \A c \in Rows : Awaited(c) => Awaited(c)'
      BY <1>1, <1>3 DEF Awaited, ToInvalidate
    <2>2. \A c \in Rows : ~Announcing(c[1])
      BY <1>1 DEF Announcing
    <2> QED
      BY <1>1, <2>1, <2>2 DEF EmbeddedInReach, EvidenceInReach, Escaped, ImportTypeOK
  <1>6. ListedKnown' /\ TraversalMet'
    BY <1>1 DEF ListedKnown, TraversalMet, IdleCall
  <1> QED
    BY <1>1, <1>4, <1>5, <1>6

\* A call that fails leaves its source known as abandoned.
LEMMA FailReaches ==
  ASSUME RInv, ImportTypeOK, CallFails
  PROVE  RInv'
  <1> USE DEF RInv
  <1>1. /\ caller.pc # "idle" /\ caller' = IdleCall /\ spent' \in 0..Budget
        /\ abandoned' = abandoned \cup {caller.version}
        /\ UNCHANGED <<chunk, evidence, embedded, listed, requests, job, late>>
    BY BoundAssumption DEF CallFails, Spend, files, derived
  <1>2. CallTyped' /\ RequestsTyped' /\ JobsTyped'
    BY <1>1, VersionAssumption DEF CallTyped, RequestsTyped, JobsTyped, CallRecord, IdleCall
  <1>3. EmbeddedInReach' /\ EvidenceInReach'
    <2>1. \A c \in Rows : Awaited(c) => Awaited(c)'
      BY <1>1 DEF Awaited, ToInvalidate
    <2> QED
      BY <1>1, <2>1 DEF EmbeddedInReach, EvidenceInReach, Escaped, ImportTypeOK, Announcing
  <1>4. ListedKnown' /\ TraversalMet'
    BY <1>1 DEF ListedKnown, TraversalMet, IdleCall
  <1> QED
    BY <1>1, <1>2, <1>3, <1>4

\* The steps of a job: a request that is queued is claimed or left alone, and
\* what a job was about to invalidate is invalidated or known as abandoned.
LEMMA JobReaches ==
  ASSUME RInv, ImportTypeOK, NEW v \in Versions, NEW r \in JobRecord,
         UNCHANGED <<chunk, evidence, listed, caller, late>>, spent' \in 0..Budget,
         abandoned \subseteq abandoned', embedded' \subseteq embedded,
         job' = [job EXCEPT ![v] = r],
         r.pc \in {"invalidating", "completing"} =>
           r.request # 0 /\ requests'[r.request].status # "queued",
         r.request = 0 \/ r.request \in DOMAIN requests,
         RequestsTyped', DOMAIN requests' = DOMAIN requests,
         \A m \in DOMAIN requests : /\ requests'[m].version = requests[m].version
                                    /\ requests'[m].impacted = requests[m].impacted
                                    /\ requests'[m].status = "queued" => requests[m].status = "queued"
                                    /\ requests[m].status = "queued" =>
                                         \/ requests'[m].status = "queued"
                                         \/ r.pc = "invalidating" /\ r.request = m,
         job[v].pc = "invalidating" =>
           \/ requests[job[v].request].version \in abandoned'
           \/ \A c \in embedded' : c \in Rows => <<"chunk", c>> \notin requests[job[v].request].impacted
  PROVE  RInv'
  <1> USE DEF RInv
  <1>1. /\ job' \in [Versions -> JobRecord] /\ job'[v] = r
        /\ \A u \in Versions \ {v} : job'[u] = job[u]
    BY DEF JobsTyped
  <1>2. CallTyped' /\ JobsTyped'
    BY <1>1 DEF CallTyped, JobsTyped
  <1>3. EmbeddedInReach' /\ EvidenceInReach'
    <2>1. ASSUME NEW c \in embedded', c \in Rows, Awaited(c) PROVE Awaited(c)' \/ c[1] \in abandoned'
      <3>1. PICK n \in DOMAIN requests :
              /\ requests[n].version = c[1] /\ <<"chunk", c>> \in requests[n].impacted
              /\ \/ requests[n].status = "queued"
                 \/ \E u \in Versions : job[u].pc = "invalidating" /\ job[u].request = n
        BY <2>1 DEF Awaited, ToInvalidate
      <3>2. requests'[n].version = c[1] /\ <<"chunk", c>> \in requests'[n].impacted
        BY <3>1
      <3>3. CASE requests[n].status = "queued"
        BY <1>1, <3>1, <3>2, <3>3 DEF Awaited, ToInvalidate
      <3>4. CASE \E u \in Versions : job[u].pc = "invalidating" /\ job[u].request = n
        <4>1. PICK u \in Versions : job[u].pc = "invalidating" /\ job[u].request = n
          BY <3>4
        <4>2. CASE u = v
          BY <2>1, <3>1, <4>1, <4>2
        <4>3. CASE u # v
          BY <1>1, <3>2, <4>1, <4>3 DEF Awaited, ToInvalidate
        <4> QED
          BY <4>2, <4>3
      <3> QED
        BY <3>1, <3>3, <3>4
    <2>2. EmbeddedInReach'
      BY <2>1 DEF EmbeddedInReach, Escaped, ImportTypeOK, Announcing
    <2>3. EvidenceInReach'
      BY DEF EvidenceInReach, Escaped, Announcing
    <2> QED
      BY <2>2, <2>3
  <1>4. ListedKnown' /\ TraversalMet'
    BY DEF ListedKnown, TraversalMet, Escaped
  <1> QED
    BY <1>2, <1>3, <1>4

\* A job that has been leased takes a request that is queued.
LEMMA ClaimReaches ==
  ASSUME RInv, ImportTypeOK, NEW v \in Versions, NEW n \in DOMAIN requests, ClaimRequest(v, n)
  PROVE  RInv'
  <1> DEFINE r == [pc |-> "invalidating", request |-> n]
  <1>1. /\ job[v].pc = "queued" /\ n \in Queued
        /\ requests' = [requests EXCEPT ![n].status = "processing"]
        /\ job' = [job EXCEPT ![v] = r]
        /\ UNCHANGED <<chunk, evidence, listed, caller, abandoned, late, embedded, spent>>
    BY DEF ClaimRequest, JobUnchanged, files
  <1>2. RequestsTyped
    BY DEF RInv
  <1>3. /\ RequestsTyped' /\ DOMAIN requests' = DOMAIN requests
        /\ requests'[n].status = "processing"
        /\ \A m \in DOMAIN requests :
             /\ requests'[m].version = requests[m].version
             /\ requests'[m].impacted = requests[m].impacted
             /\ m # n => requests'[m].status = requests[m].status
    BY <1>1, <1>2, StatusChange
  <1>4. n \in Nat /\ n # 0
    BY <1>2, RequestTyped
  <1>5. /\ r \in JobRecord /\ r.pc = "invalidating" /\ r.request = n
    BY <1>4 DEF JobRecord
  <1>6. spent' \in 0..Budget
    BY <1>1 DEF RInv
  <1> HIDE DEF r
  <1> QED
    BY <1>1, <1>3, <1>4, <1>5, <1>6, JobReaches

\* A job that has invalidated its request has left none of its embeddings.
LEMMA InvalidateReaches ==
  ASSUME RInv, ImportTypeOK, NEW v \in Versions, Invalidate(v)
  PROVE  RInv'
  <1> DEFINE r == [job[v] EXCEPT !.pc = "completing"]
  <1>1. /\ job[v].pc = "invalidating" /\ embedded' = embedded \ Impacted(job[v].request)
        /\ job' = [job EXCEPT ![v] = r]
        /\ UNCHANGED <<chunk, evidence, listed, caller, abandoned, late, requests, spent>>
    BY DEF Invalidate, JobUnchanged, files
  <1>2. job[v] \in JobRecord /\ job[v].request \in DOMAIN requests /\ job[v].request # 0
    BY <1>1 DEF RInv, JobsTyped
  <1>3. r \in JobRecord /\ r.pc = "completing" /\ r.request = job[v].request
    BY <1>2 DEF JobRecord
  <1>4. \A c \in embedded' : c \in Rows => <<"chunk", c>> \notin requests[job[v].request].impacted
    BY <1>1 DEF Impacted
  <1>5. /\ RequestsTyped' /\ DOMAIN requests' = DOMAIN requests
        /\ \A m \in DOMAIN requests : requests'[m] = requests[m]
        /\ spent' \in 0..Budget
    BY <1>1 DEF RInv, RequestsTyped
  <1>6. requests[job[v].request].status # "queued"
    BY <1>1 DEF RInv, JobsTyped
  <1> HIDE DEF r
  <1> QED
    BY <1>1, <1>2, <1>3, <1>4, <1>5, <1>6, JobReaches

\* A request ends after its embeddings are gone, or its source is known as
\* abandoned.
LEMMA EndReaches ==
  ASSUME RInv, ImportTypeOK, NEW v \in Versions, NEW status \in {"completed", "failed"},
         job[v].pc \in {"invalidating", "completing"},
         abandoned \subseteq abandoned',
         job[v].pc = "invalidating" => requests[job[v].request].version \in abandoned',
         EndRequest(v, status), spent' \in 0..Budget
  PROVE  RInv'
  <1> DEFINE r == [pc |-> "queued", request |-> 0]
             n == job[v].request
  <1>1. /\ requests' = [requests EXCEPT ![n].status = status]
        /\ job' = [job EXCEPT ![v] = r]
        /\ UNCHANGED <<chunk, evidence, listed, caller, late, embedded>>
    BY DEF EndRequest, JobUnchanged, files
  <1>2. RequestsTyped /\ n \in DOMAIN requests
    BY DEF RInv, JobsTyped
  <1> HIDE DEF n
  <1>3. /\ RequestsTyped' /\ DOMAIN requests' = DOMAIN requests
        /\ requests'[n].status = status
        /\ \A m \in DOMAIN requests :
             /\ requests'[m].version = requests[m].version
             /\ requests'[m].impacted = requests[m].impacted
             /\ m # n => requests'[m].status = requests[m].status
    BY <1>1, <1>2, StatusChange
  <1>4. r \in JobRecord /\ r.pc = "queued" /\ r.request = 0
    BY DEF JobRecord
  <1>5. \A m \in DOMAIN requests :
          /\ requests'[m].version = requests[m].version
          /\ requests'[m].impacted = requests[m].impacted
          /\ m # n => requests'[m].status = requests[m].status
    BY <1>3
  <1>6. requests[n].status # "queued"
    BY DEF n, RInv, JobsTyped
  <1>7. job[v].pc = "invalidating" => requests[n].version \in abandoned'
    BY DEF n
  <1>8. \A m \in DOMAIN requests : requests[m].status = "queued" => requests'[m].status = "queued"
    BY <1>5, <1>6
  <1>9. \A m \in DOMAIN requests : requests'[m].status = "queued" => requests[m].status = "queued"
    BY <1>3
  <1> HIDE DEF r
  <1> QED
    BY <1>1, <1>3, <1>4, <1>5, <1>7, <1>8, <1>9, JobReaches DEF n

\* A job that ends or dies leaves the requests as they are.
LEMMA LeaveReaches ==
  ASSUME RInv, ImportTypeOK, NEW v \in Versions, EndJob(v) \/ JobCrash(v)
  PROVE  RInv'
  <1>0. RequestsTyped /\ spent \in 0..Budget /\ job[v] \in JobRecord
    BY DEF RInv, JobsTyped
  <1>1. CASE EndJob(v)
    <2> DEFINE r == [job[v] EXCEPT !.pc = "done"]
    <2>1. /\ job[v].pc = "queued" /\ job' = [job EXCEPT ![v] = r]
          /\ UNCHANGED <<chunk, evidence, listed, caller, abandoned, late, embedded, requests, spent>>
      BY <1>1 DEF EndJob, JobUnchanged, files
    <2>2. /\ r \in JobRecord /\ r.pc = "done"
          /\ r.request = 0 \/ r.request \in DOMAIN requests
      BY <1>0 DEF JobRecord, RInv, JobsTyped
    <2>3. /\ RequestsTyped' /\ DOMAIN requests' = DOMAIN requests
          /\ \A m \in DOMAIN requests : requests'[m] = requests[m]
          /\ spent' \in 0..Budget
      BY <1>0, <2>1 DEF RequestsTyped
    <2> HIDE DEF r
    <2> QED
      BY <2>1, <2>2, <2>3, JobReaches
  <1>2. CASE JobCrash(v)
    <2> DEFINE r == [pc |-> "queued", request |-> 0]
    <2>1. /\ job[v].pc \in {"invalidating", "completing"} /\ job' = [job EXCEPT ![v] = r]
          /\ UNCHANGED <<chunk, evidence, listed, caller, late, embedded, requests>>
          /\ abandoned \subseteq abandoned'
          /\ job[v].pc = "invalidating" => requests[job[v].request].version \in abandoned'
          /\ spent < Budget /\ spent' = spent + 1
      BY <1>2 DEF JobCrash, CutShort, JobUnchanged, Spend, files
    <2>2. r \in JobRecord /\ r.pc = "queued" /\ r.request = 0
      BY DEF JobRecord
    <2>3. /\ RequestsTyped' /\ DOMAIN requests' = DOMAIN requests
          /\ \A m \in DOMAIN requests : requests'[m] = requests[m]
      BY <1>0, <2>1 DEF RequestsTyped
    <2>4. spent' \in 0..Budget
      BY <1>0, <2>1, BoundAssumption
    <2> HIDE DEF r
    <2> QED
      BY <2>1, <2>2, <2>3, <2>4, JobReaches
  <1> QED
    BY <1>1, <1>2

-----------------------------------------------------------------------------
(* Every step *)

\* Imports store lines, they revoke none.
LEMMA ImportReaches ==
  ASSUME RInv, ImportTypeOK, Grow \/ Discover \/ ImportNext
  PROVE  RInv'
  <1>0. spent \in 0..Budget /\ evidence \subseteq Rows /\ embedded \subseteq Rows /\ listed \subseteq Rows
    BY DEF RInv, ImportTypeOK
  <1>1. UNCHANGED <<caller, requests, job, abandoned, late, evidence, embedded, listed>>
    BY DEF Grow, Discover, ImportNext, StartImport, Parse, Register, CheckSource, Compare,
       Insert, Link, CompleteRun, ImportFails, ImportUnchanged, derived, revoking
  <1>2. spent' \in 0..Budget
    <2>1. UNCHANGED spent \/ Spend
      BY DEF Grow, Discover, ImportNext, StartImport, Parse, Register, CheckSource, Compare,
         Insert, Link, CompleteRun, ImportFails
    <2> QED
      BY <1>0, <2>1, BoundAssumption DEF Spend
  <1>3. \A c \in Rows : chunk'[c] = "revoked" => chunk[c] = "revoked"
    <2>1. chunk' = chunk \/ \E i \in Importers : chunk' = [chunk EXCEPT ![Row(i)] = "observed"]
      BY DEF Grow, Discover, ImportNext, StartImport, Parse, Register, CheckSource, Compare,
         Insert, Link, CompleteRun, ImportFails, files
    <2> QED
      BY <2>1 DEF ImportTypeOK
  <1> QED
    BY <1>0, <1>1, <1>2, <1>3, AsideReaches

\* Evidence and embeddings are made of what is observed when it is looked for.
LEMMA DeriveReaches ==
  ASSUME RInv, ImportTypeOK, DeriveNext
  PROVE  RInv'
  <1>0. spent \in 0..Budget /\ evidence \subseteq Rows /\ embedded \subseteq Rows /\ listed \subseteq Rows
    BY DEF RInv, ImportTypeOK
  <1>1. UNCHANGED <<caller, requests, job, abandoned, late, chunk>>
    BY DEF DeriveNext, DeriveEvidence, ListUnembedded, Embed, EmbeddingFails, files, revoking
  <1>2. spent' \in 0..Budget
    BY <1>0, BoundAssumption
       DEF DeriveNext, DeriveEvidence, ListUnembedded, Embed, EmbeddingFails, Spend
  <1>3. evidence' \subseteq Rows /\ embedded' \subseteq Rows /\ listed' \subseteq Rows
    BY <1>0, FollowedAssumption DEF DeriveNext, DeriveEvidence, ListUnembedded, Embed,
       EmbeddingFails
  <1>4. /\ \A c \in evidence' \ evidence : chunk[c] # "revoked"
        /\ \A c \in embedded' \ embedded : c \in listed
        /\ \A c \in listed' \ listed : chunk[c] # "revoked"
    BY DEF DeriveNext, DeriveEvidence, ListUnembedded, Embed, EmbeddingFails, Observed, Embeddable
  <1> QED
    BY <1>0, <1>1, <1>2, <1>3, <1>4, AsideReaches

\* Every step keeps what the revocation is to reach.
LEMMA NextReaches ==
  ASSUME RInv, ImportTypeOK, [Next]_vars
  PROVE  RInv'
  <1>1. CASE Grow \/ Discover \/ ImportNext
    BY <1>1, ImportReaches
  <1>2. CASE DeriveNext
    BY <1>2, DeriveReaches
  <1>3. CASE RevokeNext
    BY <1>3, RevokeReaches, PreviewReaches, RequestReaches, EnqueueReaches, FailReaches
       DEF RevokeNext
  <1>4. CASE InvalidateNext
    <2> PICK v \in Versions :
               \/ Invalidate(v) \/ CompleteRequest(v) \/ InvalidationFails(v)
               \/ \E n \in DOMAIN requests : ClaimRequest(v, n)
               \/ EndJob(v) \/ JobCrash(v)
      BY <1>4 DEF InvalidateNext
    <2>1. CASE CompleteRequest(v) \/ InvalidationFails(v)
      <3>1. spent \in 0..Budget
        BY DEF RInv
      <3>2. spent' \in 0..Budget
        BY <2>1, <3>1, BoundAssumption DEF CompleteRequest, InvalidationFails, Spend
      <3>3. CASE CompleteRequest(v)
        BY <3>2, <3>3, EndReaches DEF CompleteRequest
      <3>4. CASE InvalidationFails(v)
        BY <3>2, <3>4, EndReaches DEF InvalidationFails, CutShort
      <3> QED
        BY <2>1, <3>3, <3>4
    <2> QED
      BY <2>1, InvalidateReaches, ClaimReaches, LeaveReaches
  <1>5. CASE UNCHANGED vars
    <2>1. /\ UNCHANGED <<chunk, evidence, embedded, listed, caller, requests, job, abandoned, spent, late>>
      BY <1>5 DEF vars, files, derived, revoking
    <2>2. spent' \in 0..Budget /\ evidence' \subseteq Rows /\ embedded' \subseteq Rows /\ listed' \subseteq Rows
      BY <2>1 DEF RInv, ImportTypeOK
    <2> QED
      BY <2>1, <2>2, AsideReaches
  <1> QED
    BY <1>1, <1>2, <1>3, <1>4, <1>5 DEF Next

-----------------------------------------------------------------------------
(* What follows *)

\* The inductive invariant of the revocation, beside the one of the import.
THEOREM RevocationInvariant == Spec => [](ImportTypeOK /\ RInv)
  <1>1. Init /\ ImportTypeOK => RInv
    BY InitReaches
  <1>2. RInv /\ ImportTypeOK /\ [Next]_vars => RInv'
    BY NextReaches
  <1> QED
    BY <1>1, <1>2, ImportTypeCorrect, PTL DEF Spec

\* The rows, calls, requests and jobs keep their shape, and no request lists
\* more than the traversal may meet.
THEOREM TypeCorrect == Spec => []TypeOK
  <1>1. ImportTypeOK /\ RInv => TypeOK
    <2> SUFFICES ASSUME ImportTypeOK, RInv PROVE RevokeTypeOK
      BY DEF TypeOK
    <2> USE DEF RInv
    <2>1. /\ caller.pc \in {"idle", "revoked", "previewed", "requested"}
          /\ caller.version \in 0..MaxVersion /\ spent \in 0..Budget
      BY DEF CallTyped, CallRecord
    <2>2. \A n \in DOMAIN requests :
            /\ requests[n].version \in Versions
            /\ requests[n].status \in {"queued", "processing", "completed", "failed"}
            /\ requests[n].impacted \subseteq {"chunk", "evidence"} \X Rows
            /\ Cardinality(requests[n].impacted) < MaxNodes
      BY RequestTyped DEF RequestsTyped, RequestRecord, Objects, Bounded
    <2>3. job \in [Versions -> [pc : {"none", "queued", "invalidating", "completing", "done"},
                                request : 0..Len(requests)]]
      <3>1. DOMAIN requests = 1..Len(requests) /\ Len(requests) \in Nat
        BY LenProperties DEF RequestsTyped
      <3>2. \A v \in Versions : job[v].request \in 0..Len(requests)
        BY <3>1 DEF JobsTyped
      <3> QED
        BY <3>2 DEF JobsTyped, JobRecord
    <2> QED
      BY <2>1, <2>2, <2>3 DEF RevokeTypeOK
  <1> QED
    BY <1>1, RevocationInvariant, PTL

\* A revoked row keeps its embedding only as long as its request is to be worked
\* off or was cut short, or by one of the three known escapes.
THEOREM EmbeddingsReached == Spec => []RevocationReaches
  <1>1. RInv => RevocationReaches
    BY DEF RInv, EmbeddedInReach, RevocationReaches, Announcing, Awaited, ToInvalidate,
       StillRevoking
  <1> QED
    BY <1>1, RevocationInvariant, PTL

\* The evidence of a revoked row is in the list of a request, or known to have
\* been out of the traversal's reach.
THEOREM EvidenceListed == Spec => []DerivedIsListed
  <1>1. RInv => DerivedIsListed
    BY DEF RInv, EvidenceInReach, DerivedIsListed, Announcing, StillRevoking
  <1> QED
    BY <1>1, RevocationInvariant, PTL
=============================================================================
