----------------------- MODULE HistoricalImportProofs -----------------------
(***************************************************************************)
(* Safety of the import for a file of any length, any number of imports at *)
(* once and any number of revocations, failures and deaths: what is stored *)
(* twice, what a completed run has stored, what a revoked source still     *)
(* shows.                                                                  *)
(***************************************************************************)
EXTENDS HistoricalImport, TLAPS

USE DEF At, Row, Moved

Holding == {"comparing", "inserting", "linking"}

\* An import at work has a version, a line when it is on one, and its run
\* record says running.
AtWork ==
  \A i \in Importers :
    /\ importers[i].pc # "idle" => importers[i].version \in Versions /\ run[i].status = "running"
    /\ importers[i].pc \in Holding => importers[i].line \in Versions

\* An import that is past its check of a source that is now revoked is known
\* to have come in between.
InBetween ==
  \A i \in Importers :
    importers[i].pc \in {"comparing", "inserting"} /\ source[importers[i].version] = "revoked" =>
      <<"insert", Row(i)>> \in late

\* A line about to be stored is stored nowhere, and by nobody else.
Missing ==
  \A i \in Importers :
    importers[i].pc = "inserting" /\ importers[i].line \notin raced =>
      /\ \A v \in Versions : chunk[<<v, importers[i].line>>] = "absent"
      /\ \A j \in Importers \ {i} :
           ~(importers[j].pc = "inserting" /\ importers[j].line = importers[i].line)

StoredLine(k) == \E v \in Versions : chunk[<<v, k>>] # "absent"

\* What an import has parsed is yet to be done, in hand, or stored.
Progress ==
  \A i \in Importers : \A k \in run[i].parsed :
    /\ importers[i].pc = "registering" => k \in importers[i].todo
    /\ importers[i].pc \in Holding \cup {"choosing"} =>
         \/ k \in importers[i].todo
         \/ importers[i].pc \in {"comparing", "inserting"} /\ importers[i].line = k
         \/ StoredLine(k)

IInv ==
  /\ ImportTypeOK /\ AtWork /\ InBetween /\ Missing /\ Progress
  /\ NothingUnderRevoked /\ StoredOnce /\ CompletedRunStored

-----------------------------------------------------------------------------

LEMMA InitEstablishes == Init => IInv
  <1> SUFFICES ASSUME Init PROVE IInv
    OBVIOUS
  <1>1. ImportTypeOK
    BY VersionAssumption DEF Init, ImportTypeOK, ImportRecord, RunRecord, IdleImport, Versions
  <1>2. AtWork /\ InBetween /\ Missing /\ Progress
    BY DEF Init, AtWork, InBetween, Missing, Progress, IdleImport, Holding
  <1>3. NothingUnderRevoked /\ StoredOnce /\ CompletedRunStored
    BY DEF Init, NothingUnderRevoked, StoredOnce, CompletedRunStored, Rows
  <1> QED
    BY <1>1, <1>2, <1>3 DEF IInv

-----------------------------------------------------------------------------
(* The inductive step, an action at a time. *)

\* What leaves the imports and the rows of sources and chunks as they are
\* keeps the invariant: a revocation is only ever known to more rows.
LEMMA AsideKeeps ==
  ASSUME IInv, UNCHANGED <<source, chunk, importers, run, raced>>, file' \in Versions,
         linked' \subseteq Rows, evidence' \subseteq Rows, embedded' \subseteq Rows,
         listed' \subseteq Rows, late \subseteq late'
  PROVE  IInv'
  <1>1. ImportTypeOK'
    BY DEF IInv, ImportTypeOK
  <1>2. AtWork' /\ InBetween' /\ Missing' /\ Progress'
    BY DEF IInv, AtWork, InBetween, Missing, Progress, StoredLine
  <1>3. NothingUnderRevoked' /\ StoredOnce' /\ CompletedRunStored'
    BY DEF IInv, NothingUnderRevoked, StoredOnce, CompletedRunStored
  <1> QED
    BY <1>1, <1>2, <1>3 DEF IInv

LEMMA DiscoverKeeps ==
  ASSUME IInv, Discover
  PROVE  IInv'
  <1>1. PICK v \in 1..file : source' = [source EXCEPT ![v] = "registered"]
    BY DEF Discover
  <1>2. UNCHANGED <<file, chunk, linked, evidence, embedded, listed, importers, run, raced, late>>
    BY DEF Discover, derived, importing
  <1>3. \A u \in Versions : source'[u] = "revoked" => source[u] = "revoked"
    BY <1>1 DEF IInv, ImportTypeOK
  <1>4. ImportTypeOK'
    BY <1>1, <1>2 DEF IInv, ImportTypeOK
  <1>5. AtWork' /\ InBetween' /\ Missing' /\ Progress'
    <2>1. AtWork' /\ Missing' /\ Progress'
      BY <1>2 DEF IInv, AtWork, Missing, Progress, StoredLine
    <2>2. InBetween'
      BY <1>2, <1>3 DEF IInv, InBetween, AtWork
    <2> QED
      BY <2>1, <2>2
  <1>6. NothingUnderRevoked' /\ StoredOnce' /\ CompletedRunStored'
    <2>1. StoredOnce' /\ CompletedRunStored'
      BY <1>2 DEF IInv, StoredOnce, CompletedRunStored
    <2>2. NothingUnderRevoked'
      BY <1>2, <1>3 DEF IInv, NothingUnderRevoked, Rows
    <2> QED
      BY <2>1, <2>2
  <1> QED
    BY <1>4, <1>5, <1>6 DEF IInv

LEMMA StartKeeps ==
  ASSUME IInv, NEW i \in Importers, StartImport(i)
  PROVE  IInv'
  <1>1. /\ importers' = [importers EXCEPT ![i].pc = "parsing", ![i].version = file]
        /\ run' = [run EXCEPT ![i] = [status |-> "running", parsed |-> {}]]
        /\ UNCHANGED <<file, source, chunk, linked, evidence, embedded, listed, raced, late>>
    BY DEF StartImport, ImportUnchanged, derived
  <1>2. importers \in [Importers -> ImportRecord] /\ run \in [Importers -> RunRecord] /\ file \in Versions
    BY DEF IInv, ImportTypeOK
  <1>a. /\ importers' \in [Importers -> ImportRecord]
        /\ importers'[i].pc = "parsing"
        /\ \A j \in Importers \ {i} : importers'[j] = importers[j]
    <2> DEFINE next == [importers[i] EXCEPT !.pc = "parsing", !.version = file]
    <2>1. importers' = [importers EXCEPT ![i] = next]
      BY <1>1
    <2>2. importers[i] \in ImportRecord /\ file \in 0..MaxVersion
      BY <1>2, VersionAssumption DEF Versions
    <2>3. next \in ImportRecord /\ next.pc = "parsing"
      BY <2>2 DEF ImportRecord
    <2> HIDE DEF next
    <2> QED
      BY <1>2, <2>1, <2>3
  <1>b. /\ run' \in [Importers -> RunRecord]
        /\ run'[i].parsed = {}
        /\ \A j \in Importers \ {i} : run'[j] = run[j]
    BY <1>1, <1>2 DEF RunRecord
  <1>3. ImportTypeOK'
    BY <1>1, <1>a, <1>b DEF IInv, ImportTypeOK
  <1>4. AtWork'
    BY <1>1, <1>2 DEF IInv, AtWork, Holding, ImportRecord, RunRecord
  <1>5. InBetween' /\ Missing' /\ Progress'
    <2>1. InBetween'
      BY <1>1, <1>a DEF IInv, InBetween
    <2>2. Missing'
      BY <1>1, <1>a DEF IInv, Missing
    <2>3. Progress'
      BY <1>1, <1>a, <1>b DEF IInv, Progress, StoredLine
    <2> QED
      BY <2>1, <2>2, <2>3
  <1>6. NothingUnderRevoked' /\ StoredOnce' /\ CompletedRunStored'
    BY <1>1, <1>2 DEF IInv, NothingUnderRevoked, StoredOnce, CompletedRunStored, RunRecord
  <1> QED
    BY <1>3, <1>4, <1>5, <1>6 DEF IInv

LEMMA ParseKeeps ==
  ASSUME IInv, NEW i \in Importers, NEW n \in 0..MaxVersion, Parse(i, n)
  PROVE  IInv'
  <1>1. /\ importers[i].pc = "parsing" /\ n \in 0..file
        /\ importers' = [importers EXCEPT ![i].pc = "registering", ![i].todo = 1..n]
        /\ run' = [run EXCEPT ![i].parsed = 1..n]
        /\ UNCHANGED <<file, source, chunk, linked, evidence, embedded, listed, raced, late>>
    BY DEF Parse, ImportUnchanged, derived
  <1>2. importers \in [Importers -> ImportRecord] /\ run \in [Importers -> RunRecord]
    BY DEF IInv, ImportTypeOK
  <1>3. 1..n \subseteq Versions
    BY VersionAssumption DEF Versions
  <1>a. /\ importers' \in [Importers -> ImportRecord]
        /\ importers'[i].pc = "registering" /\ importers'[i].todo = 1..n
        /\ \A j \in Importers \ {i} : importers'[j] = importers[j]
    BY <1>1, <1>2, <1>3 DEF ImportRecord
  <1>b. /\ run' \in [Importers -> RunRecord]
        /\ run'[i].parsed = 1..n
        /\ \A j \in Importers \ {i} : run'[j] = run[j]
    BY <1>1, <1>2, <1>3 DEF RunRecord
  <1>4. ImportTypeOK'
    BY <1>1, <1>a, <1>b DEF IInv, ImportTypeOK
  <1>5. AtWork'
    BY <1>1, <1>2 DEF IInv, AtWork, Holding, ImportRecord, RunRecord
  <1>6. InBetween' /\ Missing' /\ Progress'
    <2>1. InBetween'
      BY <1>1, <1>a DEF IInv, InBetween
    <2>2. Missing'
      BY <1>1, <1>a DEF IInv, Missing
    <2>3. Progress'
      BY <1>1, <1>a, <1>b DEF IInv, Progress, StoredLine, Holding
    <2> QED
      BY <2>1, <2>2, <2>3
  <1>7. NothingUnderRevoked' /\ StoredOnce'
    BY <1>1, <1>2 DEF IInv, NothingUnderRevoked, StoredOnce
  <1>8. CompletedRunStored'
    BY <1>1, <1>2 DEF IInv, AtWork, CompletedRunStored, RunRecord
  <1> QED
    BY <1>4, <1>5, <1>6, <1>7, <1>8 DEF IInv

LEMMA RegisterKeeps ==
  ASSUME IInv, NEW i \in Importers, Register(i)
  PROVE  IInv'
  <1>1. /\ importers[i].pc = "registering"
        /\ importers' = [importers EXCEPT ![i].pc = "choosing"]
        /\ source' = [source EXCEPT ![importers[i].version] = "registered"]
        /\ UNCHANGED <<file, chunk, linked, evidence, embedded, listed, run, raced, late>>
    BY DEF Register, ImportUnchanged, derived
  <1>2. importers \in [Importers -> ImportRecord] /\ run \in [Importers -> RunRecord]
    BY DEF IInv, ImportTypeOK
  <1>3. \A u \in Versions : source'[u] = "revoked" => source[u] = "revoked"
    BY <1>1 DEF IInv, ImportTypeOK
  <1>4. ImportTypeOK'
    BY <1>1, <1>2 DEF IInv, ImportTypeOK, ImportRecord
  <1>5. AtWork'
    BY <1>1, <1>2 DEF IInv, AtWork, Holding, ImportRecord
  <1>6. InBetween'
    BY <1>1, <1>2, <1>3 DEF IInv, AtWork, InBetween, Holding, ImportRecord
  <1>7. Missing' /\ Progress'
    BY <1>1, <1>2 DEF IInv, Missing, Progress, StoredLine, Holding, ImportRecord
  <1>8. NothingUnderRevoked'
    BY <1>1, <1>3 DEF IInv, NothingUnderRevoked, Rows
  <1>9. StoredOnce' /\ CompletedRunStored'
    BY <1>1 DEF IInv, StoredOnce, CompletedRunStored
  <1> QED
    BY <1>4, <1>5, <1>6, <1>7, <1>8, <1>9 DEF IInv

LEMMA CheckKeeps ==
  ASSUME IInv, NEW i \in Importers, NEW k \in Versions, CheckSource(i, k)
  PROVE  IInv'
  <1>1. /\ importers[i].pc = "choosing" /\ k \in importers[i].todo
        /\ UNCHANGED <<file, source, chunk, linked, evidence, embedded, listed, run, raced, late>>
    BY DEF CheckSource, ImportUnchanged, derived
  <1>2. importers \in [Importers -> ImportRecord] /\ run \in [Importers -> RunRecord]
    BY DEF IInv, ImportTypeOK
  <1>3. NothingUnderRevoked' /\ StoredOnce' /\ CompletedRunStored'
    BY <1>1 DEF IInv, NothingUnderRevoked, StoredOnce, CompletedRunStored
  <1>4. CASE Registered(i)
    <2>1. importers' = [importers EXCEPT ![i] = Taken(i, k)]
      BY <1>4 DEF CheckSource
    <2>a. Taken(i, k) \in ImportRecord
      <3>1. importers[i] \in ImportRecord /\ k \in 0..MaxVersion
        BY <1>2, VersionAssumption DEF Versions
      <3>2. importers[i].todo \ {k} \in SUBSET Versions
        BY <3>1 DEF ImportRecord
      <3> QED
        BY <3>1, <3>2 DEF ImportRecord, Taken
    <2>b. /\ importers' \in [Importers -> ImportRecord]
          /\ importers'[i].pc = "comparing" /\ importers'[i].line = k
          /\ importers'[i].todo = importers[i].todo \ {k}
          /\ \A j \in Importers \ {i} : importers'[j] = importers[j]
      BY <1>2, <2>1, <2>a DEF ImportRecord, Taken
    <2>2. ImportTypeOK'
      BY <1>1, <2>b DEF IInv, ImportTypeOK
    <2>3. AtWork'
      BY <1>1, <1>2, <2>1 DEF IInv, AtWork, Holding, ImportRecord, Taken
    <2>4. InBetween'
      BY <1>1, <1>2, <1>4, <2>1 DEF IInv, InBetween, ImportRecord, Registered, Taken
    <2>5. Missing' /\ Progress'
      <3>1. Missing'
        BY <1>1, <2>b DEF IInv, Missing
      <3>2. Progress'
        BY <1>1, <2>b DEF IInv, Progress, StoredLine, Holding
      <3> QED
        BY <3>1, <3>2
    <2> QED
      BY <1>3, <2>2, <2>3, <2>4, <2>5 DEF IInv
  <1>5. CASE ~Registered(i)
    <2>1. importers' = [importers EXCEPT ![i] = IdleImport]
      BY <1>5 DEF CheckSource, ImportEnded
    <2>2. ImportTypeOK'
      BY <1>1, <1>2, <2>1, VersionAssumption DEF IInv, ImportTypeOK, ImportRecord, IdleImport
    <2>3. AtWork' /\ InBetween' /\ Missing' /\ Progress'
      BY <1>1, <1>2, <2>1
         DEF IInv, AtWork, InBetween, Missing, Progress, StoredLine, Holding, IdleImport, ImportRecord
    <2> QED
      BY <1>3, <2>2, <2>3 DEF IInv
  <1> QED
    BY <1>4, <1>5

LEMMA CompareKeeps ==
  ASSUME IInv, NEW i \in Importers, Compare(i)
  PROVE  IInv'
  <1> DEFINE k == importers[i].line
             next == IF Stored(i) THEN "choosing" ELSE "inserting"
             rivals == {j \in Importers \ {i} : importers[j].pc = "inserting" /\ importers[j].line = k}
  <1>1. /\ importers[i].pc = "comparing"
        /\ importers' = [importers EXCEPT ![i].pc = next]
        /\ raced' = IF Stored(i) \/ rivals = {} THEN raced ELSE raced \cup {k}
        /\ UNCHANGED <<file, source, chunk, linked, evidence, embedded, listed, run, late>>
    BY DEF Compare, ImportUnchanged, derived
  <1>2. importers \in [Importers -> ImportRecord] /\ k \in Versions
    BY <1>1 DEF IInv, ImportTypeOK, AtWork, Holding
  <1>3. raced \subseteq raced'
    BY <1>1
  <1>4. /\ importers' \in [Importers -> ImportRecord]
        /\ importers'[i].pc = next /\ importers'[i].line = k
        /\ importers'[i].version = importers[i].version /\ importers'[i].todo = importers[i].todo
        /\ \A j \in Importers \ {i} : importers'[j] = importers[j]
    BY <1>1, <1>2 DEF ImportRecord
  <1>5. ImportTypeOK'
    BY <1>1, <1>4 DEF IInv, ImportTypeOK
  <1>6. AtWork'
    BY <1>1, <1>4 DEF IInv, AtWork, Holding
  <1>7. InBetween'
    BY <1>1, <1>4 DEF IInv, InBetween
  <1>8. Missing'
    <2> SUFFICES ASSUME NEW m \in Importers, importers'[m].pc = "inserting",
                        importers'[m].line \notin raced'
                 PROVE  /\ \A v \in Versions : chunk'[<<v, importers'[m].line>>] = "absent"
                        /\ \A j \in Importers \ {m} :
                             ~(importers'[j].pc = "inserting"
                               /\ importers'[j].line = importers'[m].line)
      BY DEF Missing
    <2>1. CASE m = i
      <3>1. ~Stored(i) /\ rivals = {}
        BY <1>1, <1>4, <2>1
      <3>2. \A v \in Versions : chunk[<<v, k>>] = "absent"
        BY <3>1 DEF Stored
      <3> QED
        BY <1>1, <1>4, <2>1, <3>1, <3>2
    <2>2. CASE m # i
      <3>1. importers'[m] = importers[m] /\ importers[m].line \notin raced
        BY <1>3, <1>4, <2>2
      <3>2. ~(importers'[i].pc = "inserting" /\ k = importers[m].line)
        BY <1>1, <1>4, <2>2, <3>1
      <3> QED
        BY <1>1, <1>4, <2>2, <3>1, <3>2 DEF IInv, Missing
    <2> QED
      BY <2>1, <2>2
  <1>9. Progress'
    <2>1. Stored(i) => StoredLine(k)
      BY DEF Stored, StoredLine
    <2> QED
      BY <1>1, <1>4, <2>1 DEF IInv, Progress, StoredLine, Holding
  <1>10. NothingUnderRevoked' /\ CompletedRunStored'
    BY <1>1 DEF IInv, NothingUnderRevoked, CompletedRunStored
  <1>11. StoredOnce'
    BY <1>1, <1>3 DEF IInv, StoredOnce
  <1> QED
    BY <1>5, <1>6, <1>7, <1>8, <1>9, <1>10, <1>11 DEF IInv

LEMMA InsertKeeps ==
  ASSUME IInv, NEW i \in Importers, Insert(i)
  PROVE  IInv'
  <1> DEFINE c == <<importers[i].version, importers[i].line>>
             k == importers[i].line
  <1>1. /\ importers[i].pc = "inserting"
        /\ UNCHANGED <<file, source, linked, evidence, embedded, listed, run, late, raced>>
    BY DEF Insert, ImportUnchanged, derived
  <1>2. importers \in [Importers -> ImportRecord]
    BY DEF IInv, ImportTypeOK
  <1>3. importers[i].version \in Versions /\ k \in Versions /\ c \in Rows
    BY <1>1 DEF IInv, AtWork, Holding, Rows
  <1>4. \E next \in {"choosing", "linking"} : importers' = [importers EXCEPT ![i].pc = next]
    BY DEF Insert
  <1>5. /\ importers' \in [Importers -> ImportRecord]
        /\ importers'[i].pc \in {"choosing", "linking"} /\ importers'[i].line = k
        /\ importers'[i].version = importers[i].version /\ importers'[i].todo = importers[i].todo
        /\ \A j \in Importers \ {i} : importers'[j] = importers[j]
    BY <1>2, <1>4 DEF ImportRecord
  <1>6. /\ chunk' \in [Rows -> {"absent", "observed", "revoked"}]
        /\ chunk'[c] # "absent"
        /\ \A d \in Rows \ {c} : chunk'[d] = chunk[d]
        /\ chunk[c] # "absent" => chunk' = chunk
    BY <1>3 DEF Insert, IInv, ImportTypeOK
  <1>7. \A m \in Versions : StoredLine(m) => StoredLine(m)'
    BY <1>6 DEF StoredLine, Rows
  <1>8. ImportTypeOK'
    BY <1>1, <1>5, <1>6 DEF IInv, ImportTypeOK
  <1>9. AtWork'
    BY <1>1, <1>5 DEF IInv, AtWork, Holding
  <1>10. InBetween'
    BY <1>1, <1>5 DEF IInv, InBetween
  <1>11. Missing'
    <2> SUFFICES ASSUME NEW m \in Importers, importers'[m].pc = "inserting",
                        importers'[m].line \notin raced
                 PROVE  /\ \A v \in Versions : chunk'[<<v, importers'[m].line>>] = "absent"
                        /\ \A j \in Importers \ {m} :
                             ~(importers'[j].pc = "inserting"
                               /\ importers'[j].line = importers'[m].line)
      BY <1>1 DEF Missing
    <2>1. m # i /\ importers'[m] = importers[m]
      BY <1>5
    <2>2. importers[m].line # k /\ importers[m].line \in Versions
      BY <1>1, <2>1 DEF IInv, Missing, AtWork, Holding
    <2>3. \A v \in Versions : chunk'[<<v, importers[m].line>>] = chunk[<<v, importers[m].line>>]
      BY <1>6, <2>2 DEF Rows
    <2> QED
      BY <1>5, <2>1, <2>3 DEF IInv, Missing
  <1>12. Progress'
    <2>1. \E v \in Versions : chunk'[<<v, k>>] # "absent"
      BY <1>3, <1>6
    <2>2. \A j \in Importers : run[j].parsed \subseteq Versions
      BY DEF IInv, ImportTypeOK, RunRecord
    <2> QED
      BY <1>1, <1>5, <1>7, <2>1, <2>2 DEF IInv, Progress, Holding, StoredLine
  <1>13. NothingUnderRevoked'
    BY <1>1, <1>6 DEF IInv, NothingUnderRevoked, InBetween
  <1>14. StoredOnce'
    <2> SUFFICES ASSUME NEW m \in Versions \ raced, NEW u \in Versions, NEW v \in Versions,
                        chunk'[<<u, m>>] # "absent", chunk'[<<v, m>>] # "absent"
                 PROVE  u = v
      BY <1>1 DEF StoredOnce
    <2>1. CASE m = k
      <3>1. \A w \in Versions : chunk[<<w, k>>] = "absent"
        BY <1>1, <2>1 DEF IInv, Missing
      <3> QED
        BY <1>3, <1>6, <2>1, <3>1 DEF Rows
    <2>2. CASE m # k
      BY <1>6, <2>2 DEF IInv, StoredOnce, Rows
    <2> QED
      BY <2>1, <2>2
  <1>15. CompletedRunStored'
    <2>1. \A j \in Importers : run[j].parsed \subseteq Versions
      BY DEF IInv, ImportTypeOK, RunRecord
    <2> QED
      BY <1>1, <1>7, <2>1 DEF IInv, CompletedRunStored, StoredLine
  <1> QED
    BY <1>8, <1>9, <1>10, <1>11, <1>12, <1>13, <1>14, <1>15 DEF IInv

LEMMA LinkKeeps ==
  ASSUME IInv, NEW i \in Importers, Link(i)
  PROVE  IInv'
  <1>1. /\ importers[i].pc = "linking"
        /\ importers' = [importers EXCEPT ![i].pc = "choosing"]
        /\ linked' = linked \cup {<<importers[i].version, importers[i].line>>}
        /\ UNCHANGED <<file, source, chunk, evidence, embedded, listed, run, late, raced>>
    BY DEF Link, ImportUnchanged, derived
  <1>2. importers \in [Importers -> ImportRecord]
    BY DEF IInv, ImportTypeOK
  <1>3. <<importers[i].version, importers[i].line>> \in Rows
    BY <1>1 DEF IInv, AtWork, Holding, Rows
  <1>4. /\ importers' \in [Importers -> ImportRecord]
        /\ importers'[i].pc = "choosing" /\ importers'[i].line = importers[i].line
        /\ importers'[i].version = importers[i].version /\ importers'[i].todo = importers[i].todo
        /\ \A j \in Importers \ {i} : importers'[j] = importers[j]
    BY <1>1, <1>2 DEF ImportRecord
  <1>5. ImportTypeOK'
    BY <1>1, <1>3, <1>4 DEF IInv, ImportTypeOK
  <1>6. AtWork' /\ InBetween' /\ Missing'
    BY <1>1, <1>4 DEF IInv, AtWork, InBetween, Missing, Holding
  <1>7. Progress'
    BY <1>1, <1>4 DEF IInv, Progress, StoredLine, Holding
  <1>8. NothingUnderRevoked' /\ StoredOnce' /\ CompletedRunStored'
    BY <1>1 DEF IInv, NothingUnderRevoked, StoredOnce, CompletedRunStored
  <1> QED
    BY <1>5, <1>6, <1>7, <1>8 DEF IInv

LEMMA CompleteKeeps ==
  ASSUME IInv, NEW i \in Importers, CompleteRun(i)
  PROVE  IInv'
  <1>1. /\ importers[i].pc = "choosing" /\ importers[i].todo = {}
        /\ importers' = [importers EXCEPT ![i] = IdleImport]
        /\ run' = [run EXCEPT ![i].status = "completed"]
        /\ UNCHANGED <<file, source, chunk, linked, evidence, embedded, listed, late, raced>>
    BY DEF CompleteRun, ImportUnchanged, derived
  <1>2. importers \in [Importers -> ImportRecord] /\ run \in [Importers -> RunRecord]
    BY DEF IInv, ImportTypeOK
  <1>3. /\ importers' \in [Importers -> ImportRecord]
        /\ importers'[i].pc = "idle"
        /\ \A j \in Importers \ {i} : importers'[j] = importers[j]
    BY <1>1, <1>2, VersionAssumption DEF ImportRecord, IdleImport
  <1>4. /\ run' \in [Importers -> RunRecord]
        /\ \A j \in Importers : run'[j].parsed = run[j].parsed
        /\ \A j \in Importers \ {i} : run'[j] = run[j]
    BY <1>1, <1>2 DEF RunRecord
  <1>5. ImportTypeOK'
    BY <1>1, <1>3, <1>4 DEF IInv, ImportTypeOK
  <1>6. AtWork' /\ InBetween' /\ Missing'
    <2>1. AtWork'
      BY <1>1, <1>3, <1>4 DEF IInv, AtWork, Holding
    <2>2. InBetween' /\ Missing'
      BY <1>1, <1>3 DEF IInv, InBetween, Missing
    <2> QED
      BY <2>1, <2>2
  <1>7. Progress'
    BY <1>1, <1>3, <1>4 DEF IInv, Progress, StoredLine, Holding
  <1>8. NothingUnderRevoked' /\ StoredOnce'
    BY <1>1 DEF IInv, NothingUnderRevoked, StoredOnce
  <1>9. CompletedRunStored'
    <2>1. \A k \in run[i].parsed : StoredLine(k)
      BY <1>1 DEF IInv, Progress
    <2> QED
      BY <1>1, <1>4, <2>1 DEF IInv, CompletedRunStored, StoredLine
  <1> QED
    BY <1>5, <1>6, <1>7, <1>8, <1>9 DEF IInv

LEMMA FailKeeps ==
  ASSUME IInv, NEW i \in Importers, ImportFails(i)
  PROVE  IInv'
  <1>1. /\ importers' = [importers EXCEPT ![i] = IdleImport]
        /\ UNCHANGED <<file, source, chunk, linked, evidence, embedded, listed, run, late, raced>>
    BY DEF ImportFails, files, derived
  <1>2. /\ importers' \in [Importers -> ImportRecord]
        /\ importers'[i].pc = "idle"
        /\ \A j \in Importers \ {i} : importers'[j] = importers[j]
    BY <1>1, VersionAssumption DEF IInv, ImportTypeOK, ImportRecord, IdleImport
  <1>3. ImportTypeOK'
    BY <1>1, <1>2 DEF IInv, ImportTypeOK
  <1>4. AtWork' /\ InBetween' /\ Missing' /\ Progress'
    BY <1>1, <1>2 DEF IInv, AtWork, InBetween, Missing, Progress, StoredLine, Holding
  <1>5. NothingUnderRevoked' /\ StoredOnce' /\ CompletedRunStored'
    BY <1>1 DEF IInv, NothingUnderRevoked, StoredOnce, CompletedRunStored
  <1> QED
    BY <1>3, <1>4, <1>5 DEF IInv

LEMMA RevokeKeeps ==
  ASSUME IInv, NEW v \in Versions, RevokeSource(v)
  PROVE  IInv'
  <1>1. /\ source' = [source EXCEPT ![v] = "revoked"]
        /\ chunk' = ChunksRevoked(v)
        /\ ({"insert"} \X BeingInserted(v)) \subseteq late' /\ late \subseteq late'
        /\ UNCHANGED <<file, linked, evidence, embedded, listed, importers, run, raced>>
    BY DEF RevokeSource, CallUnchanged, derived, importing
  <1>2. /\ chunk' \in [Rows -> {"absent", "observed", "revoked"}]
        /\ \A c \in Rows : chunk'[c] = "absent" <=> chunk[c] = "absent"
        /\ \A c \in Rows : chunk'[c] = "observed" => chunk[c] = "observed" /\ c[1] # v
    BY <1>1 DEF IInv, ImportTypeOK, ChunksRevoked, RowsOf
  <1>3. ImportTypeOK'
    BY <1>1, <1>2 DEF IInv, ImportTypeOK
  <1>4. AtWork'
    BY <1>1 DEF IInv, AtWork
  <1>5. InBetween'
    <2> SUFFICES ASSUME NEW i \in Importers, importers[i].pc \in {"comparing", "inserting"},
                        source'[importers[i].version] = "revoked"
                 PROVE  <<"insert", Row(i)>> \in late'
      BY <1>1 DEF InBetween
    <2>1. CASE importers[i].version = v
      BY <1>1, <2>1 DEF BeingInserted
    <2>2. CASE importers[i].version # v
      <3>1. importers[i].version \in Versions
        BY DEF IInv, AtWork
      <3>2. source[importers[i].version] = "revoked"
        BY <1>1, <2>2, <3>1 DEF IInv, ImportTypeOK
      <3> QED
        BY <1>1, <3>2 DEF IInv, InBetween
    <2> QED
      BY <2>1, <2>2
  <1>6. Missing'
    BY <1>1, <1>2 DEF IInv, Missing, AtWork, Holding, Rows
  <1>7. Progress'
    <2>1. \A j \in Importers : run[j].parsed \subseteq Versions
      BY DEF IInv, ImportTypeOK, RunRecord
    <2> QED
      BY <1>1, <1>2, <2>1 DEF IInv, Progress, StoredLine, Holding, Rows
  <1>8. NothingUnderRevoked'
    <2> SUFFICES ASSUME NEW c \in Rows, source'[c[1]] = "revoked", chunk'[c] = "observed"
                 PROVE  <<"insert", c>> \in late'
      BY DEF NothingUnderRevoked
    <2>1. chunk[c] = "observed" /\ c[1] # v /\ c[1] \in Versions
      BY <1>2 DEF Rows
    <2>2. source[c[1]] = "revoked"
      BY <1>1, <2>1 DEF IInv, ImportTypeOK
    <2> QED
      BY <1>1, <2>1, <2>2 DEF IInv, NothingUnderRevoked
  <1>9. StoredOnce'
    BY <1>1, <1>2 DEF IInv, StoredOnce, Rows
  <1>10. CompletedRunStored'
    <2>1. \A j \in Importers : run[j].parsed \subseteq Versions
      BY DEF IInv, ImportTypeOK, RunRecord
    <2> SUFFICES ASSUME NEW i \in Importers, run[i].status = "completed", NEW k \in run[i].parsed
                 PROVE  \E u \in Versions : chunk'[<<u, k>>] # "absent"
      BY <1>1 DEF CompletedRunStored
    <2>2. PICK u \in Versions : chunk[<<u, k>>] # "absent"
      BY DEF IInv, CompletedRunStored
    <2>3. <<u, k>> \in Rows
      BY <2>1 DEF Rows
    <2> QED
      BY <1>2, <2>2, <2>3
  <1> QED
    BY <1>3, <1>4, <1>5, <1>6, <1>7, <1>8, <1>9, <1>10 DEF IInv

-----------------------------------------------------------------------------
(* The specification. *)

LEMMA NextKeeps ==
  ASSUME IInv, [Next]_vars
  PROVE  IInv'
  <1>0. /\ file \in Versions /\ linked \subseteq Rows /\ evidence \subseteq Rows
        /\ embedded \subseteq Rows /\ listed \subseteq Rows
    BY DEF IInv, ImportTypeOK
  <1>1. CASE Grow
    <2>1. file' \in Versions
      BY <1>0, <1>1, VersionAssumption DEF Grow, Versions
    <2> QED
      BY <1>0, <1>1, <2>1, AsideKeeps DEF Grow, derived, importing
  <1>2. CASE Discover
    BY <1>2, DiscoverKeeps
  <1>3. CASE ImportNext
    BY <1>3, StartKeeps, ParseKeeps, RegisterKeeps, CheckKeeps, CompareKeeps, InsertKeeps,
       LinkKeeps, CompleteKeeps, FailKeeps DEF ImportNext
  <1>4. CASE DeriveNext
    <2>1. /\ UNCHANGED <<file, source, chunk, linked, importers, run, raced, late>>
          /\ evidence' \subseteq Rows /\ embedded' \subseteq Rows /\ listed' \subseteq Rows
      BY <1>0, <1>4, FollowedAssumption
         DEF DeriveNext, DeriveEvidence, ListUnembedded, Embed, EmbeddingFails, files, importing
    <2> QED
      BY <1>0, <2>1, AsideKeeps
  <1>5. CASE RevokeNext
    <2>1. CASE \E v \in Versions : RevokeSource(v)
      BY <2>1, RevokeKeeps
    <2>2. CASE \E chunks \in SUBSET linked : \E items \in SUBSET chunks :
                 PreviewTraversal(chunks, items)
      <3>1. /\ UNCHANGED <<file, source, chunk, linked, evidence, embedded, listed, importers,
                           run, raced>>
            /\ late \subseteq late'
        BY <2>2 DEF PreviewTraversal, CallUnchanged, derived, importing
      <3> QED
        BY <1>0, <3>1, AsideKeeps
    <2>3. CASE RequestRevocation \/ EnqueueInvalidate \/ CallFails
      BY <1>0, <2>3, AsideKeeps
         DEF RequestRevocation, EnqueueInvalidate, CallFails, CallUnchanged, files, derived, importing
    <2> QED
      BY <1>5, <2>1, <2>2, <2>3 DEF RevokeNext
  <1>6. CASE InvalidateNext
    <2>1. /\ UNCHANGED <<file, source, chunk, linked, evidence, listed, importers, run, raced, late>>
          /\ embedded' \subseteq embedded
      BY <1>6 DEF InvalidateNext, Invalidate, CompleteRequest, InvalidationFails, EndRequest,
         ClaimRequest, EndJob, JobCrash, JobUnchanged, files, importing
    <2> QED
      BY <1>0, <2>1, AsideKeeps
  <1>7. CASE UNCHANGED vars
    BY <1>0, <1>7, AsideKeeps DEF vars, files, derived, importing
  <1> QED
    BY <1>1, <1>2, <1>3, <1>4, <1>5, <1>6, <1>7 DEF Next

\* The inductive invariant, from which the others follow.
THEOREM ImportInvariant == Spec => []IInv
  BY InitEstablishes, NextKeeps, PTL DEF Spec

\* The rows, imports and run records keep their shape.
THEOREM ImportTypeCorrect == Spec => []ImportTypeOK
  BY ImportInvariant, PTL DEF IInv

\* However often a file is imported, grows, is discovered, revoked and imported
\* again, no line is stored twice but by two imports that raced for it.
THEOREM LinesStoredOnce == Spec => []StoredOnce
  BY ImportInvariant, PTL DEF IInv

\* A run is recorded as completed only when all it parsed is stored.
THEOREM CompletedRunsStored == Spec => []CompletedRunStored
  BY ImportInvariant, PTL DEF IInv

\* Under a revoked source only the line that was being stored stays observed.
THEOREM RevokedShowsNothing == Spec => []NothingUnderRevoked
  BY ImportInvariant, PTL DEF IInv
=============================================================================
