-------------------------- MODULE EventSpoolProofs --------------------------
(***************************************************************************)
(* Safety of the plugin's event spool, for any number of events, days,     *)
(* captures under way and mishaps, and for any size of batch and of spool. *)
(***************************************************************************)
EXTENDS EventSpool, FiniteSetTheorems, FunctionTheorems, WellFoundedInduction, TLAPS

\* Where a process has read a file that it has not replaced yet.
Holding == {"entomb", "rewrite", "rewriting", "report", "send", "replaced", "replacing"}

PCs ==
  {"new", "append", "spooled", "threw", "idle", "list", "expire", "measure", "read"}
    \cup Holding

Sizes == {<<>>} \cup UNION {[D -> Nat] : D \in SUBSET Days}

ProcRecord ==
  [pc : PCs, todo : SUBSET Days, day : Days \cup {0}, seen : SUBSET Events,
   kept : Seq(Events), sizes : Sizes]

FileRecord == [exists : BOOLEAN, recs : Seq(Events)]

HistoryOk ==
  /\ evicted \cup raced \cup torn \subseteq spooled
  /\ mishaps \in 0..MaxMishaps

Shaped ==
  /\ today \in Days
  /\ files \in [Days -> FileRecord]
  /\ tombs \in [Events -> 0..MaxTombs]
  /\ lapsed \subseteq Raw
  /\ core \subseteq Events \ Rejected
  /\ procs \in [Procs -> ProcRecord]
  /\ spooled \subseteq Events
  /\ HistoryOk

\* An event is appended once.
NotYet == \A e \in Events : procs[e].pc \in {"new", "append"} => e \notin spooled

Distinct(s) == \A i, j \in 1..Len(s) : s[i] = s[j] => i = j

FileOk(f) ==
  /\ Range(f.recs) \subseteq spooled
  /\ Distinct(f.recs)
  /\ f.recs # <<>> => f.exists

\* What a process holds comes from one file.
HolderOk(r) ==
  /\ r.seen \subseteq spooled
  /\ Range(r.kept) \subseteq r.seen
  /\ Distinct(r.kept)
  /\ r.pc \in Holding => r.day \in Days
  /\ r.pc \notin Holding => r.seen = {} /\ r.kept = <<>>

\* What it is going to leave out is safe, from before a batch is sent.
Leaving == {"rewrite", "rewriting", "send", "replaced", "replacing"}

SafeToDrop(r) ==
  r.pc \in Leaving =>
    r.seen \ Range(r.kept) \subseteq core \cup Buried

IInv ==
  /\ Shaped
  /\ NotYet
  /\ \A d \in Days : FileOk(files[d])
  /\ \A p \in Procs : HolderOk(procs[p]) /\ SafeToDrop(procs[p])

-----------------------------------------------------------------------------
(* Sequences of records, days *)

\* Every set of natural numbers that is not empty has a least element.
LEMMA LeastNatural ==
  ASSUME NEW T, T \subseteq Nat, T # {}
  PROVE  \E x \in T : \A y \in T : x <= y
  <1> DEFINE R == OpToRel(<, Nat)
  <1>1. IsWellFoundedOn(R, Nat)
    BY NatLessThanWellFounded
  <1>2. PICK x \in T : \A y \in T : ~(<<y, x>> \in R)
    <2> HIDE DEF R
    <2> QED
      BY <1>1, WFMin
  <1>3. \A y \in T : y < x => <<y, x>> \in R
    BY DEF OpToRel
  <1>4. \A y \in T : x \in Nat /\ y \in Nat /\ ~(y < x)
    BY <1>2, <1>3
  <1> QED
    BY <1>4

\* The oldest of some files is one of them.
LEMMA FirstIsOne ==
  ASSUME NEW days \in SUBSET Days, days # {}
  PROVE  First(days) \in days
  <1>1. days \subseteq Nat
    BY BoundAssumption DEF Days
  <1>2. \E d \in days : \A c \in days : d <= c
    BY <1>1, LeastNatural
  <1> QED
    BY <1>2 DEF First

\* The records of a file, by their positions.
LEMMA RangeOf ==
  ASSUME NEW S, NEW s \in Seq(S)
  PROVE  /\ Range(s) = {s[i] : i \in 1..Len(s)}
         /\ Range(s) \subseteq S
         /\ s = <<>> => Range(s) = {}
  BY DEF Range

\* The lines that are kept: those of the set, once each.
LEMMA KeepsFacts ==
  ASSUME NEW S, NEW s \in Seq(S), NEW set
  PROVE  /\ Keeps(s, set) \in Seq(S)
         /\ Range(Keeps(s, set)) = Range(s) \cap set
         /\ Distinct(s) => Distinct(Keeps(s, set))
  <1> DEFINE kept == {i \in DOMAIN s : s[i] \in set}
             UpTo(i) == {k \in kept : k <= i}
             Place(i) == Cardinality(UpTo(i))
             n == Cardinality(kept)
             At(q) == CHOOSE i \in kept : Place(i) = q
             t == [q \in 1..n |-> s[At(q)]]
  <1>1. /\ kept \subseteq 1..Len(s) /\ Len(s) \in Nat
        /\ \A i \in kept : i \in Nat /\ s[i] \in S /\ s[i] \in Range(s) \cap set
        /\ \A x \in Range(s) \cap set : \E i \in kept : s[i] = x
    BY DEF Range
  <1>2. Keeps(s, set) = t
    BY DEF Keeps
  <1> HIDE DEF kept
  <1>3. IsFiniteSet(kept) /\ n \in Nat
    <2>1. IsFiniteSet(1..Len(s))
      BY <1>1, FS_Interval
    <2>2. IsFiniteSet(kept)
      BY <1>1, <2>1, FS_Subset
    <2> QED
      BY <2>2, FS_CardinalityType
  <1>4. \A i \in kept : IsFiniteSet(UpTo(i)) /\ Place(i) \in 1..n
    <2> SUFFICES ASSUME NEW i \in kept
                 PROVE  IsFiniteSet(UpTo(i)) /\ Place(i) \in 1..n
      OBVIOUS
    <2>1. UpTo(i) \in SUBSET kept /\ i \in UpTo(i)
      BY <1>1
    <2> HIDE DEF UpTo
    <2>2. IsFiniteSet(UpTo(i)) /\ Cardinality(UpTo(i)) <= n
      BY <1>3, <2>1, FS_Subset
    <2>3. Cardinality(UpTo(i)) \in Nat /\ Cardinality(UpTo(i)) # 0
      BY <2>1, <2>2, FS_CardinalityType, FS_EmptySet
    <2> QED
      BY <1>3, <2>2, <2>3
  <1>5. \A i, j \in kept : i < j => Place(i) < Place(j)
    <2> SUFFICES ASSUME NEW i \in kept, NEW j \in kept, i < j
                 PROVE  Cardinality(UpTo(i)) < Cardinality(UpTo(j))
      OBVIOUS
    <2>1. UpTo(i) \in SUBSET UpTo(j) /\ j \in UpTo(j) /\ j \notin UpTo(i)
      <3>1. i \in Nat /\ j \in Nat /\ \A k \in kept : k \in Nat
        BY <1>1
      <3>2. \A k \in kept : k <= i => k <= j
        BY <3>1
      <3>3. j <= j /\ ~(j <= i)
        BY <3>1
      <3> QED
        BY <3>2, <3>3
    <2> HIDE DEF UpTo
    <2>2. /\ Cardinality(UpTo(i)) <= Cardinality(UpTo(j))
          /\ Cardinality(UpTo(j)) # Cardinality(UpTo(i))
      BY <1>4, <2>1, FS_Subset
    <2>3. Cardinality(UpTo(i)) \in Nat /\ Cardinality(UpTo(j)) \in Nat
      BY <1>4
    <2> QED
      BY <2>2, <2>3
  <1> HIDE DEF Place
  <1>6. \A i, j \in kept : Place(i) = Place(j) => i = j
    <2> SUFFICES ASSUME NEW i \in kept, NEW j \in kept, i # j PROVE Place(i) # Place(j)
      OBVIOUS
    <2>1. i < j \/ j < i
      BY <1>1
    <2>2. Place(i) \in Nat /\ Place(j) \in Nat
      <3>1. Place(i) \in 1..n /\ Place(j) \in 1..n
        BY <1>4
      <3> QED
        BY <3>1
    <2> QED
      BY <1>5, <2>1, <2>2
  <1>7. \A q \in 1..n : \E i \in kept : Place(i) = q
    <2> DEFINE f == [i \in kept |-> Place(i)]
    <2>1. f \in Injection(kept, 1..n)
      BY <1>4, <1>6 DEF Injection, IsInjective
    <2>2. IsFiniteSet(1..n) /\ Cardinality(1..n) = Cardinality(kept)
      BY <1>3, FS_Interval
    <2> HIDE DEF f, n
    <2>3. f \in Surjection(kept, 1..n)
      BY <2>1, <2>2, FS_Injection
    <2> QED
      BY <2>3 DEF Surjection, f
  <1>8. \A q \in 1..n : At(q) \in kept /\ Place(At(q)) = q
    BY <1>7
  <1>9. \A i \in kept : At(Place(i)) = i
    BY <1>4, <1>6, <1>8
  <1> HIDE DEF At, n
  <1>10. t \in Seq(S) /\ Len(t) = n
    <2>1. \A q \in 1..n : s[At(q)] \in S
      BY <1>1, <1>8
    <2> QED
      BY <1>3, <2>1
  <1>11. Range(t) = Range(s) \cap set
    <2>1. \A q \in 1..n : t[q] \in Range(s) \cap set
      BY <1>1, <1>8
    <2>2. \A i \in kept : Place(i) \in 1..n /\ t[Place(i)] = s[i]
      BY <1>4, <1>9
    <2> HIDE DEF t
    <2>3. Range(t) = {t[q] : q \in 1..n}
      BY <1>10, RangeOf
    <2> QED
      BY <1>1, <2>1, <2>2, <2>3
  <1>12. Distinct(s) => Distinct(t)
    <2> SUFFICES ASSUME Distinct(s), NEW q \in 1..n, NEW r \in 1..n, t[q] = t[r]
                 PROVE  q = r
      BY <1>10 DEF Distinct
    <2>1. s[At(q)] = s[At(r)] /\ At(q) \in 1..Len(s) /\ At(r) \in 1..Len(s)
      BY <1>1, <1>8
    <2>2. At(q) = At(r)
      BY <2>1 DEF Distinct
    <2> QED
      BY <1>8, <2>2
  <1> QED
    BY <1>2, <1>10, <1>11, <1>12

\* A line that is appended.
LEMMA AppendFacts ==
  ASSUME NEW S, NEW s \in Seq(S), NEW x \in S
  PROVE  /\ Append(s, x) \in Seq(S) /\ Append(s, x) # <<>>
         /\ Range(Append(s, x)) = Range(s) \cup {x}
         /\ Distinct(s) /\ x \notin Range(s) => Distinct(Append(s, x))
  <1> DEFINE t == Append(s, x)
  <1>1. /\ t \in Seq(S) /\ Len(t) = Len(s) + 1 /\ Len(s) \in Nat
        /\ \A i \in 1..Len(s) : t[i] = s[i]
        /\ t[Len(s) + 1] = x
    OBVIOUS
  <1> HIDE DEF t
  <1>2. Range(t) = {t[i] : i \in 1..Len(t)} /\ Range(s) = {s[i] : i \in 1..Len(s)}
    BY <1>1, RangeOf
  <1>3. 1..Len(t) = (1..Len(s)) \cup {Len(s) + 1}
    BY <1>1
  <1>4. Range(t) = Range(s) \cup {x}
    BY <1>1, <1>2, <1>3
  <1>5. Distinct(s) /\ x \notin Range(s) => Distinct(t)
    BY <1>1, <1>2, <1>3 DEF Distinct
  <1>6. t # <<>>
    BY <1>1
  <1> QED
    BY <1>1, <1>4, <1>5, <1>6 DEF t

\* A batch and what remains behind it.
LEMMA BatchFacts ==
  ASSUME NEW S, NEW s \in Seq(S)
  PROVE  /\ Remaining(s) \in Seq(S)
         /\ Range(s) = Batch(s) \cup Range(Remaining(s))
         /\ Distinct(s) => Distinct(Remaining(s))
  <1> DEFINE b == BatchLength(s)
             t == Remaining(s)
  <1>1. b \in 0..Len(s) /\ Len(s) \in Nat
    BY BoundAssumption DEF BatchLength
  <1> HIDE DEF b
  <1>2. /\ t \in Seq(S) /\ Len(t) = Len(s) - b
        /\ \A i \in 1..Len(t) : t[i] = s[b + i]
    <2>1. t = SubSeq(s, b + 1, Len(s))
      BY DEF Remaining, b
    <2> HIDE DEF t
    <2> QED
      BY <1>1, <2>1
  <1> HIDE DEF t
  <1>3. Range(t) = {t[i] : i \in 1..Len(t)} /\ Range(s) = {s[i] : i \in 1..Len(s)}
    BY <1>2, RangeOf
  <1>4. Batch(s) = {s[i] : i \in 1..b}
    BY DEF Batch, b
  <1>5. /\ \A i \in 1..Len(s) : i \in 1..b \/ (i - b \in 1..Len(t) /\ b + (i - b) = i)
        /\ \A i \in 1..b : i \in 1..Len(s)
        /\ \A i \in 1..Len(t) : b + i \in 1..Len(s)
    BY <1>1, <1>2
  <1>6. Range(s) = Batch(s) \cup Range(t)
    BY <1>2, <1>3, <1>4, <1>5
  <1>7. Distinct(s) => Distinct(t)
    <2> SUFFICES ASSUME Distinct(s), NEW i \in 1..Len(t), NEW j \in 1..Len(t), t[i] = t[j]
                 PROVE  i = j
      BY DEF Distinct
    <2>1. b + i = b + j
      BY <1>2, <1>5 DEF Distinct
    <2> QED
      BY <1>1, <2>1
  <1> QED
    BY <1>2, <1>6, <1>7 DEF t

-----------------------------------------------------------------------------
(* What a step may do *)

\* What the invariant says of a process.
LEMMA ProcFacts ==
  ASSUME IInv, NEW p \in Procs
  PROVE  /\ procs \in [Procs -> ProcRecord] /\ procs[p] \in ProcRecord
         /\ HolderOk(procs[p]) /\ SafeToDrop(procs[p])
         /\ files \in [Days -> FileRecord] /\ \A d \in Days : FileOk(files[d])
         /\ spooled \subseteq Events
  BY DEF IInv, Shaped

\* Histories that stay as they were.
LEMMA HistoryStays ==
  ASSUME IInv, UNCHANGED <<history, mishaps>>
  PROVE  HistoryOk' /\ spooled' = spooled
  BY DEF IInv, Shaped, HistoryOk, history

\* What came into a process's file after it had read it was spooled.
LEMMA UnreadOk ==
  ASSUME IInv, NEW p \in Procs, procs[p].pc \in Holding
  PROVE  /\ procs[p].day \in Days /\ Unread(p) \subseteq spooled
         /\ evicted \cup raced \cup torn \cup Unread(p) \subseteq spooled
  <1>1. procs[p].day \in Days
    BY ProcFacts DEF HolderOk
  <1>2. FileOk(files[procs[p].day])
    BY <1>1, ProcFacts
  <1>3. Unread(p) \subseteq spooled
    BY <1>2 DEF Unread, FileOk
  <1> QED
    BY <1>1, <1>3 DEF IInv, Shaped, HistoryOk

\* A process that moves to r, with files, answers and tombstones that are good.
LEMMA ProcMoves ==
  ASSUME IInv, NEW p \in Procs, NEW r \in ProcRecord, procs' = [procs EXCEPT ![p] = r],
         r.pc \in {"new", "append"} => p \notin spooled,
         HolderOk(r), r.pc \in Leaving => r.seen \ Range(r.kept) \subseteq core' \cup Buried',
         UNCHANGED <<today, lapsed, spooled>>, HistoryOk',
         files' \in [Days -> FileRecord], \A d \in Days : FileOk(files'[d]),
         core \subseteq core', core' \subseteq Events \ Rejected,
         tombs' \in [Events -> 0..MaxTombs], Buried \subseteq Buried'
  PROVE  IInv'
  <1>1. /\ procs \in [Procs -> ProcRecord] /\ procs' \in [Procs -> ProcRecord]
        /\ procs'[p] = r /\ \A q \in Procs \ {p} : procs'[q] = procs[q]
    BY DEF IInv, Shaped
  <1>2. Shaped'
    BY <1>1 DEF IInv, Shaped
  <1>3. NotYet'
    <2> SUFFICES ASSUME NEW e \in Events, procs'[e].pc \in {"new", "append"}
                 PROVE  e \notin spooled
      BY DEF NotYet
    <2>1. e \in Procs
      BY DEF Procs
    <2>2. CASE e = p
      BY <1>1, <2>2
    <2>3. CASE e # p
      BY <1>1, <2>1, <2>3 DEF IInv, NotYet
    <2> QED
      BY <2>2, <2>3
  <1>4. \A d \in Days : FileOk(files[d])'
    BY DEF FileOk
  <1>5. ASSUME NEW q \in Procs
        PROVE  HolderOk(procs[q])' /\ SafeToDrop(procs[q])'
    <2>1. CASE q = p
      BY <1>1, <2>1 DEF HolderOk, SafeToDrop
    <2>2. CASE q # p
      <3>1. procs'[q] = procs[q]
        BY <1>1, <2>2
      <3>2. HolderOk(procs[q]) /\ SafeToDrop(procs[q])
        BY DEF IInv
      <3> QED
        BY <3>1, <3>2 DEF HolderOk, SafeToDrop
    <2> QED
      BY <2>1, <2>2
  <1> QED
    BY <1>2, <1>3, <1>4, <1>5 DEF IInv

\* A process that moves to r and changes nothing else.
LEMMA LocalMoves ==
  ASSUME IInv, NEW p \in Procs, NEW r \in ProcRecord, procs' = [procs EXCEPT ![p] = r],
         r.pc \in {"new", "append"} => p \notin spooled,
         HolderOk(r), SafeToDrop(r),
         UNCHANGED <<today, files, tombs, lapsed, core, history, mishaps>>
  PROVE  IInv'
  <1>1. Buried' = Buried
    BY DEF Buried
  <1>2. HistoryOk' /\ spooled' = spooled
    BY HistoryStays
  <1> QED
    BY <1>1, <1>2, ProcMoves DEF IInv, Shaped, SafeToDrop

\* A process that does the file that it holds, or another, and moves to r.
LEMMA FileMoves ==
  ASSUME IInv, NEW p \in Procs, NEW r \in ProcRecord, procs' = [procs EXCEPT ![p] = r],
         r.pc \notin {"new", "append"}, HolderOk(r), SafeToDrop(r),
         NEW d \in Days, NEW f \in FileRecord, files' = [files EXCEPT ![d] = f], FileOk(f),
         HistoryOk', UNCHANGED <<today, tombs, lapsed, core, spooled>>
  PROVE  IInv'
  <1>1. Buried' = Buried
    BY DEF Buried
  <1>2. files' \in [Days -> FileRecord] /\ \A c \in Days : FileOk(files'[c])
    <2>1. files \in [Days -> FileRecord] /\ \A c \in Days : FileOk(files[c])
      BY DEF IInv, Shaped
    <2> QED
      BY <2>1
  <1> QED
    BY <1>1, <1>2, ProcMoves DEF IInv, Shaped, SafeToDrop

\* A process that holds nothing.
LEMMA RestingOk ==
  ASSUME NEW pc \in PCs \ Holding
  PROVE  /\ Resting(pc) \in ProcRecord /\ Resting(pc).pc = pc
         /\ HolderOk(Resting(pc)) /\ SafeToDrop(Resting(pc))
  <1>1. /\ Resting(pc) \in ProcRecord /\ Resting(pc).pc = pc
        /\ Resting(pc).seen = {} /\ Resting(pc).kept = <<>>
    BY DEF Resting, ProcRecord, Sizes
  <1>2. Range(<<>>) = {} /\ Distinct(<<>>)
    BY DEF Range, Distinct
  <1> QED
    BY <1>1, <1>2 DEF HolderOk, SafeToDrop, Leaving, Holding

\* A process that holds nothing and goes on with nothing.
LEMMA EmptyHanded ==
  ASSUME IInv, NEW p \in Procs, procs[p].pc \notin Holding,
         NEW r \in ProcRecord, r.pc \notin Holding, r.seen = procs[p].seen, r.kept = procs[p].kept
  PROVE  HolderOk(r) /\ SafeToDrop(r)
  <1>1. HolderOk(procs[p])
    BY ProcFacts
  <1> QED
    BY <1>1 DEF HolderOk, SafeToDrop, Leaving, Holding

\* A process that goes on with what it holds.
LEMMA SameHands ==
  ASSUME IInv, NEW p \in Procs, NEW r \in ProcRecord,
         r.seen = procs[p].seen, r.kept = procs[p].kept, r.day = procs[p].day,
         procs[p].pc \in Holding /\ r.pc \in Holding,
         r.pc \in Leaving => procs[p].pc \in Leaving
  PROVE  HolderOk(r) /\ SafeToDrop(r)
  <1>1. HolderOk(procs[p]) /\ SafeToDrop(procs[p])
    BY ProcFacts
  <1> QED
    BY <1>1 DEF HolderOk, SafeToDrop

-----------------------------------------------------------------------------
(* The captures, and where a compaction holds nothing *)

\* An event that was forwarded starts a replay.
LEMMA ForwardOkKeeps ==
  ASSUME IInv, ForwardOk
  PROVE  IInv'
  <1> DEFINE r == [procs[Replay] EXCEPT !.pc = "list"]
  <1>1. /\ procs[Replay].pc = "idle"
        /\ procs' = [procs EXCEPT ![Replay].pc = "list"]
        /\ UNCHANGED <<today, files, tombs, lapsed, core, history, mishaps>>
    BY DEF ForwardOk
  <1>2. Replay \in Procs /\ procs[Replay] \in ProcRecord
    BY ProcFacts DEF Procs
  <1>3. procs' = [procs EXCEPT ![Replay] = r]
    BY <1>1, <1>2
  <1>4. /\ r \in ProcRecord /\ r.pc \in {"list"}
        /\ r.seen = procs[Replay].seen /\ r.kept = procs[Replay].kept
    BY <1>1, <1>2 DEF ProcRecord, PCs, Holding
  <1> HIDE DEF r
  <1> QED
    BY <1>1, <1>2, <1>3, <1>4, EmptyHanded, LocalMoves DEF Holding

\* The files are listed.
LEMMA ListToExpireKeeps ==
  ASSUME IInv, NEW p \in Procs, ListToExpire(p)
  PROVE  IInv'
  <1> DEFINE r == [procs[p] EXCEPT !.pc = "expire", !.todo = Existing]
  <1>1. /\ procs[p].pc = "list"
        /\ procs' = [procs EXCEPT ![p].pc = "expire", ![p].todo = Existing]
        /\ UNCHANGED <<today, files, tombs, lapsed, core, history, mishaps>>
    BY DEF ListToExpire
  <1>2. p \in Procs /\ procs[p] \in ProcRecord
    BY ProcFacts DEF Procs
  <1>5. Existing \in SUBSET Days
    BY DEF Existing
  <1>3. procs' = [procs EXCEPT ![p] = r]
    BY <1>1, <1>2
  <1>4. /\ r \in ProcRecord /\ r.pc \in {"expire"}
        /\ r.seen = procs[p].seen /\ r.kept = procs[p].kept
    BY <1>1, <1>2, <1>5 DEF ProcRecord, PCs, Holding
  <1> HIDE DEF r
  <1> QED
    BY <1>1, <1>2, <1>3, <1>4, EmptyHanded, LocalMoves DEF Holding

\* The files are listed again.
LEMMA ListToMeasureKeeps ==
  ASSUME IInv, NEW p \in Procs, ListToMeasure(p)
  PROVE  IInv'
  <1> DEFINE r == [procs[p] EXCEPT !.pc = "measure", !.todo = Existing]
  <1>1. /\ procs[p].pc = "expire"
        /\ procs' = [procs EXCEPT ![p].pc = "measure", ![p].todo = Existing]
        /\ UNCHANGED <<today, files, tombs, lapsed, core, history, mishaps>>
    BY DEF ListToMeasure
  <1>2. p \in Procs /\ procs[p] \in ProcRecord
    BY ProcFacts DEF Procs
  <1>5. Existing \in SUBSET Days
    BY DEF Existing
  <1>3. procs' = [procs EXCEPT ![p] = r]
    BY <1>1, <1>2
  <1>4. /\ r \in ProcRecord /\ r.pc \in {"measure"}
        /\ r.seen = procs[p].seen /\ r.kept = procs[p].kept
    BY <1>1, <1>2, <1>5 DEF ProcRecord, PCs, Holding
  <1> HIDE DEF r
  <1> QED
    BY <1>1, <1>2, <1>3, <1>4, EmptyHanded, LocalMoves DEF Holding

\* An event that is not forwarded, stored or not, is not in the spool yet.
LEMMA ForwardFailsKeeps ==
  ASSUME IInv, NEW e \in Events, ForwardFails(e)
  PROVE  IInv'
  <1> DEFINE r == [procs[e] EXCEPT !.pc = "append"]
  <1>1. /\ procs[e].pc = "new" /\ core' \in {core, core \cup ({e} \ Rejected)}
        /\ procs' = [procs EXCEPT ![e].pc = "append"]
        /\ UNCHANGED <<today, files, tombs, lapsed, history, mishaps>>
    BY DEF ForwardFails
  <1>2. e \in Procs /\ procs[e] \in ProcRecord
    BY ProcFacts DEF Procs
  <1>3. procs' = [procs EXCEPT ![e] = r]
    BY <1>1, <1>2
  <1>4. /\ r \in ProcRecord /\ r.pc = "append"
        /\ r.seen = procs[e].seen /\ r.kept = procs[e].kept
    BY <1>2 DEF ProcRecord, PCs
  <1>5. e \notin spooled
    BY <1>1 DEF IInv, NotYet
  <1> HIDE DEF r
  <1>6. HolderOk(r)
    BY <1>1, <1>2, <1>4, EmptyHanded DEF Holding
  <1>7. Buried' = Buried /\ core \subseteq core' /\ core' \subseteq Events \ Rejected
    BY <1>1 DEF Buried, IInv, Shaped
  <1> QED
    BY <1>1, <1>2, <1>3, <1>4, <1>5, <1>6, <1>7, HistoryStays, ProcMoves DEF IInv, Shaped, Leaving

\* A record is appended once, to the file of the day.
LEMMA AppendSpoolKeeps ==
  ASSUME IInv, NEW e \in Events, AppendSpool(e)
  PROVE  IInv'
  <1> DEFINE r == [procs[e] EXCEPT !.pc = "list"]
             f == [exists |-> TRUE, recs |-> Append(files[today].recs, e)]
  <1>1. /\ procs[e].pc = "append" /\ files' = [files EXCEPT ![today] = f]
        /\ spooled' = spooled \cup {e} /\ procs' = [procs EXCEPT ![e] = r]
        /\ UNCHANGED <<today, tombs, lapsed, core, evicted, raced, torn, mishaps>>
    BY DEF AppendSpool
  <1>2. /\ e \in Procs /\ procs[e] \in ProcRecord /\ HolderOk(procs[e])
        /\ today \in Days /\ files[today] \in FileRecord /\ FileOk(files[today])
    BY ProcFacts DEF Procs, IInv, Shaped
  <1>3. e \notin spooled
    BY <1>1 DEF IInv, NotYet
  <1>4. /\ r \in ProcRecord /\ r.pc = "list" /\ r.seen = {} /\ r.kept = <<>>
    BY <1>1, <1>2 DEF ProcRecord, PCs, HolderOk, Holding
  <1>5. f \in FileRecord /\ f.exists /\ f.recs = Append(files[today].recs, e)
    BY <1>2 DEF FileRecord
  <1>6. /\ Range(f.recs) = Range(files[today].recs) \cup {e}
        /\ Distinct(f.recs)
    BY <1>2, <1>3, <1>5, AppendFacts DEF FileOk, FileRecord
  <1> HIDE DEF r, f
  <1>7. /\ procs \in [Procs -> ProcRecord] /\ files \in [Days -> FileRecord]
        /\ procs'[e] = r /\ \A q \in Procs \ {e} : procs'[q] = procs[q]
        /\ files'[today] = f /\ \A d \in Days \ {today} : files'[d] = files[d]
    BY <1>1, <1>2, ProcFacts
  <1>8. Shaped'
    BY <1>1, <1>2, <1>4, <1>5 DEF IInv, Shaped, HistoryOk
  <1>9. NotYet'
    <2> SUFFICES ASSUME NEW x \in Events, procs'[x].pc \in {"new", "append"}
                 PROVE  x \notin spooled'
      BY DEF NotYet
    <2>1. x # e /\ x \in Procs
      BY <1>4, <1>7 DEF Procs
    <2> QED
      BY <1>1, <1>7, <2>1 DEF IInv, NotYet
  <1>10. ASSUME NEW d \in Days PROVE FileOk(files[d])'
    <2>1. CASE d = today
      BY <1>1, <1>2, <1>5, <1>6, <1>7, <2>1 DEF FileOk
    <2>2. CASE d # today
      <3>1. files'[d] = files[d] /\ FileOk(files[d])
        BY <1>7, <2>2 DEF IInv
      <3> QED
        BY <1>1, <3>1 DEF FileOk
    <2> QED
      BY <2>1, <2>2
  <1>11. ASSUME NEW q \in Procs PROVE HolderOk(procs[q])' /\ SafeToDrop(procs[q])'
    <2>1. CASE q = e
      <3>1. Range(<<>>) = {} /\ Distinct(<<>>)
        BY DEF Range, Distinct
      <3> QED
        BY <1>4, <1>7, <2>1, <3>1 DEF HolderOk, SafeToDrop, Leaving, Holding
    <2>2. CASE q # e
      <3>1. procs'[q] = procs[q] /\ HolderOk(procs[q]) /\ SafeToDrop(procs[q])
        BY <1>7, <2>2 DEF IInv
      <3>2. Buried' = Buried
        BY <1>1 DEF Buried
      <3> QED
        BY <1>1, <3>1, <3>2 DEF HolderOk, SafeToDrop
    <2> QED
      BY <2>1, <2>2
  <1> QED
    BY <1>8, <1>9, <1>10, <1>11 DEF IInv

-----------------------------------------------------------------------------
(* Compaction and replay *)

\* A process whose place is not that of an event to come.
LEMMA NotToCome ==
  ASSUME NEW pc \in (PCs \ {"new", "append"})
  PROVE  pc \in PCs /\ pc \notin {"new", "append"}
  OBVIOUS

\* What is tombstoned stays so, and so does what was before.
LEMMA EntombedFacts ==
  ASSUME Shaped, NEW set \in SUBSET Events, tombs' = Entombed(set)
  PROVE  /\ tombs' \in [Events -> 0..MaxTombs]
         /\ Buried \subseteq Buried' /\ set \subseteq Buried'
  <1>1. \A e \in Events : tombs[e] \in 0..MaxTombs
    BY DEF Shaped
  <1>2. \A e \in Events :
          /\ tombs'[e] \in 0..MaxTombs
          /\ tombs[e] > 0 \/ e \in set => tombs'[e] > 0
    <2> SUFFICES ASSUME NEW e \in Events
                 PROVE  /\ tombs'[e] \in 0..MaxTombs
                        /\ tombs[e] > 0 \/ e \in set => tombs'[e] > 0
      OBVIOUS
    <2>1. tombs'[e] = IF e \in set /\ tombs[e] < MaxTombs THEN tombs[e] + 1 ELSE tombs[e]
      BY DEF Entombed
    <2>2. tombs[e] \in 0..MaxTombs /\ MaxTombs \in Nat \ {0}
      BY <1>1, BoundAssumption
    <2> QED
      BY <2>1, <2>2
  <1>3. tombs' \in [Events -> 0..MaxTombs]
    BY <1>2 DEF Entombed
  <1> QED
    BY <1>2, <1>3 DEF Buried

\* A file that is gone, or has been truncated.
LEMMA EmptyFileOk ==
  /\ NoFile \in FileRecord /\ FileOk(NoFile)
  /\ [exists |-> TRUE, recs |-> <<>>] \in FileRecord /\ FileOk([exists |-> TRUE, recs |-> <<>>])
  <1>1. Range(<<>>) = {} /\ Distinct(<<>>)
    BY DEF Range, Distinct
  <1>2. /\ NoFile \in FileRecord /\ [exists |-> TRUE, recs |-> <<>>] \in FileRecord
        /\ NoFile.recs = <<>>
    BY DEF NoFile, FileRecord
  <1> QED
    BY <1>1, <1>2 DEF FileOk

\* A process that has replaced its file holds nothing.
LEMMA AfterRewriteOk ==
  ASSUME IInv, NEW p \in Procs, NEW pc
  PROVE  /\ AfterRewrite(p, pc) \in ProcRecord
         /\ AfterRewrite(p, pc).pc \in {"expire", "read"}
         /\ HolderOk(AfterRewrite(p, pc)) /\ SafeToDrop(AfterRewrite(p, pc))
  <1> DEFINE r == AfterRewrite(p, pc)
  <1>1. /\ r \in ProcRecord /\ r.pc \in {"expire", "read"}
        /\ r.seen = {} /\ r.kept = <<>>
    <2>1. procs[p] \in ProcRecord
      BY ProcFacts
    <2> DEFINE next == IF pc = "rewrite" THEN "expire" ELSE "read"
    <2>2. next \in {"expire", "read"} /\ next \in PCs
      BY DEF PCs
    <2>3. r = [procs[p] EXCEPT !.pc = next, !.seen = {}, !.kept = <<>>, !.day = 0]
      BY DEF AfterRewrite
    <2>4. <<>> \in Seq(Events) /\ 0 \in Days \cup {0} /\ {} \in SUBSET Events
      OBVIOUS
    <2> HIDE DEF next, r
    <2>5. /\ r \in ProcRecord /\ r.pc = next
          /\ r.seen = {} /\ r.kept = <<>>
      BY <2>1, <2>2, <2>3, <2>4 DEF ProcRecord
    <2> QED
      BY <2>2, <2>5
  <1>2. Range(<<>>) = {} /\ Distinct(<<>>)
    BY DEF Range, Distinct
  <1> HIDE DEF r
  <1>3. HolderOk(r) /\ SafeToDrop(r)
    BY <1>1, <1>2 DEF HolderOk, SafeToDrop, Leaving, Holding
  <1> QED
    BY <1>1, <1>3 DEF r

\* The oldest file left is read, and what has lapsed is to go.
LEMMA ReadToExpireKeeps ==
  ASSUME IInv, NEW p \in Procs, ReadToExpire(p)
  PROVE  IInv'
  <1> DEFINE d == First(procs[p].todo)
             recs == files[d].recs
             gone == Range(recs) \cap lapsed
             pass == [procs[p] EXCEPT !.todo = @ \ {d}]
             hold == [procs[p] EXCEPT !.pc = "entomb", !.day = d, !.todo = @ \ {d},
                                      !.seen = Range(recs), !.kept = Keeps(recs, Events \ gone)]
  <1>1. /\ procs[p].pc = "expire" /\ procs[p].todo # {}
        /\ gone = {} => procs' = [procs EXCEPT ![p].todo = @ \ {d}]
        /\ gone # {} => procs' = [procs EXCEPT ![p] = hold]
        /\ UNCHANGED <<today, files, tombs, lapsed, core, history, mishaps>>
    BY DEF ReadToExpire
  <1>2. procs[p] \in ProcRecord /\ procs \in [Procs -> ProcRecord]
    BY ProcFacts
  <1>3. procs[p].todo \in SUBSET Days
    BY <1>2 DEF ProcRecord
  <1>4. d \in Days
    BY <1>1, <1>3, FirstIsOne
  <1> HIDE DEF d
  <1>5. files[d] \in FileRecord /\ FileOk(files[d]) /\ spooled \subseteq Events
    BY <1>4, ProcFacts
  <1>6. recs \in Seq(Events) /\ Range(recs) \subseteq spooled /\ Distinct(recs)
    BY <1>5 DEF FileOk, FileRecord
  <1> HIDE DEF recs
  <1>7. CASE gone = {}
    <2>1. procs' = [procs EXCEPT ![p] = pass]
      BY <1>1, <1>2, <1>7
    <2>2. /\ pass \in ProcRecord /\ pass.pc = "expire"
          /\ pass.seen = procs[p].seen /\ pass.kept = procs[p].kept
      BY <1>1, <1>2 DEF ProcRecord
    <2> HIDE DEF pass
    <2> QED
      BY <1>1, <2>1, <2>2, EmptyHanded, LocalMoves DEF Holding
  <1>8. CASE gone # {}
    <2>1. /\ Keeps(recs, Events \ gone) \in Seq(Events)
          /\ Range(Keeps(recs, Events \ gone)) \subseteq Range(recs)
          /\ Distinct(Keeps(recs, Events \ gone))
      BY <1>6, KeepsFacts
    <2>2. /\ hold \in ProcRecord /\ hold.pc = "entomb" /\ hold.day = d
          /\ hold.seen = Range(recs) /\ hold.kept = Keeps(recs, Events \ gone)
      BY <1>2, <1>4, <1>5, <1>6, <2>1 DEF ProcRecord, PCs, Holding
    <2>3. procs' = [procs EXCEPT ![p] = hold]
      BY <1>1, <1>8
    <2> HIDE DEF hold
    <2>4. HolderOk(hold) /\ SafeToDrop(hold)
      BY <1>4, <1>6, <2>1, <2>2 DEF HolderOk, SafeToDrop, Leaving, Holding
    <2> QED
      BY <1>1, <2>2, <2>3, <2>4, LocalMoves
  <1> QED
    BY <1>7, <1>8

\* What has lapsed is tombstoned before the file is rewritten.
LEMMA EntombExpiredKeeps ==
  ASSUME IInv, NEW p \in Procs, EntombExpired(p)
  PROVE  IInv'
  <1> DEFINE r == [procs[p] EXCEPT !.pc = "rewrite"]
  <1>1. /\ procs[p].pc = "entomb" /\ tombs' = Entombed(Dropped(p))
        /\ procs' = [procs EXCEPT ![p].pc = "rewrite"]
        /\ UNCHANGED <<today, files, lapsed, core, history, mishaps>>
    BY DEF EntombExpired
  <1>2. p \in Procs /\ procs[p] \in ProcRecord /\ HolderOk(procs[p])
    BY ProcFacts DEF Procs
  <1>3. procs' = [procs EXCEPT ![p] = r]
    BY <1>1, <1>2
  <1>4. /\ r \in ProcRecord /\ r.pc \in {"rewrite"} /\ r.day = procs[p].day
        /\ r.seen = procs[p].seen /\ r.kept = procs[p].kept
    BY <1>2 DEF ProcRecord, PCs, Holding
  <1> HIDE DEF r
  <1>5. HolderOk(r)
    BY <1>1, <1>2, <1>4 DEF HolderOk, Holding
  <1>6. Dropped(p) \in SUBSET Events
    BY <1>2 DEF Dropped, ProcRecord
  <1>7. /\ tombs' \in [Events -> 0..MaxTombs]
        /\ Buried \subseteq Buried' /\ Dropped(p) \subseteq Buried'
    BY <1>1, <1>6, EntombedFacts DEF IInv
  <1>8. r.seen \ Range(r.kept) \subseteq Buried'
    BY <1>4, <1>7 DEF Dropped
  <1> QED
    BY <1>1, <1>2, <1>3, <1>4, <1>5, <1>7, <1>8, HistoryStays, ProcMoves DEF IInv, Shaped

\* What cannot be decoded is tombstoned before a batch is sent.
LEMMA EntombInvalidKeeps ==
  ASSUME IInv, EntombInvalid
  PROVE  IInv'
  <1> DEFINE next == IF procs[Replay].kept = <<>> THEN "replaced" ELSE "send"
             r == [procs[Replay] EXCEPT !.pc = next]
  <1>1. /\ procs[Replay].pc = "report" /\ tombs' = Entombed(Dropped(Replay))
        /\ procs' = [procs EXCEPT ![Replay].pc = next]
        /\ UNCHANGED <<today, files, lapsed, core, history, mishaps>>
    BY DEF EntombInvalid
  <1>2. Replay \in Procs /\ procs[Replay] \in ProcRecord /\ HolderOk(procs[Replay])
    BY ProcFacts DEF Procs
  <1>3. procs' = [procs EXCEPT ![Replay] = r]
    BY <1>1, <1>2
  <1>4. /\ r \in ProcRecord /\ r.pc \in {"replaced", "send"} /\ r.day = procs[Replay].day
        /\ r.seen = procs[Replay].seen /\ r.kept = procs[Replay].kept
    BY <1>2 DEF ProcRecord, PCs, Holding
  <1> HIDE DEF r
  <1>5. HolderOk(r)
    BY <1>1, <1>2, <1>4 DEF HolderOk, Holding
  <1>6. Dropped(Replay) \in SUBSET Events
    BY <1>2 DEF Dropped, ProcRecord
  <1>7. /\ tombs' \in [Events -> 0..MaxTombs]
        /\ Buried \subseteq Buried' /\ Dropped(Replay) \subseteq Buried'
    BY <1>1, <1>6, EntombedFacts DEF IInv
  <1>8. r.seen \ Range(r.kept) \subseteq Buried'
    BY <1>4, <1>7 DEF Dropped
  <1> QED
    BY <1>1, <1>2, <1>3, <1>4, <1>5, <1>7, <1>8, HistoryStays, ProcMoves DEF IInv, Shaped

\* A file of which nothing is kept is removed.
LEMMA RemoveFileKeeps ==
  ASSUME IInv, NEW p \in Procs, RemoveFile(p)
  PROVE  IInv'
  <1> DEFINE d == procs[p].day
             f == NoFile
             r == AfterRewrite(p, procs[p].pc)
  <1>1. /\ procs[p].pc \in {"rewrite", "replaced"} /\ procs[p].kept = <<>>
        /\ files' = [files EXCEPT ![d] = f]
        /\ raced' = raced \cup Unread(p)
        /\ UNCHANGED <<today, tombs, lapsed, core, spooled, evicted, torn, mishaps>>
    BY DEF RemoveFile
  <1>2. procs[p] \in ProcRecord /\ HolderOk(procs[p])
    BY ProcFacts
  <1>3. d \in Days
    BY <1>1, <1>2 DEF HolderOk, Holding
  <1>4. procs' = [procs EXCEPT ![p] = r]
    BY <1>1, <1>2 DEF RemoveFile
  <1>5. f \in FileRecord /\ FileOk(f)
    BY EmptyFileOk
  <1>6. r \in ProcRecord /\ r.pc \notin {"new", "append"} /\ HolderOk(r) /\ SafeToDrop(r)
    BY AfterRewriteOk
  <1>7. HistoryOk'
    BY <1>1, UnreadOk DEF HistoryOk, IInv, Shaped, Holding
  <1> HIDE DEF d, f, r
  <1> QED
    BY <1>1, <1>2, <1>3, <1>4, <1>5, <1>6, <1>7, FileMoves

\* A file is truncated before it is written.
LEMMA TruncateFileKeeps ==
  ASSUME IInv, NEW p \in Procs, TruncateFile(p)
  PROVE  IInv'
  <1> DEFINE d == procs[p].day
             f == [exists |-> TRUE, recs |-> <<>>]
             next == IF procs[p].pc = "rewrite" THEN "rewriting" ELSE "replacing"
             r == [procs[p] EXCEPT !.pc = next]
  <1>1. /\ procs[p].pc \in {"rewrite", "replaced"}
        /\ files' = [files EXCEPT ![d] = f]
        /\ raced' = raced \cup Unread(p)
        /\ UNCHANGED <<today, tombs, lapsed, core, spooled, evicted, torn, mishaps>>
    BY DEF TruncateFile
  <1>2. procs[p] \in ProcRecord /\ HolderOk(procs[p])
    BY ProcFacts
  <1>3. d \in Days
    BY <1>1, <1>2 DEF HolderOk, Holding
  <1>4. procs' = [procs EXCEPT ![p] = r]
    BY <1>1, <1>2 DEF TruncateFile
  <1>5. f \in FileRecord /\ FileOk(f)
    BY EmptyFileOk
  <1>6. r \in ProcRecord /\ r.pc \notin {"new", "append"} /\ HolderOk(r) /\ SafeToDrop(r)
    <2>1. /\ r \in ProcRecord /\ r.pc \in {"rewriting", "replacing"} /\ r.day = procs[p].day
          /\ r.seen = procs[p].seen /\ r.kept = procs[p].kept
      BY <1>2 DEF ProcRecord, PCs, Holding
    <2> HIDE DEF r
    <2> QED
      BY <1>1, <2>1, SameHands DEF Holding, Leaving
  <1>7. HistoryOk'
    BY <1>1, UnreadOk DEF HistoryOk, IInv, Shaped, Holding
  <1> HIDE DEF d, f, r
  <1> QED
    BY <1>1, <1>2, <1>3, <1>4, <1>5, <1>6, <1>7, FileMoves

\* The lines that are kept are written, once each.
LEMMA WriteFileKeeps ==
  ASSUME IInv, NEW p \in Procs, WriteFile(p)
  PROVE  IInv'
  <1> DEFINE d == procs[p].day
             f == [exists |-> TRUE, recs |-> procs[p].kept]
             r == AfterRewrite(p, IF procs[p].pc = "rewriting" THEN "rewrite" ELSE "replaced")
  <1>1. /\ procs[p].pc \in {"rewriting", "replacing"}
        /\ files' = [files EXCEPT ![d] = f]
        /\ raced' = raced \cup Unread(p)
        /\ UNCHANGED <<today, tombs, lapsed, core, spooled, evicted, torn, mishaps>>
    BY DEF WriteFile
  <1>2. procs[p] \in ProcRecord /\ HolderOk(procs[p])
    BY ProcFacts
  <1>3. d \in Days
    BY <1>1, <1>2 DEF HolderOk, Holding
  <1>4. procs' = [procs EXCEPT ![p] = r]
    BY <1>1, <1>2 DEF WriteFile
  <1>5. f \in FileRecord /\ FileOk(f)
    BY <1>2 DEF FileRecord, FileOk, HolderOk, ProcRecord
  <1>6. r \in ProcRecord /\ r.pc \notin {"new", "append"} /\ HolderOk(r) /\ SafeToDrop(r)
    BY AfterRewriteOk
  <1>7. HistoryOk'
    BY <1>1, UnreadOk DEF HistoryOk, IInv, Shaped, Holding
  <1> HIDE DEF d, f, r
  <1> QED
    BY <1>1, <1>2, <1>3, <1>4, <1>5, <1>6, <1>7, FileMoves

\* Where a process is when it gives up.
LEMMA OutcomeOk ==
  ASSUME NEW p \in Procs
  PROVE  /\ Outcome(p) \in ProcRecord /\ Outcome(p).pc \in {"idle", "threw"}
         /\ HolderOk(Outcome(p)) /\ SafeToDrop(Outcome(p))
  <1> DEFINE rest == IF p = Replay THEN "idle" ELSE "threw"
  <1>1. rest \in PCs \ Holding /\ rest \in {"idle", "threw"}
    BY DEF PCs, Holding
  <1>2. Outcome(p) = Resting(rest)
    BY DEF Outcome
  <1> HIDE DEF rest
  <1> QED
    BY <1>1, <1>2, RestingOk

\* The next listed file is measured; when it is gone the process gives up.
LEMMA MeasureKeeps ==
  ASSUME IInv, NEW p \in Procs, Measure(p)
  PROVE  IInv'
  <1> DEFINE known == DOMAIN procs[p].sizes
             d == First(procs[p].todo \ known)
             sizes == [c \in known \cup {d} |->
                         IF c = d THEN Len(files[d].recs) ELSE procs[p].sizes[c]]
             r == [procs[p] EXCEPT !.sizes = sizes]
  <1>1. /\ procs[p].pc = "measure" /\ ~(procs[p].todo \subseteq known)
        /\ d \in Existing => procs' = [procs EXCEPT ![p] = r]
        /\ d \notin Existing => procs' = [procs EXCEPT ![p] = Outcome(p)]
        /\ UNCHANGED <<today, files, tombs, lapsed, core, history, mishaps>>
    BY DEF Measure
  <1>2. procs[p] \in ProcRecord /\ files \in [Days -> FileRecord]
    BY ProcFacts
  <1>3. CASE d \in Existing
    <2>1. d \in Days /\ Len(files[d].recs) \in Nat
      BY <1>2, <1>3 DEF Existing, FileRecord
    <2>2. procs[p].sizes \in Sizes
      BY <1>2 DEF ProcRecord
    <2>3. known \subseteq Days /\ procs[p].sizes \in [known -> Nat]
      <3>1. CASE procs[p].sizes = <<>>
        BY <3>1
      <3>2. CASE procs[p].sizes # <<>>
        <4>1. PICK D \in SUBSET Days : procs[p].sizes \in [D -> Nat]
          BY <2>2, <3>2 DEF Sizes
        <4> QED
          BY <4>1
      <3> QED
        BY <3>1, <3>2
    <2> HIDE DEF known, d
    <2>4. sizes \in [known \cup {d} -> Nat]
      BY <2>1, <2>3
    <2>5. sizes \in Sizes
      BY <2>1, <2>3, <2>4 DEF Sizes
    <2> HIDE DEF sizes
    <2>6. /\ r \in ProcRecord /\ r.pc = "measure"
          /\ r.seen = procs[p].seen /\ r.kept = procs[p].kept
      BY <1>1, <1>2, <2>5 DEF ProcRecord
    <2>7. procs' = [procs EXCEPT ![p] = r]
      BY <1>1, <1>3
    <2> HIDE DEF r
    <2> QED
      BY <1>1, <2>6, <2>7, EmptyHanded, LocalMoves DEF Holding
  <1>4. CASE d \notin Existing
    <2>1. procs' = [procs EXCEPT ![p] = Outcome(p)]
      BY <1>1, <1>4
    <2> QED
      BY <1>1, <2>1, OutcomeOk, LocalMoves
  <1> QED
    BY <1>3, <1>4

\* The oldest of the measured files is removed.
LEMMA EvictOldestKeeps ==
  ASSUME IInv, NEW p \in Procs, EvictOldest(p)
  PROVE  IInv'
  <1> DEFINE d == First(procs[p].todo)
             r == [procs[p] EXCEPT !.todo = @ \ {d}]
  <1>1. /\ procs[p].pc = "measure" /\ procs[p].todo # {}
        /\ evicted' = evicted \cup Range(files[d].recs)
        /\ files' = [files EXCEPT ![d] = NoFile]
        /\ procs' = [procs EXCEPT ![p].todo = @ \ {d}]
        /\ UNCHANGED <<today, tombs, lapsed, core, spooled, raced, torn, mishaps>>
    BY DEF EvictOldest, Measured
  <1>2. procs[p] \in ProcRecord /\ procs \in [Procs -> ProcRecord]
    BY ProcFacts
  <1>3. d \in Days
    <2>1. procs[p].todo \in SUBSET Days
      BY <1>2 DEF ProcRecord
    <2> QED
      BY <1>1, <2>1, FirstIsOne
  <1> HIDE DEF d
  <1>4. HistoryOk'
    <2>1. FileOk(files[d]) /\ HistoryOk
      BY <1>3 DEF IInv, Shaped
    <2> QED
      BY <1>1, <2>1 DEF FileOk, HistoryOk
  <1>5. procs' = [procs EXCEPT ![p] = r]
    BY <1>1, <1>2
  <1>6. /\ r \in ProcRecord /\ r.pc = "measure"
        /\ r.seen = procs[p].seen /\ r.kept = procs[p].kept
    BY <1>1, <1>2 DEF ProcRecord
  <1> HIDE DEF r
  <1>7. HolderOk(r) /\ SafeToDrop(r)
    BY <1>1, <1>6, EmptyHanded DEF Holding
  <1>8. NoFile \in FileRecord /\ FileOk(NoFile)
    BY EmptyFileOk
  <1> QED
    BY <1>1, <1>3, <1>4, <1>5, <1>6, <1>7, <1>8, FileMoves

\* A capture is done, a replay lists the files.
LEMMA CompactionEndsKeeps ==
  ASSUME IInv, NEW p \in Procs, CompactionEnds(p)
  PROVE  IInv'
  <1> DEFINE r == [Resting("read") EXCEPT !.todo = Existing]
  <1>1. /\ procs' = [procs EXCEPT ![p] = IF p = Replay THEN r ELSE Resting("spooled")]
        /\ UNCHANGED <<today, files, tombs, lapsed, core, history, mishaps>>
    BY DEF CompactionEnds, AfterCompaction
  <1>2. "read" \in PCs \ Holding /\ "spooled" \in PCs \ Holding
    BY DEF PCs, Holding
  <1>3. CASE p = Replay
    <2>1. Existing \in SUBSET Days
      BY DEF Existing
    <2>2. /\ r \in ProcRecord /\ r.pc = "read" /\ r.seen = {} /\ r.kept = <<>>
      <3>1. Resting("read") \in ProcRecord
        BY <1>2, RestingOk
      <3>2. /\ Resting("read").pc = "read" /\ Resting("read").seen = {}
            /\ Resting("read").kept = <<>>
        BY DEF Resting
      <3> QED
        BY <2>1, <3>1, <3>2 DEF ProcRecord
    <2>3. procs' = [procs EXCEPT ![p] = r]
      BY <1>1, <1>3
    <2> HIDE DEF r
    <2>4. Range(<<>>) = {} /\ Distinct(<<>>)
      BY DEF Range, Distinct
    <2>5. HolderOk(r) /\ SafeToDrop(r)
      BY <2>2, <2>4 DEF HolderOk, SafeToDrop, Leaving, Holding
    <2> QED
      BY <1>1, <2>2, <2>3, <2>5, LocalMoves
  <1>4. CASE p # Replay
    <2>1. procs' = [procs EXCEPT ![p] = Resting("spooled")]
      BY <1>1, <1>4
    <2> QED
      BY <1>1, <1>2, <2>1, RestingOk, LocalMoves
  <1> QED
    BY <1>3, <1>4

\* A file is read for its batches: nothing is dropped that is not reported.
LEMMA ReadFileKeeps ==
  ASSUME IInv, ReadFile
  PROVE  IInv'
  <1> DEFINE me == procs[Replay]
             d == First(me.todo)
             recs == files[d].recs
             good == {e \in Range(recs) : Decodable(e)}
             bad == Range(recs) \ good
             next == IF bad # {} THEN "report" ELSE IF good = {} THEN "replaced" ELSE "send"
             r == [me EXCEPT !.pc = next, !.day = d, !.todo = @ \ {d}, !.seen = good \cup bad,
                             !.kept = Keeps(recs, good)]
  <1>1. /\ me.pc = "read" /\ me.todo # {}
        /\ ~files[d].exists => procs' = [procs EXCEPT ![Replay] = Resting("idle")]
        /\ files[d].exists => procs' = [procs EXCEPT ![Replay] = r]
        /\ UNCHANGED <<today, files, tombs, lapsed, core, history, mishaps>>
    BY DEF ReadFile
  <1>2. Replay \in Procs /\ me \in ProcRecord
    BY ProcFacts DEF Procs
  <1>3. d \in Days
    <2>1. me.todo \in SUBSET Days
      BY <1>2 DEF ProcRecord
    <2> QED
      BY <1>1, <2>1, FirstIsOne
  <1> HIDE DEF d
  <1>4. files[d] \in FileRecord /\ FileOk(files[d]) /\ spooled \subseteq Events
    BY <1>2, <1>3, ProcFacts
  <1>5. recs \in Seq(Events) /\ Range(recs) \subseteq spooled /\ Distinct(recs)
    BY <1>4 DEF FileOk, FileRecord
  <1> HIDE DEF recs
  <1>6. CASE ~files[d].exists
    <2>1. "idle" \in PCs \ Holding
      BY DEF PCs, Holding
    <2> QED
      BY <1>1, <1>2, <1>6, <2>1, RestingOk, LocalMoves
  <1>7. CASE files[d].exists
    <2>1. /\ Keeps(recs, good) \in Seq(Events)
          /\ Range(Keeps(recs, good)) = good
          /\ Distinct(Keeps(recs, good))
      <3>1. Range(recs) \cap good = good
        OBVIOUS
      <3> HIDE DEF good
      <3> QED
        BY <1>5, <3>1, KeepsFacts
    <2>2. good \cup bad = Range(recs) /\ good \subseteq Range(recs)
      OBVIOUS
    <2>3. next \in {"report", "replaced", "send"} /\ (next # "report" => bad = {})
      OBVIOUS
    <2>4. procs' = [procs EXCEPT ![Replay] = r]
      BY <1>1, <1>7
    <2> HIDE DEF good, bad, next
    <2>5. /\ r \in ProcRecord /\ r.pc = next /\ r.day = d
          /\ r.seen = good \cup bad /\ r.kept = Keeps(recs, good)
      BY <1>2, <1>3, <1>4, <1>5, <2>1, <2>2, <2>3 DEF ProcRecord, PCs, Holding
    <2> HIDE DEF r
    <2>6. HolderOk(r)
      BY <1>3, <1>5, <2>1, <2>2, <2>3, <2>5 DEF HolderOk, Holding
    <2>7. SafeToDrop(r)
      BY <2>1, <2>3, <2>5 DEF SafeToDrop, Leaving
    <2> QED
      BY <1>1, <1>2, <2>3, <2>4, <2>5, <2>6, <2>7, LocalMoves
  <1> QED
    BY <1>6, <1>7

\* What the sidecar has answered for is stored.
LEMMA SendBatchKeeps ==
  ASSUME IInv, SendBatch
  PROVE  IInv'
  <1> DEFINE me == procs[Replay]
             batch == Batch(me.kept)
             r == [me EXCEPT !.pc = "replaced", !.kept = Remaining(me.kept)]
  <1>1. /\ me.pc = "send" /\ core' = core \cup (batch \ Rejected)
        /\ HandledAll(batch) => procs' = [procs EXCEPT ![Replay] = r]
        /\ ~HandledAll(batch) => procs' = [procs EXCEPT ![Replay] = Resting("idle")]
        /\ UNCHANGED <<today, files, tombs, lapsed, history, mishaps>>
    BY DEF SendBatch
  <1>2. Replay \in Procs /\ me \in ProcRecord /\ HolderOk(me) /\ SafeToDrop(me)
    BY ProcFacts DEF Procs
  <1>3. /\ Remaining(me.kept) \in Seq(Events)
        /\ Range(me.kept) = batch \cup Range(Remaining(me.kept))
        /\ Distinct(Remaining(me.kept))
    <2>1. me.kept \in Seq(Events) /\ Distinct(me.kept)
      BY <1>2 DEF ProcRecord, HolderOk
    <2> QED
      BY <2>1, BatchFacts
  <1>4. batch \subseteq Events
    <2>1. Range(me.kept) \subseteq Events
      BY <1>2 DEF HolderOk, ProcRecord
    <2> QED
      BY <1>3, <2>1
  <1> HIDE DEF batch
  <1>5. core \subseteq core' /\ core' \subseteq Events \ Rejected /\ Buried' = Buried
    BY <1>1, <1>4 DEF IInv, Shaped, Buried
  <1>6. CASE HandledAll(batch)
    <2>1. procs' = [procs EXCEPT ![Replay] = r]
      BY <1>1, <1>6
    <2>2. /\ r \in ProcRecord /\ r.pc = "replaced" /\ r.day = me.day
          /\ r.seen = me.seen /\ r.kept = Remaining(me.kept)
      BY <1>2, <1>3 DEF ProcRecord, PCs, Holding
    <2> HIDE DEF r
    <2>3. HolderOk(r)
      BY <1>1, <1>2, <1>3, <2>2 DEF HolderOk, Holding
    <2>4. batch \subseteq core'
      BY <1>1, <1>6 DEF HandledAll
    <2>5. r.seen \ Range(r.kept) \subseteq core' \cup Buried'
      BY <1>1, <1>2, <1>3, <1>5, <2>2, <2>4 DEF SafeToDrop, Leaving
    <2> QED
      BY <1>1, <1>2, <1>5, <2>1, <2>2, <2>3, <2>5, HistoryStays, ProcMoves DEF IInv, Shaped
  <1>7. CASE ~HandledAll(batch)
    <2>1. "idle" \in PCs \ Holding
      BY DEF PCs, Holding
    <2>2. procs' = [procs EXCEPT ![Replay] = Resting("idle")]
      BY <1>1, <1>7
    <2>3. /\ Resting("idle") \in ProcRecord /\ Resting("idle").pc = "idle"
          /\ HolderOk(Resting("idle"))
      BY <2>1, RestingOk
    <2> QED
      BY <1>1, <1>2, <1>5, <2>2, <2>3, HistoryStays, ProcMoves DEF IInv, Shaped, Leaving
  <1> QED
    BY <1>6, <1>7

\* A batch without an answer may have been stored.
LEMMA SendFailsKeeps ==
  ASSUME IInv, SendFails
  PROVE  IInv'
  <1> DEFINE me == procs[Replay]
             batch == Batch(me.kept)
  <1>1. /\ core' \in {core, core \cup (batch \ Rejected)}
        /\ procs' = [procs EXCEPT ![Replay] = Resting("idle")]
        /\ UNCHANGED <<today, files, tombs, lapsed, history, mishaps>>
    BY DEF SendFails
  <1>2. Replay \in Procs /\ me \in ProcRecord
    BY ProcFacts DEF Procs
  <1>3. batch \subseteq Events
    <2>1. me.kept \in Seq(Events)
      BY <1>2 DEF ProcRecord
    <2>2. Range(me.kept) \subseteq Events
      BY <2>1, RangeOf
    <2>3. Range(me.kept) = batch \cup Range(Remaining(me.kept))
      BY <2>1, BatchFacts
    <2> QED
      BY <2>2, <2>3
  <1> HIDE DEF batch
  <1>4. core \subseteq core' /\ core' \subseteq Events \ Rejected /\ Buried' = Buried
    BY <1>1, <1>3 DEF IInv, Shaped, Buried
  <1>5. "idle" \in PCs \ Holding
    BY DEF PCs, Holding
  <1>6. /\ Resting("idle") \in ProcRecord /\ Resting("idle").pc = "idle"
        /\ HolderOk(Resting("idle"))
    BY <1>5, RestingOk
  <1> QED
    BY <1>1, <1>2, <1>4, <1>6, HistoryStays, ProcMoves DEF IInv, Shaped, Leaving

\* A replay without files left is done.
LEMMA ReplayEndsKeeps ==
  ASSUME IInv, ReplayEnds
  PROVE  IInv'
  <1>1. /\ procs' = [procs EXCEPT ![Replay] = Resting("idle")]
        /\ UNCHANGED <<today, files, tombs, lapsed, core, history, mishaps>>
    BY DEF ReplayEnds
  <1>2. Replay \in Procs /\ "idle" \in PCs \ Holding
    BY DEF Procs, PCs, Holding
  <1> QED
    BY <1>1, <1>2, RestingOk, LocalMoves

-----------------------------------------------------------------------------
(* The environment, and all steps *)

\* Days and retentions pass.
LEMMA TimeKeeps ==
  ASSUME IInv, today' \in Days, lapsed' \subseteq Raw,
         UNCHANGED <<files, tombs, core, procs, history, mishaps>>
  PROVE  IInv'
  <1>0. UNCHANGED <<spooled, evicted, raced, torn>>
    BY DEF history
  <1>1. Shaped' /\ NotYet'
    BY <1>0 DEF IInv, Shaped, NotYet, HistoryOk
  <1>2. \A d \in Days : FileOk(files[d])'
    BY <1>0 DEF IInv, FileOk
  <1>3. \A p \in Procs : HolderOk(procs[p])' /\ SafeToDrop(procs[p])'
    BY <1>0 DEF IInv, HolderOk, SafeToDrop, Buried
  <1> QED
    BY <1>1, <1>2, <1>3 DEF IInv

\* A crash: what was under way is gone, the files stay.
LEMMA CrashKeeps ==
  ASSUME IInv, Crash
  PROVE  IInv'
  <1>1. /\ mishaps' = mishaps + 1 /\ mishaps < MaxMishaps /\ torn' = torn \cup HeldBack
        /\ procs' = [p \in Procs |->
             IF p = Replay THEN Resting("idle")
             ELSE IF procs[p].pc \in Ended THEN procs[p]
             ELSE Resting("threw")]
        /\ UNCHANGED <<today, files, tombs, lapsed, core, spooled, evicted, raced>>
    BY DEF Crash
  <1>2. "idle" \in PCs \ Holding /\ "threw" \in PCs \ Holding
    BY DEF PCs, Holding
  <1>3. ASSUME NEW p \in Procs
        PROVE  \/ procs'[p] \in {Resting("idle"), Resting("threw")}
               \/ procs'[p] = procs[p] /\ p # Replay /\ procs[p].pc \in Ended
    BY <1>1
  <1>4. ASSUME NEW p \in Procs
        PROVE  /\ procs'[p] \in ProcRecord /\ HolderOk(procs'[p]) /\ SafeToDrop(procs'[p])
    BY <1>2, <1>3, RestingOk, ProcFacts
  <1>5. Shaped'
    <2>1. procs' \in [Procs -> ProcRecord]
      BY <1>1, <1>4
    <2>2. mishaps' \in 0..MaxMishaps
      BY <1>1, BoundAssumption DEF IInv, Shaped, HistoryOk
    <2>3. HeldBack \subseteq spooled
      BY ProcFacts DEF HeldBack, HolderOk
    <2> QED
      BY <1>1, <2>1, <2>2, <2>3 DEF IInv, Shaped, HistoryOk
  <1>6. NotYet'
    <2> SUFFICES ASSUME NEW e \in Events, procs'[e].pc \in {"new", "append"}
                 PROVE  e \notin spooled
      BY <1>1 DEF NotYet
    <2>1. e \in Procs
      BY DEF Procs
    <2>2. Resting("idle").pc = "idle" /\ Resting("threw").pc = "threw"
      BY DEF Resting
    <2>3. procs'[e] = procs[e]
      BY <1>3, <2>1, <2>2
    <2> QED
      BY <2>3 DEF IInv, NotYet
  <1>7. \A d \in Days : FileOk(files[d])'
    BY <1>1 DEF IInv, FileOk
  <1>8. \A p \in Procs : HolderOk(procs[p])' /\ SafeToDrop(procs[p])'
    BY <1>1, <1>4 DEF HolderOk, SafeToDrop, Buried
  <1> QED
    BY <1>5, <1>6, <1>7, <1>8 DEF IInv

\* The first lines of a sequence without repetition.
LEMMA PrefixFacts ==
  ASSUME NEW S, NEW s \in Seq(S), NEW t \in Prefixes(s)
  PROVE  /\ t \in Seq(S) /\ Range(t) \subseteq Range(s)
         /\ Distinct(s) => Distinct(t)
  <1>1. PICK n \in 0..(Len(s) - 1) : t = SubSeq(s, 1, n)
    BY DEF Prefixes
  <1>2. Len(s) \in Nat /\ n \in Nat /\ n <= Len(s)
    BY <1>1
  <1>3. t \in Seq(S) /\ Len(t) = n /\ \A i \in 1..n : t[i] = s[i]
    BY <1>1, <1>2
  <1>4. Range(t) = {t[i] : i \in 1..n} /\ Range(s) = {s[i] : i \in 1..Len(s)}
    BY <1>3, RangeOf
  <1>5. 1..n \subseteq 1..Len(s)
    BY <1>2
  <1> QED
    BY <1>3, <1>4, <1>5 DEF Distinct

\* A failing call of fs: the process gives up, with some of its lines written.
LEMMA FileCallFailsKeeps ==
  ASSUME IInv, NEW p \in Procs, FileCallFails(p)
  PROVE  IInv'
  <1>1. /\ mishaps < MaxMishaps /\ mishaps' = mishaps + 1
        /\ procs' = [procs EXCEPT ![p] = Outcome(p)]
        /\ UNCHANGED <<today, tombs, lapsed, core, spooled, evicted>>
    BY DEF FileCallFails
  <1>2. mishaps' \in 0..MaxMishaps
    BY <1>1, BoundAssumption DEF IInv, Shaped, HistoryOk
  <1>3. CASE procs[p].pc \in Writing
    <2> DEFINE d == procs[p].day
               kept == procs[p].kept
    <2>1. PICK written \in Prefixes(kept) :
            /\ files' = [files EXCEPT ![d] = [exists |-> TRUE, recs |-> written]]
            /\ torn' = torn \cup (Range(kept) \ Range(written))
            /\ raced' = raced \cup Unread(p)
      BY <1>3 DEF FileCallFails
    <2>2. /\ d \in Days /\ evicted \cup raced \cup torn \cup Unread(p) \subseteq spooled
      BY <1>3, UnreadOk DEF Writing, Holding
    <2>3. kept \in Seq(Events) /\ Range(kept) \subseteq spooled /\ Distinct(kept)
      BY ProcFacts DEF ProcRecord, HolderOk
    <2> HIDE DEF d, kept
    <2> DEFINE f == [exists |-> TRUE, recs |-> written]
    <2>4. written \in Seq(Events) /\ Range(written) \subseteq spooled /\ Distinct(written)
      BY <2>1, <2>3, PrefixFacts
    <2>5. f \in FileRecord /\ FileOk(f)
      BY <2>4 DEF FileRecord, FileOk
    <2>6. HistoryOk'
      BY <1>1, <1>2, <2>1, <2>2, <2>3 DEF HistoryOk
    <2>7. files' = [files EXCEPT ![d] = f]
      BY <2>1
    <2> HIDE DEF f
    <2> QED
      BY <1>1, <2>2, <2>5, <2>6, <2>7, OutcomeOk, FileMoves
  <1>4. CASE procs[p].pc \notin Writing
    <2>1. UNCHANGED <<files, raced, torn>>
      BY <1>4 DEF FileCallFails
    <2>2. HistoryOk'
      BY <1>1, <1>2, <2>1 DEF HistoryOk, IInv, Shaped
    <2>3. Buried' = Buried
      BY <1>1 DEF Buried
    <2>4. /\ files' \in [Days -> FileRecord] /\ \A d \in Days : FileOk(files'[d])
          /\ core' \subseteq Events \ Rejected /\ tombs' \in [Events -> 0..MaxTombs]
      BY <1>1, <2>1 DEF IInv, Shaped
    <2>5. Outcome(p).pc \notin Leaving \cup {"new", "append"}
      BY OutcomeOk DEF Leaving
    <2> QED
      BY <1>1, <2>2, <2>3, <2>4, <2>5, OutcomeOk, ProcMoves
  <1> QED
    BY <1>3, <1>4

\* Every step keeps the invariant.
LEMMA NextKeeps ==
  ASSUME IInv, [Next]_vars
  PROVE  IInv'
  <1>1. ASSUME NEW e \in Events, ForwardFails(e) \/ AppendSpool(e) PROVE IInv'
    BY <1>1, ForwardFailsKeeps, AppendSpoolKeeps
  <1>2. ASSUME NEW e \in Events, RetentionLapses(e) PROVE IInv'
    <2>1. lapsed' \subseteq Raw /\ today' \in Days
      BY <1>2 DEF RetentionLapses, IInv, Shaped
    <2> QED
      BY <1>2, <2>1, TimeKeeps DEF RetentionLapses
  <1>3. CASE ForwardOk
    BY <1>3, ForwardOkKeeps
  <1>4. ASSUME NEW p \in Procs, Compaction(p) PROVE IInv'
    BY <1>4, ListToExpireKeeps, ReadToExpireKeeps, EntombExpiredKeeps, RemoveFileKeeps,
       TruncateFileKeeps, WriteFileKeeps, ListToMeasureKeeps, MeasureKeeps, EvictOldestKeeps,
       CompactionEndsKeeps DEF Compaction
  <1>9. ASSUME NEW p \in Procs, FileCallFails(p) PROVE IInv'
    BY <1>9, FileCallFailsKeeps
  <1>5. CASE ReplayStep
    BY <1>5, ReadFileKeeps, EntombInvalidKeeps, SendBatchKeeps, SendFailsKeeps, ReplayEndsKeeps
       DEF ReplayStep
  <1>6. CASE NextDay
    <2>1. today' \in Days /\ lapsed' \subseteq Raw
      BY <1>6, BoundAssumption DEF NextDay, IInv, Shaped, Days
    <2> QED
      BY <1>6, <2>1, TimeKeeps DEF NextDay
  <1>7. CASE Crash
    BY <1>7, CrashKeeps
  <1>8. CASE UNCHANGED vars
    <2>1. UNCHANGED <<today, files, tombs, lapsed, core, procs, history, mishaps>>
      BY <1>8 DEF vars
    <2>2. today' \in Days /\ lapsed' \subseteq Raw
      BY <2>1 DEF IInv, Shaped
    <2> QED
      BY <2>1, <2>2, TimeKeeps
  <1> QED
    BY <1>1, <1>2, <1>3, <1>4, <1>5, <1>6, <1>7, <1>8, <1>9 DEF Next

\* Nothing is spooled in the beginning.
LEMMA InitEstablishes == Init => IInv
  <1> SUFFICES ASSUME Init PROVE IInv
    OBVIOUS
  <1>1. "idle" \in PCs \ Holding /\ "new" \in PCs \ Holding
    BY DEF PCs, Holding
  <1>2. \A p \in Procs : procs[p] \in {Resting("idle"), Resting("new")}
    BY DEF Init
  <1>3. \A p \in Procs : procs[p] \in ProcRecord /\ HolderOk(procs[p]) /\ SafeToDrop(procs[p])
    BY <1>1, <1>2, RestingOk
  <1>4. Shaped
    <2>1. procs \in [Procs -> ProcRecord]
      BY <1>3 DEF Init
    <2>2. NoFile \in FileRecord
      BY EmptyFileOk
    <2>3. 1 \in Days /\ 0 \in 0..MaxTombs /\ 0 \in 0..MaxMishaps
      BY BoundAssumption DEF Days
    <2> QED
      BY <2>1, <2>2, <2>3 DEF Init, Shaped, HistoryOk
  <1>5. \A d \in Days : FileOk(files[d])
    BY EmptyFileOk DEF Init
  <1>6. NotYet
    BY DEF Init, NotYet
  <1> QED
    BY <1>3, <1>4, <1>5, <1>6 DEF IInv

\* The inductive invariant of the spool.
THEOREM InductiveInvariant == Spec => []IInv
  <1>1. Init => IInv
    BY InitEstablishes
  <1>2. IInv /\ [Next]_vars => IInv'
    BY NextKeeps
  <1> QED
    BY <1>1, <1>2, PTL DEF Spec

-----------------------------------------------------------------------------
(* The properties *)

\* A sequence without repetition is as long as its range is large.
LEMMA DistinctCardinality ==
  ASSUME NEW S, NEW s \in Seq(S), Distinct(s)
  PROVE  Cardinality(Range(s)) = Len(s)
  <1>1. s \in [1..Len(s) -> Range(s)] /\ Len(s) \in Nat
    BY DEF Range
  <1>2. \A x \in Range(s) : \E i \in 1..Len(s) : s[i] = x
    BY DEF Range
  <1>3. s \in Bijection(1..Len(s), Range(s))
    BY <1>1, <1>2, Fun_IsBij DEF Distinct
  <1>4. ExistsBijection(1..Len(s), Range(s))
    BY <1>3 DEF ExistsBijection
  <1>5. IsFiniteSet(1..Len(s)) /\ Cardinality(1..Len(s)) = Len(s)
    <2> DEFINE n == Len(s)
    <2>1. n \in Nat
      BY <1>1
    <2> HIDE DEF n
    <2>2. IsFiniteSet(1..n) /\ Cardinality(1..n) = n
      BY <2>1, FS_Interval
    <2> QED
      BY <2>2 DEF n
  <1> QED
    BY <1>4, <1>5, FS_Bijection

\* TypeOK: the spool files never hold two records of one event
\* (spool/index.js, appendSpool, expireRetainedRecords and replaySpool).
THEOREM TypeCorrect == Spec => []TypeOK
  <1>1. IInv => TypeOK
    <2> SUFFICES ASSUME IInv PROVE TypeOK
      OBVIOUS
    <2>1. ASSUME NEW d \in Days
          PROVE  /\ files[d].exists \in BOOLEAN
                 /\ Range(files[d].recs) \subseteq spooled
                 /\ Cardinality(Range(files[d].recs)) = Len(files[d].recs)
                 /\ files[d].recs # <<>> => files[d].exists
      <3>1. files[d] \in FileRecord /\ FileOk(files[d])
        BY DEF IInv, Shaped
      <3>2. files[d].recs \in Seq(Events) /\ files[d].exists \in BOOLEAN
        BY <3>1 DEF FileRecord
      <3> QED
        BY <3>1, <3>2, DistinctCardinality DEF FileOk
    <2>2. ASSUME NEW p \in Procs
          PROVE  /\ procs[p].todo \subseteq Days
                 /\ Range(procs[p].kept) \subseteq procs[p].seen /\ procs[p].seen \subseteq Events
                 /\ procs[p].seen # {} =>
                      procs[p].day \in Days /\ procs[p].pc \notin {"expire", "measure", "read"}
      <3>1. procs[p] \in ProcRecord /\ HolderOk(procs[p])
        BY ProcFacts
      <3> QED
        BY <3>1 DEF ProcRecord, HolderOk, Holding
    <2>3. InFiles \subseteq spooled
      BY <2>1 DEF InFiles
    <2> QED
      BY <2>1, <2>2, <2>3 DEF TypeOK, IInv, Shaped, HistoryOk
  <1> QED
    BY <1>1, InductiveInvariant, PTL

\* DroppedIsSafe: a rewrite leaves out only what the sidecar has stored or a
\* tombstone keeps (spool/index.js, expireRetainedRecords and replaySpool).
THEOREM DropsAreSafe == Spec => []DroppedIsSafe
  <1>1. IInv => DroppedIsSafe
    BY DEF IInv, DroppedIsSafe, SafeToDrop, Leaving, Dropped
  <1> QED
    BY <1>1, InductiveInvariant, PTL

\* What SpooledIsAccounted allows a spooled event to be.
Accounts == InFiles \cup HeldBack \cup core \cup Buried \cup evicted \cup raced \cup torn

\* Nothing that accounts for an event outside the files is ever undone.
Grows ==
  /\ core \subseteq core' /\ Buried \subseteq Buried'
  /\ evicted \subseteq evicted' /\ raced \subseteq raced' /\ torn \subseteq torn'

\* A step of p that does one file: what was in it, and what p held back, is
\* accounted for afterwards.
LEMMA AccountsKept ==
  ASSUME IInv, SpooledIsAccounted, Grows, spooled' \subseteq spooled \cup Accounts',
         NEW p \in Procs, \A q \in Procs \ {p} : procs'[q] = procs[q],
         procs[p].pc \in Writing => Range(procs[p].kept) \subseteq Accounts',
         NEW d \in Days, \A c \in Days \ {d} : files'[c] = files[c],
         Range(files[d].recs) \subseteq Accounts'
  PROVE  SpooledIsAccounted'
  <1>1. ASSUME NEW e \in InFiles PROVE e \in Accounts'
    <2>1. PICK c \in Days : e \in Range(files[c].recs)
      BY DEF InFiles
    <2>2. CASE c = d
      BY <2>1, <2>2
    <2>3. CASE c # d
      <3>1. files'[c] = files[c]
        BY <2>3
      <3>2. e \in InFiles'
        BY <2>1, <3>1 DEF InFiles
      <3> QED
        BY <3>2 DEF Accounts
    <2> QED
      BY <2>2, <2>3
  <1>2. ASSUME NEW e \in HeldBack PROVE e \in Accounts'
    <2>1. PICK q \in Procs : procs[q].pc \in Writing /\ e \in Range(procs[q].kept)
      BY DEF HeldBack
    <2>2. CASE q = p
      BY <2>1, <2>2
    <2>3. CASE q # p
      <3>1. procs'[q] = procs[q]
        BY <2>3
      <3>2. e \in HeldBack'
        BY <2>1, <3>1 DEF HeldBack
      <3> QED
        BY <3>2 DEF Accounts
    <2> QED
      BY <2>2, <2>3
  <1>3. core \cup Buried \cup evicted \cup raced \cup torn \subseteq Accounts'
    BY DEF Grows, Accounts
  <1>4. spooled \subseteq Accounts'
    BY <1>1, <1>2, <1>3 DEF SpooledIsAccounted
  <1> QED
    BY <1>4 DEF SpooledIsAccounted, Accounts

\* A step of p, which holds nothing back, that leaves the files alone.
LEMMA LocalAccounts ==
  ASSUME IInv, SpooledIsAccounted, Grows, spooled' = spooled, files' = files,
         NEW p \in Procs, \A q \in Procs \ {p} : procs'[q] = procs[q],
         procs[p].pc \notin Writing
  PROVE  SpooledIsAccounted'
  <1>1. 1 \in Days
    BY BoundAssumption DEF Days
  <1>2. Range(files[1].recs) \subseteq InFiles'
    BY <1>1 DEF InFiles
  <1> QED
    BY <1>1, <1>2, AccountsKept DEF Accounts

\* The file of p, as p replaces it: what p has not read is a lost race, and what
\* p leaves out is safe.
LEMMA ReplacedAccounts ==
  ASSUME IInv, NEW p \in Procs, procs[p].pc \in Leaving, Grows,
         Unread(p) \subseteq raced', Range(procs[p].kept) \subseteq Accounts'
  PROVE  Range(files[procs[p].day].recs) \subseteq Accounts'
  <1>1. procs[p].seen \ Range(procs[p].kept) \subseteq core \cup Buried
    BY ProcFacts DEF SafeToDrop
  <1> QED
    BY <1>1 DEF Unread, Grows, Accounts

\* Where nothing but processes, tombstones and the sidecar's store change.
LEMMA QuietAccounts ==
  ASSUME IInv, SpooledIsAccounted, [Next]_vars,
         ~Crash, \A p \in Procs :
           ~RemoveFile(p) /\ ~TruncateFile(p) /\ ~WriteFile(p) /\ ~EvictOldest(p) /\ ~FileCallFails(p),
         \A e \in Events : ~AppendSpool(e)
  PROVE  SpooledIsAccounted'
  <1>1. procs \in [Procs -> ProcRecord] /\ Replay \in Procs /\ Events \subseteq Procs
    BY ProcFacts DEF Procs
  <1>2. ASSUME NEW e \in Events, ForwardFails(e) PROVE SpooledIsAccounted'
    <2>1. /\ Grows /\ spooled' = spooled /\ files' = files
          /\ \A q \in Procs \ {e} : procs'[q] = procs[q]
          /\ procs[e].pc = "new"
      BY <1>1, <1>2 DEF ForwardFails, Grows, Buried, history
    <2> QED
      BY <1>1, <2>1, LocalAccounts DEF Writing
  <1>3. CASE ForwardOk
    <2>1. /\ Grows /\ spooled' = spooled /\ files' = files
          /\ \A q \in Procs \ {Replay} : procs'[q] = procs[q]
          /\ procs[Replay].pc = "idle"
      BY <1>1, <1>3 DEF ForwardOk, Grows, Buried, history
    <2> QED
      BY <1>1, <2>1, LocalAccounts DEF Writing
  <1>4. ASSUME NEW p \in Procs,
               ListToExpire(p) \/ ReadToExpire(p) \/ ListToMeasure(p) \/ Measure(p) \/ CompactionEnds(p)
        PROVE  SpooledIsAccounted'
    <2>1. /\ procs[p].pc \in {"list", "expire", "measure"}
          /\ UNCHANGED <<files, tombs, core, history>>
      BY <1>4 DEF ListToExpire, ReadToExpire, ListToMeasure, Measure, CompactionEnds, Measured
    <2>2. \A q \in Procs \ {p} : procs'[q] = procs[q]
      BY <1>1, <1>4 DEF ListToExpire, ReadToExpire, ListToMeasure, Measure, CompactionEnds
    <2>3. Grows /\ spooled' = spooled /\ files' = files
      BY <2>1 DEF Grows, Buried, history
    <2> QED
      BY <2>1, <2>2, <2>3, LocalAccounts DEF Writing
  <1>5. ASSUME NEW p \in Procs, procs[p].pc \in {"entomb", "report"},
               tombs' = Entombed(Dropped(p)), UNCHANGED <<files, core, history>>,
               \A q \in Procs \ {p} : procs'[q] = procs[q]
        PROVE  SpooledIsAccounted'
    <2>1. Dropped(p) \in SUBSET Events
      BY ProcFacts DEF Dropped, ProcRecord
    <2>2. Buried \subseteq Buried'
      BY <1>5, <2>1, EntombedFacts DEF IInv
    <2>3. Grows /\ spooled' = spooled /\ files' = files
      BY <1>5, <2>2 DEF Grows, history
    <2> QED
      BY <1>5, <2>3, LocalAccounts DEF Writing
  <1>6. ASSUME NEW p \in Procs, EntombExpired(p) PROVE SpooledIsAccounted'
    BY <1>1, <1>5, <1>6 DEF EntombExpired
  <1>7. CASE EntombInvalid
    BY <1>1, <1>5, <1>7 DEF EntombInvalid
  <1>8. CASE ReadFile \/ SendBatch \/ SendFails \/ ReplayEnds
    <2>1. procs[Replay].pc \in {"read", "send"} /\ UNCHANGED <<files, tombs, history>>
      BY <1>8 DEF ReadFile, SendBatch, SendFails, ReplayEnds
    <2>2. \A q \in Procs \ {Replay} : procs'[q] = procs[q]
      BY <1>1, <1>8 DEF ReadFile, SendBatch, SendFails, ReplayEnds
    <2>3. core \subseteq core'
      BY <1>8 DEF ReadFile, SendBatch, SendFails, ReplayEnds
    <2>4. Grows /\ spooled' = spooled /\ files' = files
      BY <2>1, <2>3 DEF Grows, Buried, history
    <2> QED
      BY <1>1, <2>1, <2>2, <2>4, LocalAccounts DEF Writing
  <1>9. ASSUME UNCHANGED <<files, tombs, core, procs, history>> PROVE SpooledIsAccounted'
    BY <1>9 DEF SpooledIsAccounted, InFiles, HeldBack, Buried, history
  <1>10. CASE \/ NextDay \/ UNCHANGED vars
              \/ \E e \in Events : RetentionLapses(e)
    BY <1>9, <1>10 DEF NextDay, RetentionLapses, vars
  <1> QED
    BY <1>2, <1>3, <1>4, <1>6, <1>7, <1>8, <1>10 DEF Next, Compaction, ReplayStep

\* A record that is appended is in its file.
LEMMA AppendAccounts ==
  ASSUME IInv, SpooledIsAccounted, NEW e \in Events, AppendSpool(e)
  PROVE  SpooledIsAccounted'
  <1> DEFINE f == [exists |-> TRUE, recs |-> Append(files[today].recs, e)]
  <1>1. /\ procs[e].pc = "append" /\ files' = [files EXCEPT ![today] = f]
        /\ spooled' = spooled \cup {e} /\ procs' = [procs EXCEPT ![e].pc = "list"]
        /\ UNCHANGED <<tombs, core, evicted, raced, torn>>
    BY DEF AppendSpool
  <1>2. /\ e \in Procs /\ procs \in [Procs -> ProcRecord]
        /\ today \in Days /\ files \in [Days -> FileRecord]
    BY ProcFacts DEF Procs, IInv, Shaped
  <1>3. files[today].recs \in Seq(Events)
    BY <1>2 DEF FileRecord
  <1>4. Range(f.recs) = Range(files[today].recs) \cup {e}
    BY <1>3, AppendFacts
  <1> HIDE DEF f
  <1>5. files'[today] = f /\ \A c \in Days \ {today} : files'[c] = files[c]
    BY <1>1, <1>2
  <1>6. Range(files[today].recs) \cup {e} \subseteq Accounts'
    BY <1>2, <1>4, <1>5 DEF Accounts, InFiles
  <1>7. Grows /\ \A q \in Procs \ {e} : procs'[q] = procs[q]
    BY <1>1, <1>2 DEF Grows, Buried
  <1> QED
    BY <1>1, <1>2, <1>5, <1>6, <1>7, AccountsKept DEF Writing

\* What grows when a process replaces its file.
LEMMA ReplacingFacts ==
  ASSUME IInv, NEW p \in Procs, procs[p].pc \in Leaving,
         UNCHANGED <<tombs, core, evicted>>, raced' = raced \cup Unread(p), torn \subseteq torn'
  PROVE  /\ procs[p].day \in Days /\ Grows /\ Unread(p) \subseteq raced'
         /\ procs \in [Procs -> ProcRecord] /\ files \in [Days -> FileRecord]
  <1>1. /\ procs \in [Procs -> ProcRecord] /\ files \in [Days -> FileRecord]
        /\ procs[p].day \in Days
    BY ProcFacts DEF HolderOk, Leaving, Holding
  <1> QED
    BY <1>1 DEF Grows, Buried

\* A file that is removed, truncated, written.
LEMMA RewriteAccounts ==
  ASSUME IInv, SpooledIsAccounted, NEW p \in Procs,
         RemoveFile(p) \/ TruncateFile(p) \/ WriteFile(p)
  PROVE  SpooledIsAccounted'
  <1> DEFINE d == procs[p].day
             kept == procs[p].kept
  <1>1. procs[p] \in ProcRecord
    BY ProcFacts
  <1>2. CASE RemoveFile(p)
    <2>1. /\ procs[p].pc \in {"rewrite", "replaced"} /\ kept = <<>>
          /\ files' = [files EXCEPT ![d] = NoFile]
          /\ procs' = [procs EXCEPT ![p] = AfterRewrite(p, procs[p].pc)]
          /\ raced' = raced \cup Unread(p)
          /\ UNCHANGED <<tombs, core, spooled, evicted, torn>>
      BY <1>2 DEF RemoveFile
    <2>0. /\ d \in Days /\ Grows /\ Unread(p) \subseteq raced'
          /\ procs \in [Procs -> ProcRecord] /\ files \in [Days -> FileRecord]
      BY <2>1, ReplacingFacts DEF Leaving
    <2>2. /\ \A q \in Procs \ {p} : procs'[q] = procs[q]
          /\ \A c \in Days \ {d} : files'[c] = files[c]
      BY <2>0, <2>1
    <2>3. Range(kept) = {}
      BY <2>1 DEF Range
    <2>4. Range(files[d].recs) \subseteq Accounts'
      BY <2>0, <2>1, <2>3, ReplacedAccounts DEF Leaving
    <2> QED
      BY <2>0, <2>1, <2>2, <2>4, AccountsKept DEF Writing
  <1>3. CASE TruncateFile(p)
    <2> DEFINE next == IF procs[p].pc = "rewrite" THEN "rewriting" ELSE "replacing"
               r == [procs[p] EXCEPT !.pc = next]
    <2>1. /\ procs[p].pc \in {"rewrite", "replaced"}
          /\ files' = [files EXCEPT ![d] = [exists |-> TRUE, recs |-> <<>>]]
          /\ procs' = [procs EXCEPT ![p].pc = next]
          /\ raced' = raced \cup Unread(p)
          /\ UNCHANGED <<tombs, core, spooled, evicted, torn>>
      BY <1>3 DEF TruncateFile
    <2>2. procs' = [procs EXCEPT ![p] = r]
      BY <1>1, <2>1
    <2>3. r.pc \in Writing /\ r.kept = kept
      BY <1>1 DEF ProcRecord, Writing
    <2> HIDE DEF r
    <2>0. /\ d \in Days /\ Grows /\ Unread(p) \subseteq raced'
          /\ procs \in [Procs -> ProcRecord] /\ files \in [Days -> FileRecord]
      BY <2>1, ReplacingFacts DEF Leaving
    <2>4. /\ procs'[p] = r /\ \A q \in Procs \ {p} : procs'[q] = procs[q]
          /\ \A c \in Days \ {d} : files'[c] = files[c]
      BY <2>0, <2>1, <2>2
    <2>5. Range(kept) \subseteq Accounts'
      BY <2>3, <2>4 DEF HeldBack, Accounts
    <2>6. Range(files[d].recs) \subseteq Accounts'
      BY <2>0, <2>1, <2>5, ReplacedAccounts DEF Leaving
    <2> QED
      BY <2>0, <2>1, <2>4, <2>6, AccountsKept DEF Writing
  <1>4. CASE WriteFile(p)
    <2> DEFINE f == [exists |-> TRUE, recs |-> kept]
               r == AfterRewrite(p, IF procs[p].pc = "rewriting" THEN "rewrite" ELSE "replaced")
    <2>1. /\ procs[p].pc \in {"rewriting", "replacing"}
          /\ files' = [files EXCEPT ![d] = f]
          /\ procs' = [procs EXCEPT ![p] = r]
          /\ raced' = raced \cup Unread(p)
          /\ UNCHANGED <<tombs, core, spooled, evicted, torn>>
      BY <1>4 DEF WriteFile
    <2> HIDE DEF r
    <2>2. f.recs = kept
      OBVIOUS
    <2> HIDE DEF f
    <2>0. /\ d \in Days /\ Grows /\ Unread(p) \subseteq raced'
          /\ procs \in [Procs -> ProcRecord] /\ files \in [Days -> FileRecord]
      BY <2>1, ReplacingFacts DEF Leaving
    <2>3. /\ \A q \in Procs \ {p} : procs'[q] = procs[q]
          /\ files'[d] = f /\ \A c \in Days \ {d} : files'[c] = files[c]
      BY <2>0, <2>1
    <2>4. Range(kept) \subseteq Accounts'
      BY <2>0, <2>2, <2>3 DEF InFiles, Accounts
    <2>5. Range(files[d].recs) \subseteq Accounts'
      BY <2>0, <2>1, <2>4, ReplacedAccounts DEF Leaving
    <2> QED
      BY <2>0, <2>1, <2>3, <2>4, <2>5, AccountsKept
  <1> QED
    BY <1>2, <1>3, <1>4

\* A file that is evicted.
LEMMA EvictAccounts ==
  ASSUME IInv, SpooledIsAccounted, NEW p \in Procs, EvictOldest(p)
  PROVE  SpooledIsAccounted'
  <1> DEFINE d == First(procs[p].todo)
  <1>1. /\ procs[p].pc = "measure" /\ procs[p].todo # {}
        /\ evicted' = evicted \cup Range(files[d].recs)
        /\ files' = [files EXCEPT ![d] = NoFile]
        /\ procs' = [procs EXCEPT ![p].todo = @ \ {d}]
        /\ UNCHANGED <<tombs, core, spooled, raced, torn>>
    BY DEF EvictOldest, Measured
  <1>2. procs[p] \in ProcRecord /\ procs \in [Procs -> ProcRecord] /\ files \in [Days -> FileRecord]
    BY ProcFacts
  <1>3. d \in Days
    <2>1. procs[p].todo \in SUBSET Days
      BY <1>2 DEF ProcRecord
    <2> QED
      BY <1>1, <2>1, FirstIsOne
  <1> HIDE DEF d
  <1>4. /\ Grows /\ Range(files[d].recs) \subseteq Accounts'
        /\ \A q \in Procs \ {p} : procs'[q] = procs[q]
        /\ \A c \in Days \ {d} : files'[c] = files[c]
    BY <1>1, <1>2 DEF Grows, Buried, Accounts
  <1> QED
    BY <1>1, <1>3, <1>4, AccountsKept DEF Writing

\* A crash, and a call of fs that fails: what was held back is torn.
LEMMA MishapAccounts ==
  ASSUME IInv, SpooledIsAccounted, Crash \/ \E p \in Procs : FileCallFails(p)
  PROVE  SpooledIsAccounted'
  <1>1. CASE Crash
    <2>1. torn' = torn \cup HeldBack /\ UNCHANGED <<files, tombs, core, spooled, evicted, raced>>
      BY <1>1 DEF Crash
    <2>2. InFiles' = InFiles /\ Buried' = Buried
      BY <2>1 DEF InFiles, Buried
    <2> QED
      BY <2>1, <2>2 DEF SpooledIsAccounted
  <1>2. ASSUME NEW p \in Procs, FileCallFails(p) PROVE SpooledIsAccounted'
    <2> DEFINE d == procs[p].day
               kept == procs[p].kept
    <2>1. /\ procs' = [procs EXCEPT ![p] = Outcome(p)]
          /\ UNCHANGED <<tombs, core, spooled, evicted>>
      BY <1>2 DEF FileCallFails
    <2>2. CASE procs[p].pc \in Writing
      <3>1. PICK written \in Prefixes(kept) :
              /\ files' = [files EXCEPT ![d] = [exists |-> TRUE, recs |-> written]]
              /\ torn' = torn \cup (Range(kept) \ Range(written))
              /\ raced' = raced \cup Unread(p)
        BY <1>2, <2>2 DEF FileCallFails
      <3> DEFINE f == [exists |-> TRUE, recs |-> written]
      <3>2. f.recs = written /\ files' = [files EXCEPT ![d] = f]
        BY <3>1
      <3> HIDE DEF f
      <3>0. /\ d \in Days /\ Grows /\ Unread(p) \subseteq raced'
            /\ procs \in [Procs -> ProcRecord] /\ files \in [Days -> FileRecord]
        BY <2>1, <2>2, <3>1, ReplacingFacts DEF Leaving, Writing
      <3>3. /\ \A q \in Procs \ {p} : procs'[q] = procs[q]
            /\ files'[d] = f /\ \A c \in Days \ {d} : files'[c] = files[c]
        BY <2>1, <3>0, <3>2
      <3>4. Range(kept) \subseteq Accounts'
        BY <3>0, <3>1, <3>2, <3>3 DEF InFiles, Accounts
      <3>5. Range(files[d].recs) \subseteq Accounts'
        BY <2>2, <3>0, <3>4, ReplacedAccounts DEF Leaving, Writing
      <3> QED
        BY <2>1, <3>0, <3>3, <3>4, <3>5, AccountsKept
    <2>3. CASE procs[p].pc \notin Writing
      <3>1. UNCHANGED <<files, raced, torn>>
        BY <1>2, <2>3 DEF FileCallFails
      <3>2. procs \in [Procs -> ProcRecord]
        BY ProcFacts
      <3>3. Grows /\ \A q \in Procs \ {p} : procs'[q] = procs[q]
        BY <2>1, <3>1, <3>2 DEF Grows, Buried
      <3> QED
        BY <2>1, <2>3, <3>1, <3>3, LocalAccounts
    <2> QED
      BY <2>2, <2>3
  <1> QED
    BY <1>1, <1>2

\* SpooledIsAccounted: a spooled event is in a file, held for the write that
\* follows, stored, tombstoned, evicted, was never read by the rewrite that
\* dropped its line, or was held by one that broke off (spool/index.js,
\* compactSpool and replaySpool).
THEOREM SpooledAccounted == Spec => []SpooledIsAccounted
  <1>1. Init => SpooledIsAccounted
    BY DEF Init, SpooledIsAccounted
  <1>2. IInv /\ SpooledIsAccounted /\ [Next]_vars => SpooledIsAccounted'
    BY QuietAccounts, AppendAccounts, RewriteAccounts, EvictAccounts, MishapAccounts
  <1> QED
    BY <1>1, <1>2, InductiveInvariant, PTL DEF Spec
=============================================================================
