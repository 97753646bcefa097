----------------------------- MODULE EventSpool -----------------------------
(***************************************************************************)
(* The plugin's local event spool (plugin/autoskill/src/spool/index.js)    *)
(* and the capture and replay around it (plugin/autoskill/src/index.js).   *)
(*                                                                         *)
(* One Node process runs any number of captures and at most one replay;    *)
(* they interleave at every await.  Each action is the code between two    *)
(* awaits that touch the spool files or the sidecar.  A spool file is the  *)
(* day's records; sizes are counted in records.                            *)
(***************************************************************************)
EXTENDS Integers, Sequences, FiniteSets, Functions

CONSTANTS
  Events,      \* captured events; the spool holds at most one record of each
  Raw,         \* those spooled as encrypted raw content, with a retention
  Unreadable,  \* those whose record replay cannot decode (key lost, bad checksum)
  Rejected,    \* those the sidecar answers with neither accepted nor duplicate
  LastDay,     \* bound: days, one spool file each
  MaxRecords,  \* maxBytes, in records
  BatchSize,   \* records per request of a replay
  MaxTombs,    \* bound: tombstones of one record are not counted further
  MaxCaptures, \* bound: captures spooling at the same time
  MaxMishaps,  \* bound: crashes of the plugin process and failing file calls
  Replay       \* the replay, as opposed to the capture of an event

ASSUME SetAssumption ==
  /\ IsFiniteSet(Events)
  /\ Raw \subseteq Events /\ Unreadable \subseteq Events /\ Rejected \subseteq Events
  /\ Replay \notin Events
ASSUME BoundAssumption ==
  /\ LastDay \in Nat \ {0} /\ MaxRecords \in Nat /\ BatchSize \in Nat \ {0}
  /\ MaxTombs \in Nat \ {0} /\ MaxCaptures \in Nat \ {0} /\ MaxMishaps \in Nat

VARIABLES
  today,    \* the day that names the file appended to
  files,    \* [Days -> [exists, recs]], the *.jsonl files
  tombs,    \* [Events -> number of lines in the *.corrupt files]
  lapsed,   \* raw events whose retention_until has passed
  core,     \* events the sidecar has stored
  procs,    \* the local state of every capture and of the replay
  spooled,  \* history: events appended to the spool
  evicted,  \* history: events removed because the spool was too large
  raced,    \* history: events whose line a rewrite dropped without having read it
  torn,     \* history: events whose line was held by a rewrite that broke off
  mishaps

history == <<spooled, evicted, raced, torn>>
vars == <<today, files, tombs, lapsed, core, procs, history, mishaps>>

Days == 1..LastDay
Procs == Events \cup {Replay}
NoFile == [exists |-> FALSE, recs |-> <<>>]
Existing == {d \in Days : files[d].exists}

\* todo: files still to visit; seen: the records read from the current one,
\* kept: those to write back; sizes: the sizes of the files stat'ed so far.
Resting(pc) == [pc |-> pc, todo |-> {}, day |-> 0, seen |-> {}, kept |-> <<>>, sizes |-> <<>>]

Init ==
  /\ today = 1
  /\ files = [d \in Days |-> NoFile]
  /\ tombs = [e \in Events |-> 0]
  /\ lapsed = {}
  /\ core = {}
  /\ procs = [p \in Procs |-> Resting(IF p = Replay THEN "idle" ELSE "new")]
  /\ spooled = {}
  /\ evicted = {}
  /\ raced = {}
  /\ torn = {}
  /\ mishaps = 0

Dropped(p) == procs[p].seen \ Range(procs[p].kept)
\* Lines that came into p's file after p had read it.
Unread(p) == Range(files[procs[p].day].recs) \ procs[p].seen
First(days) == CHOOSE d \in days : \A c \in days : d <= c

\* Fault: no tombstone is written.
EntombedNever(set) == tombs

\* tombstoneRecords
Entombed(set) ==
  [e \in Events |-> IF e \in set /\ tombs[e] < MaxTombs THEN tombs[e] + 1 ELSE tombs[e]]

-----------------------------------------------------------------------------
(* captureEvent *)

\* An event was forwarded: it never enters the spool, but its capture starts
\* a replay unless one is in flight.
ForwardOk ==
  /\ procs[Replay].pc = "idle"
  /\ procs' = [procs EXCEPT ![Replay].pc = "list"]
  /\ UNCHANGED <<today, files, tombs, lapsed, core, history, mishaps>>

Ended == {"new", "spooled", "threw"}
Spooling == {e \in Events : procs[e].pc \notin Ended}

\* Forwarding failed or timed out, in the latter case maybe after the sidecar
\* stored the event.
ForwardFails(e) ==
  /\ procs[e].pc = "new"
  /\ Cardinality(Spooling) < MaxCaptures
  /\ core' \in {core, core \cup ({e} \ Rejected)}
  /\ procs' = [procs EXCEPT ![e].pc = "append"]
  /\ UNCHANGED <<today, files, tombs, lapsed, history, mishaps>>

AppendSpool(e) ==
  /\ procs[e].pc = "append"
  /\ files' = [files EXCEPT ![today] =
                 [exists |-> TRUE, recs |-> Append(files[today].recs, e)]]
  /\ spooled' = spooled \cup {e}
  /\ procs' = [procs EXCEPT ![e].pc = "list"]
  /\ UNCHANGED <<today, tombs, lapsed, core, evicted, raced, torn, mishaps>>

-----------------------------------------------------------------------------
(* compactSpool: every append and every replay run it *)

\* The lines of s that are in set: the j-th is the one with which there are j.
Keeps(s, set) ==
  LET kept == {i \in DOMAIN s : s[i] \in set}
      Place(i) == Cardinality({k \in kept : k <= i}) IN
  [j \in 1..Cardinality(kept) |-> s[CHOOSE i \in kept : Place(i) = j]]

ListToExpire(p) ==
  /\ procs[p].pc = "list"
  /\ procs' = [procs EXCEPT ![p].pc = "expire", ![p].todo = Existing]
  /\ UNCHANGED <<today, files, tombs, lapsed, core, history, mishaps>>

\* expireRetainedRecords up to its first write: the oldest file left is read.
ReadToExpire(p) ==
  LET d == First(procs[p].todo)
      gone == Range(files[d].recs) \cap lapsed IN
  /\ procs[p].pc = "expire"
  /\ procs[p].todo # {}
  /\ IF gone = {}
     THEN procs' = [procs EXCEPT ![p].todo = @ \ {d}]
     ELSE procs' = [procs EXCEPT ![p] =
            [procs[p] EXCEPT !.pc = "entomb", !.day = d, !.todo = @ \ {d},
                             !.seen = Range(files[d].recs),
                             !.kept = Keeps(files[d].recs, Events \ gone)]]
  /\ UNCHANGED <<today, files, tombs, lapsed, core, history, mishaps>>

\* tombstoneRecords appends to the .corrupt file before the lines are dropped.
EntombExpired(p) ==
  /\ procs[p].pc = "entomb"
  /\ tombs' = Entombed(Dropped(p))
  /\ procs' = [procs EXCEPT ![p].pc = "rewrite"]
  /\ UNCHANGED <<today, files, lapsed, core, history, mishaps>>

\* Fault: what was read from one file is still there at the next.
AfterRewriteUnreset(p, pc) ==
  [procs[p] EXCEPT !.pc = IF pc = "rewrite" THEN "expire" ELSE "read"]

\* Where a rewritten file leaves its process.
AfterRewrite(p, pc) ==
  [procs[p] EXCEPT !.pc = IF pc = "rewrite" THEN "expire" ELSE "read",
                   !.seen = {}, !.kept = <<>>, !.day = 0]

\* Nothing is left of the file: fs.rm.
RemoveFile(p) ==
  /\ procs[p].pc \in {"rewrite", "replaced"}
  /\ procs[p].kept = <<>>
  /\ files' = [files EXCEPT ![procs[p].day] = NoFile]
  /\ raced' = raced \cup Unread(p)
  /\ procs' = [procs EXCEPT ![p] = AfterRewrite(p, procs[p].pc)]
  /\ UNCHANGED <<today, tombs, lapsed, core, spooled, evicted, torn, mishaps>>

\* fs.writeFile opens the file, which truncates it ...
TruncateFile(p) ==
  /\ procs[p].pc \in {"rewrite", "replaced"}
  /\ procs[p].kept # <<>>
  /\ files' = [files EXCEPT ![procs[p].day] = [exists |-> TRUE, recs |-> <<>>]]
  /\ raced' = raced \cup Unread(p)
  /\ procs' = [procs EXCEPT ![p].pc = IF @ = "rewrite" THEN "rewriting" ELSE "replacing"]
  /\ UNCHANGED <<today, tombs, lapsed, core, spooled, evicted, torn, mishaps>>

\* ... and writes the kept lines from its start.
WriteFile(p) ==
  /\ procs[p].pc \in {"rewriting", "replacing"}
  /\ files' = [files EXCEPT ![procs[p].day] = [exists |-> TRUE, recs |-> procs[p].kept]]
  /\ raced' = raced \cup Unread(p)
  /\ procs' = [procs EXCEPT ![p] =
                 AfterRewrite(p, IF procs[p].pc = "rewriting" THEN "rewrite" ELSE "replaced")]
  /\ UNCHANGED <<today, tombs, lapsed, core, spooled, evicted, torn, mishaps>>

ListToMeasure(p) ==
  /\ procs[p].pc = "expire"
  /\ procs[p].todo = {}
  /\ procs' = [procs EXCEPT ![p].pc = "measure", ![p].todo = Existing]
  /\ UNCHANGED <<today, files, tombs, lapsed, core, history, mishaps>>

\* After compaction a capture is done and a replay lists the files.
AfterCompaction(p) ==
  IF p = Replay THEN [Resting("read") EXCEPT !.todo = Existing] ELSE Resting("spooled")

Outcome(p) == Resting(IF p = Replay THEN "idle" ELSE "threw")

\* fs.stat of the next listed file; one that is gone by now raises ENOENT.
Measure(p) ==
  LET known == DOMAIN procs[p].sizes
      d == First(procs[p].todo \ known) IN
  /\ procs[p].pc = "measure"
  /\ ~(procs[p].todo \subseteq known)
  /\ procs' = [procs EXCEPT ![p] =
       IF d \in Existing
       THEN [procs[p] EXCEPT !.sizes =
               [c \in known \cup {d} |-> IF c = d THEN Len(files[d].recs) ELSE procs[p].sizes[c]]]
       ELSE Outcome(p)]
  /\ UNCHANGED <<today, files, tombs, lapsed, core, history, mishaps>>

Measured(p) == procs[p].pc = "measure" /\ procs[p].todo \subseteq DOMAIN procs[p].sizes

TooLarge(p) ==
  FoldFunctionOnSet(LAMBDA size, total : size + total, 0, procs[p].sizes, procs[p].todo)
    > MaxRecords

EvictOldest(p) ==
  LET d == First(procs[p].todo) IN
  /\ Measured(p)
  /\ procs[p].todo # {}
  /\ TooLarge(p)
  /\ evicted' = evicted \cup Range(files[d].recs)
  /\ files' = [files EXCEPT ![d] = NoFile]
  /\ procs' = [procs EXCEPT ![p].todo = @ \ {d}]
  /\ UNCHANGED <<today, tombs, lapsed, core, spooled, raced, torn, mishaps>>

CompactionEnds(p) ==
  /\ Measured(p)
  /\ ~TooLarge(p)
  /\ procs' = [procs EXCEPT ![p] = AfterCompaction(p)]
  /\ UNCHANGED <<today, files, tombs, lapsed, core, history, mishaps>>

-----------------------------------------------------------------------------
(* replaySpool, after its compaction *)

Decodable(e) == e \notin lapsed \cup Unreadable

\* readSpoolFile; a listed file that is gone raises ENOENT.  With no line
\* that can be decoded there is nothing to send and the file is removed.
ReadFile ==
  LET me == procs[Replay]
      d == First(me.todo)
      good == {e \in Range(files[d].recs) : Decodable(e)}
      bad == Range(files[d].recs) \ good IN
  /\ me.pc = "read"
  /\ me.todo # {}
  /\ procs' = [procs EXCEPT ![Replay] =
       IF ~files[d].exists THEN Resting("idle")
       ELSE [me EXCEPT !.pc = IF bad # {} THEN "report"
                              ELSE IF good = {} THEN "replaced" ELSE "send",
                       !.day = d, !.todo = @ \ {d}, !.seen = good \cup bad,
                       !.kept = Keeps(files[d].recs, good)]]
  /\ UNCHANGED <<today, files, tombs, lapsed, core, history, mishaps>>

\* The lines that cannot be decoded are tombstoned before anything is sent.
EntombInvalid ==
  /\ procs[Replay].pc = "report"
  /\ tombs' = Entombed(Dropped(Replay))
  /\ procs' = [procs EXCEPT ![Replay].pc = IF procs[Replay].kept = <<>> THEN "replaced" ELSE "send"]
  /\ UNCHANGED <<today, files, lapsed, core, history, mishaps>>

BatchLength(s) == IF Len(s) < BatchSize THEN Len(s) ELSE BatchSize
Batch(s) == {s[i] : i \in 1..BatchLength(s)}

\* Fault: only accepted events count.
DuplicatesNotHandled(batch) == batch \cap (Rejected \cup core) = {}

\* accepted + duplicate = batch.length
HandledAll(batch) == batch \cap Rejected = {}

\* Fault: the whole file is taken to be handled with its first batch.
NothingRemains(s) == <<>>

Remaining(s) == SubSeq(s, BatchLength(s) + 1, Len(s))

SendBatch ==
  LET me == procs[Replay]
      batch == Batch(me.kept) IN
  /\ me.pc = "send"
  /\ core' = core \cup (batch \ Rejected)
  /\ procs' = [procs EXCEPT ![Replay] =
       IF HandledAll(batch)
       THEN [me EXCEPT !.pc = "replaced", !.kept = Remaining(me.kept)]
       ELSE Resting("idle")]
  /\ UNCHANGED <<today, files, tombs, lapsed, history, mishaps>>

\* The request fails; the sidecar may have stored the batch before that.
SendFails ==
  LET me == procs[Replay] IN
  /\ me.pc = "send"
  /\ core' \in {core, core \cup (Batch(me.kept) \ Rejected)}
  /\ procs' = [procs EXCEPT ![Replay] = Resting("idle")]
  /\ UNCHANGED <<today, files, tombs, lapsed, history, mishaps>>

ReplayEnds ==
  /\ procs[Replay].pc = "read"
  /\ procs[Replay].todo = {}
  /\ procs' = [procs EXCEPT ![Replay] = Resting("idle")]
  /\ UNCHANGED <<today, files, tombs, lapsed, core, history, mishaps>>

-----------------------------------------------------------------------------
(* The environment *)

NextDay ==
  /\ today < LastDay
  /\ today' = today + 1
  /\ UNCHANGED <<files, tombs, lapsed, core, procs, history, mishaps>>

RetentionLapses(e) ==
  /\ e \in (Raw \cap spooled) \ lapsed
  /\ lapsed' = lapsed \cup {e}
  /\ UNCHANGED <<today, files, tombs, core, procs, history, mishaps>>

Writing == {"rewriting", "replacing"}
HeldBack == UNION {Range(procs[p].kept) : p \in {q \in Procs : procs[q].pc \in Writing}}

\* The plugin process dies: captures under way are gone, the files stay, those
\* that were just opened for a rewrite empty.
Crash ==
  /\ mishaps < MaxMishaps
  /\ mishaps' = mishaps + 1
  /\ torn' = torn \cup HeldBack
  /\ procs' = [p \in Procs |->
       IF p = Replay THEN Resting("idle")
       ELSE IF procs[p].pc \in Ended THEN procs[p]
       ELSE Resting("threw")]
  /\ UNCHANGED <<today, files, tombs, lapsed, core, spooled, evicted, raced>>

\* Before the next await of p's there is a call of fs.
AtFileCall(p) ==
  /\ procs[p].pc \notin Ended \cup {"idle", "send"}
  /\ procs[p].pc = "read" => procs[p].todo # {}
  /\ Measured(p) /\ p # Replay => TooLarge(p)

\* What a failing write leaves of the lines to write: some of the first ones.
Prefixes(s) == {SubSeq(s, 1, n) : n \in 0..(Len(s) - 1)}

\* A call of fs fails (disk full, I/O error).  A failing write has emptied the
\* file before.  Nothing is put right: the exception ends a capture, and a replay
\* either way, whether replaySpool catches it (index.js:80-83) or captureEvent.
FileCallFails(p) ==
  /\ AtFileCall(p)
  /\ mishaps < MaxMishaps
  /\ mishaps' = mishaps + 1
  /\ procs' = [procs EXCEPT ![p] = Outcome(p)]
  /\ IF procs[p].pc \in Writing
     THEN \E written \in Prefixes(procs[p].kept) :
            /\ files' = [files EXCEPT ![procs[p].day] = [exists |-> TRUE, recs |-> written]]
            /\ torn' = torn \cup (Range(procs[p].kept) \ Range(written))
            /\ raced' = raced \cup Unread(p)
     ELSE UNCHANGED <<files, raced, torn>>
  /\ UNCHANGED <<today, tombs, lapsed, core, spooled, evicted>>

Compaction(p) ==
  \/ ListToExpire(p) \/ ReadToExpire(p) \/ EntombExpired(p)
  \/ RemoveFile(p) \/ TruncateFile(p) \/ WriteFile(p)
  \/ ListToMeasure(p) \/ Measure(p) \/ EvictOldest(p) \/ CompactionEnds(p)

ReplayStep ==
  ReadFile \/ EntombInvalid \/ SendBatch \/ SendFails \/ ReplayEnds

Next ==
  \/ \E e \in Events : ForwardFails(e) \/ AppendSpool(e) \/ RetentionLapses(e)
  \/ ForwardOk
  \/ \E p \in Procs : Compaction(p) \/ FileCallFails(p)
  \/ ReplayStep
  \/ NextDay
  \/ Crash

Spec == Init /\ [][Next]_vars

\* Captures keep coming, so that replays keep starting; the event loop of the
\* process goes on with one of the things under way as long as there is one; and
\* a sidecar that is tried again and again answers some time.
Fairness ==
  /\ WF_vars(ForwardOk \/ ReplayStep \/ \E p \in Procs : Compaction(p))
  /\ SF_vars(SendBatch)

FairSpec == Spec /\ Fairness

-----------------------------------------------------------------------------
(* Properties *)

InFiles == UNION {Range(files[d].recs) : d \in Days}
Buried == {e \in Events : tombs[e] > 0}

\* The files, the histories and the local states have their declared shape,
\* and a file never holds two records of one event.
TypeOK ==
  /\ today \in Days
  /\ \A d \in Days :
       /\ files[d].exists \in BOOLEAN
       /\ Range(files[d].recs) \subseteq Events
       /\ Cardinality(Range(files[d].recs)) = Len(files[d].recs)
       /\ files[d].recs # <<>> => files[d].exists
  /\ tombs \in [Events -> 0..MaxTombs]
  /\ lapsed \subseteq Raw /\ InFiles \cup evicted \cup raced \cup torn \subseteq spooled
  /\ core \subseteq Events \ Rejected
  /\ \A p \in Procs :
       /\ procs[p].todo \subseteq Days
       /\ Range(procs[p].kept) \subseteq procs[p].seen /\ procs[p].seen \subseteq Events
       /\ procs[p].seen # {} =>
            procs[p].day \in Days /\ procs[p].pc \notin {"expire", "measure", "read"}
  /\ mishaps \in 0..MaxMishaps

\* Replay and compaction never drop a record they have read before it is
\* safe elsewhere: what a rewrite leaves out is stored by the sidecar or
\* tombstoned, through partial batches, lost answers and rejected events.
DroppedIsSafe ==
  \A p \in Procs :
    procs[p].pc \in {"rewrite", "rewriting", "replaced", "replacing"}
      => Dropped(p) \subseteq core \cup Buried

\* Every event that was ever spooled can be accounted for: its line is in a
\* file, or held for a moment by a rewrite that has emptied its file; the sidecar
\* has stored it; it is tombstoned; or it was evicted by the bound.  Only two
\* things lose one: a rewrite drops a line that came into the file after it had
\* been read, or breaks off, by a crash or a failing call, before it has written
\* back what it held.
SpooledIsAccounted ==
  spooled \subseteq InFiles \cup HeldBack \cup core \cup Buried \cup evicted \cup raced \cup torn

\* IMPLEMENTATION_PLAN.md:2176 "concurrent capture appends all failed events
\* to the bounded spool": a capture that reported {spooled: true} has its
\* event in the spool, in the sidecar, in a tombstone, or evicted by the bound,
\* at least while no process has crashed and no file call failed.
FailedEventsAreSpooled ==
  mishaps = 0 =>
    \A e \in Events :
      procs[e].pc = "spooled" =>
        e \in InFiles \cup HeldBack \cup core \cup Buried \cup evicted

\* With a sidecar that comes back, the one thing that can hold a record in
\* the spool for ever is a record the sidecar rejects, in the same file or in
\* an older one: undecodable lines, failed replays, crashes, failing
\* file calls and lost races do not block what is behind.
Blocked(e) ==
  \E c, d \in Days : c <= d /\ e \in Range(files[d].recs) /\ Range(files[c].recs) \cap Rejected # {}
SpoolDrains ==
  \A e \in Events \ Rejected : e \in InFiles ~> (e \notin InFiles \/ Blocked(e))
=============================================================================
