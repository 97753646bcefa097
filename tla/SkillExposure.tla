--------------------------- MODULE SkillExposure ---------------------------
(***************************************************************************)
(* SkillLifecycle composed with the context broker of the API process: the *)
(* hints that offer the skill to a runtime, and the cache in front of      *)
(* them (services/broker.py).  Freeze and critical canary calls evict the  *)
(* hints of their skill; curation, topology and revocation run in other    *)
(* processes and cannot.                                                   *)
(***************************************************************************)
EXTENDS SkillLifecycle

CONSTANTS
  Requests  \* context-hint requests of one intent in progress

VARIABLES
  cache, \* "none", or the cached answer that offers the skill: "offers", or
         \* "late" when it was being rendered during an eviction
  hints  \* the requests: "idle", rendering an answer that "offers" it, or "late"

exposureVars == <<vars, cache, hints>>

ExposureInit ==
  /\ Init
  /\ cache = "none"
  /\ hints = [r \in Requests |-> "idle"]

\* RUNTIME_VISIBLE_LIFECYCLE_STATES; nothing sets canary_active
RuntimeVisible == {"active"}

\* A miss: lexical_query locks the workspace row and reads the state.  A hit
\* answers from the cache and changes nothing; an answer without the skill is
\* cached like any other and is not followed here.
Retrieve(r) ==
  /\ hints[r] = "idle"
  /\ cache = "none"
  /\ RowFree
  /\ state \in RuntimeVisible
  /\ hints' = [hints EXCEPT ![r] = "offers"]
  /\ UNCHANGED <<vars, cache>>

\* cache.set, after the awaits that record the decision
StoreHint(r) ==
  /\ hints[r] # "idle"
  /\ cache' = hints[r]
  /\ hints' = [hints EXCEPT ![r] = "idle"]
  /\ UNCHANGED vars

\* One of those records raises: nothing is cached.
HintFails(r) ==
  /\ hints[r] # "idle"
  /\ hints' = [hints EXCEPT ![r] = "idle"]
  /\ UNCHANGED <<vars, cache>>

\* ttl_seconds have passed
Expire ==
  /\ cache # "none"
  /\ cache' = "none"
  /\ UNCHANGED <<vars, hints>>

\* Fault: the entries of other skills are evicted.
NotEvicted == cache

\* invalidate(skill_ids): the entries that name the skill
Evicted == "none"

EvictHints(k) ==
  /\ Evict(k)
  /\ cache' = Evicted
  /\ hints' = [r \in Requests |-> IF hints[r] = "offers" THEN "late" ELSE hints[r]]

ApiRestart ==
  /\ ApiCrash
  /\ cache' = "none"
  /\ hints' = [r \in Requests |-> "idle"]

BrokerNext ==
  \/ \E r \in Requests : Retrieve(r) \/ StoreHint(r) \/ HintFails(r)
  \/ \E k \in Calls : EvictHints(k)
  \/ Expire \/ ApiRestart

LifecycleNext == WriterNext \/ ControlNext \/ CurationNext \/ TopologyNext

Next == BrokerNext \/ (LifecycleNext /\ UNCHANGED <<cache, hints>>)

Spec == ExposureInit /\ [][Next]_exposureVars

-----------------------------------------------------------------------------
(* Properties *)

\* The lifecycle's variables, the cache and the requests have their shapes.
TypeOK ==
  /\ LifecycleTypeOK
  /\ cache \in {"none", "offers", "late"}
  /\ hints \in [Requests -> {"idle", "offers", "late"}]

\* docs/IMPLEMENTATION_PLAN.md:2490 "freeze/critical-canary paths evict
\* affected skill hints immediately": while the skill is frozen and no call is
\* between its commit and its eviction, the cache offers it only through a
\* request that retrieved it before the freeze and stored its answer after the
\* eviction, or because a call that froze it has failed without evicting.
FrozenHintIsLate ==
  state = "frozen" /\ (\A k \in Calls : api[k] = "idle") /\ ~missed => cache # "offers"
=============================================================================
