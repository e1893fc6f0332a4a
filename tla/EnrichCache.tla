----------------------------- MODULE EnrichCache -----------------------------
(***************************************************************************)
(* The result cache around Enrich (cacheKey and the cache check and store  *)
(* of enriche.go; cache/memory.go under cache/redis.go as cache/tiered.go  *)
(* composes them), used by the concurrent calls of EnrichBatch.            *)
(*                                                                         *)
(* No cache operation is atomic: an entry is loaded, found expired and     *)
(* deleted in two steps, looked up in L2 and promoted in two, and stored   *)
(* tier by tier.  Lifetimes are kept as the time that is left, in units of *)
(* the promotion TTL (5 minutes).  The cache's own steps take milliseconds *)
(* and no unit of time; an enrichment may take any time.  What Enrich      *)
(* computes is abstracted to the item it was computed for, its age, and    *)
(* whether the call had been cancelled when it was done.                   *)
(***************************************************************************)
EXTENDS Integers, FiniteSets

CONSTANTS
  Positions,   \* the positions of a batch, numbers: EnrichBatch takes them in order
  Limit,       \* e.concurrency
  Items,       \* records with the fields the cache key looks at, and e-mail of the seed
  TTL,         \* e.cacheTTL
  PromotionTTL,
  None, Expired  \* no entry; an entry past its time that nobody has deleted yet

\* seed: the six fields seedFingerprint hashes, "none" where nothing is pinned.
Item == [site : STRING, seed : STRING, email : STRING, skipMapsCheck : BOOLEAN]

ASSUME CacheAssumption ==
  /\ Positions \subseteq Nat /\ IsFiniteSet(Positions)
  /\ Limit \in Nat \ {0}     \* WithConcurrency ignores anything else
  /\ Items \subseteq Item
  /\ \A item \in Items : item.seed = "none" => item.email = ""
  /\ PromotionTTL \in Nat \ {0} /\ TTL \in Nat \ {0} /\ PromotionTTL <= TTL

VARIABLES
  items,      \* the batch
  cancelled,  \* its context has ended
  pc,         \* where the call of each position is
  result,     \* results[i], or what the call is about to store or promote
  l1,         \* Memory: an entry stays in the map until a Get finds it expired
  l2          \* Redis

cacheVars == <<items, cancelled, pc, result, l1, l2>>

BUG_V2Key(item) == <<item.site, item.seed>>

\* cacheKey and seedFingerprint; site is the URL, or the name of an item without.
CacheKey(item) == <<item.site, item.seed, item.skipMapsCheck>>

Keys == {CacheKey(item) : item \in Items}
Key(i) == CacheKey(items[i])

\* The age of a value counts whole units from its store: Redis holds it at ages
\* below TTL, and the last promotion adds one promotion TTL and no more.
Value == [item : Items, late : BOOLEAN, age : 0..(TTL + PromotionTTL - 2)]
Entry == [val : Value, left : 1..TTL]

ASSUME MarksAssumption == None # Expired /\ None \notin Entry /\ Expired \notin Entry

CacheTypeOK ==
  /\ items \in [Positions -> Items]
  /\ cancelled \in BOOLEAN
  /\ pc \in [Positions -> {"queued", "l1", "expired", "l2", "promote", "enrich",
                           "set1", "set2", "done"}]
  /\ result \in [Positions -> Value \cup {None}]
  /\ l1 \in [Keys -> Entry \cup {None, Expired}]
  /\ l2 \in [Keys -> Entry \cup {None}]

Goto(i, label) == pc' = [pc EXCEPT ![i] = label]

BUG_SlotsLeak == {i \in Positions : pc[i] # "queued"}

\* The goroutines of the errgroup that hold one of its slots.
Running == {i \in Positions : pc[i] \notin {"queued", "done"}}

\* g.Go: the loop waits for a slot, and does not look at the context.
Start(i) ==
  /\ pc[i] = "queued"
  /\ \A j \in Positions : j < i => pc[j] # "queued"
  /\ Cardinality(Running) < Limit
  /\ Goto(i, "l1")
  /\ UNCHANGED <<items, cancelled, result, l1, l2>>

\* Memory.Get loads the entry ...
GetL1(i) ==
  /\ pc[i] = "l1"
  /\ CASE l1[Key(i)] = None -> Goto(i, "l2") /\ UNCHANGED result
       [] l1[Key(i)] = Expired -> Goto(i, "expired") /\ UNCHANGED result
       [] OTHER -> Goto(i, "done") /\ result' = [result EXCEPT ![i] = l1[Key(i)].val]
  /\ UNCHANGED <<items, cancelled, l1, l2>>

\* ... and deletes whatever is there under the key by the time it gets to it.
DeleteL1(i) ==
  /\ pc[i] = "expired"
  /\ l1' = [l1 EXCEPT ![Key(i)] = None]
  /\ Goto(i, "l2")
  /\ UNCHANGED <<items, cancelled, result, l2>>

BUG_DetachedContext == TRUE

\* Redis takes no command of a context that has ended.
Reachable == ~cancelled

\* Redis.Get: any error is a miss.
GetL2(i) ==
  /\ pc[i] = "l2"
  /\ \/ /\ Reachable /\ l2[Key(i)] # None
        /\ result' = [result EXCEPT ![i] = l2[Key(i)].val]
        /\ Goto(i, "promote")
     \/ Goto(i, "enrich") /\ UNCHANGED result
  /\ UNCHANGED <<items, cancelled, l1, l2>>

BUG_PromotedForTTL(val) == [val |-> val, left |-> TTL]

Promoted(val) == [val |-> val, left |-> PromotionTTL]

\* Tiered.Get of an L2 hit.
Promote(i) ==
  /\ pc[i] = "promote"
  /\ l1' = [l1 EXCEPT ![Key(i)] = Promoted(result[i])]
  /\ Goto(i, "done")
  /\ UNCHANGED <<items, cancelled, result, l2>>

\* The enrichment itself; nothing distinguishes the result of a cancelled call.
EnrichItem(i) ==
  /\ pc[i] = "enrich"
  /\ result' = [result EXCEPT ![i] = [item |-> items[i], late |-> cancelled, age |-> 0]]
  /\ Goto(i, "set1")
  /\ UNCHANGED <<items, cancelled, l1, l2>>

\* Tiered.Set: L1 ...
SetL1(i) ==
  /\ pc[i] = "set1"
  /\ l1' = [l1 EXCEPT ![Key(i)] = [val |-> result[i], left |-> TTL]]
  /\ Goto(i, "set2")
  /\ UNCHANGED <<items, cancelled, result, l2>>

\* ... then L2, which may fail without anybody noticing.
SetL2(i) ==
  /\ pc[i] = "set2"
  /\ \/ Reachable /\ l2' = [l2 EXCEPT ![Key(i)] = [val |-> result[i], left |-> TTL]]
     \/ UNCHANGED l2
  /\ Goto(i, "done")
  /\ UNCHANGED <<items, cancelled, result, l1>>

Cancel ==
  /\ ~cancelled
  /\ cancelled' = TRUE
  /\ UNCHANGED <<items, pc, result, l1, l2>>

Aged(val) == [val EXCEPT !.age = @ + 1]
Older(entry, gone) ==
  IF entry.left = 1 THEN gone ELSE [val |-> Aged(entry.val), left |-> entry.left - 1]

\* A promotion TTL passes.
Tick ==
  /\ \A i \in Positions : pc[i] \notin {"promote", "set1", "set2"}
  /\ l1' = [k \in Keys |-> IF l1[k] \in {None, Expired} THEN l1[k] ELSE Older(l1[k], Expired)]
  /\ l2' = [k \in Keys |-> IF l2[k] = None THEN None ELSE Older(l2[k], None)]
  /\ UNCHANGED <<items, cancelled, pc, result>>

\* The next EnrichBatch of this Enricher.
NewBatch ==
  /\ \A i \in Positions : pc[i] = "done"
  /\ items' \in [Positions -> Items]
  /\ cancelled' = FALSE
  /\ pc' = [i \in Positions |-> "queued"]
  /\ result' = [i \in Positions |-> None]
  /\ UNCHANGED <<l1, l2>>

CacheInit ==
  /\ items \in [Positions -> Items]
  /\ cancelled = FALSE
  /\ pc = [i \in Positions |-> "queued"]
  /\ result = [i \in Positions |-> None]
  /\ l1 = [k \in Keys |-> None]
  /\ l2 = [k \in Keys |-> None]

CallStep(i) ==
  \/ Start(i) \/ GetL1(i) \/ DeleteL1(i) \/ GetL2(i) \/ Promote(i)
  \/ EnrichItem(i) \/ SetL1(i) \/ SetL2(i)

CacheNext == (\E i \in Positions : CallStep(i)) \/ Cancel \/ Tick \/ NewBatch

\* Goroutines run, and the enrichment of an item ends: every request of it has a
\* timeout.  Nobody has to start another batch.
CacheSpec ==
  /\ CacheInit /\ [][CacheNext]_cacheVars
  /\ \A i \in Positions : WF_cacheVars(CallStep(i))

(***************************************************************************)
(* Properties.                                                             *)
(***************************************************************************)
\* A promotion that raced with a newer Set leaves the older value in L1 in front
\* of the newer one of L2 (Tiered.Get and Set share no lock), but never for
\* longer than the promotion TTL.
TiersDisagreeBriefly ==
  \A k \in Keys :
    (l1[k] \notin {None, Expired} /\ l2[k] # None) =>
      (l1[k].val.age > l2[k].val.age => l1[k].left <= PromotionTTL)

\* Enrich stores whatever it has, so what a cancelled call came up with is served
\* by Memory like any result; it never reaches Redis, by a store or by way of L1.
CancelledNeverDurable == \A k \in Keys : l2[k] # None => ~l2[k].val.late

\* "A skip=true blob must never be served to a skip=false caller" (cacheKey): the
\* slot of an item holds a result for the same page or name, the same pinned
\* values and the same maps check, however the calls of the batch interleave with
\* expiry and promotion.
AnswersOwnItem ==
  \A i \in Positions :
    pc[i] = "done" =>
      /\ result[i].item.site = items[i].site
      /\ result[i].item.seed = items[i].seed
      /\ result[i].item.skipMapsCheck = items[i].skipMapsCheck

\* EnrichBatch returns: every item gets a result, cancelled or not, cached or not.
BatchEnds == \A i \in Positions : pc[i] = "queued" ~> pc[i] = "done"

\* "A different seed MUST resolve to a different entry" (cacheKey); a pinned
\* e-mail is part of the seed.
SeedIsIdentity == \A i \in Positions : pc[i] = "done" => result[i].item.email = items[i].email

=============================================================================
