-------------------------- MODULE EnrichCacheProofs --------------------------
(***************************************************************************)
(* Proofs about EnrichCache, for any batch, items and lifetimes: what a    *)
(* call is answered with, what reaches Redis, and how long the tiers may   *)
(* disagree.                                                               *)
(***************************************************************************)
EXTENDS EnrichCache, TLAPS

USE DEF Promoted, Reachable, Goto

\* What a call holds: its own result while it stores, an L2 value while it
\* promotes, and in the end an answer for its key.
HeldInv ==
  \A i \in Positions :
    /\ pc[i] \in {"promote", "set1", "set2", "done"} =>
         result[i] \in Value /\ CacheKey(result[i].item) = Key(i)
    /\ pc[i] = "promote" => result[i].age < TTL
    /\ pc[i] \in {"set1", "set2"} => result[i].age = 0 /\ (result[i].late => cancelled)

\* L1 entries lie under their key; a promotion adds its TTL to their life and no
\* more.
L1Inv ==
  \A k \in Keys : l1[k] \in Entry =>
    /\ CacheKey(l1[k].val.item) = k
    /\ l1[k].val.age + l1[k].left < TTL + PromotionTTL

\* L2 entries lie under their key, live for one TTL, and come of calls that were
\* not cancelled.
L2Inv ==
  \A k \in Keys : l2[k] \in Entry =>
    /\ CacheKey(l2[k].val.item) = k
    /\ l2[k].val.age + l2[k].left = TTL
    /\ ~l2[k].val.late

\* An L1 entry that is newer than the L2 entry, or lives on a promotion only.
Recent(entry, age) == entry \in Entry => entry.val.age <= age \/ entry.left <= PromotionTTL

TiersInv ==
  /\ \A k \in Keys : l2[k] \in Entry => Recent(l1[k], l2[k].val.age)
  /\ \A i \in Positions : pc[i] = "set2" => Recent(l1[Key(i)], 0)

CacheInv == CacheTypeOK /\ HeldInv /\ L1Inv /\ L2Inv /\ TiersInv

LEMMA Lifetimes ==
  PromotionTTL \in Nat \ {0} /\ TTL \in Nat \ {0} /\ PromotionTTL <= TTL
BY CacheAssumption

\* A value of the age of a lifetime is a value, and an entry made of it an entry.
LEMMA EntryOf ==
  ASSUME NEW val \in Value, NEW left \in 1..TTL
  PROVE  /\ [val |-> val, left |-> left] \in Entry
         /\ [val |-> val, left |-> left].val = val
         /\ [val |-> val, left |-> left].left = left
BY DEF Entry

\* What a unit of time makes of an entry.
LEMMA OlderEntry ==
  ASSUME NEW entry \in Entry, NEW gone, gone \notin Entry,
         entry.val.age + entry.left < TTL + PromotionTTL
  PROVE  \/ entry.left = 1 /\ Older(entry, gone) = gone
         \/ /\ entry.left > 1
            /\ Older(entry, gone) \in Entry
            /\ Older(entry, gone).val.item = entry.val.item
            /\ Older(entry, gone).val.late = entry.val.late
            /\ Older(entry, gone).val.age = entry.val.age + 1
            /\ Older(entry, gone).left = entry.left - 1
<1>1. entry.val \in Value /\ entry.left \in 1..TTL /\ entry.val.age \in Nat
  BY Lifetimes DEF Entry, Value
<1>2. CASE entry.left = 1
  BY <1>2 DEF Older
<1>3. CASE entry.left # 1
  <2> DEFINE new == Aged(entry.val)
  <2>1. entry.val.age + 1 \in 0..(TTL + PromotionTTL - 2) /\ entry.left - 1 \in 1..TTL
    BY <1>1, <1>3, Lifetimes
  <2>2. new \in Value /\ new.item = entry.val.item /\ new.late = entry.val.late
          /\ new.age = entry.val.age + 1
    BY <1>1, <2>1 DEF Aged, Value
  <2>3. Older(entry, gone) = [val |-> new, left |-> entry.left - 1]
    BY <1>3 DEF Older
  <2> HIDE DEF new
  <2> QED BY <1>1, <1>3, <2>1, <2>2, <2>3, EntryOf
<1> QED BY <1>2, <1>3

LEMMA InitInv == CacheInit => CacheInv
<1> SUFFICES ASSUME CacheInit PROVE CacheInv
  OBVIOUS
<1>1. CacheTypeOK
  BY DEF CacheInit, CacheTypeOK
<1>2. HeldInv /\ L1Inv /\ L2Inv /\ TiersInv
  BY MarksAssumption DEF CacheInit, HeldInv, L1Inv, L2Inv, TiersInv, Keys, Recent
<1> QED BY <1>1, <1>2 DEF CacheInv

\* The steps of a call that write neither tier.
LEMMA QuietStep ==
  ASSUME CacheInv, NEW i \in Positions,
         Start(i) \/ GetL1(i) \/ GetL2(i) \/ EnrichItem(i)
  PROVE  CacheInv'
<1>1. Key(i) \in Keys
  BY DEF CacheInv, CacheTypeOK, Key, Keys
<1>2. CASE Start(i)
  <2>1. CacheTypeOK'
    BY <1>2 DEF CacheInv, CacheTypeOK, Start
  <2>2. HeldInv'
    BY <1>2 DEF CacheInv, CacheTypeOK, HeldInv, Start, Key
  <2>3. L1Inv' /\ L2Inv' /\ TiersInv'
    BY <1>2 DEF CacheInv, CacheTypeOK, L1Inv, L2Inv, TiersInv, Start, Key, Keys
  <2> QED BY <2>1, <2>2, <2>3 DEF CacheInv
<1>3. CASE GetL1(i)
  <2>0. l1[Key(i)] \in Entry \cup {None, Expired}
    BY <1>1 DEF CacheInv, CacheTypeOK
  <2>1. l1[Key(i)] \notin {None, Expired} =>
          l1[Key(i)].val \in Value /\ CacheKey(l1[Key(i)].val.item) = Key(i)
    BY <1>1, <2>0 DEF CacheInv, L1Inv, Entry
  <2>2. \/ /\ pc' = [pc EXCEPT ![i] = "l2"] /\ UNCHANGED result
        \/ /\ pc' = [pc EXCEPT ![i] = "expired"] /\ UNCHANGED result
        \/ /\ pc' = [pc EXCEPT ![i] = "done"]
           /\ result' = [result EXCEPT ![i] = l1[Key(i)].val]
           /\ l1[Key(i)] \notin {None, Expired}
    BY <1>3, MarksAssumption DEF GetL1
  <2>3. UNCHANGED <<items, cancelled, l1, l2>>
    BY <1>3 DEF GetL1
  <2>4. CacheTypeOK'
    BY <2>1, <2>2, <2>3 DEF CacheInv, CacheTypeOK, Keys
  <2>5. HeldInv'
    BY <2>1, <2>2, <2>3 DEF CacheInv, CacheTypeOK, HeldInv, Key
  <2>6. L1Inv' /\ L2Inv' /\ TiersInv'
    BY <2>2, <2>3 DEF CacheInv, CacheTypeOK, L1Inv, L2Inv, TiersInv, Key, Keys
  <2> QED BY <2>4, <2>5, <2>6 DEF CacheInv
<1>4. CASE GetL2(i)
  <2>0. l2[Key(i)] \in Entry \cup {None}
    BY <1>1 DEF CacheInv, CacheTypeOK
  <2>1. l2[Key(i)] # None =>
          /\ l2[Key(i)].val \in Value /\ CacheKey(l2[Key(i)].val.item) = Key(i)
          /\ l2[Key(i)].val.age < TTL
    BY <1>1, <2>0, Lifetimes DEF CacheInv, L2Inv, Entry, Value
  <2>2. \/ /\ pc' = [pc EXCEPT ![i] = "enrich"] /\ UNCHANGED result
        \/ /\ pc' = [pc EXCEPT ![i] = "promote"]
           /\ result' = [result EXCEPT ![i] = l2[Key(i)].val]
           /\ l2[Key(i)] # None
    BY <1>4 DEF GetL2
  <2>3. UNCHANGED <<items, cancelled, l1, l2>>
    BY <1>4 DEF GetL2
  <2>4. CacheTypeOK'
    BY <2>1, <2>2, <2>3 DEF CacheInv, CacheTypeOK, Keys
  <2>5. HeldInv'
    BY <2>1, <2>2, <2>3 DEF CacheInv, CacheTypeOK, HeldInv, Key
  <2>6. L1Inv' /\ L2Inv' /\ TiersInv'
    BY <2>2, <2>3 DEF CacheInv, CacheTypeOK, L1Inv, L2Inv, TiersInv, Key, Keys
  <2> QED BY <2>4, <2>5, <2>6 DEF CacheInv
<1>5. CASE EnrichItem(i)
  <2> DEFINE new == [item |-> items[i], late |-> cancelled, age |-> 0]
  <2>1. 0 \in 0..(TTL + PromotionTTL - 2)
    BY Lifetimes
  <2>2. new \in Value /\ new.age = 0 /\ new.late = cancelled /\ CacheKey(new.item) = Key(i)
    BY <2>1 DEF CacheInv, CacheTypeOK, Value, Key
  <2>3. /\ pc' = [pc EXCEPT ![i] = "set1"] /\ result' = [result EXCEPT ![i] = new]
        /\ UNCHANGED <<items, cancelled, l1, l2>>
    BY <1>5 DEF EnrichItem
  <2> HIDE DEF new
  <2>4. CacheTypeOK'
    BY <2>2, <2>3 DEF CacheInv, CacheTypeOK, Keys
  <2>5. HeldInv'
    BY <2>2, <2>3 DEF CacheInv, CacheTypeOK, HeldInv, Key
  <2>6. L1Inv' /\ L2Inv' /\ TiersInv'
    BY <2>3 DEF CacheInv, CacheTypeOK, L1Inv, L2Inv, TiersInv, Key, Keys
  <2> QED BY <2>4, <2>5, <2>6 DEF CacheInv
<1> QED BY <1>2, <1>3, <1>4, <1>5

\* A write of L1 that keeps the entries under their keys and no more recent than
\* an L2 entry would be.
LEMMA L1Step ==
  ASSUME CacheInv, NEW i \in Positions,
         DeleteL1(i) \/ Promote(i) \/ SetL1(i)
  PROVE  CacheInv'
<1>1. Key(i) \in Keys
  BY DEF CacheInv, CacheTypeOK, Key, Keys
<1>2. UNCHANGED <<items, cancelled, result, l2>>
  BY DEF DeleteL1, Promote, SetL1
<1>3. PICK entry \in Entry \cup {None}, label \in {"l2", "done", "set2"} :
        /\ l1' = [l1 EXCEPT ![Key(i)] = entry]
        /\ pc' = [pc EXCEPT ![i] = label]
        /\ entry \in Entry =>
             /\ CacheKey(entry.val.item) = Key(i)
             /\ entry.val.age + entry.left < TTL + PromotionTTL
             /\ entry.val.age = 0 \/ entry.left <= PromotionTTL
        /\ label # "l2" => result[i] \in Value /\ CacheKey(result[i].item) = Key(i)
        /\ label = "set2" => result[i].age = 0 /\ (result[i].late => cancelled)
  <2>1. CASE DeleteL1(i)
    BY <2>1, MarksAssumption DEF DeleteL1
  <2>2. CASE Promote(i)
    <3>1. result[i] \in Value /\ CacheKey(result[i].item) = Key(i) /\ result[i].age < TTL
      BY <2>2 DEF Promote, CacheInv, HeldInv
    <3>2. PromotionTTL \in 1..TTL /\ result[i].age \in Nat
      BY <3>1, Lifetimes DEF Value
    <3> DEFINE new == [val |-> result[i], left |-> PromotionTTL]
    <3>3. new \in Entry /\ new.val = result[i] /\ new.left = PromotionTTL
      BY <3>1, <3>2, EntryOf
    <3>4. l1' = [l1 EXCEPT ![Key(i)] = new] /\ pc' = [pc EXCEPT ![i] = "done"]
      BY <2>2 DEF Promote
    <3>5. new.val.age + new.left < TTL + PromotionTTL /\ new.left <= PromotionTTL
      BY <3>1, <3>2, <3>3, Lifetimes
    <3> HIDE DEF new
    <3> QED BY <3>1, <3>3, <3>4, <3>5
  <2>3. CASE SetL1(i)
    <3>1. result[i] \in Value /\ CacheKey(result[i].item) = Key(i) /\ result[i].age = 0
            /\ (result[i].late => cancelled)
      BY <2>3 DEF SetL1, CacheInv, HeldInv
    <3>2. TTL \in 1..TTL
      BY Lifetimes
    <3> DEFINE new == [val |-> result[i], left |-> TTL]
    <3>3. new \in Entry /\ new.val = result[i] /\ new.left = TTL
      BY <3>1, <3>2, EntryOf
    <3>4. l1' = [l1 EXCEPT ![Key(i)] = new] /\ pc' = [pc EXCEPT ![i] = "set2"]
      BY <2>3 DEF SetL1
    <3>5. new.val.age + new.left < TTL + PromotionTTL /\ new.val.age = 0
      BY <3>1, <3>2, <3>3, Lifetimes
    <3> HIDE DEF new
    <3> QED BY <3>1, <3>3, <3>4, <3>5
  <2> QED BY <2>1, <2>2, <2>3
<1>4. CacheTypeOK'
  BY <1>1, <1>2, <1>3 DEF CacheInv, CacheTypeOK, Keys
<1>5. HeldInv'
  BY <1>2, <1>3 DEF CacheInv, CacheTypeOK, HeldInv, Key
<1>6. L1Inv'
  BY <1>1, <1>2, <1>3, MarksAssumption DEF CacheInv, CacheTypeOK, L1Inv, Keys
<1>7. L2Inv'
  BY <1>2 DEF CacheInv, L2Inv, Keys
<1>8. TiersInv'
  <2>1. \A age \in Nat : Recent(entry, age)
    <3> SUFFICES ASSUME NEW age \in Nat, entry \in Entry
                 PROVE  entry.val.age <= age \/ entry.left <= PromotionTTL
      BY DEF Recent
    <3> QED BY <1>3 DEF Entry, Value
  <2>2. ASSUME NEW k \in Keys, l2[k] \in Entry
        PROVE  Recent(l1'[k], l2[k].val.age)
    <3>1. l2[k].val.age \in Nat
      BY <2>2, Lifetimes DEF Entry, Value
    <3>2. l1'[k] = IF k = Key(i) THEN entry ELSE l1[k]
      BY <1>3 DEF CacheInv, CacheTypeOK
    <3> QED BY <2>1, <2>2, <3>1, <3>2 DEF CacheInv, TiersInv
  <2>3. ASSUME NEW j \in Positions, pc'[j] = "set2"
        PROVE  Recent(l1'[Key(j)], 0)
    <3>1. Key(j) \in Keys
      BY DEF CacheInv, CacheTypeOK, Key, Keys
    <3>2. l1'[Key(j)] = IF Key(j) = Key(i) THEN entry ELSE l1[Key(j)]
      BY <1>3, <3>1 DEF CacheInv, CacheTypeOK
    <3>3. Key(j) # Key(i) => pc[j] = "set2"
      BY <1>3, <2>3 DEF CacheInv, CacheTypeOK
    <3> QED BY <2>1, <3>2, <3>3 DEF CacheInv, TiersInv
  <2>4. \A j \in Positions : Key(j)' = Key(j)
    BY <1>2 DEF Key
  <2> QED BY <1>2, <2>2, <2>3, <2>4 DEF TiersInv, Recent, Keys
<1> QED BY <1>4, <1>5, <1>6, <1>7, <1>8 DEF CacheInv

\* Redis is written by a call that has just written L1, if it is not cancelled.
LEMMA L2Step ==
  ASSUME CacheInv, NEW i \in Positions, SetL2(i)
  PROVE  CacheInv'
<1>1. Key(i) \in Keys
  BY DEF CacheInv, CacheTypeOK, Key, Keys
<1>2. UNCHANGED <<items, cancelled, result, l1>> /\ pc' = [pc EXCEPT ![i] = "done"]
  BY DEF SetL2
<1>3. /\ result[i] \in Value /\ CacheKey(result[i].item) = Key(i)
      /\ result[i].age = 0 /\ (result[i].late => cancelled)
  BY DEF SetL2, CacheInv, HeldInv
<1> DEFINE new == [val |-> result[i], left |-> TTL]
<1>4. new \in Entry /\ new.val = result[i] /\ new.left = TTL
  <2>1. TTL \in 1..TTL
    BY Lifetimes
  <2> QED BY <1>3, <2>1, EntryOf
<1>5. \/ ~cancelled /\ l2' = [l2 EXCEPT ![Key(i)] = new]
      \/ UNCHANGED l2
  BY DEF SetL2
<1> HIDE DEF new
<1>6. CacheTypeOK'
  BY <1>1, <1>2, <1>4, <1>5 DEF CacheInv, CacheTypeOK, Keys
<1>7. HeldInv'
  BY <1>2, <1>3 DEF CacheInv, CacheTypeOK, HeldInv, Key
<1>8. L1Inv'
  BY <1>2 DEF CacheInv, L1Inv, Keys
<1>9. L2Inv'
  <2>1. 0 + TTL = TTL
    BY Lifetimes
  <2> QED BY <1>1, <1>3, <1>4, <1>5, <2>1 DEF CacheInv, CacheTypeOK, L2Inv, Keys
<1>10. TiersInv'
  <2>1. Recent(l1[Key(i)], 0)
    BY DEF SetL2, CacheInv, TiersInv
  <2>2. ASSUME NEW k \in Keys, l2'[k] \in Entry
        PROVE  Recent(l1[k], l2'[k].val.age)
    <3>1. l2'[k] = l2[k] \/ (k = Key(i) /\ l2'[k] = new)
      BY <1>5 DEF CacheInv, CacheTypeOK
    <3> QED BY <1>3, <1>4, <2>1, <2>2, <3>1 DEF CacheInv, TiersInv
  <2>3. \A j \in Positions : pc'[j] = "set2" => Recent(l1[Key(j)], 0)
    BY <1>2 DEF CacheInv, CacheTypeOK, TiersInv
  <2>4. \A j \in Positions : Key(j)' = Key(j)
    BY <1>2 DEF Key
  <2> QED BY <1>2, <2>2, <2>3, <2>4 DEF TiersInv, Recent, Keys
<1> QED BY <1>6, <1>7, <1>8, <1>9, <1>10 DEF CacheInv

\* A unit of time ages both tiers alike; nobody holds a value on its way to one.
LEMMA TickStep ==
  ASSUME CacheInv, Tick
  PROVE  CacheInv'
<1>1. UNCHANGED <<items, cancelled, pc, result>>
  BY DEF Tick
<1>2. \A i \in Positions : pc[i] \notin {"promote", "set1", "set2"}
  BY DEF Tick
<1>3. ASSUME NEW k \in Keys
      PROVE  \/ l1[k] \in {None, Expired} /\ l1'[k] = l1[k]
             \/ l1[k] \in Entry /\ l1'[k] = Expired
             \/ /\ l1[k] \in Entry /\ l1[k].left > 1 /\ l1'[k] \in Entry
                /\ l1'[k].val.item = l1[k].val.item
                /\ l1'[k].val.age = l1[k].val.age + 1
                /\ l1'[k].left = l1[k].left - 1
  <2>1. l1'[k] = IF l1[k] \in {None, Expired} THEN l1[k] ELSE Older(l1[k], Expired)
    BY DEF Tick
  <2>2. l1[k] \in Entry \cup {None, Expired}
    BY DEF CacheInv, CacheTypeOK
  <2>3. l1[k] \in Entry => l1[k].val.age + l1[k].left < TTL + PromotionTTL
    BY DEF CacheInv, L1Inv
  <2> QED BY <2>1, <2>2, <2>3, OlderEntry, MarksAssumption
<1>4. ASSUME NEW k \in Keys
      PROVE  \/ l2'[k] = None
             \/ /\ l2[k] \in Entry /\ l2'[k] \in Entry
                /\ l2'[k].val.item = l2[k].val.item
                /\ l2'[k].val.late = l2[k].val.late
                /\ l2'[k].val.age = l2[k].val.age + 1
                /\ l2'[k].left = l2[k].left - 1
  <2>1. l2'[k] = IF l2[k] = None THEN None ELSE Older(l2[k], None)
    BY DEF Tick
  <2>2. l2[k] \in Entry \cup {None}
    BY DEF CacheInv, CacheTypeOK
  <2>3. l2[k] \in Entry => l2[k].val.age + l2[k].left < TTL + PromotionTTL
    BY Lifetimes DEF CacheInv, L2Inv
  <2> QED BY <2>1, <2>2, <2>3, OlderEntry, MarksAssumption
<1>5. \A k \in Keys :
        /\ l1[k] \in Entry => l1[k].val.age \in Nat /\ l1[k].left \in Nat
        /\ l2[k] \in Entry => l2[k].val.age \in Nat /\ l2[k].left \in Nat
  BY Lifetimes DEF Entry, Value
<1>6. CacheTypeOK'
  <2>1. l1' \in [Keys -> Entry \cup {None, Expired}]
    <3>1. \A k \in Keys : l1'[k] \in Entry \cup {None, Expired}
      BY <1>3
    <3> QED BY <3>1 DEF Tick
  <2>2. l2' \in [Keys -> Entry \cup {None}]
    <3>1. \A k \in Keys : l2'[k] \in Entry \cup {None}
      BY <1>4
    <3> QED BY <3>1 DEF Tick
  <2> QED BY <1>1, <2>1, <2>2 DEF CacheInv, CacheTypeOK, Keys
<1>7. HeldInv'
  BY <1>1 DEF CacheInv, HeldInv, Key
<1>8. L1Inv'
  <2>1. ASSUME NEW k \in Keys, l1'[k] \in Entry
        PROVE  /\ CacheKey(l1'[k].val.item) = k
               /\ l1'[k].val.age + l1'[k].left < TTL + PromotionTTL
    <3>1. /\ l1[k] \in Entry /\ l1'[k].val.item = l1[k].val.item
          /\ l1'[k].val.age = l1[k].val.age + 1
          /\ l1'[k].left = l1[k].left - 1
      BY <1>3, <2>1, MarksAssumption
    <3>2. CacheKey(l1[k].val.item) = k /\ l1[k].val.age + l1[k].left < TTL + PromotionTTL
      BY <3>1 DEF CacheInv, L1Inv
    <3> QED BY <1>5, <3>1, <3>2, Lifetimes
  <2> QED BY <2>1 DEF L1Inv, Keys
<1>9. L2Inv'
  <2>1. ASSUME NEW k \in Keys, l2'[k] \in Entry
        PROVE  /\ CacheKey(l2'[k].val.item) = k
               /\ l2'[k].val.age + l2'[k].left = TTL
               /\ ~l2'[k].val.late
    <3>1. /\ l2[k] \in Entry /\ l2'[k].val.item = l2[k].val.item
          /\ l2'[k].val.late = l2[k].val.late
          /\ l2'[k].val.age = l2[k].val.age + 1
          /\ l2'[k].left = l2[k].left - 1
      BY <1>4, <2>1, MarksAssumption
    <3>2. CacheKey(l2[k].val.item) = k /\ l2[k].val.age + l2[k].left = TTL /\ ~l2[k].val.late
      BY <3>1 DEF CacheInv, L2Inv
    <3> QED BY <1>5, <3>1, <3>2, Lifetimes
  <2> QED BY <2>1 DEF L2Inv, Keys
<1>10. TiersInv'
  <2>1. ASSUME NEW k \in Keys, l2'[k] \in Entry, l1'[k] \in Entry
        PROVE  l1'[k].val.age <= l2'[k].val.age \/ l1'[k].left <= PromotionTTL
    <3>1. /\ l1[k] \in Entry /\ l2[k] \in Entry
          /\ l1'[k].val.age = l1[k].val.age + 1 /\ l1'[k].left = l1[k].left - 1
          /\ l2'[k].val.age = l2[k].val.age + 1
      BY <1>3, <1>4, <2>1, MarksAssumption
    <3>2. l1[k].val.age <= l2[k].val.age \/ l1[k].left <= PromotionTTL
      BY <3>1 DEF CacheInv, TiersInv, Recent
    <3> QED BY <1>5, <3>1, <3>2, Lifetimes
  <2> QED BY <1>1, <1>2, <2>1 DEF TiersInv, Recent, Keys
<1> QED BY <1>6, <1>7, <1>8, <1>9, <1>10 DEF CacheInv

\* Every step of every call.
LEMMA NextInv == CacheInv /\ [CacheNext]_cacheVars => CacheInv'
<1> SUFFICES ASSUME CacheInv, [CacheNext]_cacheVars PROVE CacheInv'
  OBVIOUS
<1>1. CASE \E i \in Positions : CallStep(i)
  BY <1>1, QuietStep, L1Step, L2Step DEF CallStep
<1>2. CASE Cancel
  <2>1. CacheTypeOK' /\ HeldInv'
    BY <1>2 DEF Cancel, CacheInv, CacheTypeOK, HeldInv, Key, Keys
  <2>2. L1Inv' /\ L2Inv' /\ TiersInv'
    BY <1>2 DEF Cancel, CacheInv, L1Inv, L2Inv, TiersInv, Recent, Key, Keys
  <2> QED BY <2>1, <2>2 DEF CacheInv
<1>3. CASE Tick
  BY <1>3, TickStep
<1>4. CASE NewBatch
  <2>1. CacheTypeOK' /\ HeldInv'
    BY <1>4 DEF NewBatch, CacheInv, CacheTypeOK, HeldInv, Keys
  <2>2. L1Inv' /\ L2Inv' /\ TiersInv'
    BY <1>4 DEF NewBatch, CacheInv, L1Inv, L2Inv, TiersInv, Recent, Keys
  <2> QED BY <2>1, <2>2 DEF CacheInv
<1>5. CASE UNCHANGED cacheVars
  <2>1. CacheTypeOK' /\ HeldInv'
    BY <1>5 DEF cacheVars, CacheInv, CacheTypeOK, HeldInv, Key, Keys
  <2>2. L1Inv' /\ L2Inv' /\ TiersInv'
    BY <1>5 DEF cacheVars, CacheInv, L1Inv, L2Inv, TiersInv, Recent, Key, Keys
  <2> QED BY <2>1, <2>2 DEF CacheInv
<1> QED BY <1>1, <1>2, <1>3, <1>4, <1>5 DEF CacheNext

THEOREM AlwaysInv == CacheSpec => []CacheInv
BY InitInv, NextInv, PTL DEF CacheSpec

(***************************************************************************)
(* The theorems.                                                           *)
(***************************************************************************)
\* The cache and its calls stay well typed; no value outlives its TTL by more
\* than one promotion.
THEOREM CacheTypeCorrect == CacheSpec => []CacheTypeOK
BY AlwaysInv, PTL DEF CacheInv

\* A call is answered with a result for its page, its pins and its maps switch.
THEOREM AnswersOwnItemCorrect == CacheSpec => []AnswersOwnItem
<1>1. CacheInv => AnswersOwnItem
  BY DEF CacheInv, HeldInv, AnswersOwnItem, CacheKey, Key
<1> QED BY <1>1, AlwaysInv, PTL

\* Redis never holds the result of a cancelled call.
THEOREM CancelledNeverDurableCorrect == CacheSpec => []CancelledNeverDurable
<1>1. CacheInv => CancelledNeverDurable
  BY DEF CacheInv, CacheTypeOK, L2Inv, CancelledNeverDurable
<1> QED BY <1>1, AlwaysInv, PTL

\* An L1 entry older than the L2 entry of its key lives on a promotion.
THEOREM TiersDisagreeBrieflyCorrect == CacheSpec => []TiersDisagreeBriefly
<1>1. CacheInv => TiersDisagreeBriefly
  <2> SUFFICES ASSUME CacheInv, NEW k \in Keys, l1[k] \notin {None, Expired}, l2[k] # None,
                      l1[k].val.age > l2[k].val.age
               PROVE  l1[k].left <= PromotionTTL
    BY DEF TiersDisagreeBriefly
  <2>1. l1[k] \in Entry /\ l2[k] \in Entry
    BY DEF CacheInv, CacheTypeOK
  <2>2. l1[k].val.age \in Nat /\ l2[k].val.age \in Nat
    BY <2>1, Lifetimes DEF Entry, Value
  <2> QED BY <2>1, <2>2 DEF CacheInv, TiersInv, Recent
<1> QED BY <1>1, AlwaysInv, PTL
=============================================================================
