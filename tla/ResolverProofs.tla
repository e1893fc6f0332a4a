--------------------------- MODULE ResolverProofs ---------------------------
(***************************************************************************)
(* Proofs about Resolver for every set of fields and values.               *)
(*                                                                         *)
(* StrongestOfferWins alone is not inductive: a locked phone has no offer  *)
(* to point to, so the invariant must also remember that the lock is the   *)
(* content of the slot, and that the operator, the only source above the   *)
(* lock, speaks first or never.  That nobody has spoken while the item is  *)
(* being seeded is what makes an operator pin final.  For the facts that   *)
(* have no comparator it must remember who can have spoken so far: nothing *)
(* else makes the first source that offers one also the strongest.         *)
(***************************************************************************)
EXTENDS Resolver, TLAPS

\* The slot holds a strongest offer of off, or nobody has offered anything.
Won(f, slot, off) ==
  \/ /\ slot.val \in Values[f]
     /\ <<f, slot.source, slot.val>> \in off
     /\ \A s \in Sources, v \in Values[f] : s > slot.source => <<f, s, v>> \notin off
  \/ /\ slot.val = Absent
     /\ slot.source = None
     /\ slot.conf = "low"
     /\ \A s \in Sources, v \in Values[f] : <<f, s, v>> \notin off

Locked ==
  /\ slots["phone"].val = Absent
  /\ slots["phone"].source = PoisonLock
  /\ \A v \in Values["phone"] : <<"phone", Operator, v>> \notin offered

SlotsInv ==
  \A f \in Fields : (f = "phone" /\ phonePoisoned) \/ Won(f, slots[f], offered)

IInv ==
  /\ ResolverTypeOK
  /\ SlotsInv
  /\ phonePoisoned => Locked
  /\ phase = "seed" => offered = {} /\ ~phonePoisoned

\* off2 is off with the offer v of source src for f, if v is a value.
Extends(f, off, off2, src, v) ==
  \A s \in Sources, w \in Values[f] :
    <<f, s, w>> \in off2 <=> <<f, s, w>> \in off \/ (s = src /\ w = v)

-----------------------------------------------------------------------------
\* Merging one value leaves the slot with a strongest offer.
LEMMA SetKeepsStrongest ==
  ASSUME NEW f \in Fields, NEW slot \in Slot, NEW off, NEW off2,
         NEW src \in Sources, src # None, NEW conf \in Confidences,
         NEW v \in Values[f] \cup {Absent},
         Absent \notin Values[f],
         Won(f, slot, off), Extends(f, off, off2, src, v)
  PROVE  /\ Won(f, Set(slot, v, src, conf), off2)
         /\ Won(f, SetPreferLonger(slot, v, src, conf), off2)
<1>0. slot.source \in Sources
  BY DEF Slot
<1>1. CASE v = Absent
  BY <1>0, <1>1 DEF Won, Extends, Set, SetPreferLonger
<1>2. CASE v \in Values[f]
  <2>1. ASSUME src >= slot.source
        PROVE  Won(f, [val |-> v, source |-> src, conf |-> conf], off2)
    <3>1. <<f, src, v>> \in off2
      BY <1>2 DEF Extends
    <3>2. ASSUME NEW s \in Sources, NEW w \in Values[f], s > src
          PROVE  <<f, s, w>> \notin off2
      BY <1>0, <2>1, <3>2 DEF Won, Extends, Sources, None, Operator
    <3>3. QED
      BY <1>2, <3>1, <3>2 DEF Won
  <2>2. ASSUME ~Takes(slot, src)
        PROVE  Won(f, slot, off2)
    <3>1. src < slot.source
      BY <1>0, <2>2 DEF Takes, Sources, None, Operator
    <3>2. slot.val \in Values[f]
      BY <2>2 DEF Takes, Won
    <3>3. ASSUME NEW s \in Sources, NEW w \in Values[f], s > slot.source
          PROVE  <<f, s, w>> \notin off2
      BY <1>0, <3>1, <3>2, <3>3 DEF Won, Extends, Sources, None, Operator
    <3>4. QED
      BY <1>0, <3>2, <3>3 DEF Won, Extends
  <2>3. ASSUME slot.val # Absent, slot.source = src
        PROVE  Won(f, slot, off2)
    BY <1>0, <1>2, <2>3 DEF Won, Extends, Sources, None, Operator
  <2>4. Takes(slot, src) => src >= slot.source
    BY <1>0 DEF Takes, Sources, None, Operator
  <2>5. QED
    BY <1>2, <2>1, <2>2, <2>3, <2>4 DEF Set, SetPreferLonger
<1>3. QED
  BY <1>1, <1>2

\* Values[f] holds proper values only.
LEMMA ValuesAreProper ==
  ASSUME NEW f \in Fields
  PROVE  Values[f] \subseteq AllValues /\ Absent \notin Values[f]
BY ValuesAssumption DEF AllValues

\* An offer for the fields F says nothing of the others.
LEMMA OfferShape ==
  ASSUME NEW F, NEW v \in OfferedValues(F), NEW f \in Fields
  PROVE  /\ v[f] \in Values[f] \cup {Absent}
         /\ f \notin F => v[f] = Absent
BY DEF OfferedValues

\* The history grows by exactly the offer, field by field.
LEMMA RecordExtends ==
  ASSUME NEW F, NEW src \in Sources, NEW o, o.val \in OfferedValues(F),
         Record(F, src, o), NEW f \in Fields
  PROVE  Extends(f, offered, offered', src, o.val[f])
<1>1. \A w \in Values[f] : o.val[f] = w => f \in F /\ o.val[f] # Absent
  BY OfferShape, ValuesAreProper
<1>2. QED
  BY <1>1 DEF Extends, Record

\* The history stays well typed.
LEMMA RecordType ==
  ASSUME NEW F, NEW src \in Speakers, NEW o, o.val \in OfferedValues(F),
         o.fills \subseteq FillFields, Record(F, src, o),
         offered \subseteq Fields \X Speakers \X AllValues,
         filled \subseteq FillFields \X Speakers
  PROVE  /\ offered' \subseteq Fields \X Speakers \X AllValues
         /\ filled' \subseteq FillFields \X Speakers
<1>1. \A f \in Fields : o.val[f] # Absent => o.val[f] \in AllValues
  BY OfferShape, ValuesAreProper
<1>2. QED
  BY <1>1 DEF Record

\* A merge of one value keeps the slot well typed.
LEMMA SetType ==
  ASSUME NEW f \in Fields, NEW slot \in Slot, NEW src \in Sources,
         NEW conf \in Confidences, NEW v \in Values[f] \cup {Absent}
  PROVE  /\ Set(slot, v, src, conf) \in Slot
         /\ SetPreferLonger(slot, v, src, conf) \in Slot
         /\ DropPhone(slot) \in Slot
BY ValuesAreProper DEF Set, SetPreferLonger, DropPhone, Slot, Sources,
   Confidences, None, PoisonLock, Operator

-----------------------------------------------------------------------------
\* The empty slots satisfy the invariant.
LEMMA InitInv == ResolverInit => IInv
<1> SUFFICES ASSUME ResolverInit PROVE IInv
  OBVIOUS
<1>1. EmptySlot \in Slot /\ None \in Sources
  BY DEF EmptySlot, Slot, Sources, Confidences, None, Operator
<1>2. ResolverTypeOK
  BY <1>1 DEF ResolverInit, ResolverTypeOK, Phases
<1>3. SlotsInv
  BY DEF ResolverInit, SlotsInv, Won, EmptySlot
<1>4. QED
  BY <1>2, <1>3 DEF ResolverInit, IInv

\* A merge that only calls set preserves the invariant, if operator values
\* are merged before anything else.
LEMMA PlainStep ==
  ASSUME IInv,
         NEW F, NEW src \in {Operator, Maps, Search}, NEW conf \in Confidences,
         NEW o, o.val \in OfferedValues(F), o.fills \subseteq FillFields,
         MergePlain(F, src, conf, o),
         src = Operator => phase = "seed",
         phase' \in Phases \ {"seed"}
  PROVE  IInv'
<1> USE DEF IInv, ResolverTypeOK
<1>0. src \in Sources /\ src # None /\ src \in Speakers
  BY DEF Sources, Speakers, None, Operator, Maps, Search
<1>1. ResolverTypeOK'
  <2>1. slots' \in [Fields -> Slot]
    BY <1>0, SetType, OfferShape DEF MergePlain
  <2>2. fills' \in [FillFields -> Sources]
    BY <1>0 DEF MergePlain, Fill
  <2>3. conflicts' \subseteq Fields
    BY DEF MergePlain
  <2>4. /\ offered' \subseteq Fields \X Speakers \X AllValues
        /\ filled' \subseteq FillFields \X Speakers
    BY <1>0, RecordType DEF MergePlain
  <2>5. QED
    BY <2>1, <2>2, <2>3, <2>4 DEF MergePlain
<1>2. SlotsInv'
  <2> SUFFICES ASSUME NEW f \in Fields, ~(f = "phone" /\ phonePoisoned)
               PROVE  Won(f, slots'[f], offered')
    BY DEF SlotsInv, MergePlain
  <2>1. Extends(f, offered, offered', src, o.val[f])
    BY <1>0, RecordExtends DEF MergePlain
  <2>2. Won(f, slots[f], offered)
    BY DEF SlotsInv
  <2>3. Won(f, Set(slots[f], o.val[f], src, conf), offered')
    BY <1>0, <2>1, <2>2, OfferShape, ValuesAreProper, SetKeepsStrongest
  <2>4. f \notin F => Set(slots[f], o.val[f], src, conf) = slots[f]
    BY OfferShape DEF Set
  <2>5. QED
    BY <2>3, <2>4 DEF MergePlain
<1>3. phonePoisoned' => Locked'
  <2> SUFFICES ASSUME phonePoisoned PROVE Locked'
    BY DEF MergePlain
  <2>1. src \in {Maps, Search} /\ Locked
    OBVIOUS
  <2>2. slots'["phone"] = slots["phone"]
    <3>1. ~Takes(slots["phone"], src)
      BY <2>1 DEF Locked, Takes, PoisonLock, None, Maps, Search
    <3>2. QED
      BY <3>1, FieldsAssumption DEF MergePlain, Set
  <2>3. Extends("phone", offered, offered', src, o.val["phone"])
    BY <1>0, RecordExtends, FieldsAssumption DEF MergePlain
  <2>4. QED
    BY <2>1, <2>2, <2>3 DEF Locked, Extends, Sources, None, Operator, Maps, Search
<1>4. QED
  BY <1>1, <1>2, <1>3

\* One field of a site merge.
LEMMA SiteField ==
  ASSUME IInv, NEW o \in SiteOffers, MergeSite(o), NEW f \in Fields,
         ~(f = "phone" /\ (o.poisoned \/ phonePoisoned))
  PROVE  Won(f, slots'[f], offered')
<1> USE DEF IInv, ResolverTypeOK
<1>1. OfficialSite \in Sources /\ OfficialSite # None /\ "high" \in Confidences
  BY DEF Sources, Confidences, OfficialSite, None, Operator
<1>2. Extends(f, offered, offered', OfficialSite, o.val[f])
  BY <1>1, RecordExtends DEF MergeSite, SiteOffers
<1>3. Won(f, slots[f], offered)
  BY DEF SlotsInv
<1>4. o.val[f] \in Values[f] \cup {Absent} /\ Absent \notin Values[f]
  BY OfferShape, ValuesAreProper DEF SiteOffers
<1>5. /\ Won(f, Set(slots[f], o.val[f], OfficialSite, "high"), offered')
      /\ Won(f, SetPreferLonger(slots[f], o.val[f], OfficialSite, "high"), offered')
  BY <1>1, <1>2, <1>3, <1>4, SetKeepsStrongest
<1>6. QED
  BY <1>5 DEF MergeSite, MergeSiteField

\* The phone of a site merge: a verdict locks it, a lock survives it.
LEMMA SitePhone ==
  ASSUME IInv, NEW o \in SiteOffers, MergeSite(o)
  PROVE  /\ phonePoisoned' => Locked'
         /\ ~phonePoisoned' => Won("phone", slots'["phone"], offered')
<1> USE DEF IInv, ResolverTypeOK
<1> DEFINE slot == slots["phone"]
<1>0. "phone" \in Fields /\ slot \in Slot /\ slot.source \in Sources
  BY FieldsAssumption DEF Slot
<1>1. Extends("phone", offered, offered', OfficialSite, o.val["phone"])
  BY <1>0, RecordExtends DEF MergeSite, SiteOffers, Sources, OfficialSite, None, Operator
<1>2. \A v \in Values["phone"] :
        <<"phone", Operator, v>> \in offered' => <<"phone", Operator, v>> \in offered
  BY <1>0, <1>1 DEF Extends, Sources, OfficialSite, None, Operator
<1>3. CASE phonePoisoned
  <2>1. slots'["phone"] = slot
    BY <1>0, <1>3 DEF MergeSite, MergeSiteField, Set, DropPhone, Takes, Locked,
       PoisonLock, OfficialSite, None
  <2>2. phonePoisoned'
    BY <1>3 DEF MergeSite
  <2>3. Locked
    BY <1>3
  <2>4. Locked'
    BY <1>2, <2>1, <2>3 DEF Locked
  <2>5. QED
    BY <2>2, <2>4
<1>4. CASE ~phonePoisoned /\ ~o.poisoned
  BY <1>0, <1>4, SiteField DEF MergeSite
<1>5. CASE ~phonePoisoned /\ o.poisoned /\ slot.source < OfficialSite
  <2>1. slots'["phone"] = [val |-> Absent, source |-> PoisonLock, conf |-> "low"]
    BY <1>0, <1>5 DEF MergeSite, MergeSiteField, DropPhone, Sources, OfficialSite,
       None, Operator
  <2>2. Won("phone", slot, offered)
    BY <1>0, <1>5 DEF SlotsInv
  <2>3. Operator \in Sources /\ Operator > slot.source
    BY <1>0, <1>5 DEF Sources, OfficialSite, None, Operator
  <2>4. \A v \in Values["phone"] : <<"phone", Operator, v>> \notin offered
    BY <2>2, <2>3 DEF Won
  <2>5. phonePoisoned'
    BY <1>5 DEF MergeSite
  <2>6. \A v \in Values["phone"] : <<"phone", Operator, v>> \notin offered'
    BY <1>2, <2>4
  <2>7. Locked'
    BY <2>1, <2>6 DEF Locked
  <2>8. QED
    BY <2>5, <2>7
<1>6. CASE ~phonePoisoned /\ o.poisoned /\ slot.source >= OfficialSite
  <2>1. slots'["phone"] = slot /\ ~phonePoisoned'
    BY <1>0, <1>6 DEF MergeSite, MergeSiteField, DropPhone, Sources, OfficialSite,
       None, Operator
  <2>2. o.val["phone"] = Absent /\ Absent \notin Values["phone"]
    BY <1>0, <1>6, ValuesAreProper DEF SiteOffers
  <2>3. Won("phone", slot, offered)
    BY <1>0, <1>6 DEF SlotsInv
  <2>4. Won("phone", slot, offered')
    BY <1>0, <1>1, <2>2, <2>3 DEF Won, Extends
  <2>5. QED
    BY <2>1, <2>4
<1>7. QED
  BY <1>0, <1>3, <1>4, <1>5, <1>6 DEF Sources, OfficialSite, None, Operator

\* A merge of a site page preserves the invariant.
LEMMA SiteStep ==
  ASSUME IInv, NEW o \in SiteOffers, MergeSite(o), phase' \in Phases \ {"seed"}
  PROVE  IInv'
<1> USE DEF IInv, ResolverTypeOK
<1>0. OfficialSite \in Sources /\ OfficialSite \in Speakers /\ "high" \in Confidences
  BY DEF Sources, Speakers, Confidences, OfficialSite, None, Operator
<1>1. ResolverTypeOK'
  <2>1. ASSUME NEW f \in Fields
        PROVE  MergeSiteField(f, slots[f], o) \in Slot
    <3>1. o.val[f] \in Values[f] \cup {Absent} /\ slots[f] \in Slot
      BY OfferShape DEF SiteOffers
    <3>2. QED
      BY <1>0, <3>1, SetType DEF MergeSiteField
  <2>2. slots' \in [Fields -> Slot]
    BY <2>1 DEF MergeSite
  <2>3. fills' \in [FillFields -> Sources]
    BY <1>0 DEF MergeSite, Fill
  <2>4. conflicts' \subseteq Fields /\ phonePoisoned' \in BOOLEAN /\ url' \in BOOLEAN
    BY DEF MergeSite, SiteOffers
  <2>5. /\ offered' \subseteq Fields \X Speakers \X AllValues
        /\ filled' \subseteq FillFields \X Speakers
    BY <1>0, RecordType DEF MergeSite, SiteOffers
  <2>6. QED
    BY <2>2, <2>3, <2>4, <2>5
<1>2. phonePoisoned' => Locked'
  BY SitePhone
<1>3. SlotsInv'
  <2> SUFFICES ASSUME NEW f \in Fields, ~(f = "phone" /\ phonePoisoned')
               PROVE  Won(f, slots'[f], offered')
    BY DEF SlotsInv
  <2>1. CASE f = "phone"
    BY <2>1, SitePhone
  <2>2. CASE f # "phone"
    BY <2>2, SiteField
  <2>3. QED
    BY <2>1, <2>2
<1>4. QED
  BY <1>1, <1>2, <1>3

\* Every step preserves the invariant: one step per merge of Enrich.
LEMMA NextInv == IInv /\ [ResolverNext]_resolverVars => IInv'
<1> SUFFICES ASSUME IInv, [ResolverNext]_resolverVars PROVE IInv'
  OBVIOUS
<1>0. \A src \in {Operator, Maps, Search} : ConfidenceFor(src) \in Confidences
  BY DEF ConfidenceFor, Confidences
<1>1. ASSUME NEW o \in Offers(SeedFields, {"coords"}), SeedOperatorValues(o)
      PROVE  IInv'
  BY <1>0, <1>1, PlainStep DEF SeedOperatorValues, Offers, Phases
<1>2. ASSUME NEW o \in Offers(OrgFields, {"coords"}), MergeOrg(o) PROVE IInv'
  <2>1. ConfidenceForMaps(o.val) \in Confidences
    BY DEF ConfidenceForMaps, Confidences
  <2>2. /\ Maps # Operator /\ phase' \in Phases \ {"seed"}
        /\ o.val \in OfferedValues(OrgFields) /\ o.fills \subseteq FillFields
    BY <1>2 DEF MergeOrg, Offers, Maps, Operator, Phases
  <2>3. QED
    BY <1>2, <2>1, <2>2, PlainStep DEF MergeOrg
<1>3. ASSUME NEW o \in SiteOffers, MergeHome(o) PROVE IInv'
  BY <1>3, SiteStep DEF MergeHome, Phases
<1>4. ASSUME NEW o \in SiteOffers, MergeContacts(o) PROVE IInv'
  BY <1>4, SiteStep DEF MergeContacts, Phases
<1>5. ASSUME NEW o \in Offers(SnippetFields, {}), MergeSnippet(o) PROVE IInv'
  <2>1. /\ Search # Operator /\ phase' \in Phases \ {"seed"}
        /\ o.val \in OfferedValues(SnippetFields) /\ o.fills \subseteq FillFields
    BY <1>5 DEF MergeSnippet, Offers, Search, Operator, Phases
  <2>2. QED
    BY <1>0, <1>5, <2>1, PlainStep DEF MergeSnippet
<1>6. ASSUME NEW o \in Offers(SearchPageFields, AllFillFields), MergeSearchFacts(o)
      PROVE  IInv'
  <2>1. /\ Search # Operator /\ phase' \in Phases \ {"seed"}
        /\ o.val \in OfferedValues(SearchPageFields) /\ o.fills \subseteq FillFields
    BY <1>6 DEF MergeSearchFacts, Offers, Search, Operator, Phases
  <2>2. QED
    BY <1>0, <1>6, <2>1, PlainStep DEF MergeSearchFacts
<1>7. CASE SkipMerge
  BY <1>7 DEF SkipMerge, IInv, ResolverTypeOK, SlotsInv, Won, Locked, Phases
<1>8. CASE UNCHANGED resolverVars
  BY <1>8 DEF resolverVars, IInv, ResolverTypeOK, SlotsInv, Won, Locked
<1>9. QED
  BY <1>1, <1>2, <1>3, <1>4, <1>5, <1>6, <1>7, <1>8 DEF ResolverNext

\* The inductive invariant holds in every reachable state of the resolver.
THEOREM Invariance == ResolverSpec => []IInv
BY InitInv, NextInv, PTL DEF ResolverSpec

\* No merge of Enrich ever leaves a slot, a fill or the history ill typed.
THEOREM TypeCorrect == ResolverSpec => []ResolverTypeOK
<1>1. IInv => ResolverTypeOK
  BY DEF IInv
<1>2. QED
  BY <1>1, Invariance, PTL

-----------------------------------------------------------------------------
(***************************************************************************)
(* Facts without a comparator: that the first source to offer one is also  *)
(* the strongest rests on who can have spoken at each point of a call.     *)
(***************************************************************************)
FirstIsStrongest == \A offer \in filled : offer[2] <= fills[offer[1]]

FillsInv ==
  /\ FirstIsStrongest
  /\ \A c \in FillFields :
       /\ phase = "seed" => fills[c] = None
       /\ phase = "maps" => fills[c] \in {None, Operator}
       /\ phase \in {"home", "contacts"} /\ c # "coords" => fills[c] \in {None, OfficialSite, Operator}

\* One merge, if no fact that it offers was filled by a weaker source.
LEMMA FillsStep ==
  ASSUME IInv, FirstIsStrongest, NEW F, NEW src \in Speakers, NEW o,
         o.fills \subseteq FillFields, Record(F, src, o),
         fills' = [c \in FillFields |-> Fill(c, src, o)],
         \A c \in o.fills : fills[c] = None \/ src <= fills[c]
  PROVE  /\ FirstIsStrongest'
         /\ \A c \in FillFields : fills'[c] \in {fills[c], src}
<1>0. /\ \A c \in FillFields : fills[c] \in Sources
      /\ filled \subseteq FillFields \X Speakers
  BY DEF IInv, ResolverTypeOK
<1>1. \A c \in FillFields : fills'[c] = Fill(c, src, o) /\ Fill(c, src, o) \in {fills[c], src}
  BY DEF Fill
<1>2. ASSUME NEW offer \in filled' PROVE offer[2] <= fills'[offer[1]]
  <2>1. CASE offer \in filled
    <3>1. offer[1] \in FillFields /\ offer[2] \in Speakers /\ offer[2] <= fills[offer[1]]
      BY <1>0, <2>1 DEF FirstIsStrongest
    <3>2. fills[offer[1]] # None
      BY <3>1 DEF Speakers, None, Search, Maps, OfficialSite, Operator
    <3>3. fills'[offer[1]] = fills[offer[1]]
      BY <1>1, <3>1, <3>2 DEF Fill
    <3> QED BY <3>1, <3>3
  <2>2. CASE offer \notin filled
    <3>1. offer[1] \in o.fills /\ offer[2] = src
      BY <1>2, <2>2 DEF Record
    <3>2. fills'[offer[1]] = Fill(offer[1], src, o) /\ offer[1] \in FillFields
      BY <1>1, <3>1
    <3>3. CASE fills[offer[1]] = None
      <4>1. fills'[offer[1]] = src
        BY <3>1, <3>2, <3>3 DEF Fill
      <4> QED BY <3>1, <4>1 DEF Speakers, Search, Maps, OfficialSite, Operator
    <3>4. CASE fills[offer[1]] # None
      <4>1. fills'[offer[1]] = fills[offer[1]]
        BY <3>1, <3>2, <3>4 DEF Fill
      <4> QED BY <3>1, <3>4, <4>1
    <3> QED BY <3>3, <3>4
  <2> QED BY <2>1, <2>2
<1>3. FirstIsStrongest'
  BY <1>2 DEF FirstIsStrongest
<1> QED BY <1>1, <1>3

\* Every merge keeps it, each for the reason of its place in the call.
LEMMA FillsNext == IInv /\ FillsInv /\ [ResolverNext]_resolverVars => FillsInv'
<1> SUFFICES ASSUME IInv, FillsInv, [ResolverNext]_resolverVars PROVE FillsInv'
  OBVIOUS
<1>0. /\ FirstIsStrongest
      /\ \A c \in FillFields : fills[c] \in Sources
      /\ {Operator, OfficialSite, Maps, Search} \subseteq Speakers
  BY DEF FillsInv, IInv, ResolverTypeOK, Speakers, Operator, OfficialSite, Maps, Search
<1>1. ASSUME NEW o \in Offers(SeedFields, {"coords"}), SeedOperatorValues(o) PROVE FillsInv'
  <2>1. /\ phase = "seed" /\ phase' = "maps" /\ o.fills \subseteq FillFields
        /\ fills' = [c \in FillFields |-> Fill(c, Operator, o)]
        /\ Record(SeedFields, Operator, o)
    BY <1>1 DEF SeedOperatorValues, MergePlain, Offers
  <2>2. \A c \in FillFields : fills[c] = None
    BY <2>1 DEF FillsInv
  <2>3. FirstIsStrongest' /\ \A c \in FillFields : fills'[c] \in {fills[c], Operator}
    BY <1>0, <2>1, <2>2, FillsStep
  <2> QED BY <2>1, <2>2, <2>3 DEF FillsInv
<1>2. ASSUME NEW o \in Offers(OrgFields, {"coords"}), MergeOrg(o) PROVE FillsInv'
  <2>1. /\ phase = "maps" /\ phase' \in {"home", "search"}
        /\ o.fills \subseteq FillFields \cap {"coords"}
        /\ fills' = [c \in FillFields |-> Fill(c, Maps, o)]
        /\ Record(OrgFields, Maps, o)
    BY <1>2 DEF MergeOrg, MergePlain, Offers
  <2>2. \A c \in FillFields : fills[c] \in {None, Operator}
    BY <2>1 DEF FillsInv
  <2>3. FirstIsStrongest'
    BY <1>0, <2>1, <2>2, FillsStep DEF Maps, Operator
  <2>4. \A c \in FillFields \ {"coords"} : fills'[c] = fills[c]
    BY <2>1 DEF Fill
  <2> QED BY <2>1, <2>2, <2>3, <2>4 DEF FillsInv
<1>3. ASSUME NEW o \in SiteOffers, MergeSite(o), phase \in {"home", "contacts"},
             phase' \in {"contacts", "search"}
      PROVE  FillsInv'
  <2>1. /\ o.fills \subseteq FillFields \ {"coords"}
        /\ fills' = [c \in FillFields |-> Fill(c, OfficialSite, o)]
        /\ Record(SiteFields, OfficialSite, o)
    BY <1>3 DEF MergeSite, SiteOffers
  <2>2. \A c \in FillFields \ {"coords"} : fills[c] \in {None, OfficialSite, Operator}
    BY <1>3 DEF FillsInv
  <2>3. FirstIsStrongest' /\ \A c \in FillFields : fills'[c] \in {fills[c], OfficialSite}
    BY <1>0, <2>1, <2>2, FillsStep DEF OfficialSite, Operator
  <2> QED BY <1>3, <2>2, <2>3 DEF FillsInv
<1>4. ASSUME NEW F, NEW o, MergePlain(F, Search, ConfidenceFor(Search), o),
             o.fills \subseteq FillFields, phase' \in {"sources", "done"}
      PROVE  FillsInv'
  <2>1. fills' = [c \in FillFields |-> Fill(c, Search, o)] /\ Record(F, Search, o)
    BY <1>4 DEF MergePlain
  <2>2. \A c \in FillFields : fills[c] = None \/ Search <= fills[c]
    BY <1>0 DEF Sources, None, Search, Operator
  <2>3. FirstIsStrongest'
    BY <1>0, <1>4, <2>1, <2>2, FillsStep
  <2> QED BY <1>4, <2>3 DEF FillsInv
<1>5. CASE SkipMerge
  <2>1. /\ UNCHANGED <<fills, filled>>
        /\ phase' \in {"home", "search", "done"}
        /\ phase' = "home" => phase = "maps"
    BY <1>5 DEF SkipMerge
  <2> QED BY <1>0, <2>1 DEF FillsInv, FirstIsStrongest
<1>6. CASE UNCHANGED resolverVars
  BY <1>6 DEF resolverVars, FillsInv, FirstIsStrongest
<1>7. ASSUME NEW o \in SiteOffers, MergeHome(o) \/ MergeContacts(o) PROVE FillsInv'
  BY <1>3, <1>7 DEF MergeHome, MergeContacts
<1>8. ASSUME NEW o \in Offers(SnippetFields, {}), MergeSnippet(o) PROVE FillsInv'
  BY <1>4, <1>8 DEF MergeSnippet, Offers
<1>9. ASSUME NEW o \in Offers(SearchPageFields, AllFillFields), phase = "sources", MergeSearchFacts(o)
      PROVE  FillsInv'
  BY <1>4, <1>9 DEF MergeSearchFacts, Offers
<1> QED BY <1>1, <1>2, <1>5, <1>6, <1>7, <1>8, <1>9 DEF ResolverNext

LEMMA FillsAlways == ResolverSpec => []FillsInv
<1>1. ResolverInit => FillsInv
  BY DEF ResolverInit, FillsInv, FirstIsStrongest
<1> QED BY <1>1, Invariance, FillsNext, PTL DEF ResolverSpec

\* For all fields, values and offers: a field of Facts holds a value of the
\* strongest source that offered one, unless its phone was refused, and nobody
\* above the source of a fact without a comparator has offered it.
THEOREM StrongestOfferCorrect == ResolverSpec => []StrongestOfferWins
<1>1. IInv /\ FillsInv => StrongestOfferWins
  <2>0. FillsInv => \A offer \in filled : offer[2] <= fills[offer[1]]
    BY DEF FillsInv, FirstIsStrongest
  <2> SUFFICES ASSUME IInv, NEW f \in Fields, ~(f = "phone" /\ phonePoisoned)
               PROVE  \/ /\ slots[f].val \in OfferedBy(f, slots[f].source)
                         /\ NoneAbove(f, slots[f].source)
                      \/ slots[f] = EmptySlot /\ NoneAbove(f, None)
    BY <2>0 DEF IInv, Locked, StrongestOfferWins
  <2>1. Won(f, slots[f], offered)
    BY DEF IInv, SlotsInv
  <2>2. CASE slots[f].val = Absent
    <3>1. slots[f] = EmptySlot
      BY <2>1, <2>2, ValuesAreProper DEF Won, EmptySlot, IInv, ResolverTypeOK, Slot
    <3>2. NoneAbove(f, None)
      BY <2>1, <2>2, ValuesAreProper DEF Won, NoneAbove, OfferedBy
    <3>3. QED
      BY <3>1, <3>2
  <2>3. CASE slots[f].val # Absent
    BY <2>1, <2>3 DEF Won, NoneAbove, OfferedBy
  <2>4. QED
    BY <2>2, <2>3
<1>2. QED
  BY <1>1, Invariance, FillsAlways, PTL

\* Whatever is merged, PhonePoisoned and the poison_locked provenance agree,
\* and an operator phone excludes both.
THEOREM PoisonVerdictCorrect == ResolverSpec => []PoisonVerdictIsExported
<1>1. IInv => PoisonVerdictIsExported
  <2> SUFFICES ASSUME IInv PROVE PoisonVerdictIsExported
    OBVIOUS
  <2>1. CASE phonePoisoned
    BY <2>1 DEF IInv, Locked, PoisonVerdictIsExported, Snapshot, OfferedBy
  <2>2. CASE ~phonePoisoned
    <3>1. Won("phone", slots["phone"], offered)
      BY <2>2, FieldsAssumption DEF IInv, SlotsInv
    <3>2. slots["phone"].source # PoisonLock
      BY <3>1 DEF Won, IInv, ResolverTypeOK, Speakers, None, Search, Maps,
         OfficialSite, PoisonLock, Operator
    <3>3. QED
      BY <2>2, <3>2 DEF PoisonVerdictIsExported, Snapshot, None, PoisonLock
  <2>3. QED
    BY <2>1, <2>2
<1>2. QED
  BY <1>1, Invariance, PTL

-----------------------------------------------------------------------------
\* What a merge does to a slot that it may not touch.
LEMMA PlainKeeps ==
  ASSUME IInv, NEW F, NEW src \in {Operator, Maps, Search}, NEW conf,
         NEW o, MergePlain(F, src, conf, o), src = Operator => phase = "seed",
         NEW f \in Fields,
         slots[f].source = Operator \/ (f = "phone" /\ phonePoisoned)
  PROVE  slots'[f] = slots[f]
<1>1. slots[f].source \in {PoisonLock, Operator}
  BY DEF IInv, Locked
<1>2. src # Operator
  <2> SUFFICES ASSUME src = Operator PROVE FALSE
    OBVIOUS
  <2>1. offered = {} /\ ~phonePoisoned
    BY DEF IInv
  <2>2. Won(f, slots[f], {})
    BY <2>1 DEF IInv, SlotsInv
  <2>3. slots[f].source = None
    BY <2>2 DEF Won
  <2>4. QED
    BY <1>1, <2>3 DEF None, PoisonLock, Operator
<1>3. ~Takes(slots[f], src)
  BY <1>1, <1>2 DEF Takes, None, Search, Maps, PoisonLock, Operator
<1>4. QED
  BY <1>3 DEF MergePlain, Set

\* A site page changes neither a locked phone nor a pinned field.
LEMMA SiteKeeps ==
  ASSUME IInv, NEW o \in SiteOffers, MergeSite(o), NEW f \in Fields,
         slots[f].source = Operator \/ (f = "phone" /\ phonePoisoned)
  PROVE  slots'[f] = slots[f]
<1>1. slots[f].source \in {PoisonLock, Operator}
  BY DEF IInv, Locked
<1>2. ~Takes(slots[f], OfficialSite) /\ slots[f].source # OfficialSite
      /\ slots[f].source >= OfficialSite
  BY <1>1 DEF Takes, None, OfficialSite, PoisonLock, Operator
<1>3. MergeSiteField(f, slots[f], o) = slots[f]
  BY <1>2 DEF MergeSiteField, DropPhone, Set, SetPreferLonger
<1>4. QED
  BY <1>3 DEF MergeSite

\* A DNI verdict and an operator pin survive every later merge.
THEOREM VerdictsFinal == ResolverSpec => VerdictsAreFinal
<1> DEFINE Final ==
      /\ phonePoisoned => phonePoisoned' /\ slots'["phone"] = slots["phone"]
      /\ \A f \in Fields : slots[f].source = Operator => slots'[f] = slots[f]
<1>1. IInv /\ [ResolverNext]_resolverVars => Final
  <2> SUFFICES ASSUME IInv, [ResolverNext]_resolverVars PROVE Final
    OBVIOUS
  <2>1. ASSUME NEW F, NEW src \in {Operator, Maps, Search}, NEW conf, NEW o,
               MergePlain(F, src, conf, o), src = Operator => phase = "seed"
        PROVE  Final
    <3>1. \A f \in Fields : slots[f].source = Operator \/ (f = "phone" /\ phonePoisoned)
            => slots'[f] = slots[f]
      BY <2>1, PlainKeeps
    <3>2. phonePoisoned' = phonePoisoned
      BY <2>1 DEF MergePlain
    <3>3. "phone" \in Fields
      BY FieldsAssumption
    <3>4. QED
      BY <3>1, <3>2, <3>3, Zenon
  <2>2. ASSUME NEW o \in SiteOffers, MergeSite(o) PROVE Final
    <3>1. \A f \in Fields : slots[f].source = Operator \/ (f = "phone" /\ phonePoisoned)
            => slots'[f] = slots[f]
      BY <2>2, SiteKeeps
    <3>2. phonePoisoned => phonePoisoned'
      BY <2>2 DEF MergeSite
    <3>3. "phone" \in Fields
      BY FieldsAssumption
    <3>4. QED
      BY <3>1, <3>2, <3>3, Zenon
  <2>3. CASE \E o \in Offers(SeedFields, {"coords"}) : SeedOperatorValues(o)
    BY <2>1, <2>3 DEF SeedOperatorValues
  <2>4. CASE \E o \in Offers(OrgFields, {"coords"}) : MergeOrg(o)
    BY <2>1, <2>4 DEF MergeOrg, Maps, Operator
  <2>5. CASE \E o \in SiteOffers : MergeHome(o) \/ MergeContacts(o)
    BY <2>2, <2>5 DEF MergeHome, MergeContacts
  <2>6. CASE \E o \in Offers(SnippetFields, {}) : MergeSnippet(o)
    BY <2>1, <2>6 DEF MergeSnippet, Search, Operator
  <2>7. CASE \E o \in Offers(SearchPageFields, AllFillFields) : MergeSearchFacts(o)
    BY <2>1, <2>7 DEF MergeSearchFacts, Search, Operator
  <2>8. CASE SkipMerge \/ UNCHANGED resolverVars
    BY <2>8 DEF SkipMerge, resolverVars
  <2>9. QED
    BY <2>3, <2>4, <2>5, <2>6, <2>7, <2>8 DEF ResolverNext
<1>2. QED
  BY <1>1, Invariance, PTL DEF ResolverSpec, VerdictsAreFinal

-----------------------------------------------------------------------------
\* Merging only adds to the history, and a phone is refused only while no
\* source as strong as the site has offered one.
LEMMA StepHears ==
  ASSUME IInv, [ResolverNext]_resolverVars
  PROVE  /\ offered \subseteq offered'
         /\ phonePoisoned => phonePoisoned'
         /\ phonePoisoned' /\ ~phonePoisoned =>
              \A s \in Sources, v \in Values["phone"] :
                s >= OfficialSite => <<"phone", s, v>> \notin offered
<1>1. ASSUME NEW F, NEW src, NEW conf, NEW o, MergePlain(F, src, conf, o)
      PROVE  offered \subseteq offered' /\ phonePoisoned' = phonePoisoned
  BY <1>1 DEF MergePlain, Record
<1>2. ASSUME NEW o \in SiteOffers, MergeSite(o)
      PROVE  /\ offered \subseteq offered'
             /\ phonePoisoned => phonePoisoned'
             /\ phonePoisoned' /\ ~phonePoisoned =>
                  slots["phone"].source < OfficialSite
  BY <1>2 DEF MergeSite, Record
<1>3. ASSUME ~phonePoisoned, slots["phone"].source < OfficialSite,
             NEW s \in Sources, NEW v \in Values["phone"], s >= OfficialSite
      PROVE  <<"phone", s, v>> \notin offered
  <2>1. Won("phone", slots["phone"], offered) /\ slots["phone"].source \in Sources
    BY <1>3, FieldsAssumption DEF IInv, SlotsInv, ResolverTypeOK, Slot
  <2>2. s > slots["phone"].source
    BY <1>3, <2>1 DEF Sources, None, OfficialSite, Operator
  <2>3. QED
    BY <2>1, <2>2 DEF Won
<1>4. CASE UNCHANGED resolverVars \/ SkipMerge
  BY <1>4 DEF resolverVars, SkipMerge
<1>5. CASE ResolverNext /\ ~SkipMerge
  BY <1>1, <1>2, <1>3, <1>5 DEF ResolverNext, SeedOperatorValues, MergeOrg,
     MergeHome, MergeContacts, MergeSnippet, MergeSearchFacts
<1>6. QED
  BY <1>4, <1>5

\* The resolver, field by field and merge by merge, implements the arbiter
\* that hears all offers at once.
THEOREM Implements == ResolverSpec => ImplementsSourcePriority
<1> DEFINE W == [f \in Fields |-> [val |-> slots[f].val, source |-> slots[f].source]]
<1> DEFINE J == \A f \in Fields : Arbiter!Justified(offered, phonePoisoned, f, W[f])
<1>1. ResolverInit => Arbiter!Init
  BY DEF ResolverInit, Arbiter!Init, EmptySlot, None, Arbiter!None
<1>2. IInv => J
  <2> SUFFICES ASSUME IInv, NEW f \in Fields
               PROVE  Arbiter!Justified(offered, phonePoisoned, f, W[f])
    OBVIOUS
  <2>1. CASE f = "phone" /\ phonePoisoned
    BY <2>1 DEF Arbiter!Justified, IInv, Locked, PoisonLock, Arbiter!PoisonLock
  <2>2. CASE ~(f = "phone" /\ phonePoisoned)
    <3>1. Won(f, slots[f], offered)
      BY <2>2 DEF IInv, SlotsInv
    <3>2. QED
      BY <2>2, <3>1 DEF Won, Arbiter!Justified, Arbiter!Strongest, None, Sources,
         Operator, Arbiter!None, Arbiter!Sources, Arbiter!Operator
  <2>3. QED
    BY <2>1, <2>2
<1>3. IInv' => J'
  BY <1>2, PTL
<1>4. IInv /\ IInv' /\ [ResolverNext]_resolverVars => [Arbiter!Hear]_(Arbiter!vars)
  <2> SUFFICES ASSUME IInv, IInv', [ResolverNext]_resolverVars PROVE Arbiter!Hear
    OBVIOUS
  <2>1. \A f \in Fields : Arbiter!Justified(offered', phonePoisoned', f, W'[f])
    BY <1>3
  <2>2. QED
    BY <2>1, StepHears DEF Arbiter!Hear, Arbiter!Sources, Arbiter!OfficialSite,
       Sources, OfficialSite, None, Operator, Arbiter!None, Arbiter!Operator
<1>5. QED
  BY <1>1, <1>4, Invariance, PTL DEF ResolverSpec, ImplementsSourcePriority, Arbiter!Spec

(***************************************************************************)
(* What the resolver says of its facts: their confidences, the conflicts   *)
(* it counts and the length of a site address.  These rest on the          *)
(* invariant above and on one more fact, that the search speaks last.      *)
(***************************************************************************)
ConfidenceInv ==
  \A f \in Fields :
    /\ slots[f].conf = "high" <=> slots[f].source \in {OfficialSite, Operator}
    /\ slots[f].conf = "medium" =>
         /\ slots[f].source = Maps
         /\ OfferedBy("phone", Maps) # {} /\ OfferedBy("website", Maps) # {}

SearchIsLast ==
  phase \in {"seed", "maps", "home", "contacts"} =>
    \A f \in Fields : \A v \in Values[f] : <<f, Search, v>> \notin offered

ProvenanceInv ==
  ConfidenceInv /\ ConflictsAreReal /\ LongestSiteAddressStays /\ SearchIsLast

\* A slot that a merge of one value leaves is the old one or the value's.
LEMMA SetCases ==
  ASSUME NEW slot, NEW v, NEW src, NEW conf
  PROVE  LET new == [val |-> v, source |-> src, conf |-> conf]
         IN  /\ \/ Set(slot, v, src, conf) = slot
                \/ v # Absent /\ Set(slot, v, src, conf) = new
             /\ \/ SetPreferLonger(slot, v, src, conf) = slot
                \/ v # Absent /\ SetPreferLonger(slot, v, src, conf) = new
BY DEF Set, SetPreferLonger

\* What is offered stays offered.
LEMMA OffersStay ==
  ASSUME NEW F, NEW src, NEW o, Record(F, src, o)
  PROVE  /\ offered \subseteq offered'
         /\ \A f, s : OfferedBy(f, s) # {} => OfferedBy(f, s)' # {}
<1>1. offered \subseteq offered'
  BY DEF Record
<1> QED BY <1>1 DEF OfferedBy

\* A conflict that a merge counts is between two values that were offered.
LEMMA ConflictIsReal ==
  ASSUME IInv, NEW f \in Fields, NEW src \in Sources, NEW v \in Values[f] \cup {Absent},
         Conflicts(slots[f], v, src), Extends(f, offered, offered', src, v),
         offered \subseteq offered'
  PROVE  \E a, b \in offered' : a[1] = f /\ b[1] = f /\ a[2] # b[2] /\ a[3] # b[3]
<1>1. v \in Values[f] /\ slots[f].val \notin {Absent, v} /\ src # slots[f].source
  BY DEF Conflicts
<1>2. ~(f = "phone" /\ phonePoisoned)
  BY <1>1 DEF IInv, Locked
<1>3. <<f, slots[f].source, slots[f].val>> \in offered
  BY <1>1, <1>2 DEF IInv, SlotsInv, Won
<1>4. <<f, src, v>> \in offered'
  BY <1>1 DEF Extends
<1>5. <<f, slots[f].source, slots[f].val>> \in offered'
  BY <1>3
<1> DEFINE a == <<f, slots[f].source, slots[f].val>>
           b == <<f, src, v>>
<1>6. a[1] = f /\ b[1] = f /\ a[2] # b[2] /\ a[3] # b[3]
  BY <1>1
<1> HIDE DEF a, b
<1>7. a \in offered' /\ b \in offered'
  BY <1>4, <1>5 DEF a, b
<1> QED BY <1>6, <1>7

\* The conflicts counted so far stay real while the offers grow and no verdict
\* is taken back.
LEMMA OldConflicts ==
  ASSUME ConflictsAreReal, offered \subseteq offered', phonePoisoned => phonePoisoned',
         NEW f \in conflicts
  PROVE  \/ \E a, b \in offered' : a[1] = f /\ b[1] = f /\ a[2] # b[2] /\ a[3] # b[3]
         \/ f = "phone" /\ phonePoisoned' /\ OfferedBy("phone", Maps)' # {}
BY DEF ConflictsAreReal, OfferedBy

-----------------------------------------------------------------------------
\* A merge that only calls set, with the confidence that its source has.
LEMMA PlainProvenance ==
  ASSUME IInv, ProvenanceInv,
         NEW F, NEW src \in {Operator, Maps, Search}, NEW conf \in Confidences,
         NEW o, o.val \in OfferedValues(F),
         MergePlain(F, src, conf, o),
         src = Operator => phase = "seed",
         conf = "high" <=> src = Operator,
         conf = "medium" => /\ src = Maps /\ {"phone", "website"} \subseteq F
                            /\ o.val["phone"] # Absent /\ o.val["website"] # Absent,
         src = Search => phase' \notin {"seed", "maps", "home", "contacts"},
         src # Search => phase \in {"seed", "maps", "home", "contacts"}
  PROVE  ProvenanceInv'
<1> USE DEF IInv, ResolverTypeOK
<1>0. src \in Sources /\ src # None /\ src # OfficialSite
  BY DEF Sources, None, Operator, Maps, Search, OfficialSite
<1>1. Record(F, src, o)
  BY DEF MergePlain
<1>2. \A f \in Fields : o.val[f] \in Values[f] \cup {Absent}
  BY OfferShape
<1>3. \A f \in Fields : Extends(f, offered, offered', src, o.val[f])
  BY <1>0, <1>1, RecordExtends
<1>4. \A f \in Fields :
        \/ slots'[f] = slots[f]
        \/ slots'[f] = [val |-> o.val[f], source |-> src, conf |-> conf]
  BY SetCases DEF MergePlain
<1>5. ConfidenceInv'
  <2>1. conf = "medium" => OfferedBy("phone", Maps)' # {} /\ OfferedBy("website", Maps)' # {}
    <3> SUFFICES ASSUME conf = "medium"
                 PROVE  OfferedBy("phone", Maps)' # {} /\ OfferedBy("website", Maps)' # {}
      OBVIOUS
    <3>1. "phone" \in Fields /\ "website" \in Fields
      BY FieldsAssumption
    <3>2. o.val["phone"] \in Values["phone"] /\ o.val["website"] \in Values["website"]
      BY <1>2, <3>1
    <3>3. /\ <<"phone", Maps, o.val["phone"]>> \in offered'
          /\ <<"website", Maps, o.val["website"]>> \in offered'
      BY <1>0, <1>3, <3>1, <3>2 DEF Extends
    <3> QED BY <3>2, <3>3 DEF OfferedBy
  <2>2. ASSUME NEW f \in Fields
        PROVE  /\ slots'[f].conf = "high" <=> slots'[f].source \in {OfficialSite, Operator}
               /\ slots'[f].conf = "medium" =>
                    /\ slots'[f].source = Maps
                    /\ OfferedBy("phone", Maps)' # {} /\ OfferedBy("website", Maps)' # {}
    <3>1. CASE slots'[f] = slots[f]
      BY <1>1, <3>1, OffersStay DEF ProvenanceInv, ConfidenceInv
    <3>2. CASE slots'[f] = [val |-> o.val[f], source |-> src, conf |-> conf]
      BY <1>0, <2>1, <3>2 DEF Operator, Maps, Search, OfficialSite
    <3> QED BY <1>4, <3>1, <3>2
  <2> QED BY <2>2 DEF ConfidenceInv
<1>6. ConflictsAreReal'
  <2>1. ASSUME NEW f \in conflicts', f \notin conflicts
        PROVE  \E a, b \in offered' : a[1] = f /\ b[1] = f /\ a[2] # b[2] /\ a[3] # b[3]
    <3>1. f \in Fields /\ Conflicts(slots[f], o.val[f], src)
      BY <2>1 DEF MergePlain
    <3> QED BY <1>0, <1>1, <1>2, <1>3, <3>1, ConflictIsReal, OffersStay
  <2>2. ASSUME NEW f \in conflicts
        PROVE  \/ \E a, b \in offered' : a[1] = f /\ b[1] = f /\ a[2] # b[2] /\ a[3] # b[3]
               \/ f = "phone" /\ phonePoisoned' /\ OfferedBy("phone", Maps)' # {}
    BY <1>1, OldConflicts, OffersStay DEF MergePlain, ProvenanceInv
  <2> QED BY <2>1, <2>2 DEF ConflictsAreReal
<1>7. LongestSiteAddressStays'
  <2> SUFFICES ASSUME "address" \in Fields, slots'["address"].source = OfficialSite,
                      NEW v \in OfferedBy("address", OfficialSite)'
               PROVE  Length[slots'["address"].val] >= Length[v]
    BY DEF LongestSiteAddressStays
  <2>1. slots'["address"] = slots["address"]
    <3>1. ASSUME slots'["address"] = [val |-> o.val["address"], source |-> src, conf |-> conf]
          PROVE  FALSE
      <4>1. slots'["address"].source = src
        BY <3>1
      <4> QED BY <1>0, <4>1
    <3> QED BY <1>4, <3>1
  <2>2. v \in OfferedBy("address", OfficialSite)
    BY <1>0, <1>3 DEF OfferedBy, Extends, Sources, OfficialSite, None, Operator
  <2> QED BY <2>1, <2>2 DEF ProvenanceInv, LongestSiteAddressStays
<1>8. SearchIsLast'
  <2> SUFFICES ASSUME src # Search, NEW f \in Fields, NEW v \in Values[f]
               PROVE  <<f, Search, v>> \notin offered'
    BY DEF SearchIsLast
  <2>1. <<f, Search, v>> \notin offered
    BY DEF ProvenanceInv, SearchIsLast
  <2> QED BY <1>3, <2>1 DEF Extends, Sources, Search, None, Operator
<1> QED BY <1>5, <1>6, <1>7, <1>8 DEF ProvenanceInv

\* A merge of a site page, homepage or contacts page.
LEMMA SiteProvenance ==
  ASSUME IInv, ProvenanceInv, NEW o \in SiteOffers, MergeSite(o),
         phase \in {"home", "contacts"}
  PROVE  ProvenanceInv'
<1> USE DEF IInv, ResolverTypeOK
<1>0. OfficialSite \in Sources
  BY DEF Sources, None, Operator, OfficialSite
<1>1. Record(SiteFields, OfficialSite, o) /\ o.val \in OfferedValues(SiteFields)
  BY DEF MergeSite, SiteOffers
<1>2. \A f \in Fields : o.val[f] \in Values[f] \cup {Absent}
  BY <1>1, OfferShape
<1>3. \A f \in Fields : Extends(f, offered, offered', OfficialSite, o.val[f])
  BY <1>0, <1>1, RecordExtends
<1>4. \A f \in Fields :
        \/ slots'[f] = slots[f]
        \/ slots'[f] = [val |-> o.val[f], source |-> OfficialSite, conf |-> "high"]
        \/ slots'[f] = [val |-> Absent, source |-> PoisonLock, conf |-> "low"]
  BY SetCases DEF MergeSite, MergeSiteField, DropPhone
<1>5. ConfidenceInv'
  <2> SUFFICES ASSUME NEW f \in Fields
        PROVE  /\ slots'[f].conf = "high" <=> slots'[f].source \in {OfficialSite, Operator}
               /\ slots'[f].conf = "medium" =>
                    /\ slots'[f].source = Maps
                    /\ OfferedBy("phone", Maps)' # {} /\ OfferedBy("website", Maps)' # {}
    BY DEF ConfidenceInv
  <2>1. CASE slots'[f] = slots[f]
    BY <1>1, <2>1, OffersStay DEF ProvenanceInv, ConfidenceInv
  <2>2. CASE slots'[f] = [val |-> o.val[f], source |-> OfficialSite, conf |-> "high"]
    BY <2>2
  <2>3. CASE slots'[f] = [val |-> Absent, source |-> PoisonLock, conf |-> "low"]
    BY <2>3 DEF PoisonLock, OfficialSite, Operator
  <2> QED BY <1>4, <2>1, <2>2, <2>3
<1>6. ConflictsAreReal'
  <2>1. ASSUME NEW f \in conflicts', f \notin conflicts, ~(f = "phone" /\ o.poisoned)
        PROVE  \E a, b \in offered' : a[1] = f /\ b[1] = f /\ a[2] # b[2] /\ a[3] # b[3]
    <3>1. f \in Fields /\ Conflicts(slots[f], o.val[f], OfficialSite)
      BY <2>1 DEF MergeSite, SiteConflicts
    <3> QED BY <1>0, <1>1, <1>2, <1>3, <3>1, ConflictIsReal, OffersStay
  <2>2. ASSUME "phone" \in conflicts', "phone" \notin conflicts, o.poisoned
        PROVE  phonePoisoned' /\ OfferedBy("phone", Maps)' # {}
    <3> DEFINE slot == slots["phone"]
    <3>1. "phone" \in Fields /\ slot.source < OfficialSite /\ slot.val # Absent
      BY <2>2, FieldsAssumption DEF MergeSite, SiteConflicts
    <3>2. slot.source # PoisonLock /\ ~phonePoisoned
      BY <3>1 DEF Locked, PoisonLock, OfficialSite
    <3>3. slot.val \in Values["phone"] /\ <<"phone", slot.source, slot.val>> \in offered
      BY <3>1, <3>2 DEF SlotsInv, Won
    <3>4. slot.source \in Speakers
      BY <3>3
    <3>5. slot.source # Search
      BY <3>1, <3>3 DEF ProvenanceInv, SearchIsLast
    <3>6. slot.source = Maps
      BY <3>1, <3>4, <3>5 DEF Speakers, OfficialSite, Operator
    <3>7. OfferedBy("phone", Maps) # {}
      BY <3>3, <3>6 DEF OfferedBy
    <3>8. phonePoisoned'
      BY <2>2, <3>1 DEF MergeSite
    <3> QED BY <1>1, <3>7, <3>8, OffersStay
  <2>3. ASSUME NEW f \in conflicts
        PROVE  \/ \E a, b \in offered' : a[1] = f /\ b[1] = f /\ a[2] # b[2] /\ a[3] # b[3]
               \/ f = "phone" /\ phonePoisoned' /\ OfferedBy("phone", Maps)' # {}
    BY <1>1, OldConflicts, OffersStay DEF MergeSite, ProvenanceInv
  <2> QED BY <2>1, <2>2, <2>3 DEF ConflictsAreReal
<1>7. LongestSiteAddressStays'
  <2> SUFFICES ASSUME "address" \in Fields, slots'["address"].source = OfficialSite,
                      NEW v \in OfferedBy("address", OfficialSite)'
               PROVE  Length[slots'["address"].val] >= Length[v]
    BY DEF LongestSiteAddressStays
  <2> DEFINE slot == slots["address"]
             w == o.val["address"]
  <2>1. slots'["address"] = SetPreferLonger(slot, w, OfficialSite, "high")
    BY DEF MergeSite, MergeSiteField
  <2>2. slot.source \in Sources /\ Won("address", slot, offered)
    BY DEF SlotsInv, Slot
  <2>3. v \in Values["address"] /\ (v \in OfferedBy("address", OfficialSite) \/ v = w)
    BY <1>0, <1>3 DEF OfferedBy, Extends
  <2>4. Length[v] \in Nat /\ (w # Absent => Length[w] \in Nat)
        /\ (slot.val # Absent => Length[slot.val] \in Nat)
    BY <1>2, <2>2, <2>3, ValuesAreProper, ValuesAssumption DEF Slot
  <2>5. w \in Values["address"] \cup {Absent} /\ Absent \notin Values["address"]
    BY <1>2, ValuesAreProper
  <2>6. CASE slot.source = OfficialSite
    <3>1. slot.val # Absent
      BY <2>2, <2>5, <2>6 DEF Won, None, OfficialSite
    <3>2. v \in OfferedBy("address", OfficialSite) => Length[slot.val] >= Length[v]
      BY <2>6 DEF ProvenanceInv, LongestSiteAddressStays
    <3>3. CASE w # Absent /\ Length[w] > Length[slot.val]
      <4>1. slots'["address"].val = w
        BY <2>1, <2>4, <2>6, <3>1, <3>3 DEF SetPreferLonger, Set, Takes, OfficialSite
      <4> QED BY <2>3, <2>4, <3>1, <3>2, <3>3, <4>1
    <3>4. CASE ~(w # Absent /\ Length[w] > Length[slot.val])
      <4>1. slots'["address"].val = slot.val
        BY <2>1, <2>4, <2>6, <3>1, <3>4 DEF SetPreferLonger, Set
      <4> QED BY <2>3, <2>4, <2>5, <3>1, <3>2, <3>4, <4>1
    <3> QED BY <3>3, <3>4
  <2>7. CASE slot.source # OfficialSite
    <3>1. w # Absent /\ slots'["address"].val = w /\ Takes(slot, OfficialSite)
      BY <2>1, <2>7 DEF SetPreferLonger, Set
    <3>2. slot.source < OfficialSite
      BY <2>2, <2>7, <3>1 DEF Takes, Sources, None, OfficialSite, Operator
    <3>3. v \notin OfferedBy("address", OfficialSite)
      BY <1>0, <2>2, <2>3, <3>2 DEF Won, OfferedBy, Sources, None, OfficialSite, Operator
    <3> QED BY <2>3, <2>4, <3>1, <3>3
  <2> QED BY <2>6, <2>7
<1>8. SearchIsLast'
  <2> SUFFICES ASSUME NEW f \in Fields, NEW v \in Values[f]
               PROVE  <<f, Search, v>> \notin offered'
    BY DEF SearchIsLast
  <2>1. <<f, Search, v>> \notin offered
    BY DEF ProvenanceInv, SearchIsLast
  <2> QED BY <1>3, <2>1 DEF Extends, Sources, Search, OfficialSite, None, Operator
<1> QED BY <1>5, <1>6, <1>7, <1>8 DEF ProvenanceInv

\* Every merge of Enrich keeps what is said of the facts true.
LEMMA ProvenanceStep == IInv /\ ProvenanceInv /\ [ResolverNext]_resolverVars => ProvenanceInv'
<1> SUFFICES ASSUME IInv, ProvenanceInv, [ResolverNext]_resolverVars PROVE ProvenanceInv'
  OBVIOUS
<1>0. /\ ConfidenceFor(Operator) = "high" /\ ConfidenceFor(Search) = "low"
      /\ {"high", "low"} \subseteq Confidences
      /\ Operator # Search /\ Operator # Maps /\ Maps # Search
  BY DEF ConfidenceFor, Confidences, Operator, OfficialSite, Maps, Search
<1>1. ASSUME NEW o \in Offers(SeedFields, {"coords"}), SeedOperatorValues(o)
      PROVE  ProvenanceInv'
  <2>1. /\ phase = "seed" /\ o.val \in OfferedValues(SeedFields)
        /\ MergePlain(SeedFields, Operator, "high", o)
    BY <1>0, <1>1 DEF SeedOperatorValues, Offers
  <2> QED BY <1>0, <2>1, PlainProvenance
<1>2. ASSUME NEW o \in Offers(OrgFields, {"coords"}), MergeOrg(o) PROVE ProvenanceInv'
  <2>1. /\ phase = "maps" /\ o.val \in OfferedValues(OrgFields)
        /\ MergePlain(OrgFields, Maps, ConfidenceForMaps(o.val), o)
    BY <1>2 DEF MergeOrg, Offers
  <2>2. /\ ConfidenceForMaps(o.val) \in Confidences /\ ConfidenceForMaps(o.val) # "high"
        /\ ConfidenceForMaps(o.val) = "medium" =>
             o.val["phone"] # Absent /\ o.val["website"] # Absent
    BY DEF ConfidenceForMaps, Confidences
  <2>3. {"phone", "website"} \subseteq OrgFields
    BY DEF OrgFields
  <2> QED BY <1>0, <2>1, <2>2, <2>3, PlainProvenance
<1>3. ASSUME NEW o \in SiteOffers, MergeHome(o) \/ MergeContacts(o) PROVE ProvenanceInv'
  BY <1>3, SiteProvenance DEF MergeHome, MergeContacts
<1>4. ASSUME NEW o \in Offers(SnippetFields, {}), MergeSnippet(o) PROVE ProvenanceInv'
  <2>1. /\ phase' \notin {"seed", "maps", "home", "contacts"}
        /\ o.val \in OfferedValues(SnippetFields)
        /\ MergePlain(SnippetFields, Search, "low", o)
    BY <1>0, <1>4 DEF MergeSnippet, Offers
  <2> QED BY <1>0, <2>1, PlainProvenance
<1>5. ASSUME NEW o \in Offers(SearchPageFields, AllFillFields), MergeSearchFacts(o)
      PROVE  ProvenanceInv'
  <2>1. /\ phase' \notin {"seed", "maps", "home", "contacts"}
        /\ o.val \in OfferedValues(SearchPageFields)
        /\ MergePlain(SearchPageFields, Search, "low", o)
    BY <1>0, <1>5 DEF MergeSearchFacts, Offers
  <2> QED BY <1>0, <2>1, PlainProvenance
<1>6. CASE SkipMerge
  <2>1. UNCHANGED <<slots, phonePoisoned, conflicts, offered>>
    BY <1>6 DEF SkipMerge
  <2>2. phase' \in {"seed", "maps", "home", "contacts"} => phase \in {"seed", "maps", "home", "contacts"}
    BY <1>6 DEF SkipMerge
  <2> QED BY <2>1, <2>2 DEF ProvenanceInv, ConfidenceInv, ConflictsAreReal,
       LongestSiteAddressStays, SearchIsLast, OfferedBy
<1>7. CASE UNCHANGED resolverVars
  BY <1>7 DEF resolverVars, ProvenanceInv, ConfidenceInv, ConflictsAreReal,
     LongestSiteAddressStays, SearchIsLast, OfferedBy
<1> QED BY <1>1, <1>2, <1>3, <1>4, <1>5, <1>6, <1>7 DEF ResolverNext

\* The two invariants hold together in every reachable state.
THEOREM AlwaysProvenance == ResolverSpec => [](IInv /\ ProvenanceInv)
<1>1. ResolverInit => ProvenanceInv
  BY DEF ResolverInit, EmptySlot, ProvenanceInv, ConfidenceInv, ConflictsAreReal,
     LongestSiteAddressStays, SearchIsLast, None, OfficialSite, Operator
<1> QED BY <1>1, InitInv, NextInv, ProvenanceStep, PTL DEF ResolverSpec

\* High confidence is exported only for what the operator or the site said,
\* medium only for a card with both a phone and a website (confidenceForMaps),
\* whatever is merged over it later.
THEOREM ConfidenceEarned == ResolverSpec => []ConfidenceIsEarned
<1>1. IInv /\ ProvenanceInv => ConfidenceIsEarned
  <2> SUFFICES ASSUME IInv, ProvenanceInv, NEW f \in Fields
               PROVE  slots[f].conf = "high" <=> Snapshot(f) \in {OfficialSite, Operator}
    BY DEF ConfidenceIsEarned, ProvenanceInv, ConfidenceInv
  <2>1. slots[f].conf = "high" <=> slots[f].source \in {OfficialSite, Operator}
    BY DEF ProvenanceInv, ConfidenceInv
  <2>2. CASE f = "phone" /\ phonePoisoned
    BY <2>1, <2>2 DEF IInv, Locked, Snapshot
  <2>3. CASE ~(f = "phone" /\ phonePoisoned)
    <3>1. Won(f, slots[f], offered) /\ Absent \notin Values[f]
      BY <2>3, ValuesAreProper DEF IInv, SlotsInv
    <3>2. slots[f].val = Absent => slots[f].source = None
      BY <3>1 DEF Won
    <3> QED BY <2>1, <3>2 DEF Snapshot, None, PoisonLock, OfficialSite, Operator
  <2> QED BY <2>2, <2>3
<1> QED BY <1>1, AlwaysProvenance, PTL

\* OnConflict is never a false alarm (observeConflict, dropPhone).
THEOREM ConflictsReal == ResolverSpec => []ConflictsAreReal
<1>1. ProvenanceInv => ConflictsAreReal
  BY DEF ProvenanceInv
<1> QED BY <1>1, AlwaysProvenance, PTL

\* No page of the site clobbers a longer address of another (setPreferLonger).
THEOREM LongestAddressStays == ResolverSpec => []LongestSiteAddressStays
<1>1. ProvenanceInv => LongestSiteAddressStays
  BY DEF ProvenanceInv
<1> QED BY <1>1, AlwaysProvenance, PTL
=============================================================================
