------------------------------ MODULE Resolver ------------------------------
(***************************************************************************)
(* The source-priority resolver of resolve.go: the single authority that   *)
(* merges every contact fact of one Enrich call.  A field is a slot that   *)
(* pairs the fact (a *string of Facts) with its fieldProv {source, conf}.  *)
(* The merges arrive in the order in which Enrich makes them (enriche.go): *)
(* operator seed, maps card, homepage, contacts page, search snippet, and, *)
(* for an item without a URL, the pages the search found.                  *)
(*                                                                         *)
(* A value is an opaque member of Values[f]; only its length in runes      *)
(* matters, and only for the address.  Telemetry is left out, except the   *)
(* cross-source conflict callback, which resolve.go makes promises about.  *)
(***************************************************************************)
EXTENDS Integers, FiniteSets

CONSTANTS
  Fields,      \* the fields of factProvenance this instance follows
  FillFields,  \* the fill-if-nil facts it follows (they carry no provenance)
  Values,      \* Values[f]: the non-empty strings a source may offer for f
  Length,      \* Length[v]: len([]rune(v))
  Absent       \* a nil *string, and the "" it is dereferenced to

AllFields == {"placeName", "address", "legalAddress", "phone", "website",
              "hours", "email", "price"}
AllFillFields == {"coords", "placeType", "eventDate"}
AllValues == UNION {Values[f] : f \in Fields}

ASSUME FieldsAssumption ==
  /\ {"phone", "website"} \subseteq Fields
  /\ Fields \subseteq AllFields
  /\ FillFields \subseteq AllFillFields
ASSUME ValuesAssumption ==
  /\ Values \in [Fields -> SUBSET AllValues]
  /\ Absent \notin AllValues
  /\ Length \in [AllValues -> Nat]

(***************************************************************************)
(* fieldSource: the priority ladder, highest wins.                         *)
(***************************************************************************)
None == 0
Search == 1
Maps == 2
Aggregator == 3
OfficialSite == 4
PoisonLock == 5
Operator == 6

Sources == None..Operator
Speakers == {Search, Maps, OfficialSite, Operator}  \* nothing merges the other levels
Confidences == {"high", "medium", "low"}
Slot == [val : AllValues \cup {Absent}, source : Sources, conf : Confidences]
EmptySlot == [val |-> Absent, source |-> None, conf |-> "low"]

\* The fields each merge function writes.
SeedFields == AllFields \ {"legalAddress"}
OrgFields == {"placeName", "address", "phone", "website", "hours"}
SiteFields == AllFields
SearchPageFields == AllFields \ {"legalAddress"}
SnippetFields == {"address", "phone", "price"}

(***************************************************************************)
(* What a source may offer: a value or nothing for each field it knows,    *)
(* the fill-if-nil facts it carries, and (the site only) the DNI verdict.  *)
(***************************************************************************)
OfferedValues(F) ==
  {v \in [Fields -> AllValues \cup {Absent}] :
     \A f \in Fields : v[f] \in {Absent} \cup (IF f \in F THEN Values[f] ELSE {})}

Offers(F, fills) ==
  [val : OfferedValues(F), fills : SUBSET (fills \cap FillFields),
   poisoned : {FALSE}]

\* "A poisoned site always carries a nil Phone" (mergeSite).
SiteOffers ==
  {o \in [val : OfferedValues(SiteFields),
          fills : SUBSET (FillFields \ {"coords"}), poisoned : BOOLEAN] :
     o.poisoned => o.val["phone"] = Absent}

Phases == {"seed", "maps", "home", "contacts", "search", "sources", "done"}

VARIABLES
  url,            \* item.URL # ""
  phase,          \* the merge Enrich has reached
  slots,          \* [Fields -> Slot]: Facts and factProvenance
  fills,          \* [FillFields -> Sources]: who filled each fill-if-nil fact
  phonePoisoned,  \* Facts.PhonePoisoned
  conflicts,      \* the fields Metrics.OnConflict has been called for
  offered,        \* history: every <<field, source, value>> offered so far
  filled          \* history: every <<fill-if-nil fact, source>> offered so far

resolverVars == <<url, phase, slots, fills, phonePoisoned, conflicts, offered, filled>>

ResolverTypeOK ==
  /\ url \in BOOLEAN
  /\ phase \in Phases
  /\ slots \in [Fields -> Slot]
  /\ fills \in [FillFields -> Sources]
  /\ phonePoisoned \in BOOLEAN
  /\ conflicts \subseteq Fields
  /\ offered \subseteq Fields \X Speakers \X AllValues
  /\ filled \subseteq FillFields \X Speakers

(***************************************************************************)
(* set, setWithConf and setPreferLonger.                                   *)
(***************************************************************************)
ConfidenceFor(src) == IF src \in {Operator, OfficialSite} THEN "high" ELSE "low"

BUG_MediumForPhone(v) == IF v["phone"] # Absent THEN "medium" ELSE "low"

\* A card with both a phone and a website is worth a medium confidence.
ConfidenceForMaps(v) ==
  IF v["phone"] # Absent /\ v["website"] # Absent THEN "medium" ELSE "low"

BUG_LowerFillsNil(slot, src) == src >= slot.source \/ slot.val = Absent
BUG_SearchTakes(slot, src) == src >= slot.source \/ src = Search

\* A higher or equal source takes the field; a lower one fills it only if
\* nobody ever claimed it: a nil value under an owner is a verdict.
Takes(slot, src) ==
  \/ src >= slot.source
  \/ slot.val = Absent /\ slot.source = None

Set(slot, v, src, conf) ==
  IF v # Absent /\ Takes(slot, src)
  THEN [val |-> v, source |-> src, conf |-> conf] ELSE slot

BUG_LastAddressWins(slot, v, src, conf) == Set(slot, v, src, conf)

\* On an equal source the longer address stays.
SetPreferLonger(slot, v, src, conf) ==
  IF /\ v # Absent
     /\ slot.val # Absent
     /\ slot.source = src
     /\ Length[v] <= Length[slot.val]
  THEN slot ELSE Set(slot, v, src, conf)

BUG_AnyDifference(slot, v, src) == slot.val # Absent /\ v # Absent /\ slot.val # v

\* OnConflict: a present value differs from one of another priority.
Conflicts(slot, v, src) ==
  /\ v # Absent
  /\ slot.val \notin {Absent, v}
  /\ src # slot.source
  /\ slot.source > None

BUG_DropNoConf(slot) ==
  IF slot.source >= OfficialSite THEN slot
  ELSE [val |-> Absent, source |-> PoisonLock, conf |-> ""]
BUG_DropAlways(slot) == [val |-> Absent, source |-> PoisonLock, conf |-> "low"]

\* dropPhone: refuse the phone and lock the field, unless an operator pin or a
\* clean phone of the site itself already owns it.
DropPhone(slot) ==
  IF slot.source >= OfficialSite THEN slot
  ELSE [val |-> Absent, source |-> PoisonLock, conf |-> "low"]

\* One field of mergeSite.
MergeSiteField(f, slot, o) ==
  CASE f = "phone" /\ o.poisoned -> DropPhone(slot)
    [] f = "address" -> SetPreferLonger(slot, o.val[f], OfficialSite, "high")
    [] OTHER -> Set(slot, o.val[f], OfficialSite, "high")

SiteConflicts(f, slot, o) ==
  IF f = "phone" /\ o.poisoned
  THEN slot.source < OfficialSite /\ slot.val # Absent
  ELSE Conflicts(slot, o.val[f], OfficialSite)

(***************************************************************************)
(* The merges.                                                             *)
(***************************************************************************)
BUG_LastFills(c, src, o) == IF c \in o.fills THEN src ELSE fills[c]

\* A fill-if-nil fact keeps its first value.
Fill(c, src, o) == IF c \in o.fills /\ fills[c] = None THEN src ELSE fills[c]

Record(F, src, o) ==
  /\ offered' = offered \cup
       {<<f, src, o.val[f]>> : f \in {g \in F \cap Fields : o.val[g] # Absent}}
  /\ filled' = filled \cup (o.fills \X {src})

\* What seedOperatorValues, mergeOrg, mergeSearchFacts and mergeSnippet share.
MergePlain(F, src, conf, o) ==
  /\ slots' = [f \in Fields |->
       IF f \in F THEN Set(slots[f], o.val[f], src, conf) ELSE slots[f]]
  /\ conflicts' = conflicts \cup
       {f \in F \cap Fields : Conflicts(slots[f], o.val[f], src)}
  /\ fills' = [c \in FillFields |-> Fill(c, src, o)]
  /\ Record(F, src, o)
  /\ UNCHANGED <<url, phonePoisoned>>

\* seedSourceCoords and seedOperatorValues.
SeedOperatorValues(o) ==
  /\ phase = "seed"
  /\ MergePlain(SeedFields, Operator, ConfidenceFor(Operator), o)
  /\ phase' = "maps"

MergeOrg(o) ==
  /\ phase = "maps"
  /\ MergePlain(OrgFields, Maps, ConfidenceForMaps(o.val), o)
  /\ phase' = IF url THEN "home" ELSE "search"

MergeSite(o) ==
  /\ slots' = [f \in Fields |-> MergeSiteField(f, slots[f], o)]
  /\ conflicts' = conflicts \cup {f \in Fields : SiteConflicts(f, slots[f], o)}
  /\ phonePoisoned' =
       (phonePoisoned \/ (o.poisoned /\ slots["phone"].source < OfficialSite))
  /\ fills' = [c \in FillFields |-> Fill(c, OfficialSite, o)]
  /\ Record(SiteFields, OfficialSite, o)
  /\ UNCHANGED url

MergeHome(o) == phase = "home" /\ MergeSite(o) /\ phase' = "contacts"
MergeContacts(o) == phase = "contacts" /\ MergeSite(o) /\ phase' = "search"

MergeSnippet(o) ==
  /\ phase = "search"
  /\ MergePlain(SnippetFields, Search, ConfidenceFor(Search), o)
  /\ phase' = IF url THEN "done" ELSE "sources"

MergeSearchFacts(o) ==
  /\ phase = "sources"
  /\ MergePlain(SearchPageFields, Search, ConfidenceFor(Search), o)
  /\ UNCHANGED phase

\* A merge Enrich does not make: no checker, no card, an unreachable site, no
\* contacts page, a failed search, no more pages.
SkipMerge ==
  /\ phase' = CASE phase = "maps" -> IF url THEN "home" ELSE "search"
                [] phase = "home" -> "search"
                [] phase = "contacts" -> "search"
                [] OTHER -> "done"
  /\ phase \in {"maps", "home", "contacts", "search", "sources"}
  /\ UNCHANGED <<url, slots, fills, phonePoisoned, conflicts, offered, filled>>

ResolverInit ==
  /\ url \in BOOLEAN
  /\ phase = "seed"
  /\ slots = [f \in Fields |-> EmptySlot]
  /\ fills = [c \in FillFields |-> None]
  /\ phonePoisoned = FALSE
  /\ conflicts = {}
  /\ offered = {}
  /\ filled = {}

\* The phase is the guard of each merge; repeating it here spares TLC the offers
\* of the others.
ResolverNext ==
  \/ phase = "seed" /\ \E o \in Offers(SeedFields, {"coords"}) : SeedOperatorValues(o)
  \/ phase = "maps" /\ \E o \in Offers(OrgFields, {"coords"}) : MergeOrg(o)
  \/ phase = "home" /\ \E o \in SiteOffers : MergeHome(o)
  \/ phase = "contacts" /\ \E o \in SiteOffers : MergeContacts(o)
  \/ phase = "search" /\ \E o \in Offers(SnippetFields, {}) : MergeSnippet(o)
  \/ phase = "sources" /\ \E o \in Offers(SearchPageFields, AllFillFields) : MergeSearchFacts(o)
  \/ SkipMerge

ResolverSpec == ResolverInit /\ [][ResolverNext]_resolverVars

(***************************************************************************)
(* Properties.                                                             *)
(***************************************************************************)
OfferedBy(f, src) == {v \in Values[f] : <<f, src, v>> \in offered}

\* Nobody with a higher priority than src has offered f.
NoneAbove(f, src) == \A s \in Sources : s > src => OfferedBy(f, s) = {}

\* What Provenance says of f (snapshot): a poison-locked phone has a source
\* although it has no value.
Snapshot(f) ==
  IF slots[f].val # Absent \/ (f = "phone" /\ slots[f].source = PoisonLock)
  THEN slots[f].source ELSE None

\* "operator_verified > official_site > aggregator > maps > search": whatever
\* was offered and in whatever combination, a field holds a value the highest
\* source that offered one gave; it is empty only if nobody offered anything
\* or the phone was refused.  The same holds of coordinates, place type and event
\* date, which have no comparator: nobody above the source that filled them has
\* offered them, because the merges are called in the order that they are.
StrongestOfferWins ==
  /\ \A f \in Fields :
       LET slot == slots[f] IN
       \/ slot.val \in OfferedBy(f, slot.source) /\ NoneAbove(f, slot.source)
       \/ slot = EmptySlot /\ NoneAbove(f, None)
       \/ f = "phone" /\ phonePoisoned /\ slot.val = Absent
  /\ \A offer \in filled : offer[2] <= fills[offer[1]]

\* A DNI verdict and a phone exclude each other, and the verdict reaches the
\* consumer: PhonePoisoned is set exactly when Provenance says poison_locked,
\* and then no operator ever offered a phone.
PoisonVerdictIsExported ==
  /\ phonePoisoned <=> Snapshot("phone") = PoisonLock
  /\ phonePoisoned => slots["phone"].val = Absent /\ OfferedBy("phone", Operator) = {}

\* High confidence is exported only for a value the operator or the site gave,
\* medium only for a card that offered both a phone and a website.
ConfidenceIsEarned ==
  \A f \in Fields :
    /\ slots[f].conf = "high" <=> Snapshot(f) \in {OfficialSite, Operator}
    /\ slots[f].conf = "medium" =>
         /\ slots[f].source = Maps
         /\ OfferedBy("phone", Maps) # {} /\ OfferedBy("website", Maps) # {}

\* A site address is never less complete than any address the site's pages
\* printed: the contacts page cannot clobber a more precise homepage address.
LongestSiteAddressStays ==
  "address" \in Fields /\ slots["address"].source = OfficialSite =>
    \A v \in OfferedBy("address", OfficialSite) :
      Length[slots["address"].val] >= Length[v]

\* The conflict counter is never a false alarm: two sources of different
\* priority offered different values, or a card's phone was refused.
ConflictsAreReal ==
  \A f \in conflicts :
    \/ \E a, b \in offered : a[1] = f /\ b[1] = f /\ a[2] # b[2] /\ a[3] # b[3]
    \/ f = "phone" /\ phonePoisoned /\ OfferedBy("phone", Maps) # {}

\* A refused phone stays refused and a pinned field stays as the operator gave
\* it, whatever is merged afterwards.
VerdictsAreFinal ==
  [][/\ phonePoisoned => phonePoisoned' /\ slots'["phone"] = slots["phone"]
     /\ \A f \in Fields : slots[f].source = Operator => slots'[f] = slots[f]
    ]_resolverVars

\* The resolver implements the arbiter that is told all offers at once.
Arbiter == INSTANCE SourcePriority WITH
  refused <- phonePoisoned,
  won <- [f \in Fields |-> [val |-> slots[f].val, source |-> slots[f].source]]
ImplementsSourcePriority == Arbiter!Spec

=============================================================================
