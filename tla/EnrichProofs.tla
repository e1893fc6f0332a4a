---------------------------- MODULE EnrichProofs ----------------------------
(***************************************************************************)
(* Proofs about Enrich, for any fields, values, offers and pages.  Every   *)
(* call is a behaviour of the resolver, so that what ResolverProofs shows  *)
(* of merges holds of calls; and the verdicts on the phone, the closed     *)
(* status and the flags survive both legs.                                 *)
(***************************************************************************)
EXTENDS Enrich, ResolverProofs

Before == {"seed", "maps", "home"}

\* What the status is made of, leg by leg.
StatusInv ==
  /\ mapsClosed \in ClosedStatuses \cup {""}
  /\ phase \in {"home", "contacts"} => url
  /\ phase \in {"sources", "done"} => reconciled
  /\ reconciled => phase \in {"search", "sources", "done"}
  /\ phase \in Before => status = "" /\ siteLive = FALSE
  /\ ~reconciled => /\ status \notin ClosedStatuses
                    /\ siteLive <=> status = "active"
                    /\ status = "active" => url
  /\ reconciled => /\ closedStands <=> mapsClosed # "" /\ ~siteLive
                   /\ IF closedStands THEN status = mapsClosed ELSE status \notin ClosedStatuses

FlagsInv ==
  /\ phase \in Before => views = {} /\ renderSkipped = FALSE
  /\ RenderSkippedIsExact

\* The sites' phones and the trustworthy numbers hold no rotating number.
NoProxy ==
  /\ trusted \cap ProxyPhones = {}
  /\ slots["phone"].source = OfficialSite => slots["phone"].val \notin ProxyPhones

ProxyInv ==
  /\ phase \in Before \cup {"contacts"} => ~blind
  /\ ~blind => NoProxy

EnrichInv == StatusInv /\ FlagsInv /\ ProxyInv /\ SkipsRestOnTrust

\* Neither a proxy number nor a second verdict is in an absent value.
LEMMA Inputs ==
  /\ Absent \notin ProxyPhones
  /\ SocialPhones \cap ProxyPhones = {}
  /\ "phone" \in Fields
BY PhonesAssumption, FieldsAssumption, ValuesAreProper

\* What the extractor says of a page that a site serves.
LEMMA PageShape ==
  ASSUME NEW p \in Pages \cup {NoPage}
  PROVE  /\ p.facts \in SiteOffers
         /\ p.vendor => p.facts.val["phone"] \in SocialPhones \cup {Absent}
         /\ p # NoPage => p \in Pages
<1>1. Nothing \in SiteOffers
  BY FieldsAssumption DEF Nothing, SiteOffers, OfferedValues
<1>2. CASE p = NoPage
  <2>1. p.facts = Nothing /\ p.vendor = FALSE
    BY <1>2 DEF NoPage
  <2> QED BY <1>1, <1>2, <2>1
<1>3. CASE p \in Pages
  BY <1>3, InputsAssumption DEF Extracted, Page
<1> QED BY <1>2, <1>3

\* Carrying a verdict forward leaves an offer that the resolver may be handed.
LEMMA CarryShape ==
  ASSUME NEW o \in SiteOffers, NEW poisoned
  PROVE  /\ CarryPoison(o, poisoned) \in SiteOffers
         /\ poisoned => CarryPoison(o, poisoned).val["phone"] = Absent
         /\ ~poisoned => CarryPoison(o, poisoned) = o
<1>1. CASE poisoned
  <2> DEFINE v == [o.val EXCEPT !["phone"] = Absent]
             q == [o EXCEPT !.poisoned = TRUE, !.val["phone"] = Absent]
  <2>1. /\ o.val \in OfferedValues(SiteFields)
        /\ o \in [val : OfferedValues(SiteFields),
                  fills : SUBSET (FillFields \ {"coords"}), poisoned : BOOLEAN]
    BY DEF SiteOffers
  <2>2. q.val = v /\ q.fills = o.fills /\ q.poisoned = TRUE
    BY <2>1
  <2>3. v \in OfferedValues(SiteFields) /\ v["phone"] = Absent
    BY <2>1, FieldsAssumption DEF OfferedValues
  <2>4. q \in [val : OfferedValues(SiteFields),
                fills : SUBSET (FillFields \ {"coords"}), poisoned : BOOLEAN]
    BY <2>1, <2>3
  <2>5. q \in SiteOffers /\ q.val["phone"] = Absent
    BY <2>2, <2>3, <2>4 DEF SiteOffers
  <2> QED BY <1>1, <2>5 DEF CarryPoison
<1>2. CASE ~poisoned
  BY <1>2 DEF CarryPoison
<1> QED BY <1>1, <1>2

\* A leg adopts one of the two versions of a page.
LEMMA AdoptedOne ==
  ASSUME NEW raw, NEW rendered
  PROVE  Adopted(raw, rendered) \in {raw, rendered}
BY DEF Adopted

-----------------------------------------------------------------------------
\* The homepage leg hands the resolver a site offer and is done with it.
LEMMA HomeMerges ==
  ASSUME NEW raw \in RawPages, NEW page \in Pages, NEW skipped, NEW view,
         MergeHomePage(raw, page, skipped, view)
  PROVE  ResolverNext
<1> DEFINE facts == IF page = raw THEN raw.facts ELSE CarryPoison(page.facts, RawPoisoned(raw))
<1>1. facts \in SiteOffers
  BY PageShape, CarryShape DEF RawPages
<1>2. phase = "home" /\ MergeHome(facts)
  BY DEF MergeHomePage, MergeHome
<1> QED BY <1>1, <1>2 DEF ResolverNext

LEMMA ContactsMerges ==
  ASSUME NEW raw \in RawPages \cup {NoPage}, NEW page \in Pages \cup {NoPage},
         NEW skipped, NEW view, MergeContactsPage(raw, page, skipped, view)
  PROVE  ResolverNext
<1> DEFINE facts == CarryPoison(page.facts, RawPoisoned(raw))
<1>1. facts \in SiteOffers
  BY PageShape, CarryShape
<1>2. MergeContacts(facts) \/ SkipMerge
  BY DEF MergeContactsPage
<1> QED BY <1>1, <1>2 DEF ResolverNext, MergeContacts

\* The anchored arm of the render gate is what let the page through.
AnchoredArm(raw) == RawContactsSufficient(raw) /\ ~HasContactFacts(raw.facts)

\* What a leg notes is what it got to see: a leg that makes do with a bare raw
\* page does so by the anchored arm, unless nothing can render.
Noted(raw, page, skipped, view) ==
  /\ skipped <=> view = "failed" \/ (render /\ view = "bare")
  /\ view = "bare" /\ render => AnchoredArm(raw) /\ page = raw

\* The two site legs, as calls of their common tails.
HomeLeg(raw, page, skipped, view) ==
  /\ phase = "home"
  /\ MergeHomePage(raw, page, skipped, view)
  /\ Noted(raw, page, skipped, view)
  /\ page = raw \/ page \in RenderedPages(raw.vendor)

ContactsLeg(raw, page, skipped, view) ==
  /\ phase = "contacts"
  /\ MergeContactsPage(raw, page, skipped, view)
  /\ Noted(raw, page, skipped, view)
  /\ raw # NoPage => page = raw \/ page \in RenderedPages(raw.vendor)

LEMMA HomeLegs ==
  ASSUME phase = "home", NEW raw \in RawPages, NEW thin \in BOOLEAN,
         \/ HomeRaw(raw, thin)
         \/ HomeRenderBlocked(raw, thin)
         \/ HomeRenderFails(raw, thin)
         \/ \E rendered \in RenderedPages(raw.vendor) : HomeRendered(raw, thin, rendered)
  PROVE  \E page \in Pages : \E skipped, view : HomeLeg(raw, page, skipped, view)
<1>0. raw \in Pages /\ RenderedPages(raw.vendor) \subseteq Pages
  BY DEF RawPages, RenderedPages
<1>1. CASE HomeRaw(raw, thin)
  <2> DEFINE skipped == HomeRenderSkipped(raw, thin)
             view == RawView(raw)
  <2>1. MergeHomePage(raw, raw, skipped, view)
    BY <1>1 DEF HomeRaw
  <2>2. Noted(raw, raw, skipped, view)
    BY <1>1 DEF HomeRaw, HomeWantsRender, HomeRenderSkipped, RawView, Noted, AnchoredArm
  <2> HIDE DEF skipped, view
  <2>3. HomeLeg(raw, raw, skipped, view)
    BY <2>1, <2>2 DEF HomeLeg
  <2> QED BY <1>0, <2>3
<1>2. CASE HomeRenderBlocked(raw, thin)
  <2>1. HomeLeg(raw, raw, FALSE, "blocked")
    BY <1>2 DEF HomeRenderBlocked, HomeLeg, Noted
  <2> QED BY <1>0, <2>1
<1>3. CASE HomeRenderFails(raw, thin)
  <2>1. HomeLeg(raw, raw, TRUE, "failed")
    BY <1>3 DEF HomeRenderFails, HomeLeg, Noted
  <2> QED BY <1>0, <2>1
<1>4. ASSUME NEW rendered \in RenderedPages(raw.vendor), HomeRendered(raw, thin, rendered)
      PROVE  \E page \in Pages : \E skipped, view : HomeLeg(raw, page, skipped, view)
  <2>1. HomeLeg(raw, Adopted(raw, rendered), FALSE, "rendered")
    BY <1>4, AdoptedOne DEF HomeRendered, HomeLeg, Noted
  <2>2. Adopted(raw, rendered) \in Pages
    BY <1>0, AdoptedOne
  <2> QED BY <2>1, <2>2
<1> QED BY <1>1, <1>2, <1>3, <1>4

LEMMA ContactsLegs ==
  ASSUME phase = "contacts", NEW raw \in RawPages \cup {NoPage},
         \/ ContactsRaw(raw)
         \/ ContactsRenderBlocked(raw)
         \/ ContactsRenderFails(raw)
         \/ \E widget \in IF raw = NoPage THEN BOOLEAN ELSE {raw.vendor} :
              \E rendered \in RenderedPages(widget) : ContactsRendered(raw, rendered)
  PROVE  \E page \in Pages \cup {NoPage} : \E skipped, view : ContactsLeg(raw, page, skipped, view)
<1>0. raw \in Pages \cup {NoPage} /\ \A widget : RenderedPages(widget) \subseteq Pages
  BY DEF RawPages, RenderedPages
<1>1. CASE ContactsRaw(raw)
  <2> DEFINE skipped == render /\ ~HasContactFacts(raw.facts)
             view == RawView(raw)
  <2>1. MergeContactsPage(raw, raw, skipped, view)
    BY <1>1 DEF ContactsRaw
  <2>2. Noted(raw, raw, skipped, view)
    BY <1>1 DEF ContactsRaw, ContactsWantsRender, RawView, Noted, AnchoredArm
  <2> HIDE DEF skipped, view
  <2>3. ContactsLeg(raw, raw, skipped, view)
    BY <2>1, <2>2 DEF ContactsLeg
  <2> QED BY <1>0, <2>3
<1>2. CASE ContactsRenderBlocked(raw)
  <2>1. ContactsLeg(raw, raw, FALSE, "blocked")
    BY <1>2 DEF ContactsRenderBlocked, ContactsLeg, Noted
  <2> QED BY <1>0, <2>1
<1>3. CASE ContactsRenderFails(raw)
  <2>1. ContactsLeg(raw, raw, TRUE, "failed")
    BY <1>3 DEF ContactsRenderFails, ContactsLeg, Noted
  <2> QED BY <1>0, <2>1
<1>4. ASSUME NEW widget \in IF raw = NoPage THEN BOOLEAN ELSE {raw.vendor},
             NEW rendered \in RenderedPages(widget), ContactsRendered(raw, rendered)
      PROVE  \E page \in Pages \cup {NoPage} : \E skipped, view :
               ContactsLeg(raw, page, skipped, view)
  <2>1. raw # NoPage => widget = raw.vendor
    OBVIOUS
  <2>2. ContactsLeg(raw, Adopted(raw, rendered), FALSE, "rendered")
    BY <1>4, <2>1, AdoptedOne DEF ContactsRendered, ContactsLeg, Noted
  <2>3. Adopted(raw, rendered) \in Pages \cup {NoPage}
    BY <1>0, AdoptedOne
  <2> QED BY <2>2, <2>3
<1> QED BY <1>1, <1>2, <1>3, <1>4

-----------------------------------------------------------------------------
\* What a merge of a page leaves of the phone.
LEMMA SitePhoneCases ==
  ASSUME NEW o, MergeSite(o)
  PROVE  \/ slots'["phone"] = slots["phone"]
         \/ o.val["phone"] # Absent /\ slots'["phone"].val = o.val["phone"]
         \/ slots'["phone"].source = PoisonLock
BY Inputs, SetCases DEF MergeSite, MergeSiteField, DropPhone

\* Any other merge leaves the site's phone alone or replaces it.
LEMMA PlainPhoneCases ==
  ASSUME NEW F, NEW src \in {Operator, Maps, Search}, NEW conf, NEW o,
         MergePlain(F, src, conf, o)
  PROVE  \/ slots'["phone"] = slots["phone"]
         \/ slots'["phone"].source # OfficialSite
<1>1. src # OfficialSite
  BY DEF Operator, Maps, Search, OfficialSite
<1> QED BY <1>1, Inputs DEF MergePlain, Set

\* A page without a widget on either version anchors no proxy; one with it is
\* trusted for its social links only.
LEMMA TrustIsClean ==
  ASSUME NEW raw \in RawPages, NEW page \in Pages,
         page = raw \/ page \in RenderedPages(raw.vendor)
  PROVE  Trustworthy(page, RawPoisoned(raw)) \cap ProxyPhones = {}
<1>1. CASE page.vendor \/ RawPoisoned(raw)
  BY <1>1, Inputs DEF Trustworthy
<1>2. CASE ~(page.vendor \/ RawPoisoned(raw))
  <2>1. page \in RawPages
    BY <1>2 DEF RawPoisoned, RenderedPages
  <2>2. page.anchored \cap ProxyPhones = {}
    BY <1>2, <2>1 DEF RawPages, Printed
  <2> QED BY <1>2, <2>2 DEF Trustworthy
<1> QED BY <1>1, <1>2

\* The phone that is merged for a page is no proxy, a verdict carried or not.
LEMMA PhoneIsClean ==
  ASSUME NEW raw \in RawPages, NEW page \in Pages,
         page = raw \/ page \in RenderedPages(raw.vendor)
  PROVE  /\ CarryPoison(page.facts, RawPoisoned(raw)).val["phone"] \notin ProxyPhones
         /\ raw.facts.val["phone"] \notin ProxyPhones
<1>0. ASSUME NEW p \in RawPages PROVE p.facts.val["phone"] \notin ProxyPhones
  <2>1. CASE p.vendor
    BY <1>0, <2>1, PageShape, Inputs DEF RawPages
  <2>2. CASE ~p.vendor
    BY <1>0, <2>2, Inputs DEF RawPages, Printed
  <2> QED BY <2>1, <2>2
<1>1. CASE RawPoisoned(raw)
  BY <1>0, <1>1, PageShape, CarryShape, Inputs
<1>2. CASE ~RawPoisoned(raw)
  <2>1. page \in RawPages
    BY <1>2 DEF RawPoisoned, RenderedPages
  <2>2. CarryPoison(page.facts, RawPoisoned(raw)) = page.facts
    BY <1>2, PageShape, CarryShape
  <2> QED BY <1>0, <2>1, <2>2
<1> QED BY <1>1, <1>2

\* A render saved by the anchored arm leaves a number that is trusted.
LEMMA SkipTrusts ==
  ASSUME NEW raw, AnchoredArm(raw)
  PROVE  Trustworthy(raw, RawPoisoned(raw)) # {} /\ ~skipDisabled
BY DEF AnchoredArm, RawContactsSufficient, RawPoisoned, Trustworthy

\* One more leg's view of its page.
LEMMA SawNext ==
  ASSUME NEW leg \in {"home", "contacts"}, NEW v, views' = views \cup {<<leg, v>>}
  PROVE  \A view : Saw(view)' <=> Saw(view) \/ view = v
BY DEF Saw

LEMMA HomeKeeps ==
  ASSUME EnrichInv, NEW raw \in RawPages, NEW page \in Pages, NEW skipped, NEW view,
         HomeLeg(raw, page, skipped, view)
  PROVE  EnrichInv'
<1> DEFINE facts == IF page = raw THEN raw.facts ELSE CarryPoison(page.facts, RawPoisoned(raw))
<1>1. /\ phase = "home" /\ phase' = "contacts" /\ url' = url
      /\ MergeSite(facts)
      /\ trusted' = trusted \cup Trustworthy(page, RawPoisoned(raw))
      /\ renderSkipped' = skipped /\ status' = "active" /\ siteLive' = TRUE
      /\ views' = views \cup {<<"home", view>>}
      /\ UNCHANGED <<render, skipDisabled, mapsClosed, reconciled, closedStands, blind>>
  BY DEF HomeLeg, MergeHomePage, MergeHome, MergeSite, optionVars
<1>2. StatusInv'
  BY <1>1 DEF EnrichInv, StatusInv, Before, ClosedStatuses
<1>3. \A v : Saw(v)' <=> v = view
  <2>1. \A v : ~Saw(v)
    BY <1>1 DEF EnrichInv, FlagsInv, Before, Saw
  <2> QED BY <1>1, <2>1, SawNext
<1>4. FlagsInv'
  <2>1. skipped <=> view = "failed" \/ (render /\ view = "bare")
    BY DEF HomeLeg, Noted
  <2> QED BY <1>1, <1>3, <2>1 DEF FlagsInv, RenderSkippedIsExact, RenderSaved, Before
<1>5. SkipsRestOnTrust'
  <2> SUFFICES ASSUME render, view = "bare" PROVE trusted' # {} /\ ~skipDisabled
    BY <1>1, <1>3 DEF SkipsRestOnTrust, RenderSaved
  <2>1. AnchoredArm(raw) /\ page = raw
    BY DEF HomeLeg, Noted
  <2> QED BY <1>1, <2>1, SkipTrusts
<1>6. ProxyInv'
  <2>1. ~blind /\ NoProxy
    BY <1>1 DEF EnrichInv, ProxyInv, Before
  <2>2. facts.val["phone"] \notin ProxyPhones
    BY PhoneIsClean DEF HomeLeg
  <2>3. Trustworthy(page, RawPoisoned(raw)) \cap ProxyPhones = {}
    BY TrustIsClean DEF HomeLeg
  <2>4. trusted' \cap ProxyPhones = {}
    BY <1>1, <2>1, <2>3 DEF NoProxy
  <2>5. slots'["phone"].source = OfficialSite => slots'["phone"].val \notin ProxyPhones
    <3> HIDE DEF facts
    <3>1. PoisonLock # OfficialSite
      BY DEF PoisonLock, OfficialSite
    <3> QED BY <1>1, <2>1, <2>2, <3>1, SitePhoneCases DEF NoProxy
  <2> QED BY <1>1, <2>1, <2>4, <2>5 DEF ProxyInv, NoProxy
<1> QED BY <1>2, <1>4, <1>5, <1>6 DEF EnrichInv

LEMMA ContactsKeeps ==
  ASSUME EnrichInv, NEW raw \in RawPages \cup {NoPage}, NEW page \in Pages \cup {NoPage},
         NEW skipped, NEW view, ContactsLeg(raw, page, skipped, view)
  PROVE  EnrichInv'
<1> DEFINE facts == CarryPoison(page.facts, RawPoisoned(raw))
<1>1. /\ phase = "contacts" /\ phase' = "search" /\ url' = url
      /\ MergeSite(facts) \/ slots' = slots
      /\ trusted' = trusted \cup Trustworthy(page, RawPoisoned(raw))
      /\ renderSkipped' = (renderSkipped \/ skipped)
      /\ blind' = (raw = NoPage /\ page # NoPage)
      /\ views' = views \cup {<<"contacts", view>>}
      /\ UNCHANGED <<render, skipDisabled, mapsClosed, status, reconciled, closedStands, siteLive>>
  BY DEF ContactsLeg, MergeContactsPage, MergeContacts, MergeSite, SkipMerge, OrLeg, statusVars,
     optionVars
<1>2. StatusInv'
  BY <1>1 DEF EnrichInv, StatusInv, Before
<1>3. FlagsInv'
  <2>1. skipped <=> view = "failed" \/ (render /\ view = "bare")
    BY DEF ContactsLeg, Noted
  <2>2. \A v : Saw(v)' <=> Saw(v) \/ v = view
    BY <1>1, SawNext
  <2>3. renderSkipped <=> Saw("failed") \/ RenderSaved
    BY DEF EnrichInv, FlagsInv, RenderSkippedIsExact
  <2> QED BY <1>1, <2>1, <2>2, <2>3 DEF FlagsInv, RenderSkippedIsExact, RenderSaved, Before
<1>4. SkipsRestOnTrust'
  <2> SUFFICES ASSUME render, Saw("bare")' PROVE trusted' # {} /\ ~skipDisabled
    BY <1>1 DEF SkipsRestOnTrust, RenderSaved
  <2>1. CASE Saw("bare")
    BY <1>1, <2>1 DEF EnrichInv, SkipsRestOnTrust, RenderSaved
  <2>2. CASE ~Saw("bare")
    <3>1. view = "bare"
      BY <1>1, <2>2, SawNext
    <3>2. AnchoredArm(raw) /\ page = raw
      BY <3>1 DEF ContactsLeg, Noted
    <3> QED BY <1>1, <3>2, SkipTrusts
  <2> QED BY <2>1, <2>2
<1>5. ProxyInv'
  <2>1. NoProxy
    BY <1>1 DEF EnrichInv, ProxyInv, Before
  <2> SUFFICES ASSUME ~blind' PROVE NoProxy'
    BY <1>1 DEF ProxyInv, Before
  <2>2. CASE raw = NoPage
    <3>1. page = NoPage
      BY <1>1, <2>2
    <3>2. /\ Trustworthy(page, RawPoisoned(raw)) = {}
          /\ facts.val["phone"] = Absent
      BY <2>2, <3>1, Inputs DEF NoPage, Nothing, RawPoisoned, Trustworthy, CarryPoison
    <3> HIDE DEF facts
    <3>3. PoisonLock # OfficialSite
      BY DEF PoisonLock, OfficialSite
    <3> QED BY <1>1, <2>1, <3>2, <3>3, SitePhoneCases DEF NoProxy
  <2>3. CASE raw # NoPage
    <3>1. raw \in RawPages /\ (page = raw \/ page \in RenderedPages(raw.vendor)) /\ page \in Pages
      BY <2>3 DEF ContactsLeg, RenderedPages, RawPages
    <3>2. facts.val["phone"] \notin ProxyPhones
      BY <3>1, PhoneIsClean
    <3>3. Trustworthy(page, RawPoisoned(raw)) \cap ProxyPhones = {}
      BY <3>1, TrustIsClean
    <3> HIDE DEF facts
    <3>4. PoisonLock # OfficialSite
      BY DEF PoisonLock, OfficialSite
    <3> QED BY <1>1, <2>1, <3>2, <3>3, <3>4, SitePhoneCases DEF NoProxy
  <2> QED BY <2>2, <2>3
<1> QED BY <1>2, <1>3, <1>4, <1>5 DEF EnrichInv

-----------------------------------------------------------------------------
\* A step that leaves the legs' state alone and the site's phone too, or gives
\* the phone to another source.
LEMMA LegsStay ==
  ASSUME EnrichInv, UNCHANGED <<optionVars, trusted, renderSkipped, blind, views>>,
         slots'["phone"] = slots["phone"] \/ slots'["phone"].source # OfficialSite,
         phase' \in Before \cup {"contacts"} => phase \in Before,
         phase' \in Before => phase \in Before
  PROVE  FlagsInv' /\ ProxyInv' /\ SkipsRestOnTrust'
<1>1. FlagsInv' /\ SkipsRestOnTrust'
  BY DEF EnrichInv, FlagsInv, RenderSkippedIsExact, SkipsRestOnTrust, RenderSaved, Saw, optionVars
<1>2. ProxyInv'
  BY DEF EnrichInv, ProxyInv, NoProxy
<1> QED BY <1>1, <1>2

LEMMA SeedKeeps ==
  ASSUME EnrichInv, NEW o, Seed(o)
  PROVE  EnrichInv'
<1>1. /\ phase = "seed" /\ phase' = "maps" /\ url' = url
      /\ MergePlain(SeedFields, Operator, ConfidenceFor(Operator), o)
      /\ UNCHANGED <<optionVars, statusVars, legVars>>
  BY DEF Seed, SeedOperatorValues, MergePlain
<1>2. StatusInv'
  BY <1>1 DEF EnrichInv, StatusInv, Before, statusVars, legVars, historyVars
<1>3. slots'["phone"] = slots["phone"] \/ slots'["phone"].source # OfficialSite
  BY <1>1, PlainPhoneCases
<1> QED BY <1>1, <1>2, <1>3, LegsStay DEF EnrichInv, Before, legVars, historyVars

LEMMA MapsKeeps ==
  ASSUME EnrichInv, NEW verdict \in ClosedStatuses \cup {""}, CheckMaps(verdict)
  PROVE  EnrichInv'
<1>1. /\ phase = "maps" /\ phase' \in {"home", "search"} /\ url' = url
      /\ phase' = "home" => url
      /\ mapsClosed' = verdict
      /\ UNCHANGED <<optionVars, status, reconciled, closedStands, legVars>>
  BY DEF CheckMaps, MergeOrg, MergePlain, SkipMerge
<1>2. StatusInv'
  BY <1>1 DEF EnrichInv, StatusInv, Before, ClosedStatuses, legVars, historyVars
<1>3. slots'["phone"] = slots["phone"] \/ slots'["phone"].source # OfficialSite
  BY PlainPhoneCases DEF CheckMaps, MergeOrg, SkipMerge
<1> QED BY <1>1, <1>2, <1>3, LegsStay DEF EnrichInv, Before, legVars, historyVars

LEMMA HomeDownKeeps ==
  ASSUME EnrichInv, NEW fr \in (FetchStatuses \ {"active"}) \cup {"nil"}, NEW ox \in BOOLEAN,
         HomeDown(fr, ox)
  PROVE  EnrichInv'
<1>1. /\ phase = "home" /\ phase' = "search" /\ UNCHANGED <<url, slots>>
      /\ siteLive' = (status' = "active")
      /\ UNCHANGED <<mapsClosed, reconciled, closedStands, optionVars, trusted, renderSkipped, blind,
                     views>>
  BY DEF HomeDown, SkipMerge
<1>2. status' \in FetchStatuses
  BY DEF HomeDown, FetchStatuses
<1>3. status' \notin ClosedStatuses
  BY <1>2 DEF FetchStatuses, ClosedStatuses
<1>4. StatusInv'
  BY <1>1, <1>3 DEF EnrichInv, StatusInv, Before
<1> QED BY <1>1, <1>4, LegsStay DEF EnrichInv, Before

LEMMA NoContactsKeeps ==
  ASSUME EnrichInv, NoContactsPage
  PROVE  EnrichInv'
<1>1. /\ phase = "contacts" /\ phase' = "search" /\ UNCHANGED <<url, slots, optionVars, statusVars, legVars>>
  BY DEF NoContactsPage, SkipMerge
<1>2. StatusInv'
  BY <1>1 DEF EnrichInv, StatusInv, Before, statusVars, legVars, historyVars
<1> QED BY <1>1, <1>2, LegsStay DEF EnrichInv, Before, legVars, historyVars

LEMMA ReconcileKeeps ==
  ASSUME EnrichInv, ReconcileClosedStatus
  PROVE  EnrichInv'
<1>1. /\ phase = "search" /\ ~reconciled /\ reconciled' = TRUE
      /\ closedStands' = (mapsClosed # "" /\ ~SiteRefutesClosed)
      /\ status' = IF closedStands' THEN mapsClosed ELSE status
      /\ UNCHANGED <<url, phase, slots, optionVars, mapsClosed, legVars>>
  BY DEF ReconcileClosedStatus, resolverVars
<1>2. SiteRefutesClosed <=> siteLive
  BY <1>1 DEF EnrichInv, StatusInv, SiteRefutesClosed
<1>3. StatusInv'
  <2>1. closedStands' <=> mapsClosed # "" /\ ~siteLive
    BY <1>1, <1>2
  <2>2. status \notin ClosedStatuses
    BY <1>1 DEF EnrichInv, StatusInv
  <2> QED BY <1>1, <2>1, <2>2 DEF EnrichInv, StatusInv, Before, legVars, historyVars
<1> QED BY <1>1, <1>3, LegsStay DEF EnrichInv, Before, legVars, historyVars

LEMMA SearchKeeps ==
  ASSUME EnrichInv, DoSearch
  PROVE  EnrichInv'
<1>1. /\ phase = "search" /\ phase' \in {"sources", "done"} /\ url' = url /\ reconciled
      /\ UNCHANGED <<optionVars, mapsClosed, status, reconciled, closedStands, legVars>>
  BY DEF DoSearch, MergeSnippet, MergePlain, SkipMerge
<1>2. StatusInv'
  BY <1>1 DEF EnrichInv, StatusInv, Before, legVars, historyVars
<1>3. slots'["phone"] = slots["phone"] \/ slots'["phone"].source # OfficialSite
  BY PlainPhoneCases DEF DoSearch, MergeSnippet, SkipMerge
<1> QED BY <1>1, <1>2, <1>3, LegsStay DEF EnrichInv, Before, legVars, historyVars

LEMMA SourceKeeps ==
  ASSUME EnrichInv, NEW o, SearchSource(o)
  PROVE  EnrichInv'
<1>1. /\ phase = "sources" /\ UNCHANGED <<url, phase>>
      /\ MergePlain(SearchPageFields, Search, ConfidenceFor(Search), o)
      /\ UNCHANGED <<optionVars, mapsClosed, status, reconciled, closedStands, legVars>>
  BY DEF SearchSource, MergeSearchFacts, MergePlain
<1>2. StatusInv'
  BY <1>1 DEF EnrichInv, StatusInv, Before, legVars, historyVars
<1>3. slots'["phone"] = slots["phone"] \/ slots'["phone"].source # OfficialSite
  BY <1>1, PlainPhoneCases
<1> QED BY <1>1, <1>2, <1>3, LegsStay DEF EnrichInv, Before, legVars, historyVars

LEMMA EndKeeps ==
  ASSUME EnrichInv, EndSources
  PROVE  EnrichInv'
<1>1. /\ phase = "sources" /\ phase' = "done" /\ UNCHANGED <<url, slots>>
      /\ UNCHANGED <<optionVars, mapsClosed, reconciled, closedStands, legVars>>
      /\ status' = IF SearchUpgrades THEN "active" ELSE status
  BY DEF EndSources, SkipMerge
<1>2. /\ closedStands => status' = status
      /\ status' \in {"active", status}
  BY <1>1 DEF SearchUpgrades
<1>3. StatusInv'
  BY <1>1, <1>2 DEF EnrichInv, StatusInv, Before, ClosedStatuses, legVars, historyVars
<1> QED BY <1>1, <1>3, LegsStay DEF EnrichInv, Before, legVars, historyVars

\* Every step is a merge of the resolver or leaves its state alone, and keeps
\* the invariant.
LEMMA EnrichStep ==
  ASSUME EnrichInv, EnrichNext
  PROVE  EnrichInv' /\ [ResolverNext]_resolverVars
<1>1. ASSUME NEW o \in Seeds, Seed(o) PROVE EnrichInv' /\ ResolverNext
  <2>1. o \in Offers(SeedFields, {"coords"}) /\ SeedOperatorValues(o) /\ phase = "seed"
    BY <1>1, InputsAssumption DEF Seed, SeedOperatorValues
  <2> QED BY <1>1, <2>1, SeedKeeps DEF ResolverNext
<1>2. ASSUME NEW verdict \in ClosedStatuses \cup {""}, CheckMaps(verdict)
      PROVE  EnrichInv' /\ ResolverNext
  <2>1. phase = "maps" /\ ((\E o \in Offers(OrgFields, {"coords"}) : MergeOrg(o)) \/ SkipMerge)
    BY <1>2, InputsAssumption DEF CheckMaps
  <2> QED BY <1>2, <2>1, MapsKeeps DEF ResolverNext
<1>3. ASSUME NEW fr \in (FetchStatuses \ {"active"}) \cup {"nil"}, NEW ox \in BOOLEAN,
             HomeDown(fr, ox)
      PROVE  EnrichInv' /\ ResolverNext
  BY <1>3, HomeDownKeeps DEF HomeDown, ResolverNext
<1>4. ASSUME phase = "home", NEW raw \in RawPages, NEW thin \in BOOLEAN,
             \/ HomeRaw(raw, thin)
             \/ HomeRenderBlocked(raw, thin)
             \/ HomeRenderFails(raw, thin)
             \/ \E rendered \in RenderedPages(raw.vendor) : HomeRendered(raw, thin, rendered)
      PROVE  EnrichInv' /\ ResolverNext
  <2>1. PICK page \in Pages : \E skipped, view : HomeLeg(raw, page, skipped, view)
    BY <1>4, HomeLegs
  <2>2. PICK skipped, view : HomeLeg(raw, page, skipped, view)
    BY <2>1
  <2>3. EnrichInv'
    BY <2>2, HomeKeeps
  <2>4. ResolverNext
    BY <2>2, HomeMerges DEF HomeLeg
  <2> QED BY <2>3, <2>4
<1>5. CASE NoContactsPage
  BY <1>5, NoContactsKeeps DEF NoContactsPage, ResolverNext
<1>6. ASSUME phase = "contacts", NEW raw \in RawPages \cup {NoPage},
             \/ ContactsRaw(raw)
             \/ ContactsRenderBlocked(raw)
             \/ ContactsRenderFails(raw)
             \/ \E widget \in IF raw = NoPage THEN BOOLEAN ELSE {raw.vendor} :
                  \E rendered \in RenderedPages(widget) : ContactsRendered(raw, rendered)
      PROVE  EnrichInv' /\ ResolverNext
  <2>1. PICK page \in Pages \cup {NoPage} : \E skipped, view : ContactsLeg(raw, page, skipped, view)
    BY <1>6, ContactsLegs
  <2>2. PICK skipped, view : ContactsLeg(raw, page, skipped, view)
    BY <2>1
  <2>3. EnrichInv'
    BY <2>2, ContactsKeeps
  <2>4. ResolverNext
    BY <2>2, ContactsMerges DEF ContactsLeg
  <2> QED BY <2>3, <2>4
<1>7. CASE ReconcileClosedStatus
  BY <1>7, ReconcileKeeps DEF ReconcileClosedStatus
<1>8. CASE DoSearch
  <2>1. phase = "search" /\ ((\E o \in Offers(SnippetFields, {}) : MergeSnippet(o)) \/ SkipMerge)
    BY <1>8, InputsAssumption DEF DoSearch
  <2> QED BY <1>8, <2>1, SearchKeeps DEF ResolverNext
<1>9. ASSUME NEW o \in SearchFacts, SearchSource(o) PROVE EnrichInv' /\ ResolverNext
  <2>1. /\ o \in Offers(SearchPageFields, AllFillFields)
        /\ MergeSearchFacts(o) /\ phase = "sources"
    BY <1>9, InputsAssumption DEF SearchSource, MergeSearchFacts
  <2> QED BY <1>9, <2>1, SourceKeeps DEF ResolverNext
<1>10. CASE EndSources
  BY <1>10, EndKeeps DEF EndSources, ResolverNext
<1> QED BY <1>1, <1>2, <1>3, <1>4, <1>5, <1>6, <1>7, <1>8, <1>9, <1>10 DEF EnrichNext

\* The invariant of a call holds from its start to its end.
THEOREM AlwaysEnrichInv == EnrichSpec => []EnrichInv
<1>1. EnrichInit => EnrichInv
  <2> SUFFICES ASSUME EnrichInit PROVE EnrichInv
    OBVIOUS
  <2>1. StatusInv
    BY DEF EnrichInit, ResolverInit, StatusInv, Before, ClosedStatuses
  <2>2. FlagsInv /\ SkipsRestOnTrust
    <3>1. views = {} /\ renderSkipped = FALSE
      BY DEF EnrichInit
    <3> QED BY <3>1 DEF FlagsInv, RenderSkippedIsExact, SkipsRestOnTrust, RenderSaved, Saw
  <2>3. slots["phone"].source # OfficialSite
    <3>1. slots["phone"] = EmptySlot
      BY Inputs DEF EnrichInit, ResolverInit
    <3>2. EmptySlot.source # OfficialSite
      BY DEF EmptySlot, None, OfficialSite
    <3> QED BY <3>1, <3>2
  <2>4. ProxyInv
    BY <2>3 DEF EnrichInit, ProxyInv, NoProxy
  <2> QED BY <2>1, <2>2, <2>4 DEF EnrichInv
<1>2. EnrichInv /\ [EnrichNext]_enrichVars => EnrichInv'
  <2>1. ASSUME EnrichInv, UNCHANGED enrichVars PROVE EnrichInv'
    BY <2>1 DEF enrichVars, resolverVars, statusVars, legVars, historyVars, EnrichInv, StatusInv,
       FlagsInv, ProxyInv, NoProxy, RenderSkippedIsExact, SkipsRestOnTrust, RenderSaved, Saw,
       optionVars
  <2> QED BY <2>1, EnrichStep
<1> QED BY <1>1, <1>2, PTL DEF EnrichSpec

\* Whatever pages a call meets, what it does to the facts is a behaviour of the
\* resolver (fetchAndExtract, resolveContactsPage, doSearch, Enrich).
THEOREM CallsAreMergesCorrect == EnrichSpec => CallsAreMerges
<1>1. EnrichInit => ResolverInit
  BY DEF EnrichInit
<1>2. EnrichInv /\ [EnrichNext]_enrichVars => [ResolverNext]_resolverVars
  BY EnrichStep DEF enrichVars
<1> QED BY <1>1, <1>2, AlwaysEnrichInv, PTL DEF EnrichSpec, CallsAreMerges, ResolverSpec

\* So a call ends with what the strongest source said, a refused phone stays
\* refused, and the confidences are earned, whatever the legs do.
THEOREM CallsKeepTheLadder ==
  EnrichSpec => [](StrongestOfferWins /\ PoisonVerdictIsExported /\ ConfidenceIsEarned)
BY CallsAreMergesCorrect, StrongestOfferCorrect, PoisonVerdictCorrect, ConfidenceEarned, PTL
   DEF CallsAreMerges

\* A rotating number of a page whose raw HTML was seen never gets out, on either
\* leg and whatever the render shows (homeRawPoisoned, rawPoisoned, Poison-OR).
THEOREM ProxyOnlyFromBlindRenderCorrect == EnrichSpec => []ProxyOnlyFromBlindRender
<1>1. EnrichInv => ProxyOnlyFromBlindRender
  BY DEF EnrichInv, ProxyInv, NoProxy, ProxyOnlyFromBlindRender
<1> QED BY <1>1, AlwaysEnrichInv, PTL

\* A venue ends closed exactly when the maps said so and its site was not live
\* (reconcileClosedStatus, the upgrade after fetchAndExtractSources).
THEOREM ClosedVerdictStandsCorrect == EnrichSpec => []ClosedVerdictStands
<1>1. EnrichInv => ClosedVerdictStands
  BY DEF EnrichInv, StatusInv, ClosedVerdictStands
<1> QED BY <1>1, AlwaysEnrichInv, PTL

\* RenderSkipped is set exactly when some leg's render failed, or was saved for
\* a raw page without contact facts; so a clear flag says that every page the
\* call read was rendered, or states its contacts in raw, or had its render
\* refused by checkTarget (HomeRenderBlocked, ContactsRenderBlocked), which the
\* code does not flag.
THEOREM RenderSkippedIsExactCorrect == EnrichSpec => []RenderSkippedIsExact
<1>1. EnrichInv => RenderSkippedIsExact
  BY DEF EnrichInv, FlagsInv
<1> QED BY <1>1, AlwaysEnrichInv, PTL

\* A render is saved only where a number can be exported as trustworthy, and
\* never against the operator's kill switch (rawContactsSufficient,
\* dniTrustworthy, WithRenderSkipDisabled).
THEOREM SkipsRestOnTrustCorrect == EnrichSpec => []SkipsRestOnTrust
<1>1. EnrichInv => SkipsRestOnTrust
  BY DEF EnrichInv
<1> QED BY <1>1, AlwaysEnrichInv, PTL
=============================================================================
