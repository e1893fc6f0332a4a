------------------------------- MODULE Enrich -------------------------------
(***************************************************************************)
(* One Enrich call (enriche.go, enriche_fetch.go, enriche_contacts.go and  *)
(* enriche_search_fetch.go): which legs run, which version of a page each  *)
(* leg adopts, and what it hands to the resolver.  The merges are those of *)
(* Resolver, whose phase is the program counter.                           *)
(*                                                                         *)
(* A page is what the extractor reports of one HTML.  The environment      *)
(* serves pages with one hidden attribute: a call-tracking widget that the *)
(* raw HTML loads may have removed itself from the rendered DOM, where the *)
(* numbers it injected stay behind.  Texts, images and dates are left out: *)
(* only their being there and being thin steer a leg.                      *)
(***************************************************************************)
EXTENDS Resolver

CONSTANTS
  SocialPhones,  \* phones of hard-coded WhatsApp links: no widget rewrites them
  ProxyPhones,   \* rotating numbers of a call-tracking widget
  Seeds, Cards, Snippets, SearchFacts,  \* what the item, the maps and the search offer
  Pages          \* the pages, raw or rendered, that sites serve

ASSUME PhonesAssumption ==
  /\ SocialPhones \subseteq Values["phone"]
  /\ ProxyPhones \subseteq Values["phone"] \ SocialPhones

ContactFields == {"phone", "address", "legalAddress", "hours", "email"}
RichFields == {"hours", "email", "address"}
FetchStatuses == {"active", "not_found", "redirect", "unreachable", "tls_invalid"}
ClosedStatuses == {"closed", "temporarily_closed"}

(***************************************************************************)
(* A page: ExtractFactsForCity, HasDNIVendor and CollectSiteNumbers of one *)
(* HTML.  The constraints are what the extractor guarantees of its own     *)
(* output: a verdict needs a vendor, and a vendor leaves only a phone of a *)
(* social link.  A page with a vendor may have anchored numbers and yet no *)
(* verdict: those read off branch JSON, schema.org places and labelled     *)
(* text are site numbers, but no candidates for the phone.                 *)
(***************************************************************************)
Page == [facts : SiteOffers, vendor : BOOLEAN,
         anchored : SUBSET Values["phone"], html : {TRUE}]

Printed(p) == ({p.facts.val["phone"]} \ {Absent}) \cup p.anchored

Extracted ==
  {p \in Page :
     /\ p.facts.val["phone"] \in SocialPhones => p.facts.val["phone"] \in p.anchored
     /\ p.facts.poisoned => p.vendor
     /\ p.vendor => \/ p.facts.val["phone"] \in SocialPhones
                    \/ /\ p.facts.val["phone"] = Absent
                       /\ p.anchored \cap SocialPhones # {} => p.facts.poisoned}

ASSUME InputsAssumption ==
  /\ Seeds \subseteq Offers(SeedFields, {"coords"})
  /\ Cards \subseteq Offers(OrgFields, {"coords"})
  /\ Snippets \subseteq Offers(SnippetFields, {})
  /\ SearchFacts \subseteq Offers(SearchPageFields, AllFillFields)
  /\ Pages \subseteq Extracted

\* A raw page prints a proxy only where it loads the widget.
RawPages == {p \in Pages : ~p.vendor => Printed(p) \cap ProxyPhones = {}}

\* The rendered DOM of a page whose raw HTML runs the widget: injected numbers
\* may be there without it.
RenderedPages(widget) == IF widget THEN Pages ELSE RawPages

Nothing == [val |-> [f \in Fields |-> Absent], fills |-> {}, poisoned |-> FALSE]
NoPage == [facts |-> Nothing, vendor |-> FALSE, anchored |-> {}, html |-> FALSE]

VARIABLES
  render,           \* e.browserFetch # nil
  skipDisabled,     \* e.renderSkipDisabled
  mapsClosed,       \* mapsClosedStatus
  status,           \* result.Status
  reconciled,       \* reconcileClosedStatus has run
  closedStands,     \* its verdict
  sourcesFound,     \* result.SearchSources is not empty
  fetchedAny,       \* some search source yielded something
  home,             \* siteFacts of the homepage, and whether it has an anchored number
  trusted,          \* the phones Result.SiteNumbers calls Trustworthy
  renderSkipped,    \* result.RenderSkipped
  tlsFallbackUsed,  \* result.TLSFallbackUsed
  siteLive,         \* history: fetchAndExtract ended with an active status
  blind,            \* history: a rendered page without its raw HTML was adopted
  views             \* history: <<leg, view>>, what each leg got to see of its page

historyVars == <<siteLive, blind, views>>
legVars == <<home, trusted, renderSkipped, tlsFallbackUsed, historyVars>>
optionVars == <<render, skipDisabled>>
statusVars == <<mapsClosed, status, reconciled, closedStands, sourcesFound, fetchedAny>>
enrichVars == <<resolverVars, optionVars, statusVars, legVars>>

(***************************************************************************)
(* Helpers of the two site legs.                                           *)
(***************************************************************************)
\* contactFactCount: a verdict counts as a phone.
ContactFactCount(o) ==
  Cardinality({f \in ContactFields \cap Fields : o.val[f] # Absent})
    + (IF o.poisoned THEN 1 ELSE 0)

HasContactFacts(o) ==
  o.poisoned \/ \E f \in (ContactFields \ {"legalAddress"}) \cap Fields : o.val[f] # Absent

BUG_VerdictOnly(p) == p.facts.poisoned

\* homeRawPoisoned, rawPoisoned.
RawPoisoned(p) == p.facts.poisoned \/ p.vendor

BUG_AnchoredSuffices(p) == HasContactFacts(p.facts) \/ p.anchored # {}

\* rawContactsSufficient.
RawContactsSufficient(p) ==
  \/ HasContactFacts(p.facts)
  \/ ~skipDisabled /\ ~RawPoisoned(p) /\ p.anchored # {}

\* A rendered page replaces the raw one only with strictly more contact facts.
Adopted(raw, rendered) ==
  IF ContactFactCount(rendered.facts) > ContactFactCount(raw.facts) THEN rendered ELSE raw

BUG_KeepPhone(o, poisoned) == IF poisoned THEN [o EXCEPT !.poisoned = TRUE] ELSE o

\* The Poison-OR.
CarryPoison(o, poisoned) ==
  IF poisoned THEN [o EXCEPT !.poisoned = TRUE, !.val["phone"] = Absent] ELSE o

\* CollectSiteNumbers and dniTrustworthy, accumulated by addSiteNumbers.
Trustworthy(p, poisoned) ==
  IF p.vendor \/ poisoned THEN p.anchored \cap SocialPhones ELSE p.anchored

\* homepageMissingRichField; a field this instance does not follow is present.
HomepageMissingRichField ==
  \/ \E f \in RichFields \cap Fields : home.facts.val[f] = Absent
  \/ ~home.anchored

(***************************************************************************)
(* Enrich, leg by leg.                                                     *)
(***************************************************************************)
Seed(o) == SeedOperatorValues(o) /\ UNCHANGED <<optionVars, statusVars, legVars>>

\* checkMapsStatus: an error or a check that does not run has no verdict; a
\* verdict may come without a card.
CheckMaps(verdict) ==
  /\ phase = "maps"
  /\ (\E o \in Cards : MergeOrg(o)) \/ SkipMerge
  /\ mapsClosed' = verdict
  /\ UNCHANGED <<optionVars, status, reconciled, closedStands, sourcesFound, fetchedAny,
                 legVars>>

\* fetchAndExtract without an active page.  fetchWithRetry returns nil only when
\* the context ends while it waits to retry; only then is ox-browser consulted.
HomeDown(fr, ox) ==
  /\ phase = "home"
  /\ SkipMerge
  /\ status' = CASE fr # "nil" -> fr
                 [] fr = "nil" /\ ox -> "active"
                 [] OTHER -> "unreachable"
  /\ siteLive' = (status' = "active")
  /\ \E tls \in BOOLEAN :
       tlsFallbackUsed' = (fr \notin {"nil", "tls_invalid"} /\ tls)
  /\ UNCHANGED <<optionVars, mapsClosed, reconciled, closedStands, sourcesFound, fetchedAny,
                 home, trusted, renderSkipped, blind, views>>

\* shouldRenderHomepage; thin is the text of the raw page being shorter than
\* minExtractChars runes.
HomeWantsRender(raw, thin) == render /\ (thin \/ ~RawContactsSufficient(raw))

\* What a leg sees that makes do with the raw page.
RawView(raw) == IF HasContactFacts(raw.facts) THEN "facts" ELSE "bare"

\* fetchAndExtract of an active page, once the render is decided: merge the
\* version it adopts.  skipped: what it notes in result.RenderSkipped.
MergeHomePage(raw, page, skipped, view) ==
  LET facts == IF page = raw THEN raw.facts ELSE CarryPoison(page.facts, RawPoisoned(raw))
  IN /\ MergeHome(facts)
     /\ home' = [facts |-> facts, anchored |-> page.anchored # {}]
     /\ trusted' = trusted \cup Trustworthy(page, RawPoisoned(raw))
     /\ renderSkipped' = skipped
     /\ tlsFallbackUsed' \in BOOLEAN
     /\ status' = "active"
     /\ siteLive' = TRUE
     /\ views' = views \cup {<<"home", view>>}
     /\ UNCHANGED <<optionVars, mapsClosed, reconciled, closedStands, sourcesFound,
                    fetchedAny, blind>>

BUG_NeverNoted(raw, thin) == FALSE

\* noteHomepageRenderSkip: the render that absent contacts alone call for was
\* avoided because of a trustworthy anchored number.
HomeRenderSkipped(raw, thin) ==
  render /\ ~thin /\ ~HasContactFacts(raw.facts) /\ RawContactsSufficient(raw)

HomeRaw(raw, thin) ==
  /\ ~HomeWantsRender(raw, thin)
  /\ MergeHomePage(raw, raw, HomeRenderSkipped(raw, thin), RawView(raw))

\* checkTarget refuses the hop to the renderer.
HomeRenderBlocked(raw, thin) ==
  HomeWantsRender(raw, thin) /\ MergeHomePage(raw, raw, FALSE, "blocked")

\* The renderer fails, or returns a shell of less than minRenderShellBytes.
HomeRenderFails(raw, thin) ==
  HomeWantsRender(raw, thin) /\ MergeHomePage(raw, raw, TRUE, "failed")

HomeRendered(raw, thin, rendered) ==
  /\ HomeWantsRender(raw, thin)
  /\ MergeHomePage(raw, Adopted(raw, rendered), FALSE, "rendered")

\* resolveContactsPage returns early: nothing is missing, or no page is found.
NoContactsPage ==
  /\ phase = "contacts"
  /\ SkipMerge
  /\ UNCHANGED <<optionVars, statusVars, legVars>>

\* The richness gate: only a verdict passes with no more facts than the homepage.
BeatsHomepage(facts) ==
  ContactFactCount(facts) > ContactFactCount(home.facts) \/ facts.poisoned

BUG_LastLegDecides(flag, leg) == leg

\* result.RenderSkipped and TLSFallbackUsed are OR'd over the legs.
OrLeg(flag, leg) == flag \/ leg

\* resolveContactsPage after fetchContactsHTML returned page; raw = NoPage when
\* the fetch brought no HTML.
MergeContactsPage(raw, page, skipped, view) ==
  LET facts == CarryPoison(page.facts, RawPoisoned(raw))
  IN /\ HomepageMissingRichField
     /\ IF page # NoPage /\ BeatsHomepage(facts) THEN MergeContacts(facts) ELSE SkipMerge
     /\ trusted' = trusted \cup Trustworthy(page, RawPoisoned(raw))
     /\ renderSkipped' = OrLeg(renderSkipped, skipped)
     /\ \E tls \in BOOLEAN : tlsFallbackUsed' = OrLeg(tlsFallbackUsed, tls)
     /\ blind' = (raw = NoPage /\ page # NoPage)
     /\ views' = views \cup {<<"contacts", view>>}
     /\ UNCHANGED <<optionVars, statusVars, home, siteLive>>

ContactsWantsRender(raw) == render /\ (raw = NoPage \/ ~RawContactsSufficient(raw))

ContactsRaw(raw) ==
  /\ ~ContactsWantsRender(raw)
  /\ MergeContactsPage(raw, raw, render /\ ~HasContactFacts(raw.facts), RawView(raw))

ContactsRenderBlocked(raw) ==
  ContactsWantsRender(raw) /\ MergeContactsPage(raw, raw, FALSE, "blocked")

ContactsRenderFails(raw) ==
  ContactsWantsRender(raw) /\ MergeContactsPage(raw, raw, TRUE, "failed")

ContactsRendered(raw, rendered) ==
  /\ ContactsWantsRender(raw)
  /\ MergeContactsPage(raw, Adopted(raw, rendered), FALSE, "rendered")

\* siteFetched && siteRefutesClosed(result.Status)
SiteRefutesClosed == url /\ status = "active"

ReconcileClosedStatus ==
  /\ phase = "search"
  /\ ~reconciled
  /\ reconciled' = TRUE
  /\ closedStands' = (mapsClosed # "" /\ ~SiteRefutesClosed)
  /\ status' = IF closedStands' THEN mapsClosed ELSE status
  /\ UNCHANGED <<resolverVars, optionVars, mapsClosed, sourcesFound, fetchedAny, legVars>>

\* doSearch: the snippet of a result and, possibly, its sources; nothing from a
\* provider that is not configured or fails.
DoSearch ==
  /\ phase = "search"
  /\ reconciled
  /\ \/ (\E o \in Snippets : MergeSnippet(o)) /\ sourcesFound' \in BOOLEAN
     \/ SkipMerge /\ UNCHANGED sourcesFound
  /\ UNCHANGED <<optionVars, mapsClosed, status, reconciled, closedStands, fetchedAny,
                 legVars>>

\* One page of fetchAndExtractSources, in the order of the sources (their number
\* is not bounded here); an item without a URL has no content yet.
SearchSource(o) ==
  /\ sourcesFound
  /\ MergeSearchFacts(o)
  /\ fetchedAny' = TRUE
  /\ UNCHANGED <<optionVars, mapsClosed, status, reconciled, closedStands, sourcesFound,
                 legVars>>

BUG_PagesResurrect == fetchedAny

\* Search pages make a venue active, unless its closed status stands.
SearchUpgrades == fetchedAny /\ ~closedStands

EndSources ==
  /\ phase = "sources"
  /\ SkipMerge
  /\ status' = IF SearchUpgrades THEN "active" ELSE status
  /\ UNCHANGED <<optionVars, mapsClosed, reconciled, closedStands, sourcesFound, fetchedAny,
                 legVars>>

EnrichInit ==
  /\ ResolverInit
  /\ render \in BOOLEAN /\ skipDisabled \in BOOLEAN
  /\ mapsClosed = ""
  /\ status = ""
  /\ reconciled = FALSE
  /\ closedStands = FALSE
  /\ sourcesFound = FALSE
  /\ fetchedAny = FALSE
  /\ home = [facts |-> Nothing, anchored |-> FALSE]
  /\ trusted = {}
  /\ renderSkipped = FALSE
  /\ tlsFallbackUsed = FALSE
  /\ siteLive = FALSE
  /\ blind = FALSE
  /\ views = {}

EnrichNext ==
  \/ \E o \in Seeds : Seed(o)
  \/ \E verdict \in ClosedStatuses \cup {""} : CheckMaps(verdict)
  \/ \E fr \in (FetchStatuses \ {"active"}) \cup {"nil"}, ox \in BOOLEAN : HomeDown(fr, ox)
  \/ /\ phase = "home"
     /\ \E raw \in RawPages, thin \in BOOLEAN :
          \/ HomeRaw(raw, thin)
          \/ HomeRenderBlocked(raw, thin)
          \/ HomeRenderFails(raw, thin)
          \/ \E rendered \in RenderedPages(raw.vendor) : HomeRendered(raw, thin, rendered)
  \/ NoContactsPage
  \/ /\ phase = "contacts"
     /\ \E raw \in RawPages \cup {NoPage} :
          \/ ContactsRaw(raw)
          \/ ContactsRenderBlocked(raw)
          \/ ContactsRenderFails(raw)
          \/ \E widget \in IF raw = NoPage THEN BOOLEAN ELSE {raw.vendor} :
               \E rendered \in RenderedPages(widget) : ContactsRendered(raw, rendered)
  \/ ReconcileClosedStatus
  \/ DoSearch
  \/ \E o \in SearchFacts : SearchSource(o)
  \/ EndSources

EnrichSpec == EnrichInit /\ [][EnrichNext]_enrichVars

(***************************************************************************)
(* Properties.                                                             *)
(***************************************************************************)
\* Everything Enrich does to the facts is a merge of the resolver, in the order
\* and with the offers the resolver was checked for: no leg hands it a verdict
\* together with a phone.
CallsAreMerges == ResolverSpec

\* A rotating number of a page whose raw HTML was seen never becomes the site's
\* phone nor a trustworthy site number, whatever the render shows, on both legs.
ProxyOnlyFromBlindRender ==
  ~blind =>
    /\ trusted \cap ProxyPhones = {}
    /\ slots["phone"].source = OfficialSite => slots["phone"].val \notin ProxyPhones

\* A venue is reported closed exactly when the maps said so and its own site was
\* not live: neither a search page nor a site that merely answers resurrects it,
\* and a live site always does (reconcileClosedStatus; the doc of WithMapsChecker,
\* by which a closed verdict short-circuits the call, is out of date).
ClosedVerdictStands ==
  phase = "done" =>
    IF mapsClosed # "" /\ ~siteLive THEN status = mapsClosed
    ELSE status \notin ClosedStatuses

\* Some leg saw this of its page.
Saw(view) == \E leg \in {"home", "contacts"} : <<leg, view>> \in views

\* A render that a page without contact facts called for was saved.
RenderSaved == render /\ Saw("bare")

\* RenderSkipped tells what the result rests on, both ways and whichever leg
\* comes last: it is set exactly when some leg's render failed (or was a shell),
\* or was saved although its raw page states no contact fact.  So a clear flag
\* leaves rendered pages, raw pages with contact facts, and raw pages whose
\* render checkTarget refused, which are not flagged.
RenderSkippedIsExact == renderSkipped <=> Saw("failed") \/ RenderSaved

\* The anchored arm of the render gate is fail-closed on both legs: a render is
\* only saved where the call ends up with a number it may export as Trustworthy,
\* and never when the operator has disabled the saving (WithRenderSkipDisabled).
SkipsRestOnTrust == RenderSaved => trusted # {} /\ ~skipDisabled

\* "A rendered contacts page can never LAUNDER a rotating proxy by hiding the
\* widget" (resolveContactsPage).
NeverLaundered ==
  /\ trusted \cap ProxyPhones = {}
  /\ slots["phone"].source = OfficialSite => slots["phone"].val \notin ProxyPhones

=============================================================================
