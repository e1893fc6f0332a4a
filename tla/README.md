# A verification project for go-enriche

go-enriche turns an item (a place or an event: a name, a city, perhaps a URL)
into a record of facts, by asking map services, the item's own website and web
search, and by deciding which of their answers to believe. The decisions that
matter are about contact facts: which phone of which source, and when to refuse
a phone because a call-tracking widget ("DNI") put a rotating number in its
place. Around them are the mechanics of any such service: shared fetches,
circuit breakers, a two-tier cache, a batch, a parallel search, a file store.
This directory models them in TLA+, checks the models with TLC and proves what
matters most with TLAPS.

To check a run: `tlc -config <cfg> <module>`; to check proofs:
`tlapm <module>Proofs.tla`. The table of runs is in section 3. `PROJECT.json`
ties every definition to its lines, every property to a hazard and to a
mutation of the code that violates it.

## 1. The system

| component | state | operations | interacts with |
|---|---|---|---|
| resolver (`resolve.go`) | facts, a source and confidence per field, the site numbers | `seedOperatorValues`, `mergeOrg`, `mergeSite`, `mergeSearchFacts`, `mergeSnippet`, `addSiteNumbers` | called by every leg of the pipeline |
| pipeline (`enriche*.go`) | one `Result` per call: status, flags, facts | `Enrich` and its legs, `EnrichBatch`, `Search` | fetcher, renderer, ox-browser, maps, search, cache |
| fetcher (`fetch/`) | the singleflight group | `Fetch`; `fetchWithRetry` of the pipeline | HTTP |
| circuit breakers (`maps/resilient.go`, `search/circuitbreaker.go`) | error count, suspension end | `Check`/`Search`, record error, record success | wrap one backend each |
| extraction (`extract/`, `structured/`) | none; the site's numbers accumulate in the resolver | facts, phone candidates, DNI verdict, site numbers of one HTML; contacts-page discovery | pipeline |
| cache (`cache/`) | entries with expiry, in memory, Redis, or both | `Get`, `Set`, promotion | pipeline |
| maps (`maps/`) | none besides breakers and limiters | composite of Yandex, 2GIS, DaData checkers | HTTP |
| search (`search/`) | none besides breakers and limiters | providers, fallback chain, parallel merge | HTTP |
| news store and scoring (`news/`) | a JSON file per project | load, save, add, update, purge; score | file system |

What is hard here:

* **Order.** Five merge functions are called from four files in a fixed order;
  the comparator (higher or equal source wins, lower fills only a field nobody
  ever claimed) makes the result independent of that order only if it is right
  for every pair of sources, and some facts have no comparator at all.
* **Refusal.** A refused phone is a nil value that must behave as the opposite
  of an absent one, across raw page, rendered page, contacts page and search.
  It is decided twice: for the single phone of a page and for its number set.
* **Staleness.** The verdict is taken from the raw HTML, the facts from the
  rendered one; a cached result was computed for an item that may differ.
* **Partial failure.** Every leg can fail, be skipped or be blocked; flags must
  tell the consumer what the result rests on. A maps backend that refuses
  requests must not look like one that knows no such place.
* **Concurrency.** Shared flights led by one caller's context, breakers whose
  calls overlap, two cache tiers without a common lock, a batch with a limit,
  parallel providers, and a file store whose process may die anywhere.

`PROJECT.json` lists the hazards one by one, each at its line, with the
properties that cover it.

## 2. The modules

    SourcePriority  <- refined by -  Resolver  <- extended by -  Enrich
    AtomicNews      <- refined by -  NewsStore      (both over NewsEntries)
    SitePhone       <- extended by - SiteFacts
    EnrichCache     CircuitBreaker     Fetcher     MapsCheck     ParallelSearch

`MC*` modules give the constants their values for TLC (`CircuitBreaker` and
`Fetcher` need none). Theorems are in `ResolverProofs`, `EnrichProofs`,
`SiteFactsProofs`, `FetcherProofs`, `EnrichCacheProofs`, `MapsCheckProofs` (the
breaker and the check around it), `NewsStoreProofs` and `SearchProofs`.

The models meet where the components do. `Enrich` uses the merges of `Resolver`
themselves. What `Enrich` assumes of the extractor (`Extracted`: a widget leaves
only a social phone, a social phone is a site number, a verdict needs a widget)
is what `SiteFacts` shows of it (`PagesAreExtracted`, `VerdictsAgree`). That
`fetchWithRetry` returns nil only for an abandoned call, on which `HomeDown`
rests, is `Fetcher`'s `VerdictIsEarned`. `MapsCheck` has a breaker per backend
that is on or off, and `CircuitBreaker` shows for how long.
`EnrichCache` takes a whole `Enrich` computation as one step of any duration.

### Resolver, SourcePriority

`Resolver` models `resolve.go`: a field is a slot `[val, source, conf]`, `Takes`
is the comparator of `setWithConf`, `SetPreferLonger` and `DropPhone` are the
two exceptions, and there is an action per merge function. `phase` stands for
the point `Enrich` has reached, since the functions rely on their call order; an
item with no URL has search pages instead of site pages. Three variables are not
in the code: `fills` records which source filled a fact without provenance, where
the code has only the value, and two are histories, `offered` and `filled`, of
what every source has said so far of a field and of such a fact.

`SourcePriority` is what the resolver promises, without order or comparator: at
any time each field holds one of the values its strongest source has offered,
unless the phone was refused, which happens only while neither operator nor site
has offered a phone and is never taken back. `ImplementsSourcePriority` is the
refinement, checked by TLC and proved.

### Enrich

`Enrich` extends `Resolver` with one `Enrich` call: maps verdict, homepage,
contacts page, closed status, search, search pages. A page is what the extractor
reports of one HTML: facts, whether a widget is loaded, and the anchored site
numbers. The environment chooses pages from `Pages`, restricted by two facts
about the world: a raw page shows a rotating number only if it loads the widget
(`RawPages`), and a rendered page may have lost the widget and kept the number
(`RenderedPages`). Every path of `fetchAndExtract` and `fetchContactsHTML` is an
action: raw page good enough, target blocked, render failed, render done
(adopted or not), no page. Texts, images and dates are left out except for being
thin. The history variables are `siteLive`, `blind` (a rendered contacts page
was adopted with no raw HTML) and `views`: what each leg got to see of its page,
that is a raw page that states contact facts, a bare one, one whose render was
refused or failed, or a rendered one.

### SitePhone, SiteFacts

`SitePhone` is the phone half of the extractor: a page is a sequence of nodes, a
node what one of the finders may see of it (a `tel:` link with its classes and
neighbours, microdata, a social link, og data, a script, labelled text). Finders
return sets of candidates that carry the place where the code would append them,
so that "the first" is a least place. On them are defined the candidate that
becomes the phone (tiers, local code, toll-free), the DNI verdict, roles, trust,
the deduplication of a page and `AddSiteNumbers`, which merges pages. Area codes
are numbers, checked against the ranges of the code; digits of a line, selectors
and regular expressions are abstracted away. What the phone pattern of the text
fallback sees of a WhatsApp link depends on how its `href` is written, so such a
node says whether it does (`shown`).

`SiteFacts` adds the cascade of `facts.go` for phone and addresses (structured
data, visible text, the contact override, the choice between venue and legal
address) and the state: a site prints nodes, then a page is read for the item's
city, and the next begins.

### EnrichCache

`cacheKey`, the check before and the store after an enrichment, `EnrichBatch`
with its semaphore, and `Memory` under `Redis` as `Tiered` composes them. Every
call is a program counter over the steps that other calls can get between: look
in memory, delete an expired entry, look in Redis, promote, compute, store in
memory, store in Redis. Redis operations may fail, which the code ignores. An
entry is the item it was computed for, its age and whether the context had ended
by then (`late`); lifetimes are time left. `Tick` moves time by
one promotion lifetime; not while a call is about to promote or to store, since
those steps take milliseconds and the unit is five minutes, but at any moment of
a computation.

### MapsCheck

`CompositeChecker`, the `Resilient` wrapper, and the decision each backend makes
over its response: one request for 2GIS, its geocoder and DaData; for Yandex a
search for up to three organisation pages, each fetched with retries and backoff
under a context that may end at any moment. What distinguishes responses is
whether they arrive, parse, are refused by HTTP or by the API, and what their
items are worth. Whether a failed page is retried is its error's business and not
the context's: a client's own timeout counts as a deadline too. The wrappers are shared by the checks of a batch: others may
trip a breaker (`OthersFail`) or have it closed again (`Recover`) at any step.
`seen` and `refused` are histories.

### ParallelSearch

`Parallel` and `Fallback` over the same providers: what each provider will do is
chosen first (result, nil, error, panic), then goroutines end in any order, each
writing its slot. After the last, the merge goes through the slots source by
source, as the loops of the code do (`OpenSlot`, `MergeSource`, `CloseSlot`), and
drops a page that it has. A source is a page and a spelling of it.

### NewsEntries, AtomicNews, NewsStore

`NewsEntries` is what an operation makes of loaded entries. `AtomicNews` is the
promise: entries change by one whole request at a time. `NewsStore` runs the
operations system call by system call: lock, load, create the temporary file,
write, rename, each of which may fail, while other clients wait for the lock or
read, and with a crash possible between any two. After a crash the file system's
content survives and nobody holds the lock.

### CircuitBreaker

Both breakers are the same algorithm; `chargesCancelled` chooses the wrapper, in
the initial state. A call is two actions, since the lock is released during
the backend call. Time left is counted in units of the base suspension and
`Tick` moves it. The error counter saturates at `ErrsBound`, beyond which the
window no longer depends on it.

### Fetcher

`Fetch` and `fetchWithRetry`: a flight per URL in the singleflight group, led by
the first caller; `Land` ends it and hands one result to all who wait; a
certificate error moves it to its plain-HTTP hop; each caller retries a
transient result once. The leader's cancellation is one of the causes of `Fail`.
That a flight forgets its key when it ends, and that `Do` returns to every
waiter, is singleflight's contract (external code).

## 3. The runs

| run | module, cfg | properties | shows |
|---|---|---|---|
| resolver | MCResolver, Resolver.cfg | `ResolverTypeOK`, `StrongestOfferWins`, `PoisonVerdictIsExported`, `ConfidenceIsEarned`, `ConflictsAreReal`, `LongestSiteAddressStays`, `VerdictsAreFinal`, `ImplementsSourcePriority` | what a consumer may read off `Facts`, `Provenance` and the conflict counter, and what no later merge may do, for every combination of offers |
| enrich | MCEnrich, Enrich.cfg | `ProxyOnlyFromBlindRender`, `ClosedVerdictStands`, `RenderSkippedIsExact`, `SkipsRestOnTrust`, `CallsAreMerges` | rotating numbers stay out, only a live site refutes the maps, `RenderSkipped` says exactly which renders failed or were saved, and the pipeline uses the resolver as it was checked |
| site_facts | MCSiteFacts, SiteFacts.cfg | `VerdictsAgree`, `PagesAreExtracted`, `AccumulatesAllReadings`, `CityLocalWins`, `VenueKeepsItsSlot`, `TextOnlyFillsGaps` | phone, number set, refusal, city and the two address slots agree, and a page is what `Enrich` takes it to be, for every site of up to three nodes |
| enrich_cache | MCEnrichCache, EnrichCache.cfg | `TiersDisagreeBriefly`, `CancelledNeverDurable`, `AnswersOwnItem`, `BatchEnds` | races of expiry, promotion and stores serve no other item's result; an older memory value stands before a newer one of Redis for the promotion time only (a younger one may for its own life); a batch ends |
| maps_check | MCMapsCheck, MapsCheck.cfg | `ClosedIsUnanimous`, `RefusalsTripTheBreaker`, `LoopsGoForward`, `CheckAnswers` | a closed verdict is unanimous over the pages read, a refusing backend is suspended, the nested loops only go forward, every check answers |
| parallel_search | MCParallelSearch, ParallelSearch.cfg | `MergeIgnoresTiming`, `EntriesStayPaired` | the merge depends on provider order only, and keeps titles with their pages |
| news_store | MCNewsStore, NewsStore.cfg | `FileIsWhole`, `URLsAreUnique`, `ImplementsAtomicNews` | crashes and failures at any system call leave a file that parses, without duplicates, changed by whole requests |
| circuit_breaker | CircuitBreaker, CircuitBreaker.cfg | `BreakerTypeOK`, `WindowIsEarned`, `OnlyFaultsSuspend`, `ErrorsNeverShorten`, `SuspensionEnds` | overlapping calls keep the window justified, and a suspension ends |
| fetcher | Fetcher, Fetcher.cfg | `VerdictIsEarned`, `FlightsHaveWaiters`, `EveryCallReturns` | verdicts are earned, no waiter is left behind, every call returns |
| enrich_launder, enrich_cache_seed, maps_timeout | | `NeverLaundered`, `SeedIsIdentity`, `TimeoutIsAnError` | one documented claim each that the code does not keep; see section 6 |

### Bounds

* Resolver: phone, website and address (the fields with rules of their own; the
  others go through `Set` like the website) and the coordinates; two phones are
  enough for a conflict, and the addresses differ in length. The number of
  search pages is not bounded: the state space is finite because a page only
  overwrites.
* Enrich: the phone (the venue's own, one of a hard-coded WhatsApp link, a
  rotating one), and the hours as the other contact fact that decides which
  version of a page is richer. Item, maps and search offer at most the own
  phone: the resolver run covers the rest. A page anchors its own phone or one
  that only branch JSON has, and next to a widget also a rotating one.
* SiteFacts: `MaxNodes` 3 nodes over `MaxPages` 2 pages, of 29 kinds of node: a
  number in two spellings, another city's, a mobile, a toll-free and an invalid
  one, in every finder's place, with labels, trackers and widgets; a rule of the
  extractor concerns at most two candidates and what condemns them. The cap on
  branch candidates is 2 so that three numbers exceed it; the label search
  goes 4 levels up, as in the code.
* EnrichCache: a batch of three over two keys in two slots, so that one waits; `TTL` 2 and
  `PromotionTTL` 1 units, the smallest with a promotion that ends before its
  entry. No bound on time is needed: a value ages only while
  it is stored, for at most a lifetime and one promotion.
* MapsCheck: a backend of every kind with Yandex second, and the caps of the code
  (three pages, two retries).
* ParallelSearch: three providers; six results with duplicates within and across
  providers, an unusable URL, missing entries, context alone, and nothing.
* NewsStore: two clients, two URLs, one of them under two IDs, and one ID of two
  URLs; a missing, an empty and a filled file at the start.
* CircuitBreaker: three callers; the caps of the code (20 units, shift 8) and a
  counter to 11, past both. Enough for one call to open the breaker, one to
  extend and one to close it.
* Fetcher: three callers of one https URL (leader, waiter, and one that comes
  between two flights); keys of the group are independent.

`CHECK_DEADLOCK FALSE` stands where a call simply ends (resolver, enrich,
site_facts, fetcher, maps_check, parallel_search). Breaker, cache and news store
never stop.

### Fairness

* `SuspensionEnds` assumes only that time passes (`WF(Tick)`). No backend has to
  answer and nobody has to call.
* `EveryCallReturns` assumes that a flight ends, because the HTTP client has a
  timeout (`DefaultTimeout`), and that the retry timer fires. No caller has to
  call and no context has to end.
* `BatchEnds` assumes that each goroutine runs on (`WF(CallStep(i))`) and that an
  enrichment ends, because all it waits for has a timeout. Neither time has to
  pass nor a context to end, and a call may be overtaken in every way.
* `CheckAnswers` assumes that the program goes on (`WF(Program)`): the requests
  of a backend have timeouts, and backoff timers fire. No context has to end.

## 4. The proofs

TLC checks the instances above; the theorems hold for every value of the
constants under the named assumptions of the modules.

| module | theorem: property | inductive invariant and argument |
|---|---|---|
| ResolverProofs | `TypeCorrect`: `ResolverTypeOK`; `StrongestOfferCorrect`: `StrongestOfferWins`; `PoisonVerdictCorrect`: `PoisonVerdictIsExported`; `VerdictsFinal`: `VerdictsAreFinal`; `Implements`: `ImplementsSourcePriority` | `IInv`. `StrongestOfferWins` says nothing of a locked phone, so it adds that a refused phone is an empty slot owned by the lock (`Locked`), that the operator, the only source above the lock, has then not offered a phone, and that nobody has spoken before the seed. For the facts without a comparator `FillsInv` adds who can have spoken at each point of the call, which is all that makes the first to offer one the strongest. Field by field: `SetKeepsStrongest`, then the two exceptions of the site, then a lemma per kind of merge |
| ResolverProofs, provenance | `ConfidenceEarned`: `ConfidenceIsEarned`; `ConflictsReal`: `ConflictsAreReal`; `LongestAddressStays`: `LongestSiteAddressStays` | `IInv /\ ProvenanceInv`: confidences follow the sources, and the search speaks last (`SearchIsLast`), without which a phone that a site refuses might be a snippet's and its conflict not a card's |
| EnrichProofs | `CallsAreMergesCorrect`: `CallsAreMerges`; `ProxyOnlyFromBlindRenderCorrect`, `ClosedVerdictStandsCorrect`, `RenderSkippedIsExactCorrect`, `SkipsRestOnTrustCorrect` | `EnrichInv`. All render paths of a leg are instances of `HomeLeg` and `ContactsLeg` (`HomeLegs`, `ContactsLegs`), so each leg is treated once. `TrustIsClean` and `PhoneIsClean` carry the DNI argument: with a widget on either version only social links are left, without one the render shows what the raw page may show. `CallsKeepTheLadder` composes: the resolver's theorems hold of every Enrich call |
| SiteFactsProofs | `VerdictsAgreeCorrect`, `PagesAreExtractedCorrect`, `CityLocalWinsCorrect`, `VenueKeepsItsSlotCorrect`, `AccumulatesAllReadingsCorrect`, `TextOnlyFillsGapsCorrect` | `SiteInv`. The first four need only that the page is a sequence of nodes: they are facts about every page (`VerdictsAgreeHolds` and its like). That the best of a set exists rests on `LeastNatural`: the intervals below the members are subsets of a finite set, and strict inclusion is well-founded on those. Dedupe, role reduction and tags are each a lemma on what they keep of a fact (`DedupeFacts`, `ReducedFact`, `TaggedFact`); `CollectFacts` puts them together for a page and `AddFacts` for two sets. Accumulation is inductive over the pages read, once the set is known to hold tagged facts (`NumbersInv`) |
| FetcherProofs | `VerdictIsEarnedCorrect`: `VerdictIsEarned`; `FlightsHaveWaitersCorrect`: `FlightsHaveWaiters` | `FetcherInv`. That two failures of a call come from two flights needs serial numbers: a flight is the last of its URL, and the one that failed a waiting call is older than any it can join (`SerialInv`). `LandInv` treats the three outcomes for a waiter |
| EnrichCacheProofs | `CacheTypeCorrect`, `AnswersOwnItemCorrect`, `CancelledNeverDurableCorrect`, `TiersDisagreeBrieflyCorrect` | `CacheInv`: entries lie under the key of their item, what a call carries belongs to its own key, a late result is held only by a call whose context has ended, Redis holds none, and an entry in memory older than the one in Redis lives on a promotion only |
| MapsCheckProofs, breaker | `BreakerTypeCorrect`, `WindowIsEarnedCorrect`, `OnlyFaultsSuspendCorrect`, `ErrorsNeverShortenCorrect`, `SuspensionRunsOutCorrect` | `BreakerInv` adds that a maps wrapper with no recorded fault has no window. `BackoffGrows`: the window grows with the errors. The provers have no axiom of powers; the two facts used are `PowersAssumption`, which TLC evaluates |
| MapsCheckProofs, check | `ClosedIsUnanimousCorrect`, `RefusalsTripTheBreakerCorrect`, `LoopsGoForwardCorrect` | `MapsInv`: the fallback status and the pages seen say the same. `LoopsInv` adds the bounds of the retries: a page is fetched anew only below the bound (`AttemptsInv`); `EveryStep` says which of the loops a step moves |
| NewsStoreProofs | `StoreTypeCorrect`, `FileAlwaysWhole`, `URLsAlwaysUnique`, `StoreImplements` (`ImplementsAtomicNews`) | `StoreInv`: a writer excludes everyone else, what it is about to rename is an outcome of its request on the file's entries, and only the temporary file is ever torn |
| SearchProofs | `MergeIgnoresTimingCorrect`, `EntriesStayPairedCorrect` | `SearchInv`: a goroutine that has ended has written its slot and nothing is merged before all have (`WrittenInv`); what the merge has read is in it (`ReadInv`, `ContextInv`), and what is in it stands where the first provider that finds it has its place (`PlacedInv`). `NewIsFirst`: a page that the merge does not have yet was found by no earlier provider |

Three theorems state what no run has to: the type invariants of the cache and of
the store (`CacheTypeOK`, `StoreTypeOK`), and `SuspensionRunsOut`. Where a theorem
states a property of a run, the run shows it on an instance.

Only model-checked: the liveness properties `SuspensionEnds`, `EveryCallReturns`,
`BatchEnds` and `CheckAnswers`, since fairness and `ENABLED` are out of the
prover's reach. Of three of them the safety half is proved. `SuspensionRunsOut`:
while a backend is suspended, every step of it either ends one of the calls in
flight or takes time off the window, and none admits another call. `LoopsGoForward`:
backends, pages and retries, in this order, only grow and stay bounded, so that a
check takes a bounded number of steps of its own. `FlightsHaveWaiters`: a waiting
call always has a flight that will wake it. What is left to fairness is that
steps are taken.

The named assumptions on constants are those the code gives: caps and lifetimes
are positive, `MapsAssumption` has at least one backend, `NodesAssumption` gives
nodes the shape the finders read (numbers are listed, an item has at most one
address), `SearchAssumption` gives results the types of the code, and
`InputsAssumption` restricts pages to `Extracted`.

Assumptions of the models: `NewsStore` has one `Store` per directory (the code's
lock is per `Store`) and a crash is of the process, not of the machine (the code
does not sync files). `EnrichCache` takes Redis as one key-value store with
expiry. `RawPages` and `RenderedPages` are what `Enrich` assumes of the world's
pages; that any page is `Extracted` is proved of the extractor's model
(`PagesAreExtractedCorrect`, `VerdictsAgreeCorrect`), the two models being tied by
these statements and not by a common module. There `SocialPhones` are the numbers
that are only ever printed as hard-coded links.

## 5. Not modelled

* Contacts-page discovery (`extract/contactspage.go`): the choice of one link by
  keywords; `Enrich` takes its result, none included, as a choice.
* News scoring: arithmetic over keyword matches, one pass without state.
* Parsing of HTML, JSON-LD, map pages and search pages: the models start at what
  a parser distinguishes. The single fills without rules of their own (hours,
  price, website, e-mail, coordinates from a page) are left out of `SiteFacts`,
  and stand as one field each in `Resolver`.
* Article text, dates and images; the HTTP clients and their transports; the
  search providers but for `normalizeURL`; options and metrics plumbing; rate
  limiters, which are one library call each.
* Of `Enrich`: texts, images, dates, and the text of search results.

What could follow: the price and hours of the cascade, and scoring as a pure
operator, neither of which has state or order to go wrong.

## 6. Where code and documentation disagree

Three are runs that TLC violates, with the quoted line in `PROJECT.json`:

* A rendered contacts page "can never launder" a rotating number; it can when its
  raw HTML was not fetched (`NeverLaundered`).
* A different seed "must resolve to a different entry"; the fingerprint leaves out
  the pinned e-mail (`SeedIsIdentity`).
* On a timeout a maps wrapper is said to return an error so that the composite
  goes on; a Yandex check whose deadline passes before a page is read answers
  "unknown" and the composite stops (`TimeoutIsAnError`).

Met while modelling, modelled as the code has it, and not worth a run each:

* With `WithMapsChecker` a place that is reported closed "short-circuits with
  StatusClosed" (`options.go:88-90`); the code, and the doc of `Enrich`
  (`enriche.go:97-107`), fetch the official site in any case, and a live one
  refutes the verdict. `ClosedVerdictStands` states what the code does.
* Search pages are said to fill only absent fields (`resolve.go:387`,
  `enriche_search_fetch.go:17`); being an equal source they replace what the
  snippet or an earlier page gave.
* A refused contacts page "must still be able to drop a homepage phone"
  (`enriche_contacts.go:108`); the homepage's phone has the site's own priority
  and stays.
* A phone of a hard-coded WhatsApp link is no reason for a refusal
  (`extract/facts.go:36`); on a contacts page with a widget it is dropped all the
  same.
* `RenderSkipped` is said to be false when "a successful render corroborated the
  page (or none was avoidable)" (`types.go:115`, and `enriche_contacts.go:209` to
  the same effect); a leg whose render `checkTarget` refuses rests on the raw page
  and leaves it false (`HomeRenderBlocked`, `ContactsRenderBlocked`).
  `RenderSkippedIsExact` states what the flag does say.
* A render is said never to override a raw contact fact
  (`enriche_fetch.go:203`); a richer one replaces the whole set.
* `fetchWithRetry` is said to return nil if all attempts fail
  (`enriche_fetch.go:488`); it returns the last transient result, so the
  ox-browser fallback is not used for an unreachable site.
* `EnrichBatch` is said to skip items not started when the context ends
  (`enriche.go:236`); it starts every one, and each fails on its own.
* A page's phone and its number set treat a toll-free number of a social link
  differently on a page with a widget: the set trusts it, the phone omits it
  (`extract/contacts.go:572`). `VerdictsAgree` excepts it.
* Composite maps checks swallow a backend's error, so that the caller cannot tell
  "nobody knows the place" from "nobody could be asked".
* `Parallel` is said to fail "only if ALL providers fail"
  (`search/parallel.go:30`); it also fails if all succeed with nothing.
