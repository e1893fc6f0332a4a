----------------------------- MODULE MapsCheck -----------------------------
(***************************************************************************)
(* One maps check (package maps): a CompositeChecker asks its backends in  *)
(* order, each through the Resilient wrapper that times its call out and   *)
(* suspends it after an error.  Three backends make one request (2GIS, its *)
(* geocoder, DaData); YandexMaps searches for up to three organisation     *)
(* pages and reads them with retries.                                      *)
(*                                                                         *)
(* Two contexts may end on their own: the caller's, and with the wrapper's *)
(* timeout the backend call's, which ends whenever the caller's does.  The *)
(* lengths of suspensions are CircuitBreaker's; here a suspension is on or *)
(* off.                                                                    *)
(***************************************************************************)
EXTENDS Naturals, Sequences

CONSTANTS
  Backends,         \* kinds of backends, in the order they are asked
  MaxOrgResults,    \* organisation pages taken from a search: 3
  FetchMaxRetries   \* retries of a page: 2

Kinds == {"2gis", "geocoder", "dadata", "yandex"}

ASSUME MapsAssumption ==
  /\ Backends \in Seq(Kinds) /\ Backends # <<>>   \* without any there is no check
  /\ MaxOrgResults \in Nat \ {0} /\ FetchMaxRetries \in Nat

PageStatuses == {"open", "temporarily_closed", "permanently_closed", "unknown"}

(***************************************************************************)
(* Single-request backends.  A response: no transport error, its HTTP      *)
(* status, whether its body parses, the API's own status, and what its     *)
(* items are worth.                                                        *)
(***************************************************************************)
Responses ==
  [arrives : BOOLEAN, http : {"ok", "refused"}, parses : BOOLEAN, api : {"ok", "refused"},
   items : {"none", "coarse", "elsewhere", "precise"}]

\* addressTokensOverlap: a known address and the first item's share a street word.
SharesStreet(r, hasAddress) == hasAddress => r.items # "elsewhere"

\* TwoGISChecker.Check: the HTTP status is not looked at.
TwoGISAnswer(r, hasAddress) ==
  IF ~r.arrives \/ ~r.parses \/ r.api = "refused" THEN "error"
  ELSE IF r.items = "none" \/ ~SharesStreet(r, hasAddress) THEN "not_found"
  ELSE "open"

\* selectBestGeocodeItem finds a building with a point; parseDaDataResponse an
\* exact house or the nearest one.
HasBuilding(r) == r.items \in {"precise", "elsewhere"}

BUG_QuotaIsNotFound(r, hasAddress) ==
  IF ~hasAddress THEN "not_found"
  ELSE IF ~r.arrives THEN "error"
  ELSE IF r.http # "ok" \/ ~r.parses \/ r.api = "refused" THEN "not_found"
  ELSE IF HasBuilding(r) THEN "open" ELSE "not_found"

\* TwoGISGeocoder.Check.
GeocoderAnswer(r, hasAddress) ==
  IF ~hasAddress THEN "not_found"
  ELSE IF ~r.arrives THEN "error"
  ELSE IF r.http # "ok" \/ ~r.parses THEN "not_found"
  ELSE IF r.api = "refused" THEN "error"
  ELSE IF HasBuilding(r) THEN "open" ELSE "not_found"

\* DaDataChecker.Check.
DaDataAnswer(r, hasAddress) ==
  IF ~hasAddress THEN "not_found"
  ELSE IF ~r.arrives \/ r.http # "ok" \/ ~r.parses THEN "error"
  ELSE IF HasBuilding(r) THEN "open" ELSE "not_found"

Answer(kind, r, hasAddress) ==
  IF kind = "2gis" THEN TwoGISAnswer(r, hasAddress)
  ELSE IF kind = "geocoder" THEN GeocoderAnswer(r, hasAddress) ELSE DaDataAnswer(r, hasAddress)

\* A request was sent and its API refuses it, as the backend's own comment on
\* quotas and keys has it.
Refuses(kind, r, hasAddress) ==
  IF kind = "2gis" THEN r.arrives /\ r.parses /\ r.api = "refused"
  ELSE IF kind = "geocoder"
  THEN hasAddress /\ r.arrives /\ r.http = "ok" /\ r.parses /\ r.api = "refused"
  ELSE hasAddress /\ r.arrives /\ r.http = "refused"

(***************************************************************************)
(* The check.                                                              *)
(***************************************************************************)
VARIABLES
  address,     \* Item.Address is known
  caller,      \* the caller's context: "live" or "done"
  call,        \* the backend call's context
  suspended,   \* backends whose breaker is open
  stage,       \* "ask", "request", "search", "fetch", "backoff", "answered"
  next,        \* the backend asked, or to ask
  lastResult,  \* some backend answered not_found
  result,      \* the composite's answer, "" before
  urls,        \* organisation pages found
  url,         \* the one being read
  attempt,     \* fetchAndParse's loop variable
  closed,      \* closedResult is set
  seen,        \* history: the statuses read from this backend's pages
  refused      \* history: this backend's API refused the request

loopVars == <<urls, url, attempt, closed>>
historyVars == <<seen, refused>>
mapsVars == <<address, caller, call, suspended, stage, next, lastResult, result, loopVars, historyVars>>

Backend == Backends[next]

\* CompositeChecker.Check: a status other than not_found is returned, a
\* not_found is kept, an error forgotten.
Composite(answer) ==
  /\ IF answer \notin {"error", "not_found"}
     THEN result' = answer /\ stage' = "answered"
     ELSE IF next = Len(Backends)
     THEN result' = "not_found" /\ stage' = "answered"
     ELSE stage' = "ask" /\ UNCHANGED result
  /\ next' = IF next = Len(Backends) \/ answer \notin {"error", "not_found"} THEN next ELSE next + 1
  /\ lastResult' = (lastResult \/ answer = "not_found")

\* Resilient.Check when the backend returns: a parent's cancellation is not
\* charged.
Return(answer) ==
  /\ suspended' = IF answer # "error" THEN suspended \ {next}
                  ELSE IF caller = "live" THEN suspended \cup {next} ELSE suspended
  /\ Composite(answer)
  /\ UNCHANGED <<caller, call>>

\* Resilient.Check up to the backend's own Check.
Ask ==
  /\ stage = "ask"
  /\ seen' = {} /\ refused' = FALSE
  /\ urls' = 0 /\ url' = 1 /\ attempt' = 0 /\ closed' = FALSE
  /\ call' = caller
  /\ IF next \in suspended
     THEN Composite("error")
     ELSE /\ stage' = IF Backend = "yandex" THEN "search" ELSE "request"
          /\ UNCHANGED <<next, lastResult, result>>
  /\ UNCHANGED <<caller, suspended>>

Request(r) ==
  /\ stage = "request"
  /\ call = "done" => ~r.arrives
  /\ refused' = Refuses(Backend, r, address)
  /\ Return(Answer(Backend, r, address))
  /\ UNCHANGED <<loopVars, seen>>

\* YandexMaps.Check: findOrgURLs.
SearchFails ==
  /\ stage = "search"
  /\ Return("error")
  /\ UNCHANGED <<loopVars, historyVars>>

SearchFinds(n) ==
  /\ stage = "search"
  /\ call = "live"
  /\ IF n = 0
     THEN Return("not_found") /\ UNCHANGED urls
     ELSE /\ urls' = n /\ stage' = "fetch"
          /\ UNCHANGED <<caller, call, suspended, next, lastResult, result>>
  /\ UNCHANGED <<url, attempt, closed, historyVars>>

\* The page is given up or was closed: the next one, or the loop's end.
NextPage(nowClosed) ==
  /\ closed' = nowClosed
  /\ IF url < urls
     THEN /\ url' = url + 1 /\ attempt' = 0 /\ stage' = "fetch"
          /\ UNCHANGED <<caller, call, suspended, next, lastResult, result>>
     ELSE /\ Return(IF nowClosed THEN "permanently_closed" ELSE "unknown")
          /\ UNCHANGED <<url, attempt>>
  /\ UNCHANGED <<urls, refused>>

BUG_FirstPageDecides(status) == TRUE

\* Open and temporarily closed branches are preferred to closed ones; a page
\* whose status is unknown also ends the search.
Decides(status) == status # "permanently_closed"

\* fetchAndParseOnce succeeds.
ReadPage(status) ==
  /\ stage = "fetch"
  /\ call = "live"
  /\ seen' = seen \cup {status}
  /\ IF Decides(status)
     THEN Return(status) /\ UNCHANGED <<loopVars, refused>>
     ELSE NextPage(TRUE)

BUG_OneTooMany(cancelled) == ~cancelled /\ attempt <= FetchMaxRetries

\* isRetryableError within the loop's bound; cancelled: the error is a context's.
Retries(cancelled) == ~cancelled /\ attempt < FetchMaxRetries

\* fetchAndParseOnce fails.  What its error is does not follow from the context:
\* the HTTP client's own timeout is a DeadlineExceeded while the context lives,
\* and the page fetcher of WithOrgFetcher may word a cancellation its own way.
FetchFails(cancelled) ==
  /\ stage = "fetch"
  /\ UNCHANGED seen
  /\ IF Retries(cancelled)
     THEN /\ stage' = "backoff"
          /\ UNCHANGED <<caller, call, suspended, next, lastResult, result, loopVars, refused>>
     ELSE NextPage(closed)

BUG_SameAttempt == attempt

NextAttempt == attempt + 1

\* The timer of the backoff.  Its select may find the context done as well and
\* take either branch.
BackoffPasses ==
  /\ stage = "backoff"
  /\ stage' = "fetch"
  /\ attempt' = NextAttempt
  /\ UNCHANGED <<caller, call, suspended, next, lastResult, result, urls, url, closed, seen, refused>>

BackoffCancelled ==
  /\ stage = "backoff"
  /\ call = "done"
  /\ NextPage(closed)
  /\ UNCHANGED seen

\* The wrapper's timeout, or the caller's context with everything below it.
CallEnds ==
  /\ stage \notin {"ask", "answered"}
  /\ call = "live"
  /\ call' = "done"
  /\ UNCHANGED <<caller, suspended, stage, next, lastResult, result, loopVars, historyVars>>

CallerEnds ==
  /\ stage # "answered"
  /\ caller = "live"
  /\ caller' = "done" /\ call' = "done"
  /\ UNCHANGED <<suspended, stage, next, lastResult, result, loopVars, historyVars>>

\* The wrappers are shared: the call of another check of the batch fails.
OthersFail(b) ==
  /\ stage # "answered"
  /\ suspended' = suspended \cup {b}
  /\ b \notin suspended
  /\ UNCHANGED <<caller, call, stage, next, lastResult, result, loopVars, historyVars>>

\* One suspended backend is given another chance: by time, or by another's success.
Recover(b) ==
  /\ stage # "answered"
  /\ suspended' = suspended \ {b}
  /\ b \in suspended
  /\ UNCHANGED <<caller, call, stage, next, lastResult, result, loopVars, historyVars>>

MapsInit ==
  /\ address \in BOOLEAN
  /\ caller \in {"live", "done"} /\ call = caller
  /\ suspended \in SUBSET DOMAIN Backends
  /\ stage = "ask" /\ next = 1 /\ lastResult = FALSE /\ result = ""
  /\ urls = 0 /\ url = 1 /\ attempt = 0 /\ closed = FALSE
  /\ seen = {} /\ refused = FALSE

Program ==
  \/ Ask
  \/ \E r \in Responses : Request(r)
  \/ SearchFails
  \/ \E n \in 0..MaxOrgResults : SearchFinds(n)
  \/ \E status \in PageStatuses : ReadPage(status)
  \/ \E cancelled \in BOOLEAN : FetchFails(cancelled)
  \/ BackoffPasses \/ BackoffCancelled

MapsNext ==
  /\ Program \/ CallEnds \/ CallerEnds \/ \E b \in DOMAIN Backends : OthersFail(b) \/ Recover(b)
  /\ UNCHANGED address

\* A request ends, by the HTTP clients' own timeouts; a timer fires.
MapsSpec == MapsInit /\ [][MapsNext]_mapsVars /\ WF_mapsVars(Program /\ UNCHANGED address)

(***************************************************************************)
(* Properties.                                                             *)
(***************************************************************************)
Reading == {"fetch", "backoff"}

\* A venue is reported permanently closed, which marks its card closed, only
\* when a page said so, every page found was tried and none that could be read
\* said anything else: a search that ranks a closed branch above the active one
\* does not close the venue.
ClosedIsUnanimous ==
  result = "permanently_closed" => seen = {"permanently_closed"} /\ url = urls

\* "A 429 must not look like address not found": a backend whose API refuses
\* the request (quota, bad key) is suspended, so that a batch stops losing
\* places to it, unless the caller itself has gone.
RefusalsTripTheBreaker ==
  [][(stage = "request" /\ stage' # "request" /\ refused' /\ caller = "live")
       => (next \in suspended')]_mapsVars

\* One of the three loops, over backends, pages and retries, goes on, or the check
\* enters a loop at its start.
GoesForward ==
  \/ stage' = "answered"
  \/ next' = next + 1 /\ next' <= Len(Backends) /\ stage' = "ask"
  \/ next' = next /\ stage = "ask" /\ stage' \in {"request", "search"}
  \/ next' = next /\ stage = "search" /\ stage' = "fetch" /\ url' = 1 /\ attempt' = 0
  \/ /\ next' = next /\ stage \in Reading /\ stage' \in Reading
     /\ \/ url' = url + 1 /\ url' <= urls
        \/ url' = url /\ attempt' = attempt + 1 /\ attempt' <= FetchMaxRetries
        \/ url' = url /\ attempt' = attempt /\ stage = "fetch" /\ stage' = "backoff"

\* The loops of a check only go forward, an inner one starting over only when an
\* outer one has moved on, and none of them beyond its bound, whatever fails or
\* ends meanwhile.
LoopsGoForward ==
  [][<<stage, next, url, attempt>>' # <<stage, next, url, attempt>> => GoesForward]_mapsVars

\* Every check answers, however many pages fail to load and whenever the
\* contexts end.
CheckAnswers == <>(result # "")

\* resilient.go on Resilient: on a timeout it returns an error, so that the
\* composite goes on to the next backend.  A call that ends after its deadline
\* without having read a page is not an answer.
TimeoutIsAnError ==
  [][(stage \in {"fetch", "backoff"} /\ stage' \in {"ask", "answered"} /\ caller = "live"
       /\ call = "done" /\ seen = {}) => (next \in suspended')]_mapsVars
=============================================================================
