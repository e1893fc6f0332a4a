------------------------------ MODULE Fetcher ------------------------------
(***************************************************************************)
(* Fetching a page (fetch/fetcher.go) as the legs of Enrich do it          *)
(* (fetchWithRetry): concurrent calls for one URL share one flight, which  *)
(* the first of them leads with its own context; a certificate error makes *)
(* the flight try once more over plain HTTP; and every caller retries once *)
(* what looks transient.                                                   *)
(*                                                                         *)
(* A flight is the life of one doFetch in the singleflight group.  Bodies, *)
(* redirect targets and status codes are left out, but for what makes a    *)
(* result worth a retry.                                                   *)
(***************************************************************************)
EXTENDS Integers, FiniteSets

CONSTANTS
  Callers,    \* concurrent fetchWithRetry calls
  Urls,       \* the keys of the singleflight group
  HttpsUrls   \* those httpFallbackURL can downgrade

ASSUME UrlsAssumption == HttpsUrls \subseteq Urls

(***************************************************************************)
(* FetchResult; transient is IsTransient: a failed connection or one of    *)
(* 502, 503, 504 and 429.  "answered" stands for every verdict that is not *)
(* retried: active, not_found, redirect, and unreachable with another code.*)
(***************************************************************************)
Statuses == {"answered", "unreachable", "tls_invalid"}
FetchResult ==
  {r \in [status : Statuses, transient : BOOLEAN, tls : BOOLEAN] :
     r.transient => r.status = "unreachable"}

Result(status, transient, tls) ==
  [status |-> status, transient |-> transient, tls |-> tls]

\* What processResponse makes of a response.
Responses(tls) == {Result("answered", FALSE, tls), Result("unreachable", TRUE, tls)}

NoFlight == [leader |-> "nobody", hop |-> "none", serial |-> 0]
Pending == Result("pending", FALSE, FALSE)   \* fetchWithRetry has not returned
Nil == Result("nil", FALSE, FALSE)           \* it returned nil

VARIABLES
  target,     \* the URL of each call
  cancelled,  \* the calls whose context has ended
  pc,         \* where fetchWithRetry is
  attempt,    \* how often it has called Fetch
  flight,     \* [Urls -> flights]: the singleflight group
  result,     \* what fetchWithRetry returned
  serials,    \* history: the number of flights there were of each URL
  failures    \* history: the flights whose transient result the call was given

fetcherVars == <<target, cancelled, pc, attempt, flight, result, serials, failures>>

(***************************************************************************)
(* fetchWithRetry.                                                         *)
(***************************************************************************)
\* singleflight.Group.Do: join the flight of the URL, or lead a new one.
Enter(c) ==
  LET u == target[c]
      new == [leader |-> c, hop |-> "primary", serial |-> serials[u] + 1]
  IN /\ pc' = [pc EXCEPT ![c] = "fetching"]
     /\ attempt' = [attempt EXCEPT ![c] = @ + 1]
     /\ IF flight[u] = NoFlight
        THEN flight' = [flight EXCEPT ![u] = new] /\ serials' = [serials EXCEPT ![u] = @ + 1]
        ELSE UNCHANGED <<flight, serials>>
     /\ UNCHANGED <<target, cancelled, result, failures>>

Start(c) == pc[c] = "start" /\ Enter(c)

\* The jitter timer fires; also when the context is done at the same time.
Retry(c) == pc[c] = "backoff" /\ Enter(c)

\* ctx.Done() while waiting to retry: the only way to return nil.
GiveUp(c) ==
  /\ pc[c] = "backoff"
  /\ c \in cancelled
  /\ pc' = [pc EXCEPT ![c] = "done"]
  /\ result' = [result EXCEPT ![c] = Nil]
  /\ UNCHANGED <<target, cancelled, attempt, flight, serials, failures>>

Cancel(c) ==
  /\ c \notin cancelled
  /\ pc[c] # "done"
  /\ cancelled' = cancelled \cup {c}
  /\ UNCHANGED <<target, pc, attempt, flight, result, serials, failures>>

(***************************************************************************)
(* doFetch.                                                                *)
(***************************************************************************)
BUG_LeaderOnly(u) == {c \in Callers : flight[u].leader = c}

\* Whom the end of a flight wakes.
Waiting(u) == {c \in Callers : pc[c] = "fetching" /\ target[c] = u}

Retries(c, r) == attempt[c] = 1 /\ r.transient

BUG_StaysInGroup(u) == flight[u]
Forgotten(u) == NoFlight

\* The flight of u ends: every call that joined it gets its result.
Land(u, r) ==
  /\ flight' = [flight EXCEPT ![u] = Forgotten(u)]
  /\ pc' = [c \in Callers |->
       IF c \notin Waiting(u) THEN pc[c]
       ELSE IF Retries(c, r) THEN "backoff" ELSE "done"]
  /\ result' = [c \in Callers |->
       IF c \in Waiting(u) /\ ~Retries(c, r) THEN r ELSE result[c]]
  /\ failures' = [c \in Callers |->
       IF c \in Waiting(u) /\ r.transient
       THEN failures[c] \cup {flight[u].serial} ELSE failures[c]]
  /\ UNCHANGED <<target, cancelled, attempt, serials>>

OverHttp(u) == flight[u].hop = "fallback"

\* The origin answers.
Respond(u) ==
  /\ flight[u] # NoFlight
  /\ \E r \in Responses(OverHttp(u)) : Land(u, r)

\* isCertError on the https hop: one more request, over http.
CertError(u) ==
  /\ u \in HttpsUrls
  /\ flight[u].hop = "primary"
  /\ flight' = [flight EXCEPT ![u].hop = "fallback"]
  /\ UNCHANGED <<target, cancelled, pc, attempt, result, serials, failures>>

\* Any other failure: refused, timed out, or the leader's context ended.
Fail(u) ==
  /\ flight[u] # NoFlight
  /\ Land(u, IF OverHttp(u) THEN Result("tls_invalid", FALSE, FALSE)
             ELSE Result("unreachable", TRUE, FALSE))

FetcherInit ==
  /\ target \in [Callers -> Urls]
  /\ cancelled = {}
  /\ pc = [c \in Callers |-> "start"]
  /\ attempt = [c \in Callers |-> 0]
  /\ flight = [u \in Urls |-> NoFlight]
  /\ result = [c \in Callers |-> Pending]
  /\ serials = [u \in Urls |-> 0]
  /\ failures = [c \in Callers |-> {}]

FetcherNext ==
  \/ \E c \in Callers : Start(c) \/ Retry(c) \/ GiveUp(c) \/ Cancel(c)
  \/ \E u \in Urls : Respond(u) \/ CertError(u) \/ Fail(u)

\* The client's timeout ends every request, and the jitter timer fires; nothing
\* makes a caller call or a context end.
Fairness ==
  /\ \A u \in Urls : WF_fetcherVars(Respond(u) \/ CertError(u) \/ Fail(u))
  /\ \A c \in Callers : WF_fetcherVars(Retry(c) \/ GiveUp(c))

FetcherSpec == FetcherInit /\ [][FetcherNext]_fetcherVars /\ Fairness

(***************************************************************************)
(* Properties.                                                             *)
(***************************************************************************)
\* What a call reports is what happened to it, whoever led its flights: a
\* transient failure only after two different flights failed (the retry never
\* rejoins the flight that failed it, whoever else leads, waits and retries
\* meanwhile); nil only for a call abandoned between two attempts, never for an
\* unreachable origin nor for the cancellation of another call.
VerdictIsEarned ==
  \A c \in Callers :
    /\ result[c].transient => Cardinality(failures[c]) = 2
    /\ result[c] = Nil => c \in cancelled /\ Cardinality(failures[c]) = 1
    /\ pc[c] = "done" /\ Cardinality(failures[c]) = 2 => result[c].transient

\* Nobody waits for a flight that is over, and no flight goes on that nobody
\* waits for: its leader stays in it, its own context done or not.
FlightsHaveWaiters ==
  \A u \in Urls :
    IF flight[u] = NoFlight
    THEN \A c \in Callers : target[c] = u => pc[c] # "fetching"
    ELSE pc[flight[u].leader] = "fetching" /\ target[flight[u].leader] = u

\* Every call returns: no waiter is left behind by the flight it joined.
EveryCallReturns == \A c \in Callers : pc[c] = "fetching" ~> pc[c] = "done"

=============================================================================
