--------------------------- MODULE MapsCheckProofs ---------------------------
(***************************************************************************)
(* Proofs about the maps backends: first the breaker around each           *)
(* (CircuitBreaker), for any number of overlapping calls and any           *)
(* constants, then the check that asks them (MapsCheck), for any backends  *)
(* in any order, any number of organisation pages and of retries.          *)
(*                                                                         *)
(* The provers have no axiom of exponentiation: what is used of it is      *)
(* PowersAssumption of CircuitBreaker, which TLC evaluates.                *)
(***************************************************************************)
EXTENDS MapsCheck, CircuitBreaker, TLAPS

(***************************************************************************)
(* The breaker.                                                            *)
(***************************************************************************)
\* A maps wrapper that has recorded no fault has recorded no error.
FaultInv == ~chargesCancelled /\ ~faulted => left = 0

BreakerInv == BreakerTypeOK /\ WindowIsEarned /\ FaultInv

\* The window is positive, capped, and grows with the errors.
LEMMA BackoffGrows ==
  ASSUME NEW m \in 1..ErrsBound, NEW n \in 1..ErrsBound, m <= n
  PROVE  /\ Backoff(m) \in 1..MaxSuspend
         /\ Backoff(m) <= Backoff(n)
<1> DEFINE a == Least(m - 1, MaxExpShift)
           b == Least(n - 1, MaxExpShift)
<1>1. a \in 0..MaxExpShift /\ b \in 0..MaxExpShift /\ a <= b
  BY BreakerAssumption DEF Least
<1> HIDE DEF a, b
<1> DEFINE x == 2 ^ a
           y == 2 ^ b
<1>2. x \in Nat \ {0} /\ y \in Nat \ {0} /\ x <= y
  BY <1>1, PowersAssumption
<1>3. Backoff(m) = Least(x, MaxSuspend) /\ Backoff(n) = Least(y, MaxSuspend)
  BY DEF Backoff, a, b
<1> HIDE DEF x, y
<1> QED BY <1>2, <1>3, BreakerAssumption DEF Least

\* What recording an error does to the counter and the window.
LEMMA ErrorExtends ==
  ASSUME BreakerInv, RecordError
  PROVE  /\ consecutiveErrs' \in 1..ErrsBound
         /\ left' \in 1..MaxSuspend
         /\ left' = Backoff(consecutiveErrs')
         /\ left' >= left
<1>1. consecutiveErrs' \in 1..ErrsBound /\ consecutiveErrs' >= consecutiveErrs
  BY BreakerAssumption DEF RecordError, Least, BreakerInv, BreakerTypeOK
<1>2. left' = Backoff(consecutiveErrs') /\ left' \in 1..MaxSuspend
  BY <1>1, BackoffGrows DEF RecordError
<1>3. left' >= left
  <2>1. CASE consecutiveErrs > 0
    <3>1. consecutiveErrs \in 1..ErrsBound
      BY <2>1 DEF BreakerInv, BreakerTypeOK
    <3>2. Backoff(consecutiveErrs) <= Backoff(consecutiveErrs')
          /\ Backoff(consecutiveErrs) \in 1..MaxSuspend
      BY <1>1, <3>1, BackoffGrows
    <3> QED BY <1>2, <2>1, <3>2, BreakerAssumption DEF BreakerInv, BreakerTypeOK, WindowIsEarned
  <2>2. CASE ~(consecutiveErrs > 0)
    BY <1>2, <2>2, BreakerAssumption DEF BreakerInv, BreakerTypeOK, WindowIsEarned
  <2> QED BY <2>1, <2>2
<1> QED BY <1>1, <1>2, <1>3

\* An error keeps the window and the counter together.
LEMMA ErrorEarns ==
  ASSUME BreakerInv, RecordError
  PROVE  /\ left' \in 0..MaxSuspend /\ consecutiveErrs' \in 0..ErrsBound
         /\ WindowIsEarned'
<1>1. /\ consecutiveErrs' \in 1..ErrsBound /\ left' \in 1..MaxSuspend
      /\ left' = Backoff(consecutiveErrs')
  BY ErrorExtends
<1>2. consecutiveErrs' > 0 /\ left' <= Backoff(consecutiveErrs')
  BY <1>1, BreakerAssumption
<1> QED BY <1>1, <1>2, BreakerAssumption DEF WindowIsEarned

\* A success clears both.
LEMMA SuccessEarns ==
  ASSUME RecordSuccess
  PROVE  left' = 0 /\ consecutiveErrs' = 0 /\ WindowIsEarned'
BY DEF RecordSuccess, WindowIsEarned

LEMMA BreakerNextInv == BreakerInv /\ [BreakerNext]_breakerVars => BreakerInv'
<1> SUFFICES ASSUME BreakerInv, [BreakerNext]_breakerVars PROVE BreakerInv'
  OBVIOUS
<1>1. ASSUME NEW c \in Callers, Call(c) PROVE BreakerInv'
  BY <1>1 DEF Call, BreakerInv, BreakerTypeOK, WindowIsEarned, FaultInv
<1>2. ASSUME NEW c \in Callers, Succeed(c) PROVE BreakerInv'
  <2>1. left' = 0 /\ consecutiveErrs' = 0 /\ WindowIsEarned'
    BY <1>2, SuccessEarns DEF Succeed
  <2>2. calling' \subseteq Callers /\ faulted' \in BOOLEAN /\ chargesCancelled' \in BOOLEAN
    BY <1>2 DEF Succeed, BreakerInv, BreakerTypeOK
  <2>3. 0 \in 0..MaxSuspend /\ 0 \in 0..ErrsBound
    BY BreakerAssumption
  <2> QED BY <2>1, <2>2, <2>3 DEF BreakerInv, BreakerTypeOK, FaultInv
<1>3. ASSUME NEW c \in Callers, Fail(c) PROVE BreakerInv'
  <2>1. /\ left' \in 0..MaxSuspend /\ consecutiveErrs' \in 0..ErrsBound
        /\ WindowIsEarned'
    BY <1>3, ErrorEarns DEF Fail
  <2>2. calling' \subseteq Callers /\ faulted' = TRUE /\ chargesCancelled' \in BOOLEAN
    BY <1>3 DEF Fail, BreakerInv, BreakerTypeOK
  <2> QED BY <2>1, <2>2 DEF BreakerInv, BreakerTypeOK, FaultInv
<1>4. ASSUME NEW c \in Callers, Abandon(c) PROVE BreakerInv'
  <2>1. /\ calling' \subseteq Callers /\ faulted' = faulted
        /\ chargesCancelled' = chargesCancelled
    BY <1>4 DEF Abandon, BreakerInv, BreakerTypeOK
  <2>2. CASE chargesCancelled
    <3>1. RecordError
      BY <1>4, <2>2 DEF Abandon, ChargesAbandoned
    <3> QED BY <2>1, <2>2, <3>1, ErrorEarns DEF BreakerInv, BreakerTypeOK, FaultInv
  <2>3. CASE ~chargesCancelled
    <3>1. UNCHANGED <<consecutiveErrs, left>>
      BY <1>4, <2>3 DEF Abandon, ChargesAbandoned
    <3> QED BY <2>1, <3>1 DEF BreakerInv, BreakerTypeOK, FaultInv, WindowIsEarned
  <2> QED BY <2>2, <2>3
<1>5. CASE Tick
  <2>1. left' = left - 1 /\ left > 0 /\ left \in 0..MaxSuspend
    BY <1>5 DEF Tick, BreakerInv, BreakerTypeOK
  <2>2. UNCHANGED <<chargesCancelled, consecutiveErrs, calling, faulted>>
    BY <1>5 DEF Tick
  <2>3. left' \in 0..MaxSuspend /\ left' <= left
    BY <2>1, BreakerAssumption
  <2>4. consecutiveErrs > 0 /\ consecutiveErrs \in 1..ErrsBound
    BY <2>1 DEF BreakerInv, BreakerTypeOK, WindowIsEarned
  <2>5. Backoff(consecutiveErrs) \in 1..MaxSuspend /\ left <= Backoff(consecutiveErrs)
    BY <2>4, BackoffGrows DEF BreakerInv, WindowIsEarned
  <2>6. left' <= Backoff(consecutiveErrs)
    BY <2>1, <2>3, <2>5, BreakerAssumption
  <2>7. WindowIsEarned'
    BY <2>2, <2>4, <2>6 DEF WindowIsEarned
  <2>8. FaultInv'
    BY <2>1, <2>2 DEF BreakerInv, FaultInv
  <2> QED BY <2>2, <2>3, <2>7, <2>8 DEF BreakerInv, BreakerTypeOK
<1>6. CASE UNCHANGED breakerVars
  BY <1>6 DEF breakerVars, BreakerInv, BreakerTypeOK, WindowIsEarned, FaultInv
<1> QED BY <1>1, <1>2, <1>3, <1>4, <1>5, <1>6 DEF BreakerNext

\* The invariant holds however the calls overlap.
THEOREM AlwaysBreakerInv == BreakerSpec => []BreakerInv
<1>1. BreakerInit => BreakerInv
  <2> SUFFICES ASSUME BreakerInit PROVE BreakerInv
    OBVIOUS
  <2>1. 0 \in 0..ErrsBound /\ 0 \in 0..MaxSuspend /\ ~(0 > 0)
    BY BreakerAssumption
  <2>2. BreakerTypeOK /\ FaultInv
    BY <2>1 DEF BreakerInit, BreakerTypeOK, FaultInv
  <2>3. WindowIsEarned
    BY <2>1 DEF BreakerInit, WindowIsEarned
  <2> QED BY <2>2, <2>3 DEF BreakerInv
<1> QED BY <1>1, BreakerNextInv, PTL DEF BreakerSpec

\* The counter and the window stay within their bounds.
THEOREM BreakerTypeCorrect == BreakerSpec => []BreakerTypeOK
<1>1. BreakerInv => BreakerTypeOK
  BY DEF BreakerInv
<1> QED BY <1>1, AlwaysBreakerInv, PTL

\* However calls overlap, nobody is refused unless the last recorded call
\* failed, nor for longer than the errors call for (recordError, recordSuccess).
THEOREM WindowIsEarnedCorrect == BreakerSpec => []WindowIsEarned
<1>1. BreakerInv => WindowIsEarned
  BY DEF BreakerInv
<1> QED BY <1>1, AlwaysBreakerInv, PTL

\* Callers that give up never suspend a maps backend (maps Resilient.Check).
THEOREM OnlyFaultsSuspendCorrect == BreakerSpec => []OnlyFaultsSuspend
<1>1. BreakerInv => OnlyFaultsSuspend
  BY DEF BreakerInv, BreakerTypeOK, FaultInv, OnlyFaultsSuspend
<1> QED BY <1>1, AlwaysBreakerInv, PTL

\* Only time and a success shorten the suspension; a late error never does.
THEOREM ErrorsNeverShortenCorrect == BreakerSpec => ErrorsNeverShorten
<1> DEFINE Short == left' < left =>
              \/ left' = left - 1 /\ UNCHANGED <<consecutiveErrs, calling>>
              \/ consecutiveErrs' = 0
<1>1. BreakerInv /\ [BreakerNext]_breakerVars => [Short]_breakerVars
  <2> SUFFICES ASSUME BreakerInv, BreakerNext PROVE Short
    OBVIOUS
  <2>1. ASSUME RecordError PROVE Short
    <3>1. left' \in 1..MaxSuspend /\ left \in 0..MaxSuspend /\ left' >= left
      BY <2>1, ErrorExtends DEF BreakerInv, BreakerTypeOK
    <3> QED BY <3>1, BreakerAssumption
  <2>2. ASSUME left' = left PROVE Short
    BY <2>2, BreakerAssumption DEF BreakerInv, BreakerTypeOK
  <2>3. ASSUME NEW c \in Callers, Call(c) \/ Succeed(c) \/ Fail(c) \/ Abandon(c)
        PROVE  Short
    BY <2>1, <2>2, <2>3 DEF Call, Succeed, RecordSuccess, Fail, Abandon
  <2>4. ASSUME Tick PROVE Short
    BY <2>4 DEF Tick
  <2> QED BY <2>3, <2>4 DEF BreakerNext
<1> QED BY <1>1, AlwaysBreakerInv, PTL DEF BreakerSpec, ErrorsNeverShorten

\* While a backend is suspended no call begins: a step that leaves it so ends one
\* of those in flight or takes time off the window.  The calls in flight and the
\* time are both finite, so that with time passing the suspension ends.
THEOREM SuspensionRunsOutCorrect == BreakerSpec => SuspensionRunsOut
<1> DEFINE RunsOut == left > 0 /\ left' > 0 =>
              \/ calling' \subseteq calling /\ calling' # calling
              \/ calling' = calling /\ left' < left
<1>1. BreakerInv /\ [BreakerNext]_breakerVars => [RunsOut]_breakerVars
  <2> SUFFICES ASSUME BreakerInv, BreakerNext, left > 0, left' > 0 PROVE RunsOut
    OBVIOUS
  <2>1. left \in 0..MaxSuspend
    BY DEF BreakerInv, BreakerTypeOK
  <2>2. ASSUME NEW c \in Callers, Call(c) PROVE FALSE
    BY <2>1, <2>2, BreakerAssumption DEF Call, Admits
  <2>3. ASSUME NEW c \in Callers, Succeed(c) \/ Fail(c) \/ Abandon(c) PROVE RunsOut
    <3>1. c \in calling /\ calling' = calling \ {c}
      BY <2>3 DEF Succeed, Fail, Abandon
    <3> QED BY <3>1
  <2>4. ASSUME Tick PROVE RunsOut
    BY <2>1, <2>4, BreakerAssumption DEF Tick
  <2> QED BY <2>2, <2>3, <2>4 DEF BreakerNext
<1> QED BY <1>1, AlwaysBreakerInv, PTL DEF BreakerSpec, SuspensionRunsOut

(***************************************************************************)
(* The check.                                                              *)
(***************************************************************************)
Closed == "permanently_closed"

\* The loop over a backend's pages: what was read so far is what closedResult
\* stands for, and the page being read is one of those found.
LoopInv ==
  /\ urls \in Nat /\ url \in Nat /\ closed \in BOOLEAN
  /\ stage # "answered" => result = ""
  /\ stage = "search" => seen = {} /\ closed = FALSE /\ url = 1
  /\ stage \in Reading => url <= urls /\ seen = (IF closed = TRUE THEN {Closed} ELSE {})

MapsInv == LoopInv /\ ClosedIsUnanimous

\* What the composite makes of an answer that is not a closed venue.
LEMMA CompositeOther ==
  ASSUME NEW answer, answer # Closed, Composite(answer)
  PROVE  \/ stage' = "ask" /\ result' = result
         \/ stage' = "answered" /\ result' # Closed
<1>1. CASE answer \notin {"error", "not_found"}
  BY <1>1 DEF Composite
<1>2. CASE answer \in {"error", "not_found"} /\ next = Len(Backends)
  BY <1>2 DEF Composite, Closed
<1>3. CASE answer \in {"error", "not_found"} /\ next # Len(Backends)
  BY <1>3 DEF Composite
<1> QED BY <1>1, <1>2, <1>3

LEMMA ReturnOther ==
  ASSUME NEW answer, answer # Closed, Return(answer)
  PROVE  \/ stage' = "ask" /\ result' = result
         \/ stage' = "answered" /\ result' # Closed
BY CompositeOther DEF Return

\* A single request never closes a venue.
LEMMA AnswersAreNotClosed ==
  ASSUME NEW kind, NEW r, NEW hasAddress
  PROVE  Answer(kind, r, hasAddress) \in {"error", "not_found", "open"}
BY DEF Answer, TwoGISAnswer, GeocoderAnswer, DaDataAnswer

\* A backend whose API refuses the request answers with an error.
LEMMA RefusalsAreErrors ==
  ASSUME NEW kind, NEW r, NEW hasAddress, Refuses(kind, r, hasAddress)
  PROVE  Answer(kind, r, hasAddress) = "error"
<1>1. CASE kind = "2gis"
  BY <1>1 DEF Answer, Refuses, TwoGISAnswer
<1>2. CASE kind = "geocoder"
  BY <1>2 DEF Answer, Refuses, GeocoderAnswer
<1>3. CASE kind \notin {"2gis", "geocoder"}
  BY <1>3 DEF Answer, Refuses, DaDataAnswer
<1> QED BY <1>1, <1>2, <1>3

LEMMA FirstIsFound ==
  ASSUME NEW n \in 0..MaxOrgResults, n # 0
  PROVE  n \in Nat /\ 1 \in Nat /\ 1 <= n
OBVIOUS

LEMMA NextIsFound ==
  ASSUME NEW u \in Nat, NEW n \in Nat, u <= n
  PROVE  /\ u < n => u + 1 \in Nat /\ u + 1 <= n
         /\ ~(u < n) => u = n
OBVIOUS

\* Giving a page up, or having read a closed one.
LEMMA NextPageInv ==
  ASSUME MapsInv, stage \in Reading, NEW nowClosed \in BOOLEAN, NextPage(nowClosed),
         seen' = IF nowClosed = TRUE THEN {Closed} ELSE {}
  PROVE  MapsInv'
<1>1. urls \in Nat /\ url \in Nat /\ url <= urls /\ result = ""
  BY DEF MapsInv, LoopInv, Reading
<1>2. closed' = nowClosed /\ urls' = urls
  BY DEF NextPage
<1>3. CASE url < urls
  <2>1. url' = url + 1 /\ stage' = "fetch" /\ result' = ""
    BY <1>1, <1>3 DEF NextPage
  <2>2. url + 1 \in Nat /\ url + 1 <= urls
    BY <1>1, <1>3, NextIsFound
  <2> QED BY <1>1, <1>2, <2>1, <2>2 DEF MapsInv, LoopInv, ClosedIsUnanimous, Reading, Closed
<1>4. CASE ~(url < urls)
  <2>0. url = urls
    BY <1>1, <1>4, NextIsFound
  <2>1. url' = url /\ url = urls
    BY <1>4, <2>0 DEF NextPage
  <2>2. CASE nowClosed
    <3>1. stage' = "answered"
      BY <1>4, <2>2 DEF NextPage, Return, Composite
    <3> QED BY <1>1, <1>2, <2>1, <2>2, <3>1 DEF MapsInv, LoopInv, ClosedIsUnanimous, Reading, Closed
  <2>3. CASE ~nowClosed
    <3>1. Return("unknown")
      BY <1>4, <2>3 DEF NextPage
    <3>2. \/ stage' = "answered" /\ result' # Closed
          \/ stage' = "ask" /\ result' = ""
      BY <1>1, <3>1, ReturnOther DEF Closed
    <3> QED BY <1>1, <1>2, <2>1, <3>2 DEF MapsInv, LoopInv, ClosedIsUnanimous, Reading, Closed
  <2> QED BY <2>2, <2>3
<1> QED BY <1>3, <1>4

LEMMA InitInv == MapsInit => MapsInv
<1> SUFFICES ASSUME MapsInit PROVE MapsInv
  OBVIOUS
<1>1. urls = 0 /\ url = 1 /\ closed = FALSE /\ stage = "ask" /\ result = ""
  BY DEF MapsInit
<1>2. 0 \in Nat /\ 1 \in Nat
  OBVIOUS
<1> QED BY <1>1, <1>2 DEF MapsInv, LoopInv, ClosedIsUnanimous, Reading

LEMMA NextInv == MapsInv /\ [MapsNext]_mapsVars => MapsInv'
<1> SUFFICES ASSUME MapsInv, [MapsNext]_mapsVars PROVE MapsInv'
  OBVIOUS
<1> USE DEF MapsInv, LoopInv, ClosedIsUnanimous, Reading, Closed
<1>1. CASE Ask
  BY <1>1 DEF Ask, Composite
<1>2. CASE \E r \in Responses : Request(r)
  <2>1. PICK r \in Responses : Request(r)
    BY <1>2
  <2>2. Return(Answer(Backend, r, address)) /\ UNCHANGED <<loopVars, seen>> /\ stage = "request"
    BY <2>1 DEF Request
  <2>3. Answer(Backend, r, address) # Closed
    BY AnswersAreNotClosed
  <2>4. \/ stage' = "ask" /\ result' = ""
        \/ stage' = "answered" /\ result' # Closed
    BY <2>2, <2>3, ReturnOther
  <2> QED BY <2>2, <2>4 DEF loopVars
<1>3. CASE SearchFails
  <2>1. (stage' = "ask" /\ result' = "") \/ (stage' = "answered" /\ result' # Closed)
    BY <1>3, ReturnOther DEF SearchFails
  <2> QED BY <1>3, <2>1 DEF SearchFails, loopVars, historyVars
<1>4. CASE \E n \in 0..MaxOrgResults : SearchFinds(n)
  <2>1. PICK n \in 0..MaxOrgResults : SearchFinds(n)
    BY <1>4
  <2>3. CASE n = 0
    <3>1. (stage' = "ask" /\ result' = "") \/ (stage' = "answered" /\ result' # Closed)
      BY <2>1, <2>3, ReturnOther DEF SearchFinds
    <3> QED BY <2>1, <2>3, <3>1 DEF SearchFinds, historyVars
  <2>4. CASE n # 0
    <3>1. n \in Nat /\ url \in Nat /\ 1 <= n
      BY <2>4, FirstIsFound
    <3>2. /\ urls' = n /\ url' = 1 /\ closed' = FALSE /\ seen' = {}
          /\ stage' = "fetch" /\ result' = ""
      BY <2>1, <2>4 DEF SearchFinds, historyVars
    <3> QED BY <3>1, <3>2
  <2> QED BY <2>3, <2>4
<1>5. CASE \E status \in PageStatuses : ReadPage(status)
  <2>1. PICK status \in PageStatuses : ReadPage(status)
    BY <1>5
  <2>2. CASE status = Closed
    <3>1. NextPage(TRUE) /\ seen' = {Closed}
      BY <2>1, <2>2 DEF ReadPage, Decides
    <3> QED BY <2>1, <3>1, NextPageInv DEF ReadPage
  <2>3. CASE status # Closed
    <3>1. Return(status) /\ UNCHANGED loopVars
      BY <2>1, <2>3 DEF ReadPage, Decides
    <3>2. (stage' = "ask" /\ result' = "") \/ (stage' = "answered" /\ result' # Closed)
      BY <2>1, <2>3, <3>1, ReturnOther DEF ReadPage
    <3> QED BY <3>1, <3>2 DEF loopVars
  <2> QED BY <2>2, <2>3
<1>6. CASE \E cancelled \in BOOLEAN : FetchFails(cancelled)
  <2>1. PICK cancelled \in BOOLEAN : FetchFails(cancelled)
    BY <1>6
  <2>2. CASE Retries(cancelled)
    BY <2>1, <2>2 DEF FetchFails, loopVars
  <2>3. CASE ~Retries(cancelled)
    BY <2>1, <2>3, NextPageInv DEF FetchFails
  <2> QED BY <2>2, <2>3
<1>7. CASE BackoffPasses
  BY <1>7 DEF BackoffPasses
<1>8. CASE BackoffCancelled
  BY <1>8, NextPageInv DEF BackoffCancelled
<1>9. CASE CallEnds \/ CallerEnds \/ \E b \in DOMAIN Backends : OthersFail(b) \/ Recover(b)
  BY <1>9 DEF CallEnds, CallerEnds, OthersFail, Recover, loopVars, historyVars
<1>10. CASE UNCHANGED mapsVars
  BY <1>10 DEF mapsVars, loopVars, historyVars
<1> QED BY <1>1, <1>2, <1>3, <1>4, <1>5, <1>6, <1>7, <1>8, <1>9, <1>10 DEF MapsNext, Program

(***************************************************************************)
(* The theorems.                                                           *)
(***************************************************************************)
\* A venue is closed only by pages that all say so, all of them tried.
THEOREM ClosedIsUnanimousCorrect == MapsSpec => []ClosedIsUnanimous
BY InitInv, NextInv, PTL DEF MapsSpec, MapsInv

\* A backend that refuses a request of a live caller is suspended.
THEOREM RefusalsTripTheBreakerCorrect == MapsSpec => RefusalsTripTheBreaker
<1>1. [MapsNext]_mapsVars =>
        [(stage = "request" /\ stage' # "request" /\ refused' /\ caller = "live")
           => (next \in suspended')]_mapsVars
  <2> SUFFICES ASSUME MapsNext, stage = "request", stage' # "request", refused', caller = "live"
               PROVE  next \in suspended'
    OBVIOUS
  <2>1. \E r \in Responses : Request(r)
    BY DEF MapsNext, Program, Ask, SearchFails, SearchFinds, ReadPage, FetchFails,
           BackoffPasses, BackoffCancelled, CallEnds, CallerEnds, OthersFail, Recover
  <2>2. PICK r \in Responses : Request(r)
    BY <2>1
  <2>3. Refuses(Backend, r, address)
    BY <2>2 DEF Request
  <2>4. Return("error")
    BY <2>2, <2>3, RefusalsAreErrors DEF Request
  <2> QED BY <2>4 DEF Return
<1> QED BY <1>1, PTL DEF MapsSpec, RefusalsTripTheBreaker

(***************************************************************************)
(* The loops of a check.                                                   *)
(***************************************************************************)
\* A backend is asked that exists, and a page is read a bounded number of times.
AttemptsInv ==
  /\ next \in 1..Len(Backends) /\ attempt \in Nat
  /\ stage = "search" => attempt = 0
  /\ stage = "fetch" => attempt <= FetchMaxRetries
  /\ stage = "backoff" => attempt < FetchMaxRetries

LoopsInv == MapsInv /\ AttemptsInv

\* The next backend is asked, or the check is over.
Onwards ==
  \/ stage' = "answered" /\ next' = next
  \/ stage' = "ask" /\ next' = next + 1 /\ next' <= Len(Backends)

LEMMA CompositeMoves ==
  ASSUME AttemptsInv, NEW answer, Composite(answer)
  PROVE  Onwards
<1>1. Len(Backends) \in Nat
  BY MapsAssumption
<1>2. CASE answer \notin {"error", "not_found"}
  BY <1>2 DEF Composite, Onwards
<1>3. CASE answer \in {"error", "not_found"} /\ next = Len(Backends)
  BY <1>3 DEF Composite, Onwards
<1>4. CASE answer \in {"error", "not_found"} /\ next # Len(Backends)
  BY <1>1, <1>4 DEF Composite, Onwards, AttemptsInv
<1> QED BY <1>2, <1>3, <1>4

LEMMA ReturnMoves ==
  ASSUME AttemptsInv, NEW answer, Return(answer)
  PROVE  Onwards
BY CompositeMoves DEF Return

\* What a step does to the loops.
Step ==
  \/ Onwards
  \/ next' = next /\ stage = "ask" /\ stage' \in {"request", "search"} /\ attempt' = 0
  \/ next' = next /\ stage = "search" /\ stage' = "fetch" /\ url' = 1 /\ attempt' = 0
  \/ /\ next' = next /\ stage \in Reading /\ stage' = "fetch"
     /\ url' = url + 1 /\ url' <= urls /\ attempt' = 0
  \/ /\ next' = next /\ stage = "backoff" /\ stage' = "fetch"
     /\ url' = url /\ attempt' = attempt + 1 /\ attempt' <= FetchMaxRetries
  \/ /\ next' = next /\ stage = "fetch" /\ stage' = "backoff"
     /\ url' = url /\ attempt' = attempt /\ attempt < FetchMaxRetries
  \/ <<stage, next, url, attempt>>' = <<stage, next, url, attempt>>

LEMMA NextPageSteps ==
  ASSUME LoopsInv, stage \in Reading, NEW nowClosed, NextPage(nowClosed)
  PROVE  Step
<1>1. CASE url < urls
  <2>1. url \in Nat /\ urls \in Nat
    BY DEF LoopsInv, MapsInv, LoopInv
  <2>2. urls' = urls /\ url' = url + 1 /\ attempt' = 0 /\ stage' = "fetch" /\ next' = next
    BY <1>1 DEF NextPage
  <2>3. url' <= urls
    BY <1>1, <2>1, <2>2
  <2> QED BY <2>2, <2>3 DEF Step
<1>2. CASE ~(url < urls)
  BY <1>2, ReturnMoves DEF NextPage, Step, LoopsInv
<1> QED BY <1>1, <1>2

\* Every step moves on, and leaves the counters that it does not set.
LEMMA EveryStep ==
  ASSUME LoopsInv, MapsNext
  PROVE  Step /\ attempt' \in {0, attempt, attempt + 1}
<1>1. CASE Ask
  <2>1. CASE next \in suspended
    BY <1>1, <2>1, CompositeMoves DEF Ask, Step, LoopsInv
  <2>2. CASE next \notin suspended
    BY <1>1, <2>2 DEF Ask, Step
  <2> QED BY <1>1, <2>1, <2>2 DEF Ask
<1>2. ASSUME NEW r \in Responses, Request(r) PROVE Step /\ attempt' = attempt
  BY <1>2, ReturnMoves DEF Request, Step, LoopsInv, loopVars
<1>3. CASE SearchFails
  BY <1>3, ReturnMoves DEF SearchFails, Step, LoopsInv, loopVars
<1>4. ASSUME NEW n \in 0..MaxOrgResults, SearchFinds(n) PROVE Step /\ attempt' = attempt
  <2>1. CASE n = 0
    BY <1>4, <2>1, ReturnMoves DEF SearchFinds, Step, LoopsInv
  <2>2. CASE n # 0
    <3>1. stage = "search" /\ stage' = "fetch" /\ UNCHANGED <<next, url, attempt>>
      BY <1>4, <2>2 DEF SearchFinds
    <3>2. url = 1 /\ attempt = 0
      BY <3>1 DEF LoopsInv, MapsInv, LoopInv, AttemptsInv
    <3> QED BY <3>1, <3>2 DEF Step
  <2> QED BY <2>1, <2>2
<1>5. ASSUME NEW status \in PageStatuses, ReadPage(status) PROVE Step /\ attempt' \in {0, attempt}
  <2>1. CASE Decides(status)
    BY <1>5, <2>1, ReturnMoves DEF ReadPage, Step, LoopsInv, loopVars
  <2>2. CASE ~Decides(status)
    BY <1>5, <2>2, NextPageSteps DEF ReadPage, NextPage, Reading
  <2> QED BY <2>1, <2>2
<1>6. ASSUME NEW cancelled \in BOOLEAN, FetchFails(cancelled) PROVE Step /\ attempt' \in {0, attempt}
  <2>1. CASE Retries(cancelled)
    BY <1>6, <2>1 DEF FetchFails, Retries, Step, loopVars
  <2>2. CASE ~Retries(cancelled)
    BY <1>6, <2>2, NextPageSteps DEF FetchFails, NextPage, Reading
  <2> QED BY <2>1, <2>2
<1>7. CASE BackoffPasses
  BY <1>7, MapsAssumption DEF BackoffPasses, NextAttempt, Step, LoopsInv, AttemptsInv
<1>8. CASE BackoffCancelled
  BY <1>8, NextPageSteps DEF BackoffCancelled, NextPage, Reading
<1>9. CASE CallEnds \/ CallerEnds \/ \E b \in DOMAIN Backends : OthersFail(b) \/ Recover(b)
  BY <1>9 DEF CallEnds, CallerEnds, OthersFail, Recover, loopVars, Step
<1> QED BY <1>1, <1>2, <1>3, <1>4, <1>5, <1>6, <1>7, <1>8, <1>9 DEF MapsNext, Program

LEMMA StepKeepsAttempts ==
  ASSUME LoopsInv, Step, attempt' \in {0, attempt, attempt + 1}
  PROVE  AttemptsInv'
<1>1. /\ next \in 1..Len(Backends) /\ attempt \in Nat
      /\ Len(Backends) \in Nat /\ FetchMaxRetries \in Nat
  BY MapsAssumption DEF LoopsInv, AttemptsInv
<1>2. next' \in 1..Len(Backends) /\ attempt' \in Nat
  BY <1>1 DEF Step, Onwards
<1>3. (stage' = "search" => attempt' = 0) /\ (stage' = "fetch" => attempt' <= FetchMaxRetries)
      /\ (stage' = "backoff" => attempt' < FetchMaxRetries)
  BY <1>1 DEF Step, Onwards, LoopsInv, AttemptsInv
<1> QED BY <1>2, <1>3 DEF AttemptsInv

\* The loops over backends, pages and retries go forward within their bounds
\* (CompositeChecker.Check, YandexMaps.Check, fetchAndParse), so that a check
\* takes a bounded number of steps of its own.
THEOREM LoopsGoForwardCorrect == MapsSpec => LoopsGoForward
<1>1. MapsInit => LoopsInv
  <2>1. MapsInit => AttemptsInv
    <3>1. Len(Backends) \in Nat \ {0} /\ FetchMaxRetries \in Nat
      BY MapsAssumption
    <3>2. 1 \in 1..Len(Backends) /\ 0 \in Nat
      BY <3>1
    <3> QED BY <3>2 DEF MapsInit, AttemptsInv
  <2> QED BY <2>1, InitInv DEF LoopsInv
<1>2. LoopsInv /\ [MapsNext]_mapsVars => LoopsInv'
  <2>1. LoopsInv /\ MapsNext => AttemptsInv'
    BY EveryStep, StepKeepsAttempts
  <2>2. LoopsInv /\ UNCHANGED mapsVars => AttemptsInv'
    BY DEF LoopsInv, AttemptsInv, mapsVars, loopVars
  <2> QED BY <2>1, <2>2, NextInv DEF LoopsInv
<1> DEFINE Forward ==
      <<stage, next, url, attempt>>' # <<stage, next, url, attempt>> => GoesForward
<1>3. LoopsInv /\ [MapsNext]_mapsVars => [Forward]_mapsVars
  <2>1. LoopsInv /\ MapsNext => Step
    BY EveryStep
  <2>2. Step => Forward
    BY DEF Step, Onwards, Reading, GoesForward
  <2> QED BY <2>1, <2>2
<1> QED BY <1>1, <1>2, <1>3, PTL DEF MapsSpec, LoopsGoForward
=============================================================================
