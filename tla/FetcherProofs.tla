---------------------------- MODULE FetcherProofs ----------------------------
(***************************************************************************)
(* Proofs about Fetcher, for any callers and URLs: what a call reports, and *)
(* that no flight and no waiter is left behind.                            *)
(***************************************************************************)
EXTENDS Fetcher, FiniteSetTheorems, TLAPS

Flight == [leader : Callers \cup {"nobody"}, hop : {"none", "primary", "fallback"}, serial : Nat]

FetcherTypes ==
  /\ target \in [Callers -> Urls]
  /\ pc \in [Callers -> {"start", "fetching", "backoff", "done"}]
  /\ attempt \in [Callers -> 0..2]
  /\ flight \in [Urls -> Flight]
  /\ result \in [Callers -> FetchResult \cup {Pending, Nil}]
  /\ serials \in [Urls -> Nat]
  /\ failures \in [Callers -> SUBSET Nat]

\* The flight of a URL is the last there was; one that failed a call is older
\* than any the call can be in.
SerialInv ==
  /\ \A u \in Urls : flight[u] # NoFlight =>
       flight[u].leader \in Callers /\ flight[u].serial = serials[u]
  /\ \A c \in Callers :
       LET u == target[c]
           Failed(s) == failures[c] = {s} /\ s <= serials[u]
                          /\ (flight[u] # NoFlight => s < flight[u].serial)
       IN  /\ pc[c] = "start" => attempt[c] = 0 /\ failures[c] = {}
           /\ pc[c] = "backoff" => attempt[c] = 1 /\ \E s \in Nat : Failed(s)
           /\ pc[c] = "fetching" =>
                \/ attempt[c] = 1 /\ failures[c] = {}
                \/ attempt[c] = 2 /\ \E s \in Nat : Failed(s)

\* How the failures of a call that is over relate to what it reports.
VerdictInv ==
  \A c \in Callers :
    /\ pc[c] # "done" => result[c] = Pending
    /\ pc[c] = "done" =>
         \/ /\ result[c] \in FetchResult /\ result[c].transient
            /\ \E s, t \in Nat : s # t /\ failures[c] = {s, t}
         \/ /\ result[c] \in FetchResult /\ ~result[c].transient
            /\ failures[c] = {} \/ \E s \in Nat : failures[c] = {s}
         \/ result[c] = Nil /\ c \in cancelled /\ \E s \in Nat : failures[c] = {s}

FetcherInv == FetcherTypes /\ SerialInv /\ VerdictInv /\ FlightsHaveWaiters

LEMMA Pairs ==
  /\ Cardinality({}) = 0
  /\ \A s : Cardinality({s}) = 1
  /\ \A s, t : s # t => Cardinality({s, t}) = 2
<1>1. Cardinality({}) = 0
  BY FS_EmptySet
<1>2. ASSUME NEW s PROVE IsFiniteSet({s}) /\ Cardinality({s}) = 1
  BY FS_Singleton
<1>3. ASSUME NEW s, NEW t, s # t PROVE Cardinality({s, t}) = 2
  <2>1. {s, t} = {s} \cup {t}
    OBVIOUS
  <2>2. Cardinality({s} \cup {t}) = Cardinality({s}) + 1
    BY <1>2, <1>3, FS_AddElement
  <2> QED BY <1>2, <2>1, <2>2
<1> QED BY <1>1, <1>2, <1>3

\* The results the code makes are results, and are told from the two marks.
LEMMA Results ==
  /\ \A tls \in BOOLEAN : Responses(tls) \subseteq FetchResult
  /\ Result("tls_invalid", FALSE, FALSE) \in FetchResult
  /\ Result("unreachable", TRUE, FALSE) \in FetchResult
  /\ Pending \notin FetchResult /\ Nil \notin FetchResult /\ Nil # Pending
  /\ ~Pending.transient /\ ~Nil.transient
BY DEF Responses, Result, FetchResult, Statuses, Pending, Nil

LEMMA InitInv == FetcherInit => FetcherInv
<1> SUFFICES ASSUME FetcherInit PROVE FetcherInv
  OBVIOUS
<1>1. NoFlight \in Flight
  BY DEF NoFlight, Flight
<1>2. FetcherTypes
  BY <1>1 DEF FetcherInit, FetcherTypes
<1>3. SerialInv /\ VerdictInv /\ FlightsHaveWaiters
  BY DEF FetcherInit, SerialInv, VerdictInv, FlightsHaveWaiters
<1> QED BY <1>2, <1>3 DEF FetcherInv

\* Joining a flight, or leading a new one.
LEMMA EnterInv ==
  ASSUME FetcherInv, NEW c \in Callers, Start(c) \/ Retry(c)
  PROVE  FetcherInv'
<1> DEFINE u == target[c]
           new == [leader |-> c, hop |-> "primary", serial |-> serials[u] + 1]
<1>1. u \in Urls
  BY DEF FetcherInv, FetcherTypes
<1>2. pc[c] \in {"start", "backoff"} /\ Enter(c)
  BY DEF Start, Retry
<1>3. /\ pc' = [pc EXCEPT ![c] = "fetching"]
      /\ attempt' = [attempt EXCEPT ![c] = @ + 1]
      /\ UNCHANGED <<target, cancelled, result, failures>>
  BY <1>2 DEF Enter
<1>4. \/ flight[u] = NoFlight /\ flight' = [flight EXCEPT ![u] = new]
           /\ serials' = [serials EXCEPT ![u] = @ + 1]
      \/ flight[u] # NoFlight /\ UNCHANGED <<flight, serials>>
  BY <1>2 DEF Enter
<1>5. new \in Flight /\ new # NoFlight /\ new.leader = c /\ new.serial = serials[u] + 1
  BY <1>1 DEF FetcherInv, FetcherTypes, Flight, NoFlight
<1>6. attempt[c] \in 0..1 /\ result[c] = Pending
  BY <1>2 DEF FetcherInv, SerialInv, VerdictInv
<1> HIDE DEF new, u
<1>7. FetcherTypes'
  <2>1. attempt' \in [Callers -> 0..2]
    BY <1>3, <1>6 DEF FetcherInv, FetcherTypes
  <2>2. flight' \in [Urls -> Flight] /\ serials' \in [Urls -> Nat]
    BY <1>1, <1>4, <1>5 DEF FetcherInv, FetcherTypes
  <2> QED BY <1>3, <2>1, <2>2 DEF FetcherInv, FetcherTypes
<1>8. \A v \in Urls : flight'[v] # NoFlight =>
       flight'[v].leader \in Callers /\ flight'[v].serial = serials'[v]
  BY <1>1, <1>4, <1>5 DEF FetcherInv, FetcherTypes, SerialInv
<1>9. VerdictInv'
  BY <1>2, <1>3, <1>6 DEF FetcherInv, FetcherTypes, VerdictInv
<1>10. FlightsHaveWaiters'
  BY <1>1, <1>2, <1>3, <1>4, <1>5 DEF FetcherInv, FetcherTypes, SerialInv, FlightsHaveWaiters, u
<1>11. SerialInv'
  <2>1. ASSUME NEW d \in Callers, NEW s \in Nat, s <= serials[target[d]],
               flight[target[d]] # NoFlight => s < flight[target[d]].serial
        PROVE  /\ s <= serials'[target[d]]
               /\ flight'[target[d]] # NoFlight => s < flight'[target[d]].serial
    <3>1. target[d] \in Urls /\ serials[target[d]] \in Nat
      BY DEF FetcherInv, FetcherTypes
    <3>2. CASE flight[u] # NoFlight \/ target[d] # u
      BY <1>4, <2>1, <3>1, <3>2 DEF FetcherInv, FetcherTypes
    <3>3. CASE flight[u] = NoFlight /\ target[d] = u
      <4>1. serials'[u] = serials[u] + 1 /\ flight'[u] = new
        BY <1>1, <1>4, <3>3 DEF FetcherInv, FetcherTypes
      <4> QED BY <1>5, <2>1, <3>1, <3>3, <4>1
    <3> QED BY <3>2, <3>3
  <2>2. ASSUME NEW d \in Callers, d # c
        PROVE  pc'[d] = pc[d] /\ attempt'[d] = attempt[d]
    BY <1>3, <2>2 DEF FetcherInv, FetcherTypes
  <2>3. pc'[c] = "fetching" /\ attempt'[c] = attempt[c] + 1
    BY <1>3 DEF FetcherInv, FetcherTypes
  <2>4. \/ attempt[c] = 0 /\ failures[c] = {}
        \/ attempt[c] = 1 /\ \E s \in Nat :
             /\ failures[c] = {s} /\ s <= serials[target[c]]
             /\ flight[target[c]] # NoFlight => s < flight[target[c]].serial
    BY <1>2 DEF FetcherInv, SerialInv
  <2>5. failures' = failures /\ target' = target
    BY <1>3
  <2> QED BY <1>8, <2>1, <2>2, <2>3, <2>4, <2>5 DEF FetcherInv, SerialInv
<1> QED BY <1>7, <1>9, <1>10, <1>11 DEF FetcherInv

LEMMA GiveUpInv ==
  ASSUME FetcherInv, NEW c \in Callers, GiveUp(c)
  PROVE  FetcherInv'
<1>1. /\ pc[c] = "backoff" /\ c \in cancelled
      /\ pc' = [pc EXCEPT ![c] = "done"]
      /\ result' = [result EXCEPT ![c] = Nil]
      /\ UNCHANGED <<target, cancelled, attempt, flight, serials, failures>>
  BY DEF GiveUp
<1>2. \E s \in Nat : failures[c] = {s}
  BY <1>1 DEF FetcherInv, SerialInv
<1>3. FetcherTypes' /\ SerialInv' /\ FlightsHaveWaiters'
  BY <1>1 DEF FetcherInv, FetcherTypes, SerialInv, FlightsHaveWaiters
<1>4. VerdictInv'
  BY <1>1, <1>2 DEF FetcherInv, FetcherTypes, VerdictInv
<1> QED BY <1>3, <1>4 DEF FetcherInv

LEMMA CancelInv ==
  ASSUME FetcherInv, NEW c \in Callers, Cancel(c)
  PROVE  FetcherInv'
BY DEF Cancel, FetcherInv, FetcherTypes, SerialInv, VerdictInv, FlightsHaveWaiters

\* The second hop of a flight keeps its leader and its serial.
LEMMA CertErrorInv ==
  ASSUME FetcherInv, NEW u \in Urls, CertError(u)
  PROVE  FetcherInv'
<1>1. /\ flight[u].hop = "primary"
      /\ flight' = [flight EXCEPT ![u].hop = "fallback"]
      /\ UNCHANGED <<target, cancelled, pc, attempt, result, serials, failures>>
  BY DEF CertError
<1>2. flight[u] # NoFlight /\ flight[u] \in Flight
  BY <1>1 DEF NoFlight, FetcherInv, FetcherTypes
<1>3. /\ flight'[u] \in Flight /\ flight'[u] # NoFlight
      /\ flight'[u].leader = flight[u].leader /\ flight'[u].serial = flight[u].serial
      /\ \A v \in Urls : v # u => flight'[v] = flight[v]
  BY <1>1, <1>2 DEF FetcherInv, FetcherTypes, Flight, NoFlight
<1>4. FetcherTypes'
  BY <1>1, <1>3 DEF FetcherInv, FetcherTypes
<1>5. SerialInv' /\ FlightsHaveWaiters'
  BY <1>1, <1>2, <1>3 DEF FetcherInv, FetcherTypes, SerialInv, FlightsHaveWaiters
<1>6. VerdictInv'
  BY <1>1 DEF FetcherInv, VerdictInv
<1> QED BY <1>4, <1>5, <1>6 DEF FetcherInv

\* A flight ends: of its waiters, the ones that had no retry yet and got a
\* transient failure wait to retry, and the others are done.
LEMMA LandInv ==
  ASSUME FetcherInv, NEW u \in Urls, flight[u] # NoFlight,
         NEW r \in FetchResult, Land(u, r)
  PROVE  FetcherInv'
<1>1. /\ flight' = [flight EXCEPT ![u] = NoFlight]
      /\ UNCHANGED <<target, cancelled, attempt, serials>>
  BY DEF Land, Forgotten
<1>2. ASSUME NEW c \in Callers, ~(pc[c] = "fetching" /\ target[c] = u)
      PROVE  pc'[c] = pc[c] /\ result'[c] = result[c] /\ failures'[c] = failures[c]
  BY <1>2 DEF Land, Waiting
<1>3. ASSUME NEW c \in Callers, pc[c] = "fetching", target[c] = u
      PROVE  \/ /\ r.transient = TRUE /\ attempt[c] = 1
                /\ pc'[c] = "backoff" /\ result'[c] = result[c]
                /\ failures'[c] = failures[c] \cup {flight[u].serial}
             \/ /\ r.transient = TRUE /\ attempt[c] # 1
                /\ pc'[c] = "done" /\ result'[c] = r
                /\ failures'[c] = failures[c] \cup {flight[u].serial}
             \/ /\ r.transient = FALSE
                /\ pc'[c] = "done" /\ result'[c] = r
                /\ failures'[c] = failures[c]
  <2>1. c \in Waiting(u) /\ r.transient \in BOOLEAN
    BY <1>3 DEF Waiting, FetchResult
  <2>2. pc'[c] = IF Retries(c, r) THEN "backoff" ELSE "done"
    BY <2>1 DEF Land
  <2>3. result'[c] = IF ~Retries(c, r) THEN r ELSE result[c]
    BY <2>1 DEF Land
  <2>4. failures'[c] = IF r.transient THEN failures[c] \cup {flight[u].serial} ELSE failures[c]
    BY <2>1 DEF Land
  <2>5. CASE r.transient = TRUE /\ attempt[c] = 1
    BY <2>2, <2>3, <2>4, <2>5 DEF Retries
  <2>6. CASE r.transient = TRUE /\ attempt[c] # 1
    BY <2>2, <2>3, <2>4, <2>6 DEF Retries
  <2>7. CASE r.transient = FALSE
    BY <2>2, <2>3, <2>4, <2>7 DEF Retries
  <2> QED BY <2>1, <2>5, <2>6, <2>7
<1>4. /\ flight[u].serial \in Nat /\ flight[u].serial = serials[u]
      /\ NoFlight \in Flight
  BY DEF FetcherInv, FetcherTypes, SerialInv, Flight, NoFlight
<1>5. /\ pc' = [c \in Callers |-> pc'[c]]
      /\ result' = [c \in Callers |-> result'[c]]
      /\ failures' = [c \in Callers |-> failures'[c]]
  BY DEF Land
<1>6. ASSUME NEW c \in Callers
      PROVE  /\ pc'[c] \in {"start", "fetching", "backoff", "done"}
             /\ result'[c] \in FetchResult \cup {Pending, Nil}
             /\ failures'[c] \in SUBSET Nat
  <2>1. CASE pc[c] = "fetching" /\ target[c] = u
    <3>1. failures[c] \cup {flight[u].serial} \in SUBSET Nat /\ failures[c] \in SUBSET Nat
      BY <1>4 DEF FetcherInv, FetcherTypes
    <3>2. result[c] \in FetchResult \cup {Pending, Nil}
      BY DEF FetcherInv, FetcherTypes
    <3> QED BY <1>3, <2>1, <3>1, <3>2
  <2>2. CASE ~(pc[c] = "fetching" /\ target[c] = u)
    BY <1>2, <2>2 DEF FetcherInv, FetcherTypes
  <2> QED BY <2>1, <2>2
<1>7. FetcherTypes'
  <2>1. flight' \in [Urls -> Flight]
    BY <1>1, <1>4 DEF FetcherInv, FetcherTypes
  <2> QED BY <1>1, <1>5, <1>6, <2>1 DEF FetcherInv, FetcherTypes
<1>8. FlightsHaveWaiters'
  <2>1. ASSUME NEW c \in Callers, target[c] = u PROVE pc'[c] # "fetching"
    BY <1>2, <1>3, <2>1
  <2>2. ASSUME NEW v \in Urls, v # u
        PROVE  IF flight'[v] = NoFlight
               THEN \A c \in Callers : target'[c] = v => pc'[c] # "fetching"
               ELSE pc'[flight'[v].leader] = "fetching" /\ target'[flight'[v].leader] = v
    <3>1. flight'[v] = flight[v] /\ target' = target
      BY <1>1, <2>2 DEF FetcherInv, FetcherTypes
    <3>2. \A c \in Callers : target[c] = v => pc'[c] = pc[c]
      BY <1>2, <2>2
    <3> QED BY <3>1, <3>2 DEF FetcherInv, SerialInv, FlightsHaveWaiters
  <2>3. flight'[u] = NoFlight
    BY <1>1 DEF FetcherInv, FetcherTypes
  <2> QED BY <1>1, <2>1, <2>2, <2>3 DEF FlightsHaveWaiters
<1>9. ASSUME NEW c \in Callers, pc[c] = "fetching", target[c] = u
      PROVE  \/ attempt[c] = 1 /\ failures[c] = {}
             \/ attempt[c] = 2 /\ \E s \in Nat : failures[c] = {s} /\ s < flight[u].serial
  BY <1>9 DEF FetcherInv, SerialInv
<1>10. VerdictInv'
  <2> SUFFICES ASSUME NEW c \in Callers
               PROVE  /\ pc'[c] # "done" => result'[c] = Pending
                      /\ pc'[c] = "done" =>
                           \/ /\ result'[c] \in FetchResult /\ result'[c].transient
                              /\ \E s, t \in Nat : s # t /\ failures'[c] = {s, t}
                           \/ /\ result'[c] \in FetchResult /\ ~result'[c].transient
                              /\ failures'[c] = {} \/ \E s \in Nat : failures'[c] = {s}
                           \/ /\ result'[c] = Nil /\ c \in cancelled'
                              /\ \E s \in Nat : failures'[c] = {s}
    BY DEF VerdictInv
  <2>1. CASE pc[c] = "fetching" /\ target[c] = u
    <3>1. result[c] = Pending
      BY <2>1 DEF FetcherInv, VerdictInv
    <3>2. failures[c] = {} \/ \E s \in Nat : failures[c] = {s}
      BY <1>9, <2>1
    <3>3. CASE r.transient = TRUE /\ attempt[c] # 1
      <4>1. PICK s \in Nat : failures[c] = {s} /\ s < flight[u].serial
        BY <1>9, <2>1, <3>3
      <4>2. failures[c] \cup {flight[u].serial} = {s, flight[u].serial} /\ s # flight[u].serial
        BY <1>4, <4>1
      <4>3. \E a, b \in Nat : a # b /\ failures[c] \cup {flight[u].serial} = {a, b}
        BY <1>4, <4>2
      <4>4. /\ pc'[c] = "done" /\ result'[c] = r
            /\ failures'[c] = failures[c] \cup {flight[u].serial}
        BY <1>3, <2>1, <3>3
      <4> QED BY <3>3, <4>3, <4>4
    <3>4. CASE r.transient = TRUE /\ attempt[c] = 1
      BY <1>3, <2>1, <3>1, <3>4
    <3>5. CASE r.transient = FALSE
      BY <1>3, <2>1, <3>2, <3>5
    <3>6. r.transient \in BOOLEAN
      BY DEF FetchResult
    <3> QED BY <3>3, <3>4, <3>5, <3>6
  <2>2. CASE ~(pc[c] = "fetching" /\ target[c] = u)
    BY <1>1, <1>2, <2>2 DEF FetcherInv, VerdictInv
  <2> QED BY <2>1, <2>2
<1>11. SerialInv'
  <2>1. \A v \in Urls : flight'[v] # NoFlight =>
          flight'[v].leader \in Callers /\ flight'[v].serial = serials'[v]
    BY <1>1 DEF FetcherInv, FetcherTypes, SerialInv
  <2>2. ASSUME NEW c \in Callers, pc[c] = "fetching", target[c] = u, pc'[c] = "backoff"
        PROVE  /\ attempt'[c] = 1
               /\ failures'[c] = {serials'[u]} /\ serials'[u] \in Nat
               /\ flight'[u] = NoFlight
    <3>1. attempt[c] = 1 /\ failures'[c] = failures[c] \cup {flight[u].serial}
      BY <1>3, <2>2
    <3>2. failures[c] = {}
      BY <1>9, <2>2, <3>1
    <3>3. attempt' = attempt /\ serials' = serials /\ flight'[u] = NoFlight
      BY <1>1 DEF FetcherInv, FetcherTypes
    <3>4. failures'[c] = {serials[u]} /\ serials[u] \in Nat
      BY <1>4, <3>1, <3>2
    <3> QED BY <3>1, <3>3, <3>4
  <2>3. ASSUME NEW c \in Callers, pc[c] = "fetching", target[c] = u
        PROVE  pc'[c] \in {"backoff", "done"}
    BY <1>3, <2>3
  <2>4. ASSUME NEW v \in Urls
        PROVE  flight'[v] # NoFlight => flight[v] # NoFlight /\ flight'[v] = flight[v]
    BY <1>1 DEF FetcherInv, FetcherTypes
  <2>5. \A c \in Callers : target[c] \in Urls
    BY DEF FetcherInv, FetcherTypes
  <2>6. ASSUME NEW c \in Callers
        PROVE LET v == target'[c]
                  Failed(s) == failures'[c] = {s} /\ s <= serials'[v]
                                 /\ (flight'[v] # NoFlight => s < flight'[v].serial)
              IN  /\ pc'[c] = "start" => attempt'[c] = 0 /\ failures'[c] = {}
                  /\ pc'[c] = "backoff" => attempt'[c] = 1 /\ \E s \in Nat : Failed(s)
                  /\ pc'[c] = "fetching" =>
                       \/ attempt'[c] = 1 /\ failures'[c] = {}
                       \/ attempt'[c] = 2 /\ \E s \in Nat : Failed(s)
    <3>1. CASE pc[c] = "fetching" /\ target[c] = u
      BY <1>1, <2>2, <2>3, <3>1
    <3>2. CASE ~(pc[c] = "fetching" /\ target[c] = u)
      BY <1>1, <1>2, <2>4, <2>5, <3>2 DEF FetcherInv, SerialInv
    <3> QED BY <3>1, <3>2
  <2> QED BY <2>1, <2>6 DEF SerialInv
<1> QED BY <1>7, <1>8, <1>10, <1>11 DEF FetcherInv

\* Whatever is known of a call's failures, a step of the program keeps it.
LEMMA NextInv == FetcherInv /\ [FetcherNext]_fetcherVars => FetcherInv'
<1> SUFFICES ASSUME FetcherInv, [FetcherNext]_fetcherVars PROVE FetcherInv'
  OBVIOUS
<1>1. CASE UNCHANGED fetcherVars
  BY <1>1 DEF fetcherVars, FetcherInv, FetcherTypes, SerialInv, VerdictInv, FlightsHaveWaiters
<1>2. ASSUME NEW c \in Callers, Start(c) \/ Retry(c) PROVE FetcherInv'
  BY <1>2, EnterInv
<1>3. ASSUME NEW c \in Callers, GiveUp(c) PROVE FetcherInv'
  BY <1>3, GiveUpInv
<1>4. ASSUME NEW c \in Callers, Cancel(c) PROVE FetcherInv'
  BY <1>4, CancelInv
<1>5. ASSUME NEW u \in Urls, CertError(u) PROVE FetcherInv'
  BY <1>5, CertErrorInv
<1>6. ASSUME NEW u \in Urls, Respond(u) PROVE FetcherInv'
  <2>1. flight[u] # NoFlight /\ \E r \in Responses(OverHttp(u)) : Land(u, r)
    BY <1>6 DEF Respond
  <2>2. OverHttp(u) \in BOOLEAN
    BY DEF OverHttp
  <2>3. Responses(OverHttp(u)) \subseteq FetchResult
    BY <2>2, Results
  <2> QED BY <2>1, <2>3, LandInv
<1>7. ASSUME NEW u \in Urls, Fail(u) PROVE FetcherInv'
  <2>1. flight[u] # NoFlight /\ \E r \in FetchResult : Land(u, r)
    BY <1>7, Results DEF Fail
  <2> QED BY <2>1, LandInv
<1> QED BY <1>1, <1>2, <1>3, <1>4, <1>5, <1>6, <1>7 DEF FetcherNext

\* What the invariant says of a call's failures is what the property says of
\* their number.
LEMMA InvVerdict == FetcherInv => VerdictIsEarned
<1> SUFFICES ASSUME FetcherInv, NEW c \in Callers
             PROVE  /\ result[c].transient => Cardinality(failures[c]) = 2
                    /\ result[c] = Nil => c \in cancelled /\ Cardinality(failures[c]) = 1
                    /\ pc[c] = "done" /\ Cardinality(failures[c]) = 2 => result[c].transient
  BY DEF VerdictIsEarned
<1>1. CASE pc[c] # "done"
  BY <1>1, Results DEF FetcherInv, VerdictInv
<1>2. CASE /\ result[c] \in FetchResult /\ result[c].transient
           /\ \E s, t \in Nat : s # t /\ failures[c] = {s, t}
  <2>1. PICK s \in Nat, t \in Nat : s # t /\ failures[c] = {s, t}
    BY <1>2
  <2>2. Cardinality(failures[c]) = 2
    <3>1. Cardinality({s, t}) = 2
      BY <2>1, Pairs, Zenon
    <3> QED BY <2>1, <3>1, Zenon
  <2>3. result[c] # Nil
    BY <1>2, Results
  <2> QED BY <1>2, <2>2, <2>3
<1>3. CASE /\ result[c] \in FetchResult /\ ~result[c].transient
           /\ failures[c] = {} \/ \E s \in Nat : failures[c] = {s}
  <2>1. failures[c] = {} => Cardinality(failures[c]) = 0
    BY Pairs
  <2>2. ASSUME NEW s \in Nat, failures[c] = {s} PROVE Cardinality(failures[c]) = 1
    BY <2>2, Pairs
  <2>3. Cardinality(failures[c]) # 2
    BY <1>3, <2>1, <2>2
  <2>4. result[c] # Nil
    BY <1>3, Results
  <2> QED BY <1>3, <2>3, <2>4
<1>4. CASE result[c] = Nil /\ c \in cancelled /\ \E s \in Nat : failures[c] = {s}
  <2>1. Cardinality(failures[c]) = 1
    BY <1>4, Pairs
  <2>2. Cardinality(failures[c]) # 2
    BY <2>1
  <2> QED BY <1>4, <2>1, <2>2, Results
<1> QED BY <1>1, <1>2, <1>3, <1>4 DEF FetcherInv, VerdictInv

\* Callers and flights are always where the invariant says.
THEOREM AlwaysFetcherInv == FetcherSpec => []FetcherInv
<1>1. FetcherInit => FetcherInv
  BY InitInv
<1>2. FetcherInv /\ [FetcherNext]_fetcherVars => FetcherInv'
  BY NextInv
<1> QED BY <1>1, <1>2, PTL DEF FetcherSpec

\* What a call reports is what happened to it, for any callers and URLs: a
\* transient failure only after two flights failed it, nil only when abandoned
\* between two attempts (fetchWithRetry, doFetch).
THEOREM VerdictIsEarnedCorrect == FetcherSpec => []VerdictIsEarned
<1>1. FetcherInv => VerdictIsEarned
  BY InvVerdict
<1> QED BY <1>1, AlwaysFetcherInv, PTL

\* Nobody waits for a flight that is over, and the leader of one that goes on
\* waits for it (the singleflight group of Fetcher.Fetch).
THEOREM FlightsHaveWaitersCorrect == FetcherSpec => []FlightsHaveWaiters
<1>1. FetcherInv => FlightsHaveWaiters
  BY DEF FetcherInv
<1> QED BY <1>1, AlwaysFetcherInv, PTL
=============================================================================
