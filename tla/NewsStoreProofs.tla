--------------------------- MODULE NewsStoreProofs ---------------------------
(***************************************************************************)
(* Proofs about NewsStore, for any clients, entries and requests: the file *)
(* always parses, no URL is in it twice, and the store implements          *)
(* AtomicNews.                                                             *)
(***************************************************************************)
EXTENDS NewsStore, TLAPS

Saving == {"create", "write", "rename"}

\* What a writer is about to rename is the outcome of its request on the entries
\* of the file: nobody has changed them since it loaded them under the lock.
PendingInv ==
  \A c \in Clients :
    /\ pc[c] = "load" => request[c] \in Requests /\ request[c].op # "save"
    /\ pc[c] \in Saving =>
         /\ request[c] \in Requests
         /\ data[c] \in SUBSET Entry
         /\ Unique(data[c])
         /\ data[c] \in Outcomes(request[c], file.entries)
    /\ pc[c] = "rename" => tmp = Whole(data[c])

SeenInv == \A c \in Clients : seen[c] # None => Unique(seen[c])

StoreInv == StoreTypeOK /\ FileIsWhole /\ URLsAreUnique /\ PendingInv /\ SeenInv

(***************************************************************************)
(* The outcomes of a request.                                              *)
(***************************************************************************)
\* No outcome of a request on unique entries holds a URL twice.
LEMMA OutcomesAreUnique ==
  ASSUME NEW req \in Requests, req.op # "save",
         NEW entries \in SUBSET Entry, Unique(entries),
         NEW outcome \in Outcomes(req, entries)
  PROVE  outcome \in SUBSET Entry /\ Unique(outcome)
<1>1. CASE req.op = "add"
  <2>1. req.items \in Seq(Entry)
    BY <1>1 DEF Requests
  <2>2. outcome = WithNew(entries, req.items)
    BY <1>1 DEF Outcomes
  <2>3. outcome \subseteq Entry
    BY <2>1, <2>2 DEF WithNew
  <2>4. ASSUME NEW e \in outcome, NEW f \in outcome, e.url = f.url
        PROVE  e = f
    <3> DEFINE New == {n \in DOMAIN req.items :
                         /\ ~HasURL(entries, req.items[n].url)
                         /\ \A m \in 1..(n - 1) : req.items[m].url # req.items[n].url}
    <3>1. (e \in entries \/ \E n \in New : e = req.items[n])
            /\ (f \in entries \/ \E n \in New : f = req.items[n])
      BY <2>2 DEF WithNew
    <3>2. CASE e \in entries /\ f \in entries
      BY <2>4, <3>2 DEF Unique
    <3>3. CASE e \in entries /\ f \notin entries
      BY <2>4, <3>1, <3>3 DEF HasURL
    <3>4. CASE e \notin entries /\ f \in entries
      BY <2>4, <3>1, <3>4 DEF HasURL
    <3>5. CASE e \notin entries /\ f \notin entries
      <4>1. PICK m \in New, n \in New : e = req.items[m] /\ f = req.items[n]
        BY <3>1, <3>5
      <4>2. m \in Nat \ {0} /\ n \in Nat \ {0}
        BY <2>1
      <4>3. ~(m \in 1..(n - 1)) /\ ~(n \in 1..(m - 1))
        BY <2>4, <4>1
      <4>4. m = n
        BY <4>2, <4>3
      <4> QED BY <4>1, <4>4
    <3> QED BY <3>2, <3>3, <3>4, <3>5
  <2> QED BY <2>3, <2>4 DEF Unique
<1>2. CASE req.op = "update"
  <2>1. PICK e \in entries : outcome = Updated(entries, e, req.status)
    BY <1>2 DEF Outcomes, Matches
  <2>2. req.status \in Statuses \cup {""}
    BY <1>2 DEF Requests
  <2> DEFINE new == [e EXCEPT !.status = IF req.status = "" THEN @ ELSE req.status]
  <2>3. new \in Entry /\ new.url = e.url
    BY <2>2 DEF Entry
  <2>4. outcome = (entries \ {e}) \cup {new}
    BY <2>1 DEF Updated
  <2> HIDE DEF new
  <2> QED BY <2>3, <2>4 DEF Unique
<1>3. CASE req.op = "purge"
  BY <1>3 DEF Outcomes, Unique
<1> QED BY <1>1, <1>2, <1>3 DEF Requests

\* Editing the statuses of a list does not bring a URL into it twice.
LEMMA EditsAreUnique ==
  ASSUME NEW entries \in SUBSET Entry, Unique(entries), NEW status \in Statuses
  PROVE  LET edited == {[e EXCEPT !.status = status] : e \in entries}
         IN edited \in SUBSET Entry /\ Unique(edited)
<1> DEFINE edit(e) == [e EXCEPT !.status = status]
<1>1. \A e \in Entry : edit(e) \in Entry /\ edit(e).url = e.url
  BY DEF Entry
<1>2. ASSUME NEW e \in entries, NEW f \in entries, edit(e).url = edit(f).url
      PROVE  edit(e) = edit(f)
  BY <1>1, <1>2 DEF Unique
<1> HIDE DEF edit
<1>3. {edit(e) : e \in entries} \in SUBSET Entry /\ Unique({edit(e) : e \in entries})
  BY <1>1, <1>2 DEF Unique
<1> QED BY <1>3 DEF edit

(***************************************************************************)
(* The invariant.                                                          *)
(***************************************************************************)
\* A file read in part is told from a whole one; entries are entries.
LEMMA FilesTyped == /\ Missing \in File /\ Torn \in File /\ Missing # Torn
                    /\ \A f \in File : f.entries \in SUBSET Entry
                    /\ \A x \in SUBSET Entry : Whole(x) \in File /\ Whole(x) # Torn
BY DEF File, Missing, Torn, Whole

\* The first files are whole and hold no URL twice.
LEMMA InitEstablishes == StoreInit => StoreInv
<1> SUFFICES ASSUME StoreInit PROVE StoreInv
  OBVIOUS
<1>1. file \in File /\ file # Torn /\ Unique(file.entries)
  BY StoreAssumption DEF StoreInit
<1>2. StoreTypeOK
  BY <1>1, FilesTyped DEF StoreInit, StoreTypeOK, WriterSteps
<1> QED BY <1>1, <1>2 DEF StoreInit, StoreInv, FileIsWhole, URLsAreUnique, PendingInv,
                          SeenInv, Saving

\* Every step preserves the invariant.
LEMMA StepPreserves == StoreInv /\ [StoreNext]_newsVars => StoreInv'
<1> SUFFICES ASSUME StoreInv, [StoreNext]_newsVars
             PROVE  StoreInv'
  OBVIOUS
<1> USE DEF StoreInv, FileIsWhole, URLsAreUnique
<1>1. ASSUME NEW c \in Clients, NEW req \in Asked, Ask(c, req)
      PROVE  StoreInv'
  <2>1. req \in Requests /\ req.op # "save"
    BY StoreAssumption
  <2>2. StoreTypeOK'
    BY <1>1, <2>1 DEF Ask, CanLock, StoreTypeOK, WriterSteps
  <2>3. PendingInv'
    BY <1>1, <2>1 DEF Ask, StoreTypeOK, PendingInv, Saving
  <2> QED BY <1>1, <2>2, <2>3 DEF Ask, SeenInv
<1>2. ASSUME NEW c \in Clients, NEW status \in Statuses, SaveSeen(c, status)
      PROVE  StoreInv'
  <2> DEFINE edited == {[e EXCEPT !.status = status] : e \in seen[c]}
             req == [op |-> "save", entries |-> edited]
  <2>1. seen[c] \in SUBSET Entry /\ Unique(seen[c])
    BY <1>2 DEF SaveSeen, StoreTypeOK, SeenInv
  <2>2. edited \in SUBSET Entry /\ Unique(edited)
    BY <2>1, EditsAreUnique
  <2>3. /\ request' = [request EXCEPT ![c] = req]
        /\ data' = [data EXCEPT ![c] = edited]
        /\ pc' = [pc EXCEPT ![c] = "create"]
        /\ seen' = [seen EXCEPT ![c] = None]
        /\ UNCHANGED <<file, tmp, last>>
        /\ \A d \in Clients : pc[d] = "idle"
    BY <1>2 DEF SaveSeen, CanLock
  <2> HIDE DEF edited
  <2>4. req \in Requests /\ Outcomes(req, file.entries) = {edited}
    BY <2>2 DEF Requests, Outcomes
  <2> HIDE DEF req
  <2>5. StoreTypeOK'
    BY <2>2, <2>3, <2>4 DEF StoreTypeOK, WriterSteps
  <2>6. PendingInv'
    BY <2>2, <2>3, <2>4 DEF StoreTypeOK, PendingInv, Saving
  <2> QED BY <2>3, <2>5, <2>6 DEF SeenInv, StoreTypeOK
<1>3. ASSUME NEW c \in Clients, RLock(c)
      PROVE  StoreInv'
  <2>1. StoreTypeOK'
    BY <1>3 DEF RLock, CanRLock, StoreTypeOK, WriterSteps
  <2> QED BY <1>3, <2>1 DEF RLock, StoreTypeOK, PendingInv, SeenInv, Saving
<1>4. ASSUME NEW c \in Clients, Read(c)
      PROVE  StoreInv'
  <2>1. file.entries \in SUBSET Entry
    BY FilesTyped DEF StoreTypeOK
  <2>2. StoreTypeOK'
    BY <1>4, <2>1 DEF Read, StoreTypeOK, WriterSteps
  <2> QED BY <1>4, <2>2 DEF Read, StoreTypeOK, PendingInv, SeenInv, Saving
<1>5. ASSUME NEW c \in Clients, Load(c)
      PROVE  StoreInv'
  <2>1. CASE Return(c)
    <3>1. StoreTypeOK'
      BY <1>5, <2>1 DEF Load, Return, StoreTypeOK, WriterSteps
    <3> QED BY <1>5, <2>1, <3>1 DEF Load, Return, StoreTypeOK, PendingInv, SeenInv, Saving
  <2>2. CASE ~Return(c)
    <3>1. PICK outcome \in Outcomes(request[c], file.entries) :
            data' = [data EXCEPT ![c] = outcome]
      BY <1>5, <2>2 DEF Load
    <3>2. /\ pc[c] = "load" /\ pc' = [pc EXCEPT ![c] = "create"]
          /\ UNCHANGED <<file, tmp, request, seen, last>>
      BY <1>5, <2>2 DEF Load
    <3>3. request[c] \in Requests /\ request[c].op # "save"
      BY <3>2 DEF PendingInv
    <3>4. outcome \in SUBSET Entry /\ Unique(outcome)
      BY <3>3, OutcomesAreUnique, FilesTyped DEF StoreTypeOK
    <3>5. StoreTypeOK'
      BY <3>1, <3>2, <3>4 DEF StoreTypeOK, WriterSteps
    <3>6. PendingInv'
      BY <3>1, <3>2, <3>3, <3>4 DEF StoreTypeOK, PendingInv, Saving
    <3> QED BY <3>2, <3>5, <3>6 DEF SeenInv
  <2> QED BY <2>1, <2>2
<1>6. ASSUME NEW c \in Clients, Create(c)
      PROVE  StoreInv'
  <2>1. \A d \in Clients : d # c => pc[d] # "rename"
    BY <1>6 DEF Create, StoreTypeOK, WriterSteps
  <2>2. StoreTypeOK'
    BY <1>6, FilesTyped DEF Create, StoreTypeOK, WriterSteps
  <2> QED BY <1>6, <2>1, <2>2 DEF Create, StoreTypeOK, PendingInv, SeenInv, Saving
<1>7. ASSUME NEW c \in Clients, Write(c)
      PROVE  StoreInv'
  <2>1. \A d \in Clients : d # c => pc[d] # "rename"
    BY <1>7 DEF Write, StoreTypeOK, WriterSteps
  <2>2. data[c] \in SUBSET Entry
    BY <1>7 DEF Write, PendingInv, Saving
  <2>3. StoreTypeOK'
    BY <1>7, <2>2, FilesTyped DEF Write, StoreTypeOK, WriterSteps
  <2> QED BY <1>7, <2>1, <2>3 DEF Write, StoreTypeOK, PendingInv, SeenInv, Saving
<1>8. ASSUME NEW c \in Clients, Rename(c)
      PROVE  StoreInv'
  <2>1. /\ request[c] \in Requests /\ data[c] \in SUBSET Entry /\ Unique(data[c])
        /\ tmp = Whole(data[c])
    BY <1>8 DEF Rename, PendingInv, Saving
  <2>2. \A d \in Clients : d # c => pc[d] = "idle"
    BY <1>8 DEF Rename, StoreTypeOK, WriterSteps
  <2>3. file' # Torn /\ Unique(file'.entries)
    BY <1>8, <2>1, FilesTyped DEF Rename, Whole
  <2>4. StoreTypeOK'
    BY <1>8, <2>1, <2>2, FilesTyped DEF Rename, Return, StoreTypeOK, WriterSteps
  <2>5. PendingInv'
    BY <1>8, <2>2 DEF Rename, Return, StoreTypeOK, PendingInv, Saving
  <2> QED BY <1>8, <2>3, <2>4, <2>5 DEF Rename, SeenInv
<1>9. ASSUME NEW c \in Clients, FailSave(c)
      PROVE  StoreInv'
  <2>1. StoreTypeOK'
    BY <1>9 DEF FailSave, Return, StoreTypeOK, WriterSteps
  <2> QED BY <1>9, <2>1 DEF FailSave, Return, StoreTypeOK, PendingInv, SeenInv, Saving
<1>10. CASE Crash
  BY <1>10 DEF Crash, StoreTypeOK, PendingInv, SeenInv, Saving, WriterSteps
<1>11. CASE UNCHANGED newsVars
  BY <1>11 DEF newsVars, StoreTypeOK, PendingInv, SeenInv
<1> QED BY <1>1, <1>2, <1>3, <1>4, <1>5, <1>6, <1>7, <1>8, <1>9, <1>10, <1>11 DEF StoreNext

\* The invariant holds, and with it what NewsStore says of every state.
LEMMA StoreInvariant == StoreSpec => []StoreInv
BY InitEstablishes, StepPreserves, PTL DEF StoreSpec

\* The state of the store stays well typed, and its lock excludes.
THEOREM StoreTypeCorrect == StoreSpec => []StoreTypeOK
BY StoreInvariant, PTL DEF StoreInv

\* The file always parses, whatever fails and whenever the process dies.
THEOREM FileAlwaysWhole == StoreSpec => []FileIsWhole
BY StoreInvariant, PTL DEF StoreInv

\* No URL is stored twice.
THEOREM URLsAlwaysUnique == StoreSpec => []URLsAreUnique
BY StoreInvariant, PTL DEF StoreInv

(***************************************************************************)
(* The refinement: only Rename changes the file, and it applies its        *)
(* request to what the file holds.                                         *)
(***************************************************************************)
\* AtomicNews speaks of the same entries and requests.
LEMMA SameRequests ==
  /\ Atomic!Entry = Entry
  /\ Atomic!Requests = Requests
  /\ \A req, entries : Atomic!Outcomes(req, entries) = Outcomes(req, entries)
<1>1. Atomic!Entry = Entry
  BY DEF Entry, Atomic!Entry
<1>2. Atomic!Requests = Requests
  BY <1>1 DEF Requests, Atomic!Requests
<1>3. ASSUME NEW req, NEW entries
      PROVE  Atomic!Outcomes(req, entries) = Outcomes(req, entries)
  BY DEF Outcomes, WithNew, HasURL, Matches, Updated, Atomic!Outcomes, Atomic!WithNew,
         Atomic!HasURL, Atomic!Matches, Atomic!Updated
<1> QED BY <1>1, <1>2, <1>3

\* A step of the store is a request performed atomically, or none.
LEMMA StepImplements ==
  StoreInv /\ [StoreNext]_newsVars => [Atomic!AtomicNext]_<<file.entries, last>>
<1> SUFFICES ASSUME StoreInv, [StoreNext]_newsVars, ~UNCHANGED <<file, last>>
             PROVE  Atomic!AtomicNext
  OBVIOUS
<1>1. PICK c \in Clients : Rename(c)
  BY DEF StoreNext, newsVars, Ask, SaveSeen, RLock, Read, Load, Create, Write, FailSave, Crash
<1>2. /\ request[c] \in Requests /\ tmp = Whole(data[c])
      /\ data[c] \in Outcomes(request[c], file.entries)
  BY <1>1 DEF Rename, StoreInv, PendingInv, Saving
<1>3. last' = request[c] /\ file'.entries = data[c]
  BY <1>1, <1>2 DEF Rename, Whole
<1> QED BY <1>2, <1>3, SameRequests DEF Atomic!AtomicNext, Atomic!Perform

\* The store implements AtomicNews: requests change the entries one at a time.
THEOREM StoreImplements == StoreSpec => ImplementsAtomicNews
<1>1. StoreInit => Atomic!AtomicInit
  <2> SUFFICES ASSUME StoreInit PROVE Atomic!AtomicInit
    OBVIOUS
  <2>1. file \in File
    BY StoreAssumption DEF StoreInit
  <2> QED BY <2>1, FilesTyped, SameRequests DEF StoreInit, Atomic!AtomicInit
<1> QED BY <1>1, StoreInvariant, StepImplements, PTL
        DEF StoreSpec, ImplementsAtomicNews, Atomic!AtomicSpec

=============================================================================
