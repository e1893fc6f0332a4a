---------------------------- MODULE SearchProofs ----------------------------
(***************************************************************************)
(* Proofs about ParallelSearch, for any number of providers and any        *)
(* results: the merge, source by source, has taken over what the part it   *)
(* has read calls for.                                                     *)
(***************************************************************************)
EXTENDS ParallelSearch, TLAPS

SearchTypeOK ==
  /\ mode \in {"parallel", "fallback"}
  /\ behaves \in [1..Providers -> Behaviours]
  /\ running \subseteq 1..Providers
  /\ slots \in [1..Providers -> Behaviours \cup {Unwritten}]
  /\ at \in 1..(Providers + 1) /\ src \in Nat
  /\ merged \in Result

\* A goroutine that has ended has written its slot; nothing is merged, let alone
\* answered, before all have.
WrittenInv ==
  mode = "parallel" =>
    /\ \A i \in (1..Providers) \ running : slots[i] = behaves[i]
    /\ at > 1 \/ src > 0 \/ answer # {} => running = {}
    /\ at > Providers => src = 0

\* The sources that the merge is past.
Read(i, k) == i < at \/ (i = at /\ k < src)
Opened(i) == i < at \/ (i = at /\ src > 0)

\* Every page read is in the merge.
ReadInv ==
  mode = "parallel" =>
    \A i \in 1..Providers : \A k \in DOMAIN Found(i) :
      Read(i, k) /\ Page(Found(i)[k]) # "" =>
        \E l \in DOMAIN merged.sources : Page(merged.sources[l]) = Page(Found(i)[k])

ContextInv ==
  mode = "parallel" =>
    (merged.context <=> \E i \in 1..Providers : Opened(i) /\ behaves[i].result.context)

PlacedInv ==
  mode = "parallel" =>
    \A l \in DOMAIN merged.sources :
      \E i \in 1..Providers : i <= at /\ Placed(merged.sources, l, i)

PairedInv == mode = "parallel" /\ Paired => merged.entries = merged.sources

SearchInv ==
  /\ SearchTypeOK /\ WrittenInv /\ ReadInv /\ ContextInv /\ PlacedInv /\ PairedInv
  /\ MergeIgnoresTiming /\ EntriesStayPaired

\* What a provider does has the types of a result, and is empty if it is none.
LEMMA BehaviourTypes ==
  ASSUME NEW o \in Behaviours
  PROVE  /\ o.result \in Result
         /\ o.kind # "result" => o.result = Empty
         /\ DOMAIN o.result.sources = 1..Len(o.result.sources)
         /\ Len(o.result.sources) \in Nat
<1>1. Empty \in Result
  BY DEF Empty, Result
<1>2. /\ o.result \in Result
      /\ o.kind # "result" => o.result = Empty
  BY <1>1, SearchAssumption DEF Behaviours, Failures, Outcome
<1>3. o.result.sources \in Seq(Source)
  BY <1>2 DEF Result
<1> QED BY <1>2, <1>3

LEMMA FoundTypes ==
  ASSUME SearchTypeOK, NEW i \in 1..Providers
  PROVE  /\ behaves[i] \in Behaviours
         /\ behaves[i].result \in Result
         /\ Found(i) \in Seq(Source)
         /\ DOMAIN Found(i) = 1..Len(Found(i)) /\ Len(Found(i)) \in Nat
         /\ \A k \in DOMAIN Found(i) : Found(i)[k] \in Source
<1>1. behaves[i] \in Behaviours
  BY DEF SearchTypeOK
<1>2. behaves[i].result \in Result
  BY <1>1, BehaviourTypes
<1>3. Found(i) \in Seq(Source)
  BY <1>2 DEF Found, Result
<1> QED BY <1>1, <1>2, <1>3

LEMMA SearchInitInv == SearchInit => SearchInv
<1> SUFFICES ASSUME SearchInit PROVE SearchInv
  OBVIOUS
<1>1. Empty \in Result
  BY DEF Empty, Result
<1>2. SearchTypeOK
  BY <1>1, SearchAssumption DEF SearchInit, SearchTypeOK
<1>3. \A i, k : ~Read(i, k) \/ i < 1 \/ (i = 1 /\ k < 0)
  BY DEF SearchInit, Read
<1>4. ReadInv /\ ContextInv
  <2>1. \A i \in 1..Providers : \A k \in DOMAIN Found(i) : ~Read(i, k)
    BY <1>2, <1>3, FoundTypes, SearchAssumption
  <2>2. \A i \in 1..Providers : ~Opened(i)
    BY SearchAssumption DEF Opened, SearchInit
  <2> QED BY <2>1, <2>2 DEF ReadInv, ContextInv, SearchInit, Empty
<1>5. WrittenInv /\ PlacedInv /\ PairedInv /\ MergeIgnoresTiming /\ EntriesStayPaired
  BY SearchAssumption
  DEF SearchInit, WrittenInv, PlacedInv, PairedInv, MergeIgnoresTiming, EntriesStayPaired, Empty
<1> QED BY <1>2, <1>4, <1>5 DEF SearchInv

\* What was found does not change.
LEMMA FoundStays ==
  ASSUME UNCHANGED behaves
  PROVE  /\ \A i : Found(i)' = Found(i)
         /\ \A i, page : Finds(i, page)' <=> Finds(i, page)
         /\ \A sources, l, i : Placed(sources, l, i)' <=> Placed(sources, l, i)
         /\ \A sources : Complete(sources)' <=> Complete(sources)
         /\ NothingFound' <=> NothingFound
         /\ Paired' <=> Paired
<1>1. /\ \A i : Found(i)' = Found(i)
      /\ \A i, page : Finds(i, page)' <=> Finds(i, page)
  BY DEF Finds, Found
<1>2. \A i, page : FindsFirst(i, page)' <=> FindsFirst(i, page)
  BY <1>1 DEF FindsFirst
<1>3. \A sources, l, i : Placed(sources, l, i)' <=> Placed(sources, l, i)
  BY <1>1, <1>2 DEF Placed
<1>4. (NothingFound' <=> NothingFound) /\ (Paired' <=> Paired)
  BY <1>1 DEF NothingFound, Paired
<1>5. \A sources : Complete(sources)' <=> Complete(sources)
  BY <1>1 DEF Complete
<1> QED BY <1>1, <1>3, <1>4, <1>5

\* The answer's properties are about what providers do and the answer alone.
LEMMA AnswerStays ==
  ASSUME SearchInv, UNCHANGED <<mode, behaves, answer>>
  PROVE  MergeIgnoresTiming' /\ EntriesStayPaired'
<1>1. MergeIgnoresTiming'
  BY FoundStays DEF SearchInv, MergeIgnoresTiming
<1>2. EntriesStayPaired'
  BY FoundStays DEF SearchInv, EntriesStayPaired
<1> QED BY <1>1, <1>2

\* A slot is written before the merge begins, so the merge is not concerned.
LEMMA FinishInv ==
  ASSUME SearchInv, NEW i \in 1..Providers, Finish(i)
  PROVE  SearchInv'
<1>1. /\ UNCHANGED <<mode, behaves, at, src, merged, answer>> /\ mode = "parallel"
      /\ i \in running /\ running' = running \ {i}
      /\ slots' = [slots EXCEPT ![i] = behaves[i]]
  BY DEF Finish, mergeVars, Slot
<1>2. SearchTypeOK'
  BY <1>1 DEF SearchInv, SearchTypeOK
<1>3. WrittenInv'
  BY <1>1 DEF SearchInv, SearchTypeOK, WrittenInv
<1>4. ReadInv'
  <2>1. \A j : Found(j)' = Found(j)
    BY <1>1, FoundStays
  <2>2. \A j, k : Read(j, k)' <=> Read(j, k)
    BY <1>1 DEF Read
  <2> QED BY <1>1, <2>1, <2>2 DEF SearchInv, ReadInv
<1>7. ContextInv'
  BY <1>1 DEF SearchInv, ContextInv, Opened
<1>6. PlacedInv' /\ PairedInv'
  BY <1>1, FoundStays DEF SearchInv, PlacedInv, PairedInv
<1>5. MergeIgnoresTiming' /\ EntriesStayPaired'
  BY <1>1, AnswerStays
<1> QED BY <1>2, <1>3, <1>4, <1>5, <1>6, <1>7 DEF SearchInv

\* What the merge finds in the slot it is at is what the provider did.
LEMMA SlotAt ==
  ASSUME SearchInv, Merging, at <= Providers
  PROVE  /\ at \in 1..Providers
         /\ slots[at] = behaves[at]
         /\ slots[at].result.sources = Found(at)
<1>1. at \in 1..Providers /\ mode = "parallel" /\ running = {}
  BY SearchAssumption DEF SearchInv, SearchTypeOK, Merging
<1>2. slots[at] = behaves[at]
  BY <1>1 DEF SearchInv, WrittenInv
<1> QED BY <1>1, <1>2 DEF Found

LEMMA OpenSlotInv ==
  ASSUME SearchInv, OpenSlot
  PROVE  SearchInv'
<1>1. /\ Merging /\ at <= Providers /\ src = 0
      /\ UNCHANGED <<mode, behaves, running, slots, answer>>
  BY DEF OpenSlot
<1>2. at \in 1..Providers /\ slots[at] = behaves[at]
  BY <1>1, SlotAt
<1>3. behaves[at] \in Behaviours /\ behaves[at].result.context \in BOOLEAN
  BY <1>2, FoundTypes DEF SearchInv, Result
<1>4. /\ MergeIgnoresTiming' /\ EntriesStayPaired'
      /\ mode = "parallel" /\ running = {}
  BY <1>1, AnswerStays DEF Merging
<1>5. /\ merged.context \in BOOLEAN /\ merged.sources \in Seq(Source)
      /\ DOMAIN merged = {"context", "sources", "entries"}
      /\ merged \in Result
  BY DEF SearchInv, SearchTypeOK, Result
<1>6. CASE slots[at].kind # "result"
  <2>1. at' = at + 1 /\ UNCHANGED <<src, merged>>
    BY <1>6 DEF OpenSlot
  <2>2. Found(at) = <<>> /\ ~behaves[at].result.context
    BY <1>2, <1>3, <1>6, BehaviourTypes DEF Found, Empty
  <2>3. SearchTypeOK' /\ WrittenInv'
    BY <1>1, <1>2, <1>4, <2>1, SearchAssumption DEF SearchInv, SearchTypeOK, WrittenInv
  <2>4. ReadInv' /\ ContextInv'
    <3>1. ASSUME NEW i \in 1..Providers, NEW k \in DOMAIN Found(i), Read(i, k)'
          PROVE  Read(i, k)
      BY <1>1, <1>2, <2>1, <2>2, <3>1, FoundTypes DEF Read, SearchInv
    <3>2. ASSUME NEW i \in 1..Providers, behaves[i].result.context
          PROVE  Opened(i)' <=> Opened(i)
      BY <1>1, <1>2, <2>1, <2>2, <3>2 DEF Opened
    <3>3. ReadInv'
      BY <1>1, <2>1, <3>1, FoundStays DEF SearchInv, ReadInv
    <3>4. ContextInv'
      BY <1>1, <2>1, <3>2 DEF SearchInv, ContextInv
    <3> QED BY <3>3, <3>4
  <2>5. PlacedInv' /\ PairedInv'
    BY <1>1, <1>2, <2>1, FoundStays DEF SearchInv, PlacedInv, PairedInv
  <2> QED BY <1>4, <2>3, <2>4, <2>5 DEF SearchInv
<1>7. CASE slots[at].kind = "result"
  <2>1. /\ src' = 1 /\ at' = at
        /\ merged' = [merged EXCEPT !.context = merged.context \/ behaves[at].result.context]
    BY <1>2, <1>7 DEF OpenSlot
  <2>2. /\ merged' \in Result /\ merged'.sources = merged.sources
        /\ merged'.entries = merged.entries
        /\ merged'.context = (merged.context \/ behaves[at].result.context)
    BY <1>3, <1>5, <2>1 DEF Result
  <2>3. SearchTypeOK' /\ WrittenInv'
    BY <1>1, <1>2, <1>4, <2>1, <2>2, SearchAssumption DEF SearchInv, SearchTypeOK, WrittenInv
  <2>4. ReadInv' /\ ContextInv'
    <3>1. ASSUME NEW i \in 1..Providers, NEW k \in DOMAIN Found(i), Read(i, k)'
          PROVE  Read(i, k)
      BY <1>1, <1>2, <2>1, <3>1, FoundTypes DEF Read, SearchInv
    <3>2. \A i \in 1..Providers : Opened(i)' <=> Opened(i) \/ i = at
      BY <1>1, <1>2, <2>1 DEF Opened
    <3>3. merged'.context <=> \E i \in 1..Providers : Opened(i)' /\ behaves[i].result.context
      BY <1>2, <1>4, <2>2, <3>2 DEF SearchInv, ContextInv
    <3>4. ReadInv'
      BY <1>1, <2>2, <3>1, FoundStays DEF SearchInv, ReadInv
    <3> QED BY <1>1, <3>3, <3>4 DEF ContextInv
  <2>5. PlacedInv'
    BY <1>1, <2>1, <2>2, FoundStays DEF SearchInv, PlacedInv
  <2>6. PairedInv'
    BY <1>1, <2>2, FoundStays DEF SearchInv, PairedInv
  <2> QED BY <1>4, <2>3, <2>4, <2>5, <2>6 DEF SearchInv
<1> QED BY <1>6, <1>7

\* A page is new to the merge exactly if no provider before has it, since the
\* merge is past these and has every page of them.
LEMMA NewIsFirst ==
  ASSUME SearchInv, Merging, at <= Providers, src \in DOMAIN Found(at),
         IsNew(Page(Found(at)[src]))
  PROVE  /\ FindsFirst(at, Page(Found(at)[src]))
         /\ \A j \in 1..(at - 1) : ~Finds(j, Page(Found(at)[src]))
<1> DEFINE page == Page(Found(at)[src])
<1>1. at \in 1..Providers /\ mode = "parallel"
  BY SlotAt DEF Merging
<1>2. Finds(at, page)
  BY DEF Finds, IsNew
<1>3. ASSUME NEW j \in 1..(at - 1), Finds(j, page)
      PROVE  FALSE
  <2>1. PICK k \in DOMAIN Found(j) : Page(Found(j)[k]) = page
    BY <1>3 DEF Finds
  <2>2. j \in 1..Providers /\ j < at
    BY <1>1, <1>3, SearchAssumption
  <2>4. Read(j, k) /\ page # ""
    BY <2>2 DEF Read, IsNew
  <2>3. \E l \in DOMAIN merged.sources : Page(merged.sources[l]) = page
    BY <1>1, <2>1, <2>2, <2>4 DEF SearchInv, ReadInv
  <2> QED BY <2>3 DEF IsNew
<1> QED BY <1>2, <1>3 DEF FindsFirst

\* Adding a page that no provider before the current one has keeps every source
\* in its place.
LEMMA AppendPlaces ==
  ASSUME SearchInv, Merging, at <= Providers, src \in DOMAIN Found(at),
         IsNew(Page(Found(at)[src])),
         NEW l \in DOMAIN Append(merged.sources, Found(at)[src])
  PROVE  \E i \in 1..Providers :
            i <= at /\ Placed(Append(merged.sources, Found(at)[src]), l, i)
<1> DEFINE s == Found(at)[src]
           sources == merged.sources
           longer == Append(sources, s)
<1>1. at \in 1..Providers /\ mode = "parallel"
  BY SlotAt DEF Merging
<1>2. sources \in Seq(Source) /\ s \in Source
  BY <1>1, FoundTypes DEF SearchInv, SearchTypeOK, Result
<1>3. /\ Len(sources) \in Nat /\ DOMAIN sources = 1..Len(sources)
      /\ DOMAIN longer = 1..(Len(sources) + 1)
      /\ longer[Len(sources) + 1] = s
      /\ \A m \in DOMAIN sources : longer[m] = sources[m]
  BY <1>2
<1>4. FindsFirst(at, Page(s)) /\ \A j \in 1..(at - 1) : ~Finds(j, Page(s))
  BY NewIsFirst
<1> HIDE DEF longer, s, sources
<1>5. CASE l = Len(sources) + 1
  <2>1. Placed(longer, l, at)
    BY <1>1, <1>3, <1>4, <1>5 DEF Placed, s
  <2> QED BY <1>1, <2>1 DEF longer, sources, s
<1>6. CASE l # Len(sources) + 1
  <2>1. l \in DOMAIN sources
    BY <1>3, <1>6 DEF longer, sources, s
  <2>2. PICK i \in 1..Providers : i <= at /\ Placed(sources, l, i)
    BY <1>1, <2>1 DEF SearchInv, PlacedInv, sources
  <2>3. \A j \in 1..(i - 1) : ~Finds(j, Page(s))
    BY <1>1, <1>4, <2>2
  <2>4. Page(sources[l]) # Page(s)
    BY <2>1 DEF IsNew, sources, s
  <2>5. Placed(longer, l, i)
    BY <1>3, <2>1, <2>2, <2>3, <2>4 DEF Placed
  <2> QED BY <2>2, <2>5 DEF longer, sources, s
<1> QED BY <1>5, <1>6

LEMMA MergeSourceInv ==
  ASSUME SearchInv, MergeSource
  PROVE  SearchInv'
<1> DEFINE s == Found(at)[src]
           r == behaves[at].result
<1>1. /\ Merging /\ at <= Providers
      /\ UNCHANGED <<mode, behaves, running, slots, at, answer>>
      /\ src' = src + 1
      /\ at \in 1..Providers /\ mode = "parallel" /\ running = {}
      /\ slots[at] = behaves[at]
      /\ src \in DOMAIN Found(at)
  BY SlotAt DEF MergeSource, Merging
<1>2. merged' = IF IsNew(Page(s))
                THEN [merged EXCEPT !.sources = Append(@, s), !.entries = @ \o EntryOf(r.entries, src)]
                ELSE merged
  BY <1>1 DEF MergeSource, Take, Found
<1>3. /\ merged \in Result /\ r \in Result /\ s \in Source
      /\ src \in Nat \ {0} /\ Found(at) = r.sources
  BY <1>1, FoundTypes DEF SearchInv, SearchTypeOK, Found
<1>4. EntryOf(r.entries, src) \in Seq(Source)
  <2>1. r.entries \in Seq(Source)
    BY <1>3 DEF Result
  <2> QED BY <2>1 DEF EntryOf
<1> HIDE DEF s, r
<1>5. /\ merged' \in Result
      /\ merged'.context = merged.context
      /\ merged'.sources = IF IsNew(Page(s)) THEN Append(merged.sources, s) ELSE merged.sources
      /\ merged'.entries = IF IsNew(Page(s)) THEN merged.entries \o EntryOf(r.entries, src)
                           ELSE merged.entries
  <2>1. /\ merged = [context |-> merged.context, sources |-> merged.sources,
                      entries |-> merged.entries]
        /\ merged.sources \in Seq(Source) /\ merged.entries \in Seq(Source)
        /\ merged.context \in BOOLEAN
    BY <1>3 DEF Result
  <2>2. CASE IsNew(Page(s))
    <3>1. merged' = [context |-> merged.context, sources |-> Append(merged.sources, s),
                     entries |-> merged.entries \o EntryOf(r.entries, src)]
      BY <1>2, <2>1, <2>2
    <3>2. /\ Append(merged.sources, s) \in Seq(Source)
          /\ merged.entries \o EntryOf(r.entries, src) \in Seq(Source)
      BY <1>3, <1>4, <2>1
    <3> QED BY <2>1, <2>2, <3>1, <3>2 DEF Result
  <2>3. CASE ~IsNew(Page(s))
    BY <1>2, <1>3, <2>3
  <2> QED BY <2>2, <2>3
<1>6. SearchTypeOK'
  BY <1>1, <1>3, <1>5 DEF SearchInv, SearchTypeOK
<1>7. WrittenInv'
  BY <1>1, SearchAssumption DEF SearchInv, WrittenInv
<1>8. ReadInv'
  <2>1. SUFFICES ASSUME NEW i \in 1..Providers, NEW k \in DOMAIN Found(i),
                        Read(i, k)', Page(Found(i)[k]) # ""
                 PROVE  \E l \in DOMAIN merged'.sources :
                           Page(merged'.sources[l]) = Page(Found(i)[k])
    BY <1>1, FoundStays DEF ReadInv
  <2>2. /\ merged.sources \in Seq(Source)
        /\ \A l \in DOMAIN merged.sources :
             l \in DOMAIN merged'.sources /\ merged'.sources[l] = merged.sources[l]
    BY <1>3, <1>5 DEF Result
  <2>3. CASE Read(i, k)
    BY <1>1, <2>1, <2>2, <2>3 DEF SearchInv, ReadInv
  <2>4. CASE ~Read(i, k)
    <3>1. i = at /\ k = src
      <4>1. k \in Nat /\ i \in Nat /\ at \in Nat
        BY <1>1, FoundTypes DEF SearchInv
      <4>2. src' = src + 1 /\ at' = at /\ src \in Nat
        BY <1>1, <1>3
      <4>3. i < at \/ (i = at /\ k < src + 1)
        BY <2>1, <4>2 DEF Read
      <4>4. ~(i < at) /\ ~(i = at /\ k < src)
        BY <2>4 DEF Read
      <4> QED BY <4>1, <4>2, <4>3, <4>4
    <3>2. CASE IsNew(Page(s))
      <4>1. merged'.sources = Append(merged.sources, s)
        BY <1>5, <3>2
      <4>3. \A q \in Seq(Source) : /\ Len(q) + 1 \in DOMAIN Append(q, s)
                                   /\ Append(q, s)[Len(q) + 1] = s
        BY <1>3
      <4>2. Len(merged.sources) + 1 \in DOMAIN merged'.sources
            /\ merged'.sources[Len(merged.sources) + 1] = s
        BY <2>2, <4>1, <4>3
      <4> QED BY <3>1, <4>2 DEF s
    <3>3. CASE ~IsNew(Page(s))
      <4>1. \E l \in DOMAIN merged.sources : Page(merged.sources[l]) = Page(s)
        BY <2>1, <3>1, <3>3 DEF IsNew, s
      <4> QED BY <2>2, <3>1, <4>1 DEF s
    <3> QED BY <3>2, <3>3
  <2> QED BY <2>3, <2>4
<1>9. ContextInv'
  BY <1>1, <1>3, <1>5 DEF SearchInv, ContextInv, Opened
<1>10. PlacedInv'
  <2>1. SUFFICES ASSUME NEW l \in DOMAIN merged'.sources
                 PROVE  \E i \in 1..Providers : i <= at /\ Placed(merged'.sources, l, i)
    BY <1>1, FoundStays DEF PlacedInv
  <2>2. CASE IsNew(Page(s))
    <3>1. merged'.sources = Append(merged.sources, Found(at)[src])
      BY <1>5, <2>2 DEF s
    <3> QED BY <1>1, <2>2, <3>1, AppendPlaces DEF s
  <2>3. CASE ~IsNew(Page(s))
    BY <1>1, <1>5, <2>3 DEF SearchInv, PlacedInv
  <2> QED BY <2>2, <2>3
<1>11. PairedInv'
  <2>1. SUFFICES ASSUME Paired, IsNew(Page(s))
                 PROVE  merged'.entries = merged'.sources
    BY <1>1, <1>5, FoundStays DEF SearchInv, PairedInv
  <2>2. merged.entries = merged.sources
    BY <1>1, <2>1 DEF SearchInv, PairedInv
  <2>3. r.entries = Found(at)
    BY <1>1, <2>1 DEF Paired, r
  <2>4. EntryOf(r.entries, src) = <<s>>
    BY <1>1, <2>3 DEF EntryOf, s
  <2>5. merged.sources \in Seq(Source)
    BY <1>3 DEF Result
  <2> QED BY <1>3, <1>5, <2>1, <2>2, <2>4, <2>5
<1>12. MergeIgnoresTiming' /\ EntriesStayPaired'
  BY <1>1, AnswerStays
<1> QED BY <1>6, <1>7, <1>8, <1>9, <1>10, <1>11, <1>12 DEF SearchInv

\* A slot whose sources are all read is behind the merge.
LEMMA CloseSlotInv ==
  ASSUME SearchInv, CloseSlot
  PROVE  SearchInv'
<1>1. /\ Merging /\ at <= Providers
      /\ UNCHANGED <<mode, behaves, running, slots, merged, answer>>
      /\ at' = at + 1 /\ src' = 0
      /\ at \in 1..Providers /\ mode = "parallel" /\ running = {}
      /\ src > Len(Found(at))
  BY SlotAt DEF CloseSlot, Merging
<1>2. src \in Nat \ {0} /\ Len(Found(at)) \in Nat /\ DOMAIN Found(at) = 1..Len(Found(at))
  BY <1>1, FoundTypes DEF SearchInv, SearchTypeOK
<1>3. SearchTypeOK' /\ WrittenInv'
  BY <1>1, SearchAssumption DEF SearchInv, SearchTypeOK, WrittenInv
<1>4. ReadInv'
  <2>1. ASSUME NEW i \in 1..Providers, NEW k \in DOMAIN Found(i), Read(i, k)'
        PROVE  Read(i, k)
    <3>1. k \in Nat \ {0}
      BY FoundTypes DEF SearchInv
    <3> QED BY <1>1, <1>2, <2>1, <3>1 DEF Read
  <2>2. \A j : Found(j)' = Found(j)
    BY <1>1, FoundStays
  <2> QED BY <1>1, <2>1, <2>2 DEF SearchInv, ReadInv
<1>5. ContextInv'
  <2>1. \A i \in 1..Providers : Opened(i)' <=> Opened(i)
    BY <1>1, <1>2 DEF Opened
  <2> QED BY <1>1, <2>1 DEF SearchInv, ContextInv
<1>6. PlacedInv' /\ PairedInv'
  BY <1>1, FoundStays DEF SearchInv, PlacedInv, PairedInv
<1>7. MergeIgnoresTiming' /\ EntriesStayPaired'
  BY <1>1, AnswerStays
<1> QED BY <1>3, <1>4, <1>5, <1>6, <1>7 DEF SearchInv

\* When it is behind all of them, it has everything.
LEMMA MergedIsAnswer ==
  ASSUME SearchInv, Merging, at > Providers
  PROVE  /\ Complete(merged.sources)
         /\ \A l \in DOMAIN merged.sources : \E i \in 1..Providers : Placed(merged.sources, l, i)
         /\ merged.sources = <<>> /\ ~merged.context <=> NothingFound
         /\ Paired => merged.entries = merged.sources
<1>1. mode = "parallel" /\ at = Providers + 1 /\ merged.sources \in Seq(Source)
  BY SearchAssumption DEF Merging, SearchInv, SearchTypeOK, Result
<1>2. Complete(merged.sources)
  <2>1. \A i \in 1..Providers : \A k : Read(i, k)
    BY <1>1, SearchAssumption DEF Read
  <2> QED BY <1>1, <2>1 DEF SearchInv, ReadInv, Complete
<1>3. \A l \in DOMAIN merged.sources : \E i \in 1..Providers : Placed(merged.sources, l, i)
  BY <1>1 DEF SearchInv, PlacedInv
<1>4. merged.context <=> \E i \in 1..Providers : behaves[i].result.context
  BY <1>1, SearchAssumption DEF SearchInv, ContextInv, Opened
<1>5. merged.sources = <<>> <=>
        \A i \in 1..Providers : \A k \in DOMAIN Found(i) : Page(Found(i)[k]) = ""
  <2>1. ASSUME merged.sources = <<>>, NEW i \in 1..Providers, NEW k \in DOMAIN Found(i)
        PROVE  Page(Found(i)[k]) = ""
    <3>1. DOMAIN merged.sources = {}
      BY <2>1
    <3> QED BY <1>2, <3>1 DEF Complete
  <2>2. ASSUME merged.sources # <<>>
        PROVE  \E i \in 1..Providers : \E k \in DOMAIN Found(i) : Page(Found(i)[k]) # ""
    <3>1. 1 \in DOMAIN merged.sources
      BY <1>1, <2>2
    <3>2. PICK i \in 1..Providers : FindsFirst(i, Page(merged.sources[1]))
      BY <1>3, <3>1 DEF Placed
    <3> QED BY <3>2 DEF FindsFirst, Finds
  <2> QED BY <2>1, <2>2
<1>6. merged.sources = <<>> /\ ~merged.context <=> NothingFound
  BY <1>4, <1>5 DEF NothingFound
<1>7. Paired => merged.entries = merged.sources
  BY <1>1 DEF SearchInv, PairedInv
<1> QED BY <1>2, <1>3, <1>6, <1>7

LEMMA MergeEndsInv ==
  ASSUME SearchInv, MergeEnds
  PROVE  SearchInv'
<1>1. /\ Merging /\ at > Providers /\ mode = "parallel" /\ running = {}
      /\ UNCHANGED <<mode, behaves, running, slots, at, src, merged>>
  BY DEF MergeEnds, mergeVars, Merging
<1>2. answer' = {IF merged.sources = <<>> /\ ~merged.context THEN <<>> ELSE <<merged>>}
  BY DEF MergeEnds
<1>3. SearchTypeOK' /\ WrittenInv'
  BY <1>1 DEF SearchInv, SearchTypeOK, WrittenInv
<1>4. ReadInv' /\ ContextInv'
  <2>1. ReadInv'
    <3>1. \A i, k : Read(i, k)' <=> Read(i, k)
      BY <1>1 DEF Read
    <3> QED BY <1>1, <3>1, FoundStays DEF SearchInv, ReadInv
  <2>2. ContextInv'
    BY <1>1 DEF SearchInv, ContextInv, Opened
  <2> QED BY <2>1, <2>2
<1>5. PlacedInv' /\ PairedInv'
  BY <1>1, FoundStays DEF SearchInv, PlacedInv, PairedInv
<1>6. ASSUME NEW a \in answer'
      PROVE  /\ a = <<>> <=> NothingFound
             /\ \A n \in DOMAIN a : a[n] = merged
  <2>1. CASE NothingFound
    <3>1. a = <<>>
      BY <1>1, <1>2, <2>1, MergedIsAnswer
    <3> QED BY <2>1, <3>1
  <2>2. CASE ~NothingFound
    <3>1. a = <<merged>>
      BY <1>1, <1>2, <2>2, MergedIsAnswer
    <3> QED BY <2>2, <3>1
  <2> QED BY <2>1, <2>2
<1>7. MergeIgnoresTiming'
  BY <1>1, <1>6, MergedIsAnswer, FoundStays DEF MergeIgnoresTiming
<1>8. EntriesStayPaired'
  BY <1>1, <1>6, MergedIsAnswer, FoundStays DEF EntriesStayPaired
<1> QED BY <1>3, <1>4, <1>5, <1>7, <1>8 DEF SearchInv

LEMMA FallBackInv ==
  ASSUME SearchInv, NEW i \in 1..Providers, FallBack(i)
  PROVE  SearchInv'
<1>1. /\ mode = "fallback" /\ running' = running \ {i}
      /\ slots' = [slots EXCEPT ![i] = behaves[i]]
      /\ UNCHANGED <<mode, behaves, at, src, merged>>
      /\ answer' \in {{}, {<<>>}, {<<behaves[i].result>>}}
  BY DEF FallBack, mergeVars
<1>2. SearchTypeOK'
  BY <1>1 DEF SearchInv, SearchTypeOK
<1>3. WrittenInv' /\ ReadInv' /\ ContextInv' /\ PlacedInv' /\ PairedInv' /\ MergeIgnoresTiming'
  BY <1>1 DEF WrittenInv, ReadInv, ContextInv, PlacedInv, PairedInv, MergeIgnoresTiming
<1>4. EntriesStayPaired'
  BY <1>1, FoundStays DEF EntriesStayPaired, Paired, Found
<1> QED BY <1>2, <1>3, <1>4 DEF SearchInv

LEMMA SearchNextInv == SearchInv /\ [SearchNext]_searchVars => SearchInv'
<1> SUFFICES ASSUME SearchInv, [SearchNext]_searchVars PROVE SearchInv'
  OBVIOUS
<1>1. CASE SearchNext
  BY <1>1, FinishInv, FallBackInv, OpenSlotInv, MergeSourceInv, CloseSlotInv, MergeEndsInv
  DEF SearchNext
<1>2. CASE UNCHANGED searchVars
  <2>1. UNCHANGED <<mode, behaves, running, slots, at, src, merged, answer>>
    BY <1>2 DEF searchVars, mergeVars
  <2>2. SearchTypeOK' /\ WrittenInv' /\ ContextInv'
    BY <2>1 DEF SearchInv, SearchTypeOK, WrittenInv, ContextInv, Opened
  <2>3. ReadInv'
    BY <2>1, FoundStays DEF SearchInv, ReadInv, Read
  <2>4. PlacedInv' /\ PairedInv'
    BY <2>1, FoundStays DEF SearchInv, PlacedInv, PairedInv
  <2>5. MergeIgnoresTiming' /\ EntriesStayPaired'
    BY <2>1, AnswerStays
  <2> QED BY <2>2, <2>3, <2>4, <2>5 DEF SearchInv
<1> QED BY <1>1, <1>2

LEMMA SearchInvariant == SearchSpec => []SearchInv
BY SearchInitInv, SearchNextInv, PTL DEF SearchSpec

\* Parallel's answer is determined by what the providers find and by their order,
\* whatever order their goroutines end in.
THEOREM MergeIgnoresTimingCorrect == SearchSpec => []MergeIgnoresTiming
<1>1. SearchInv => MergeIgnoresTiming
  BY DEF SearchInv
<1> QED BY <1>1, SearchInvariant, PTL

\* No entry is shown for another source's page.
THEOREM EntriesStayPairedCorrect == SearchSpec => []EntriesStayPaired
<1>1. SearchInv => EntriesStayPaired
  BY DEF SearchInv
<1> QED BY <1>1, SearchInvariant, PTL

=============================================================================
