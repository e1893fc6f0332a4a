--------------------------- MODULE ParallelSearch ---------------------------
(***************************************************************************)
(* search.Parallel: one goroutine per provider, each writing its own slot, *)
(* a wait for all of them, and a merge in provider order; with             *)
(* search.Fallback over the same providers, one after another.             *)
(*                                                                         *)
(* What a provider does is fixed before it runs: an error, a panic, no     *)
(* result (nil, nil), or a result, whose sources are <<page, spelling>>:   *)
(* normalizeURL maps the spellings of a page to the page, and what is no   *)
(* URL to "".  Entries go with sources by position.                        *)
(***************************************************************************)
EXTENDS Naturals, Sequences, FiniteSets

CONSTANTS
  Providers,   \* how many there are
  Results      \* the results a provider may return: [context, sources, entries]

Source == STRING \X Nat
Result == [context : BOOLEAN, sources : Seq(Source), entries : Seq(Source)]

ASSUME SearchAssumption == Providers \in Nat /\ Results \subseteq Result

Empty == [context |-> FALSE, sources |-> <<>>, entries |-> <<>>]
Outcome(kind, result) == [kind |-> kind, result |-> result]
Failures == {Outcome("error", Empty), Outcome("panic", Empty)}
Behaviours == Failures \cup {Outcome("nil", Empty)} \cup {Outcome("result", r) : r \in Results}

Failed(o) == o.kind \in {"error", "panic"}
Page(source) == source[1]

VARIABLES
  mode,      \* "parallel" or "fallback"
  behaves,   \* what each provider is going to do
  running,   \* goroutines that have not ended
  slots,     \* results, the empty outcome where nothing is written yet
  at,        \* merge: the slot it is at
  src,       \* and the source of it, 0 before the slot is opened
  merged,    \* contextParts, sources and entries; seen is the pages of sources
  answer     \* what Search returned, {} before: <<>> is an error

mergeVars == <<at, src, merged>>
searchVars == <<mode, behaves, running, slots, mergeVars, answer>>

Unwritten == Outcome("unwritten", Empty)

BUG_NoIndex(i) ==
  1 + Cardinality({j \in 1..Providers : slots[j] # Unwritten})

\* Its own slot, whatever the others do.
Slot(i) == i

\* A goroutine ends; a panic is recovered into its slot.
Finish(i) ==
  /\ mode = "parallel"
  /\ i \in running
  /\ slots' = [slots EXCEPT ![Slot(i)] = behaves[i]]
  /\ running' = running \ {i}
  /\ UNCHANGED <<mode, behaves, mergeVars, answer>>

\* After wg.Wait.
Merging == mode = "parallel" /\ running = {} /\ answer = {}

\* A failed or empty slot is passed over; of a result, the context is kept.
OpenSlot ==
  /\ Merging /\ at <= Providers /\ src = 0
  /\ IF slots[at].kind # "result"
     THEN at' = at + 1 /\ UNCHANGED <<src, merged>>
     ELSE /\ src' = 1
          /\ merged' = [merged EXCEPT !.context = @ \/ slots[at].result.context]
          /\ UNCHANGED at
  /\ UNCHANGED <<mode, behaves, running, slots, answer>>

BUG_NoSeen(page) == page # ""

IsNew(page) ==
  page # "" /\ \A k \in DOMAIN merged.sources : Page(merged.sources[k]) # page

\* The entry that goes with a source, if there is one.
EntryOf(entries, k) == IF k \in DOMAIN entries THEN <<entries[k]>> ELSE <<>>

BUG_KeepsAllEntries(r) ==
  merged' = IF IsNew(Page(r.sources[src]))
            THEN [merged EXCEPT !.sources = Append(@, r.sources[src]),
                                !.entries = @ \o EntryOf(r.entries, src)]
            ELSE [merged EXCEPT !.entries = @ \o EntryOf(r.entries, src)]

Take(r) ==
  merged' = IF IsNew(Page(r.sources[src]))
            THEN [merged EXCEPT !.sources = Append(@, r.sources[src]),
                                !.entries = @ \o EntryOf(r.entries, src)]
            ELSE merged

MergeSource ==
  /\ Merging /\ at <= Providers
  /\ src \in DOMAIN slots[at].result.sources
  /\ Take(slots[at].result)
  /\ src' = src + 1
  /\ UNCHANGED <<mode, behaves, running, slots, at, answer>>

CloseSlot ==
  /\ Merging /\ at <= Providers
  /\ src > Len(slots[at].result.sources)
  /\ at' = at + 1 /\ src' = 0
  /\ UNCHANGED <<mode, behaves, running, slots, merged, answer>>

MergeEnds ==
  /\ Merging /\ at > Providers
  /\ answer' = {IF merged.sources = <<>> /\ ~merged.context THEN <<>> ELSE <<merged>>}
  /\ UNCHANGED <<mode, behaves, running, slots, mergeVars>>

\* Fallback asks the first provider that has not been asked.
FallBack(i) ==
  /\ mode = "fallback" /\ answer = {}
  /\ i \in running /\ \A j \in running : i <= j
  /\ running' = running \ {i}
  /\ slots' = [slots EXCEPT ![i] = behaves[i]]
  /\ answer' = IF ~Failed(behaves[i]) THEN {<<behaves[i].result>>}
               ELSE IF running' = {} THEN {<<>>} ELSE {}
  /\ UNCHANGED <<mode, behaves, mergeVars>>

SearchInit ==
  /\ mode \in {"parallel", "fallback"}
  /\ behaves \in [1..Providers -> Behaviours]
  \* Fallback recovers nothing: its panics are the caller's.
  /\ mode = "fallback" => \A i \in 1..Providers : behaves[i].kind # "panic"
  /\ running = 1..Providers
  /\ slots = [i \in 1..Providers |-> Unwritten]
  /\ at = 1 /\ src = 0 /\ merged = Empty
  /\ answer = {}

SearchNext ==
  \/ \E i \in 1..Providers : Finish(i) \/ FallBack(i)
  \/ OpenSlot \/ MergeSource \/ CloseSlot \/ MergeEnds

SearchSpec == SearchInit /\ [][SearchNext]_searchVars

(***************************************************************************)
(* Properties.                                                             *)
(***************************************************************************)
\* What the providers find, whenever they end.
Found(i) == behaves[i].result.sources
Finds(i, page) == page # "" /\ \E k \in DOMAIN Found(i) : Page(Found(i)[k]) = page
FindsFirst(i, page) == Finds(i, page) /\ \A j \in 1..(i - 1) : ~Finds(j, page)
NothingFound ==
  \A i \in 1..Providers :
    ~behaves[i].result.context /\ \A k \in DOMAIN Found(i) : Page(Found(i)[k]) = ""

\* Every page found is there.
Complete(sources) ==
  \A i \in 1..Providers : \A k \in DOMAIN Found(i) :
    Page(Found(i)[k]) # "" => \E l \in DOMAIN sources : Page(sources[l]) = Page(Found(i)[k])

\* A source of the merge is of the first provider that finds its page, and stands
\* before those of later providers and of other pages.
Placed(sources, l, i) ==
  /\ FindsFirst(i, Page(sources[l]))
  /\ \E k \in DOMAIN Found(i) : Found(i)[k] = sources[l]
  /\ \A m \in DOMAIN sources : l < m =>
       /\ Page(sources[l]) # Page(sources[m])
       /\ \A j \in 1..(i - 1) : ~Finds(j, Page(sources[m]))

\* Whatever order the goroutines end in and whichever of them fail or panic, a
\* merged answer has every page some provider found, once, spelled as the first
\* provider in order that has it spells it, before all that only later ones
\* have; and it is an error only if there is nothing at all.
MergeIgnoresTiming ==
  mode = "parallel" =>
    \A a \in answer :
      /\ a = <<>> <=> NothingFound
      /\ \A n \in DOMAIN a :
           /\ Complete(a[n].sources)
           /\ \A l \in DOMAIN a[n].sources : \E i \in 1..Providers : Placed(a[n].sources, l, i)

Paired == \A i \in 1..Providers : behaves[i].result.entries = Found(i)

\* An entry, which brings a title and a snippet, is never shown for the page of
\* another: where every provider pairs its entries with its sources, so does
\* the merge, however many of them it drops as duplicates.
EntriesStayPaired == Paired => \A a \in answer : \A k \in DOMAIN a : a[k].entries = a[k].sources
=============================================================================
