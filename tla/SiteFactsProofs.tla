--------------------------- MODULE SiteFactsProofs ---------------------------
(***************************************************************************)
(* Proofs about SiteFacts, for every site: any nodes, in any order and     *)
(* number, over any number of pages.                                       *)
(*                                                                         *)
(* Nearly everything the extractor decides is the best of a set, by a rank *)
(* and then by place.  That there is one is the well-foundedness of the    *)
(* naturals, taken from that of the finite sets; what it is like then      *)
(* follows from the ranks.                                                 *)
(***************************************************************************)
EXTENDS SiteFacts, FiniteSetTheorems, TLAPS

(***************************************************************************)
(* The best of a set.                                                      *)
(***************************************************************************)
\* Any natural numbers have a least one: the intervals below them are subsets of
\* a finite set, and strict inclusion is well-founded on those.
LEMMA LeastNatural ==
  ASSUME NEW T \in SUBSET Nat, T # {}
  PROVE  \E m \in T : \A n \in T : m <= n
<1>1. PICK m \in T : TRUE
  OBVIOUS
<1> DEFINE Initial == {0..n : n \in {k \in T : k <= m}}
           R == StrictSubsetOrdering(0..m)
<1>2. IsWellFoundedOn(R, SUBSET (0..m))
  <2>1. IsFiniteSet(0..m)
    BY <1>1, FS_Interval
  <2>2. FiniteSubsetsOf(0..m) = SUBSET (0..m)
    BY <2>1, FS_FiniteSubsetsOfFinite
  <2> QED BY <2>2, FS_StrictSubsetOrderingWellFounded
<1>3. Initial \subseteq SUBSET (0..m) /\ Initial # {}
  <2>1. m \in {k \in T : k <= m}
    BY <1>1
  <2> QED BY <2>1
<1> HIDE DEF R, Initial
<1>4. PICK x \in Initial : \A y \in Initial : <<y, x>> \notin R
  BY <1>2, <1>3, WFMin
<1>5. PICK k \in T : k <= m /\ x = 0..k
  BY <1>4 DEF Initial
<1>6. ASSUME NEW n \in T, n < k
      PROVE  FALSE
  <2>1. 0..n \in Initial
    BY <1>1, <1>5, <1>6 DEF Initial
  <2>2. 0..n \in SUBSET (0..m) /\ x \in SUBSET (0..m)
    BY <1>1, <1>5, <1>6
  <2>3. 0..n \subseteq x /\ k \notin 0..n /\ k \in x
    BY <1>5, <1>6
  <2> QED BY <1>4, <2>1, <2>2, <2>3 DEF R, StrictSubsetOrdering
<1> QED BY <1>5, <1>6

\* The same for what has a natural number.
LEMMA LeastBy ==
  ASSUME NEW S, S # {}, NEW f, \A x \in S : f[x] \in Nat
  PROVE  \E m \in S : \A x \in S : f[m] <= f[x]
<1>1. {f[x] : x \in S} \in SUBSET Nat /\ {f[x] : x \in S} # {}
  OBVIOUS
<1>2. PICK n \in {f[x] : x \in S} : \A k \in {f[x] : x \in S} : n <= k
  BY <1>1, LeastNatural
<1> QED BY <1>2

Places == Nat \X Nat \X Nat

\* Things that have places have a first.
LEMMA FirstPlace ==
  ASSUME NEW S, S # {}, \A x \in S : x.at \in Places
  PROVE  \E m \in S : \A x \in S : ~Before(x.at, m.at)
<1> DEFINE f == [x \in S |-> x.at[1]]
<1>1. PICK a \in S : \A x \in S : a.at[1] <= x.at[1]
  <2>1. \A x \in S : f[x] \in Nat
    BY DEF Places
  <2>2. PICK a \in S : \A x \in S : f[a] <= f[x]
    BY <2>1, LeastBy
  <2> QED BY <2>2
<1> DEFINE A == {x \in S : x.at[1] = a.at[1]}
           g == [x \in A |-> x.at[2]]
<1>2. PICK b \in A : \A x \in A : b.at[2] <= x.at[2]
  <2>1. A # {} /\ \A x \in A : g[x] \in Nat
    BY DEF Places
  <2>2. PICK b \in A : \A x \in A : g[b] <= g[x]
    BY <2>1, LeastBy
  <2> QED BY <2>2
<1> DEFINE B == {x \in A : x.at[2] = b.at[2]}
           h == [x \in B |-> x.at[3]]
<1>3. PICK c \in B : \A x \in B : c.at[3] <= x.at[3]
  <2>1. B # {} /\ \A x \in B : h[x] \in Nat
    BY DEF Places
  <2>2. PICK c \in B : \A x \in B : h[c] <= h[x]
    BY <2>1, LeastBy
  <2> QED BY <2>2
<1>4. \A x \in S : x.at[1] \in Nat /\ x.at[2] \in Nat /\ x.at[3] \in Nat
  BY DEF Places
<1>5. ASSUME NEW x \in S PROVE ~Before(x.at, c.at)
  BY <1>1, <1>2, <1>3, <1>4 DEF Before
<1> QED BY <1>3, <1>5

\* Best is a member of the highest rank, and no other of that rank is before it.
LEMMA BestIsBest ==
  ASSUME NEW S, S # {}, NEW rank, NEW top \in Nat,
         \A x \in S : rank[x] \in 0..top /\ x.at \in Places
  PROVE  /\ Best(S, rank) \in S
         /\ \A x \in S : rank[x] <= rank[Best(S, rank)]
<1> DEFINE f == [x \in S |-> top - rank[x]]
<1>1. PICK a \in S : \A x \in S : rank[x] <= rank[a]
  <2>1. \A x \in S : f[x] \in Nat
    OBVIOUS
  <2>2. PICK a \in S : \A x \in S : f[a] <= f[x]
    BY <2>1, LeastBy
  <2> QED BY <2>2
<1> DEFINE A == {x \in S : rank[x] = rank[a]}
<1>2. PICK b \in A : \A x \in A : ~Before(x.at, b.at)
  <2>1. A # {} /\ \A x \in A : x.at \in Places
    OBVIOUS
  <2> QED BY <2>1, FirstPlace
<1> DEFINE Wins(c) == \A d \in S : rank[d] < rank[c] \/ (rank[d] = rank[c] /\ ~Before(d.at, c.at))
<1>3. b \in S /\ Wins(b)
  BY <1>1, <1>2
<1>4. Best(S, rank) \in S /\ Wins(Best(S, rank))
  BY <1>3 DEF Best
<1> QED BY <1>4

\* It depends on the ranks of its members only.
LEMMA BestOfRanks ==
  ASSUME NEW S, NEW f, NEW g, \A x \in S : f[x] = g[x]
  PROVE  Best(S, f) = Best(S, g)
<1> DEFINE P(c) == c \in S /\ \A d \in S : f[d] < f[c] \/ (f[d] = f[c] /\ ~Before(d.at, c.at))
           Q(c) == c \in S /\ \A d \in S : g[d] < g[c] \/ (g[d] = g[c] /\ ~Before(d.at, c.at))
<1>1. \A c : P(c) <=> Q(c)
  OBVIOUS
<1>2. (CHOOSE c : P(c)) = (CHOOSE c : Q(c))
  <2> HIDE DEF P, Q
  <2> QED BY <1>1
<1> QED BY <1>2 DEF Best

(***************************************************************************)
(* Candidates.                                                             *)
(***************************************************************************)
LEMMA Tiers ==
  /\ Demoted = 0 /\ Microdata = 1 /\ Body = 2 /\ Contacts = 3
  /\ BranchJSON = 4 /\ SchemaPlace = 5 /\ SocialLink = 6
BY DEF Demoted, Microdata, Body, Contacts, BranchJSON, SchemaPlace, SocialLink

\* A candidate whose place is one, and whose tier is its natural one unless its
\* number is toll-free.
IsCandidate(c) ==
  /\ c.at \in Places /\ c.natural \in 0..6 /\ c.tier \in 0..6
  /\ c.tier = IF IsTollFree(c.num.code) THEN Demoted ELSE c.natural

LEMMA CandidateTypes ==
  ASSUME NEW n, NEW natural \in 0..6, NEW label, NEW at \in Places
  PROVE  /\ IsCandidate(Candidate(n, natural, label, at))
         /\ Candidate(n, natural, label, at).num = n
         /\ Candidate(n, natural, label, at).natural = natural
         /\ Candidate(n, natural, label, at).at = at
BY Tiers DEF IsCandidate, Candidate

\* What the nodes of a page list.
LEMMA PageTypes ==
  ASSUME NEW pg \in Seq(PageNodes), NEW i \in DOMAIN pg
  PROVE  /\ i \in Nat /\ pg[i] \in PageNodes
         /\ pg[i].kind \in {"script", "text"} =>
              \A k \in DOMAIN pg[i].nums : k \in Nat
         /\ pg[i].kind \in {"place", "org", "event"} =>
              pg[i].type \in Nat /\ \A a, b \in pg[i].addr : a = b
<1>1. i \in Nat /\ pg[i] \in PageNodes
  OBVIOUS
<1>2. \A num : \A q \in Seq(num) : \A k \in DOMAIN q : k \in Nat
  OBVIOUS
<1> QED BY <1>1, <1>2, NodesAssumption

LEMMA NodesOf ==
  ASSUME NEW pg, NEW kind, NEW i
  PROVE  i \in Nodes(pg, kind) <=> i \in DOMAIN pg /\ pg[i].kind = kind
BY DEF Nodes

LEMMA TelTierTypes == \A up : TelTier(up) \in {Demoted, Contacts, Body}
BY DEF TelTier

\* The candidates of the structured finders, and the natural tiers of each.
LEMMA FinderTypes ==
  ASSUME NEW pg \in Seq(PageNodes), NEW prior
  PROVE  /\ \A c \in PriorCandidates(prior) : IsCandidate(c) /\ c.natural = Microdata
         /\ \A c \in SocialLinkCandidates(pg) : IsCandidate(c) /\ c.natural = SocialLink
         /\ \A c \in TelCandidates(pg) : IsCandidate(c) /\ c.natural # SocialLink
         /\ \A c \in MicrodataCandidates(pg) : IsCandidate(c) /\ c.natural # SocialLink
         /\ \A c \in OgPhoneCandidates(pg) : IsCandidate(c) /\ c.natural # SocialLink
         /\ \A c \in BranchJSONCandidates(pg) : IsCandidate(c) /\ c.natural # SocialLink
         /\ \A c \in SchemaPlaceCandidates(pg) : IsCandidate(c) /\ c.natural # SocialLink
<1>1. \A kind : \A i \in Nodes(pg, kind) : i \in DOMAIN pg /\ i \in Nat /\ pg[i].kind = kind
  BY NodesOf, PageTypes
<1>3. ASSUME NEW c \in PriorCandidates(prior) PROVE IsCandidate(c) /\ c.natural = Microdata
  <2>1. <<0, 0, 0>> \in Places
    BY DEF Places
  <2>2. PICK n \in prior : c = Candidate(n, Microdata, NoLabel, <<0, 0, 0>>)
    BY <1>3 DEF PriorCandidates
  <2>3. c.natural = 1 /\ c.at = <<0, 0, 0>> /\ c.tier = IF IsTollFree(c.num.code) THEN 0 ELSE 1
    BY <2>2, Tiers DEF Candidate
  <2>4. IsCandidate(c)
    BY <2>1, <2>3, Tiers DEF IsCandidate
  <2> QED BY <2>3, <2>4, Tiers
<1>4. ASSUME NEW c \in SocialLinkCandidates(pg) PROVE IsCandidate(c) /\ c.natural = SocialLink
  <2>1. PICK i \in Nodes(pg, "social") : c = Candidate(pg[i].num, SocialLink, NoLabel, <<1, i, 0>>)
    BY <1>4 DEF SocialLinkCandidates
  <2>2. <<1, i, 0>> \in Places
    BY <1>1 DEF Places
  <2>3. SocialLink \in 0..6
    BY Tiers
  <2> QED BY <2>1, <2>2, <2>3, Tiers DEF IsCandidate, Candidate
<1>5. ASSUME NEW c \in TelCandidates(pg) PROVE IsCandidate(c) /\ c.natural # SocialLink
  <2>1. PICK i \in Nodes(pg, "tel") : c = Candidate(pg[i].num, TelTier(pg[i].up), RoleLabel(pg[i].near), <<2, i, 0>>)
    BY <1>5 DEF TelCandidates
  <2>2. <<2, i, 0>> \in Places
    BY <1>1 DEF Places
  <2>3. TelTier(pg[i].up) \in 0..6 /\ TelTier(pg[i].up) # SocialLink
    BY TelTierTypes, Tiers
  <2>4. c.natural = TelTier(pg[i].up) /\ c.at = <<2, i, 0>>
        /\ c.tier = IF IsTollFree(c.num.code) THEN 0 ELSE c.natural
    BY <2>1, Tiers DEF Candidate
  <2>5. IsCandidate(c)
    BY <2>2, <2>3, <2>4, Tiers DEF IsCandidate
  <2> QED BY <2>3, <2>4, <2>5
<1>6. ASSUME NEW c \in MicrodataCandidates(pg) PROVE IsCandidate(c) /\ c.natural # SocialLink
  <2>1. PICK i \in Nodes(pg, "microdata") : c = Candidate(pg[i].num, Microdata, RoleLabel(pg[i].near), <<3, i, 0>>)
    BY <1>6 DEF MicrodataCandidates
  <2>2. <<3, i, 0>> \in Places
    BY <1>1 DEF Places
  <2>3. c.natural = 1 /\ c.at = <<3, i, 0>> /\ c.tier = IF IsTollFree(c.num.code) THEN 0 ELSE 1
    BY <2>1, Tiers DEF Candidate
  <2>4. IsCandidate(c)
    BY <2>2, <2>3, Tiers DEF IsCandidate
  <2> QED BY <2>3, <2>4, Tiers
<1>7. ASSUME NEW c \in OgPhoneCandidates(pg) PROVE IsCandidate(c) /\ c.natural # SocialLink
  <2>1. PICK i \in Nodes(pg, "og") : c = Candidate(pg[i].num, Microdata, NoLabel, <<4, i, 0>>)
    BY <1>7 DEF OgPhoneCandidates
  <2>2. <<4, i, 0>> \in Places
    BY <1>1 DEF Places
  <2>3. c.natural = 1 /\ c.at = <<4, i, 0>> /\ c.tier = IF IsTollFree(c.num.code) THEN 0 ELSE 1
    BY <2>1, Tiers DEF Candidate
  <2>4. IsCandidate(c)
    BY <2>2, <2>3, Tiers DEF IsCandidate
  <2> QED BY <2>3, <2>4, Tiers
<1>8. ASSUME NEW c \in BranchJSONCandidates(pg) PROVE IsCandidate(c) /\ c.natural # SocialLink
  <2>1. PICK i \in Nodes(pg, "script") : \E k \in DOMAIN pg[i].nums :
          c = Candidate(pg[i].nums[k], BranchJSON, NoLabel, <<5, i, k>>)
    BY <1>8 DEF BranchJSONCandidates, Capped, Valid
  <2>2. PICK k \in DOMAIN pg[i].nums : c = Candidate(pg[i].nums[k], BranchJSON, NoLabel, <<5, i, k>>)
    BY <2>1
  <2>3. <<5, i, k>> \in Places
    BY <1>1, PageTypes DEF Places
  <2>4. BranchJSON \in 0..6 /\ BranchJSON # SocialLink
    BY Tiers
  <2> QED BY <2>2, <2>3, <2>4, Tiers DEF IsCandidate, Candidate
<1>9. ASSUME NEW c \in SchemaPlaceCandidates(pg) PROVE IsCandidate(c) /\ c.natural # SocialLink
  <2>1. PICK i \in Nodes(pg, "place") : \E n \in pg[i].phone :
          c = Candidate(n, SchemaPlace, NoLabel, <<6, i, 0>>)
    BY <1>9 DEF SchemaPlaceCandidates, Capped, Valid
  <2>2. <<6, i, 0>> \in Places
    BY <1>1 DEF Places
  <2>3. PICK n \in pg[i].phone : c = Candidate(n, SchemaPlace, NoLabel, <<6, i, 0>>)
    BY <2>1
  <2>4. c.natural = 5 /\ c.at = <<6, i, 0>> /\ c.tier = IF IsTollFree(c.num.code) THEN 0 ELSE 5
    BY <2>3, Tiers DEF Candidate
  <2>5. IsCandidate(c)
    BY <2>2, <2>4, Tiers DEF IsCandidate
  <2> QED BY <2>4, <2>5, Tiers
<1> QED BY <1>3, <1>4, <1>5, <1>6, <1>7, <1>8, <1>9

LEMMA TextTypes ==
  ASSUME NEW pg \in Seq(PageNodes), NEW existing, NEW c \in ContactsTextCandidates(pg, existing)
  PROVE  IsCandidate(c) /\ c.natural = Contacts
<1>1. PICK i \in Nodes(pg, "text") : \E k \in DOMAIN pg[i].nums :
        c = Candidate(pg[i].nums[k], Contacts, RoleLabel(pg[i].near), <<7, i, k>>)
  BY NodesOf DEF ContactsTextCandidates, Valid
<1>2. PICK k \in DOMAIN pg[i].nums :
        c = Candidate(pg[i].nums[k], Contacts, RoleLabel(pg[i].near), <<7, i, k>>)
  BY <1>1
<1>3. <<7, i, k>> \in Places
  BY NodesOf, PageTypes DEF Places
<1>4. c.natural = 3 /\ c.at = <<7, i, k>> /\ c.tier = IF IsTollFree(c.num.code) THEN 0 ELSE 3
  BY <1>2, Tiers DEF Candidate
<1>5. IsCandidate(c)
  BY <1>3, <1>4, Tiers DEF IsCandidate
<1> QED BY <1>4, <1>5, Tiers

LEMMA CollectTypes ==
  ASSUME NEW pg \in Seq(PageNodes), NEW prior, NEW c \in CollectPhoneCandidates(pg, prior)
  PROVE  IsCandidate(c)
BY FinderTypes DEF CollectPhoneCandidates, Valid

\* Every candidate of the number set is one, and a social link among them is
\* a candidate for the single phone as well, whatever the earlier layers found.
LEMMA AllTypes ==
  ASSUME NEW pg \in Seq(PageNodes), NEW c \in AllCandidates(pg)
  PROVE  /\ IsCandidate(c)
         /\ c.natural = SocialLink => \A prior : c \in CollectPhoneCandidates(pg, prior)
<1>1. CASE c \in CollectPhoneCandidates(pg, {})
  BY <1>1, FinderTypes, CollectTypes DEF CollectPhoneCandidates, Valid, PriorCandidates
<1>2. CASE c \in BranchJSONCandidates(pg) \cup SchemaPlaceCandidates(pg)
  BY <1>2, FinderTypes
<1>3. CASE \E existing : c \in ContactsTextCandidates(pg, existing)
  BY <1>3, TextTypes, Tiers
<1> QED BY <1>1, <1>2, <1>3 DEF AllCandidates

(***************************************************************************)
(* Facts.                                                                  *)
(***************************************************************************)
IsFact(n) ==
  /\ n = [num |-> n.num, source |-> n.source, at |-> n.at, dni |-> n.dni,
          anchored |-> n.anchored, trustworthy |-> n.trustworthy,
          label |-> n.label, role |-> n.role, match |-> n.match, foreign |-> n.foreign]
  /\ n.at \in Places /\ n.source \in 0..6
  /\ n.anchored \in BOOLEAN /\ n.trustworthy \in BOOLEAN

\* The deduped facts are facts, one for each number, of the highest rank.
LEMMA DedupeFacts ==
  ASSUME NEW F, \A f \in F : IsFact(f),
         NEW rank, \A f \in F : rank[f] \in 0..6
  PROVE  /\ DedupeKeepStronger(F, rank) \subseteq F
         /\ \A f \in F : \E n \in DedupeKeepStronger(F, rank) : n.num = f.num
         /\ \A n \in DedupeKeepStronger(F, rank) : \A f \in F : f.num = n.num => rank[f] <= rank[n]
         /\ \A n, m \in DedupeKeepStronger(F, rank) : n.num = m.num => n = m
<1> DEFINE Of(num) == {d \in F : d.num = num}
<1>1. ASSUME NEW f \in F
      PROVE  /\ Best(Of(f.num), rank) \in Of(f.num)
             /\ \A d \in Of(f.num) : rank[d] <= rank[Best(Of(f.num), rank)]
  <2>1. Of(f.num) # {} /\ \A x \in Of(f.num) : rank[x] \in 0..6 /\ x.at \in Places
    BY DEF IsFact
  <2> HIDE DEF Of
  <2> QED BY <2>1, BestIsBest
<1>2. DedupeKeepStronger(F, rank) = {Best(Of(f.num), rank) : f \in F}
  BY DEF DedupeKeepStronger
<1>3. \A n \in DedupeKeepStronger(F, rank) : \E f \in F : n = Best(Of(f.num), rank) /\ n.num = f.num
  BY <1>1, <1>2
<1>4. \A n, m \in DedupeKeepStronger(F, rank) : n.num = m.num => n = m
  <2>1. TAKE n \in DedupeKeepStronger(F, rank), m \in DedupeKeepStronger(F, rank)
  <2>2. HAVE n.num = m.num
  <2>3. PICK f \in F : n = Best(Of(f.num), rank) /\ n.num = f.num
    BY <1>3
  <2>4. PICK g \in F : m = Best(Of(g.num), rank) /\ m.num = g.num
    BY <1>3
  <2>5. f.num = g.num
    BY <2>2, <2>3, <2>4
  <2> HIDE DEF Of
  <2> QED BY <2>3, <2>4, <2>5
<1>5. \A n \in DedupeKeepStronger(F, rank) : \A f \in F : f.num = n.num => rank[f] <= rank[n]
  BY <1>1, <1>3
<1>6. DedupeKeepStronger(F, rank) \subseteq F /\ \A f \in F : \E n \in DedupeKeepStronger(F, rank) : n.num = f.num
  BY <1>1, <1>2
<1> QED BY <1>4, <1>5, <1>6

\* One fact once the general readings of its number have had their say.
Reduced(n, all) ==
  LET general == {f \in all : f.num = n.num /\ f.role = "general"}
  IN  IF general = {} THEN n
      ELSE [n EXCEPT !.role = "general", !.label = Best(general, [f \in general |-> 0]).label]

LEMMA ReduceIsReduced ==
  ASSUME NEW out, NEW all
  PROVE  ReduceRoleGeneralWins(out, all) = {Reduced(n, all) : n \in out}
BY DEF ReduceRoleGeneralWins, Reduced

\* It differs in role and label only, and is general if any reading is.
LEMMA ReducedFact ==
  ASSUME NEW all, NEW n, IsFact(n)
  PROVE  /\ IsFact(Reduced(n, all))
         /\ Reduced(n, all).num = n.num /\ Reduced(n, all).source = n.source
         /\ Reduced(n, all).anchored = n.anchored /\ Reduced(n, all).trustworthy = n.trustworthy
         /\ Reduced(n, all).match = n.match /\ Reduced(n, all).foreign = n.foreign
         /\ Reduced(n, all).at = n.at
         /\ Reduced(n, all).role = "general"
              <=> n.role = "general" \/ \E f \in all : f.num = n.num /\ f.role = "general"
<1> DEFINE general == {f \in all : f.num = n.num /\ f.role = "general"}
           label == Best(general, [f \in general |-> 0]).label
<1>1. CASE general = {}
  BY <1>1 DEF Reduced
<1>2. CASE general # {}
  <2>1. Reduced(n, all) = [n EXCEPT !.role = "general", !.label = label]
    BY <1>2 DEF Reduced
  <2>2. Reduced(n, all) =
          [num |-> n.num, source |-> n.source, at |-> n.at, dni |-> n.dni,
           anchored |-> n.anchored, trustworthy |-> n.trustworthy,
           label |-> label, role |-> "general", match |-> n.match, foreign |-> n.foreign]
    <3> HIDE DEF label
    <3> QED BY <2>1 DEF IsFact
  <2> HIDE DEF label
  <2>3. IsFact(Reduced(n, all))
    BY <2>2 DEF IsFact
  <2> QED BY <1>2, <2>2, <2>3
<1> QED BY <1>1, <1>2

LEMMA RanksAreNatural ==
  ASSUME NEW n, IsFact(n)
  PROVE  SiteNumberRank(n) \in 0..3
BY DEF IsFact, SiteNumberRank

(***************************************************************************)
(* The numbers of one page.                                                *)
(***************************************************************************)
LEMMA ReadingTypes ==
  ASSUME NEW pg \in Seq(PageNodes), NEW poisoned \in BOOLEAN, NEW r \in Readings(pg, poisoned)
  PROVE  /\ IsFact(r) /\ r.match = FALSE /\ r.foreign = FALSE
         /\ r.trustworthy = DniTrustworthy(r.source, DetectDNIVendor(pg) \/ poisoned)
         /\ \E c \in AllCandidates(pg) : c.num = r.num /\ c.natural = r.source
<1>1. PICK c \in AllCandidates(pg) : r = PhoneNumberFact(c, DetectDNIVendor(pg) \/ poisoned)
  BY DEF Readings
<1>2. IsCandidate(c)
  BY AllTypes
<1> DEFINE dni == DetectDNIVendor(pg) \/ poisoned
<1>3. NumberIsAnchored(c.natural) \in BOOLEAN /\ DniTrustworthy(c.natural, dni) \in BOOLEAN
  <2>1. \A tier : NumberIsAnchored(tier) \in BOOLEAN
    BY DEF NumberIsAnchored
  <2> HIDE DEF dni
  <2>2. DniTrustworthy(c.natural, dni) \in BOOLEAN
    <3>1. CASE dni
      BY <3>1 DEF DniTrustworthy
    <3>2. CASE ~dni
      BY <2>1, <3>2 DEF DniTrustworthy
    <3> QED BY <3>1, <3>2
  <2> QED BY <2>1, <2>2
<1> HIDE DEF dni
<1>4. r = [num |-> c.num, source |-> c.natural, at |-> c.at, dni |-> dni,
           anchored |-> NumberIsAnchored(c.natural), trustworthy |-> DniTrustworthy(c.natural, dni),
           label |-> c.label, role |-> ClassifyPhoneRole(c.label), match |-> FALSE, foreign |-> FALSE]
  BY <1>1 DEF PhoneNumberFact, dni
<1>5. IsFact(r)
  BY <1>2, <1>3, <1>4 DEF IsFact, IsCandidate
<1> QED BY <1>4, <1>5 DEF dni

\* What the set of a page is: a fact for each number read, of the strongest
\* source, and general if any reading is.
PageFact(n, readings) ==
  /\ IsFact(n) /\ n.match = FALSE /\ n.foreign = FALSE
  /\ \E r \in readings : /\ r.num = n.num /\ r.source = n.source
                        /\ r.trustworthy = n.trustworthy /\ r.anchored = n.anchored
  /\ \A r \in readings : r.num = n.num => r.source <= n.source
  /\ n.role = "general" <=> \E r \in readings : r.num = n.num /\ r.role = "general"

PageFacts(nums, readings) ==
  /\ \A n \in nums : PageFact(n, readings)
  /\ \A r \in readings : \E n \in nums : n.num = r.num

LEMMA CollectFacts ==
  ASSUME NEW pg \in Seq(PageNodes), NEW poisoned \in BOOLEAN
  PROVE  PageFacts(CollectSiteNumbers(pg, poisoned), Readings(pg, poisoned))
<1> DEFINE all == Readings(pg, poisoned)
           rank == [f \in all |-> f.source]
           out == DedupeKeepStronger(all, rank)
<1>1. \A f \in all : IsFact(f) /\ f.match = FALSE /\ f.foreign = FALSE
  BY ReadingTypes
<1>2. \A f \in all : rank[f] = f.source /\ rank[f] \in 0..6
  BY <1>1 DEF IsFact
<1> HIDE DEF rank
<1>3. /\ out \subseteq all
      /\ \A f \in all : \E n \in out : n.num = f.num
      /\ \A n \in out : \A f \in all : f.num = n.num => rank[f] <= rank[n]
  <2>1. \A f \in all : IsFact(f) /\ rank[f] \in 0..6
    BY <1>1, <1>2
  <2> HIDE DEF all
  <2> QED BY <2>1, DedupeFacts
<1> HIDE DEF out, all
<1>4. CollectSiteNumbers(pg, poisoned) = {Reduced(n, all) : n \in out}
  BY ReduceIsReduced DEF CollectSiteNumbers, out, all, rank
<1>5. ASSUME NEW n \in out
      PROVE  PageFact(Reduced(n, all), all) /\ Reduced(n, all).num = n.num
  <2>1. n \in all /\ IsFact(n)
    BY <1>1, <1>3
  <2> DEFINE m == Reduced(n, all)
  <2>2. /\ IsFact(m) /\ m.match = n.match /\ m.foreign = n.foreign /\ m.num = n.num
        /\ m.source = n.source /\ m.trustworthy = n.trustworthy /\ m.anchored = n.anchored
        /\ m.role = "general" <=> n.role = "general" \/ \E f \in all : f.num = n.num /\ f.role = "general"
    BY <2>1, ReducedFact
  <2> HIDE DEF m
  <2>3. \A r \in all : r.num = m.num => r.source <= m.source
    BY <1>2, <1>3, <2>1, <2>2
  <2> QED BY <1>1, <2>1, <2>2, <2>3 DEF m, PageFact
<1>6. \A n \in CollectSiteNumbers(pg, poisoned) : PageFact(n, all)
  BY <1>4, <1>5
<1>7. \A r \in all : \E n \in CollectSiteNumbers(pg, poisoned) : n.num = r.num
  <2>1. TAKE r \in all
  <2>2. PICK n \in out : n.num = r.num
    BY <1>3
  <2>3. Reduced(n, all) \in CollectSiteNumbers(pg, poisoned)
    BY <1>4
  <2>4. Reduced(n, all).num = n.num
    BY <1>5
  <2> QED BY <2>2, <2>3, <2>4
<1> QED BY <1>6, <1>7 DEF all, PageFacts

(***************************************************************************)
(* The numbers of a site.                                                  *)
(***************************************************************************)
LEMMA FactAt ==
  ASSUME NEW n, IsFact(n), NEW at \in Places
  PROVE  LET m == [n EXCEPT !.at = at]
         IN  /\ IsFact(m) /\ m.num = n.num /\ m.role = n.role /\ m.match = n.match
             /\ m.foreign = n.foreign /\ SiteNumberRank(m) = SiteNumberRank(n)
<1>1. [n EXCEPT !.at = at] =
        [num |-> n.num, source |-> n.source, at |-> at, dni |-> n.dni,
         anchored |-> n.anchored, trustworthy |-> n.trustworthy,
         label |-> n.label, role |-> n.role, match |-> n.match, foreign |-> n.foreign]
  BY DEF IsFact
<1> QED BY <1>1 DEF IsFact, SiteNumberRank

LEMMA TaggedFact ==
  ASSUME NEW n, IsFact(n), NEW ct
  PROVE  LET m == Tagged(n, ct)
             membership == ClassifyCityMembership(n.num, ct)
         IN  /\ IsFact(m) /\ m.num = n.num /\ m.role = n.role
             /\ m.match = membership.match /\ m.foreign = membership.foreign
             /\ SiteNumberRank(m) = SiteNumberRank(n)
<1> DEFINE membership == ClassifyCityMembership(n.num, ct)
<1>1. Tagged(n, ct) =
        [num |-> n.num, source |-> n.source, at |-> n.at, dni |-> n.dni,
         anchored |-> n.anchored, trustworthy |-> n.trustworthy, label |-> n.label,
         role |-> n.role, match |-> membership.match, foreign |-> membership.foreign]
  <2> HIDE DEF membership
  <2>1. Tagged(n, ct) = [n EXCEPT !.match = membership.match, !.foreign = membership.foreign]
    BY DEF Tagged, membership
  <2> QED BY <2>1 DEF IsFact
<1> HIDE DEF membership
<1>2. IsFact(Tagged(n, ct)) /\ SiteNumberRank(Tagged(n, ct)) = SiteNumberRank(n)
  BY <1>1 DEF IsFact, SiteNumberRank
<1> QED BY <1>1, <1>2 DEF membership

\* A number of the site carries the city tags of its area code.
IsTagged(n, ct) ==
  /\ n.match = ClassifyCityMembership(n.num, ct).match
  /\ n.foreign = ClassifyCityMembership(n.num, ct).foreign

\* What a page adds: every number, once, of the best trust there or in the page,
\* tagged, and general if it is there or in the page.
LEMMA AddFacts ==
  ASSUME NEW nums, NEW more, NEW ct,
         \A n \in nums : IsFact(n) /\ IsTagged(n, ct), \A n \in more : IsFact(n)
  PROVE  LET sum == AddSiteNumbers(nums, more, ct)
             both == nums \cup more
         IN  /\ \A n \in sum :
                  /\ IsFact(n) /\ IsTagged(n, ct)
                  /\ \A m \in sum : m.num = n.num => m = n
                  /\ \E f \in both : f.num = n.num /\ SiteNumberRank(f) = SiteNumberRank(n)
                  /\ \A f \in both : f.num = n.num => SiteNumberRank(f) <= SiteNumberRank(n)
                  /\ n.role = "general" <=> \E f \in both : f.num = n.num /\ f.role = "general"
             /\ \A f \in both : \E n \in sum : n.num = f.num
<1> DEFINE older == {[n EXCEPT !.at = <<0, 0, 0>>] : n \in nums}
           newer == {[Tagged(n, ct) EXCEPT !.at = <<1, 0, 0>>] : n \in more}
           all == older \cup newer
           rank == [n \in all |-> SiteNumberRank(n)]
           out == DedupeKeepStronger(all, rank)
           both == nums \cup more
           sum == AddSiteNumbers(nums, more, ct)
           Like(a, f) == a.num = f.num /\ SiteNumberRank(a) = SiteNumberRank(f) /\ a.role = f.role
<1>1. <<0, 0, 0>> \in Places /\ <<1, 0, 0>> \in Places
  BY DEF Places
<1>2. ASSUME NEW f \in nums
      PROVE  LET a == [f EXCEPT !.at = <<0, 0, 0>>] IN IsFact(a) /\ IsTagged(a, ct) /\ Like(a, f)
  BY <1>1, FactAt DEF IsTagged
<1>3. ASSUME NEW f \in more
      PROVE  LET a == [Tagged(f, ct) EXCEPT !.at = <<1, 0, 0>>] IN IsFact(a) /\ IsTagged(a, ct) /\ Like(a, f)
  BY <1>1, FactAt, TaggedFact DEF IsTagged
<1>4. \A a \in all : IsFact(a) /\ IsTagged(a, ct) /\ \E f \in both : Like(a, f)
  <2>1. ASSUME NEW a \in older PROVE IsFact(a) /\ IsTagged(a, ct) /\ \E f \in both : Like(a, f)
    <3>1. PICK f \in nums : a = [f EXCEPT !.at = <<0, 0, 0>>]
      OBVIOUS
    <3> QED BY <1>2, <3>1
  <2>2. ASSUME NEW a \in newer PROVE IsFact(a) /\ IsTagged(a, ct) /\ \E f \in both : Like(a, f)
    <3>1. PICK f \in more : a = [Tagged(f, ct) EXCEPT !.at = <<1, 0, 0>>]
      OBVIOUS
    <3> QED BY <1>3, <3>1
  <2> QED BY <2>1, <2>2
<1>5. \A f \in both : \E a \in all : Like(a, f)
  <2>1. ASSUME NEW f \in nums PROVE \E a \in all : Like(a, f)
    <3>1. [f EXCEPT !.at = <<0, 0, 0>>] \in all
      OBVIOUS
    <3> QED BY <1>2, <3>1
  <2>2. ASSUME NEW f \in more PROVE \E a \in all : Like(a, f)
    <3>1. [Tagged(f, ct) EXCEPT !.at = <<1, 0, 0>>] \in all
      OBVIOUS
    <3> QED BY <1>3, <3>1
  <2> QED BY <2>1, <2>2
<1>6. sum = ReduceRoleGeneralWins(out, all)
  BY DEF AddSiteNumbers
<1>7. \A a \in all : rank[a] = SiteNumberRank(a) /\ rank[a] \in 0..6
  BY <1>4, RanksAreNatural
<1> HIDE DEF all, rank, both, sum, older, newer
<1>8. /\ out \subseteq all
      /\ \A f \in all : \E n \in out : n.num = f.num
      /\ \A n \in out : \A f \in all : f.num = n.num => rank[f] <= rank[n]
      /\ \A n, m \in out : n.num = m.num => n = m
  BY <1>4, <1>7, DedupeFacts
<1> HIDE DEF out
<1>9. sum = {Reduced(n, all) : n \in out}
  BY <1>6, ReduceIsReduced
<1>10. \A n \in out : LET m == Reduced(n, all)
                      IN  /\ IsFact(m) /\ IsTagged(m, ct) /\ m.num = n.num
                          /\ SiteNumberRank(m) = SiteNumberRank(n)
                          /\ m.role = "general" <=> \E a \in all : a.num = m.num /\ a.role = "general"
  BY <1>4, <1>8, ReducedFact DEF IsTagged, SiteNumberRank
<1>11. ASSUME NEW s \in sum
       PROVE  \E n \in out :
                /\ s = Reduced(n, all) /\ IsFact(s) /\ IsTagged(s, ct) /\ s.num = n.num
                /\ SiteNumberRank(s) = SiteNumberRank(n)
                /\ s.role = "general" <=> \E a \in all : a.num = s.num /\ a.role = "general"
  BY <1>9, <1>10
<1>12. \A f \in both : \E n \in sum : n.num = f.num
  <2>1. TAKE f \in both
  <2>2. PICK a \in all : a.num = f.num
    BY <1>5
  <2>3. PICK n \in out : n.num = a.num
    BY <1>8
  <2>4. Reduced(n, all) \in sum /\ Reduced(n, all).num = n.num
    BY <1>9, <1>10
  <2> QED BY <2>2, <2>3, <2>4
<1>13. ASSUME NEW s \in sum
       PROVE  /\ \A m \in sum : m.num = s.num => m = s
              /\ \E f \in both : f.num = s.num /\ SiteNumberRank(f) = SiteNumberRank(s)
              /\ \A f \in both : f.num = s.num => SiteNumberRank(f) <= SiteNumberRank(s)
              /\ s.role = "general" <=> \E f \in both : f.num = s.num /\ f.role = "general"
  <2>1. PICK n \in out : /\ s = Reduced(n, all) /\ s.num = n.num
                         /\ SiteNumberRank(s) = SiteNumberRank(n)
                         /\ s.role = "general" <=> \E a \in all : a.num = s.num /\ a.role = "general"
    BY <1>11
  <2>2. \A m \in sum : m.num = s.num => m = s
    <3>1. TAKE m \in sum
    <3>2. HAVE m.num = s.num
    <3>3. PICK k \in out : m = Reduced(k, all) /\ m.num = k.num
      BY <1>11
    <3> QED BY <1>8, <2>1, <3>2, <3>3
  <2>3. \E f \in both : f.num = s.num /\ SiteNumberRank(f) = SiteNumberRank(s)
    BY <1>4, <1>8, <2>1
  <2>4. \A f \in both : f.num = s.num => SiteNumberRank(f) <= SiteNumberRank(s)
    BY <1>5, <1>7, <1>8, <2>1
  <2>5. s.role = "general" <=> \E f \in both : f.num = s.num /\ f.role = "general"
    BY <1>4, <1>5, <2>1
  <2> QED BY <2>2, <2>3, <2>4, <2>5
<1> QED BY <1>11, <1>12, <1>13 DEF sum, both

(***************************************************************************)
(* The phone and the set under call tracking.                              *)
(***************************************************************************)
LEMMA TierRegion == RegionForTier(SocialLink) = "contacts"
BY DEF RegionForTier

\* The best of no rank is the first.
LEMMA FirstIsMember ==
  ASSUME NEW S, S # {}, \A x \in S : x.at \in Places
  PROVE  Best(S, [x \in S |-> 0]) \in S
<1>1. \A x \in S : [y \in S |-> 0][x] \in 0..6 /\ x.at \in Places
  OBVIOUS
<1> QED BY <1>1, BestIsBest

\* A phone reported under call tracking is a social link's; without one the
\* phone is refused; with one it is reported.
LEMMA TrackedPhone ==
  ASSUME NEW pg \in Seq(PageNodes), NEW ct, DetectDNIVendor(pg)
  PROVE  LET fact == PhoneFact(pg, ct)
             social == {c \in CollectPhoneCandidates(pg, PriorPhone(pg)) : c.tier = SocialLink}
         IN  /\ fact.poisoned => fact.phone = {} /\ social = {}
             /\ \A n \in fact.phone : \E c \in social : c.num = n
             /\ social # {} => fact.phone # {}
             /\ CollectPhoneCandidates(pg, PriorPhone(pg)) # {} /\ fact.phone = {} => fact.poisoned
<1> DEFINE prior == PriorPhone(pg)
           cands == CollectPhoneCandidates(pg, prior)
           social == {c \in cands : c.tier = SocialLink}
           found == ResolvePhoneForCityDNI(pg, ct, prior)
           first == Best(social, [c \in social |-> 0])
<1>1. \A c \in cands : IsCandidate(c)
  BY CollectTypes
<1>2. social # {} => first \in social
  <2>1. \A c \in social : c.at \in Places
    BY <1>1 DEF IsCandidate
  <2> HIDE DEF social
  <2> QED BY <2>1, FirstIsMember
<1>3. found = IF cands = {} THEN [phone |-> {}, omit |-> FALSE]
              ELSE [phone |-> IF social = {} THEN {} ELSE {first}, omit |-> social = {}]
  BY DEF ResolvePhoneForCityDNI
<1> DEFINE fact == PhoneFact(pg, ct)
           Overrides(c) == \/ c.num.code \in CityAreaCodes[ct]
                           \/ RegionForTier(c.tier) \in {"contacts", "microdata"}
                           \/ prior = {}
<1>4. fact = [poisoned |-> found.omit,
              phone |-> IF found.omit THEN {}
                        ELSE IF \E c \in found.phone : Overrides(c) THEN {c.num : c \in found.phone}
                        ELSE prior]
  BY DEF PhoneFact
<1>5. CASE cands = {}
  <2>1. prior = {}
    <3>1. \A n \in prior : ValidatePhone(n)
      BY DEF PriorPhone, Layer1Phone, ItemPhone, RegexPhone
    <3>2. \A n \in prior : Candidate(n, Microdata, NoLabel, <<0, 0, 0>>) \in cands
      <4> HIDE DEF prior
      <4> QED BY <3>1 DEF CollectPhoneCandidates, PriorCandidates, Valid, Candidate
    <3> QED BY <1>5, <3>2
  <2>2. found = [phone |-> {}, omit |-> FALSE]
    BY <1>3, <1>5
  <2>3. fact.phone = {} /\ fact.poisoned = FALSE
    <3> HIDE DEF found, prior, fact
    <3> QED BY <1>4, <2>1, <2>2
  <2> QED BY <1>5, <2>3
<1>6. CASE cands # {} /\ social = {}
  <2>1. found.omit = TRUE
    <3> HIDE DEF found, cands, social, first
    <3>1. found = [phone |-> {}, omit |-> TRUE]
      BY <1>3, <1>6
    <3> QED BY <3>1
  <2>2. fact.phone = {} /\ fact.poisoned = TRUE
    <3> HIDE DEF found, prior, fact
    <3> QED BY <1>4, <2>1
  <2> QED BY <1>6, <2>2
<1>7. CASE social # {}
  <2>1. found.phone = {first} /\ found.omit = FALSE
    <3> HIDE DEF found, first, social
    <3>1. cands # {}
      BY <1>7 DEF social
    <3>2. found = [phone |-> {first}, omit |-> social = {}]
      BY <1>3, <1>7, <3>1
    <3> QED BY <1>7, <3>2
  <2>2. Overrides(first)
    BY <1>2, <1>7, TierRegion
  <2>3. fact.phone = {first.num} /\ fact.poisoned = FALSE
    <3> HIDE DEF found, prior, fact, first, Overrides
    <3> QED BY <1>4, <2>1, <2>2
  <2> QED BY <1>2, <1>7, <2>3
<1> QED BY <1>5, <1>6, <1>7

\* Of the numbers of a call-tracking page the trusted ones are those of its
\* social links.
LEMMA TrackedNumbers ==
  ASSUME NEW pg \in Seq(PageNodes), DetectDNIVendor(pg)
  PROVE  /\ \A n \in CollectSiteNumbers(pg, FALSE) : n.trustworthy =>
              \A prior : \E c \in CollectPhoneCandidates(pg, prior) :
                c.num = n.num /\ c.natural = SocialLink
         /\ \A prior : \A c \in CollectPhoneCandidates(pg, prior) : c.natural = SocialLink =>
              \E n \in CollectSiteNumbers(pg, FALSE) : n.num = c.num /\ n.trustworthy
<1>1. \A r \in Readings(pg, FALSE) : r.trustworthy <=> r.source = SocialLink
  BY ReadingTypes DEF DniTrustworthy
<1>2. ASSUME NEW n \in CollectSiteNumbers(pg, FALSE), n.trustworthy, NEW prior
      PROVE  \E c \in CollectPhoneCandidates(pg, prior) : c.num = n.num /\ c.natural = SocialLink
  <2>1. PICK r \in Readings(pg, FALSE) : r.num = n.num /\ r.trustworthy = n.trustworthy
    BY CollectFacts DEF PageFacts, PageFact
  <2>2. PICK c \in AllCandidates(pg) : c.num = r.num /\ c.natural = r.source
    BY ReadingTypes
  <2> QED BY <1>1, <1>2, <2>1, <2>2, AllTypes
<1>3. ASSUME NEW prior, NEW c \in CollectPhoneCandidates(pg, prior), c.natural = SocialLink
      PROVE  \E n \in CollectSiteNumbers(pg, FALSE) : n.num = c.num /\ n.trustworthy
  <2>1. c \in SocialLinkCandidates(pg) /\ ValidatePhone(c.num)
    BY <1>3, FinderTypes, Tiers DEF CollectPhoneCandidates, Valid
  <2>2. c \in AllCandidates(pg)
    BY <2>1 DEF AllCandidates, CollectPhoneCandidates, Valid
  <2>3. PICK r \in Readings(pg, FALSE) : r.num = c.num /\ r.source = SocialLink
    <3> DEFINE dni == DetectDNIVendor(pg) \/ FALSE
    <3>1. PhoneNumberFact(c, dni) \in Readings(pg, FALSE)
      BY <2>2 DEF Readings
    <3>2. PhoneNumberFact(c, dni).num = c.num /\ PhoneNumberFact(c, dni).source = c.natural
      BY DEF PhoneNumberFact
    <3> QED BY <1>3, <3>1, <3>2
  <2>4. PICK n \in CollectSiteNumbers(pg, FALSE) : n.num = r.num
    BY CollectFacts DEF PageFacts, PageFact
  <2>5. n.source = SocialLink
    <3>1. IsFact(n) /\ \A q \in Readings(pg, FALSE) : q.num = n.num => q.source <= n.source
      BY CollectFacts DEF PageFacts, PageFact
    <3>2. r.source <= n.source /\ n.source \in 0..6
      BY <2>3, <2>4, <3>1 DEF IsFact
    <3> QED BY <2>3, <3>2, Tiers
  <2>6. PICK q \in Readings(pg, FALSE) : q.source = n.source /\ q.trustworthy = n.trustworthy
    BY CollectFacts DEF PageFacts, PageFact
  <2> QED BY <1>1, <2>3, <2>4, <2>5, <2>6
<1> QED BY <1>2, <1>3

LEMMA VerdictsAgreeHolds ==
  ASSUME page \in Seq(PageNodes)
  PROVE  VerdictsAgree
<1> DEFINE fact == PhoneFact(page, city)
           cands == CollectPhoneCandidates(page, PriorPhone(page))
           social == {c \in cands : c.tier = SocialLink}
           Local == {n \in Trusted : ~IsTollFree(n.num.code)}
<1>1. \A c \in cands : c.tier = SocialLink <=> c.natural = SocialLink /\ ~IsTollFree(c.num.code)
  BY CollectTypes, Tiers DEF IsCandidate
<1>2. fact.poisoned => DetectDNIVendor(page)
  <2>1. ASSUME ~DetectDNIVendor(page) PROVE fact.poisoned = FALSE
    BY <2>1 DEF PhoneFact, ResolvePhoneForCityDNI
  <2> QED BY <2>1
<1>3. ASSUME DetectDNIVendor(page)
      PROVE  /\ fact.poisoned => fact.phone = {} /\ Local = {}
             /\ fact.phone \subseteq {n.num : n \in Trusted}
             /\ Local # {} => fact.phone # {}
  <2>1. /\ fact.poisoned => fact.phone = {} /\ social = {}
        /\ \A n \in fact.phone : \E c \in social : c.num = n
        /\ social # {} => fact.phone # {}
    BY <1>3, TrackedPhone
  <2> HIDE DEF fact
  <2>2. Local # {} => social # {}
    <3>1. SUFFICES ASSUME NEW n \in Local PROVE social # {}
      OBVIOUS
    <3>2. n \in CollectSiteNumbers(page, FALSE) /\ n.trustworthy /\ ~IsTollFree(n.num.code)
      BY <3>1 DEF Trusted, SiteNumbers
    <3>3. PICK c \in cands : c.num = n.num /\ c.natural = SocialLink
      <4>1. \A m \in CollectSiteNumbers(page, FALSE) : m.trustworthy =>
              \A prior : \E c \in CollectPhoneCandidates(page, prior) :
                c.num = m.num /\ c.natural = SocialLink
        BY <1>3, TrackedNumbers
      <4> QED BY <3>2, <4>1
    <3> QED BY <1>1, <3>2, <3>3
  <2>3. \A c \in social : \E n \in Trusted : n.num = c.num
    <3>1. TAKE c \in social
    <3>2. c \in cands /\ c.natural = SocialLink
      BY <1>1
    <3>3. PICK n \in CollectSiteNumbers(page, FALSE) : n.num = c.num /\ n.trustworthy
      <4>1. \A prior : \A d \in CollectPhoneCandidates(page, prior) : d.natural = SocialLink =>
              \E n \in CollectSiteNumbers(page, FALSE) : n.num = d.num /\ n.trustworthy
        BY <1>3, TrackedNumbers
      <4> QED BY <3>2, <4>1
    <3> QED BY <3>3 DEF Trusted, SiteNumbers
  <2> HIDE DEF social, Local
  <2> QED BY <2>1, <2>2, <2>3
<1> QED BY <1>2, <1>3 DEF VerdictsAgree

\* A hard-coded link that is valid is a candidate of its page, and anchored in
\* the number set, whatever else prints the number.
LEMMA SocialNumbersCount ==
  ASSUME page \in Seq(PageNodes), NEW n \in SocialNumbers
  PROVE  /\ \A prior : CollectPhoneCandidates(page, prior) # {}
         /\ \E m \in SiteNumbers : m.num = n /\ m.anchored
<1>1. PICK i \in Nodes(page, "social") : ValidatePhone(page[i].num) /\ n = page[i].num
  BY DEF SocialNumbers
<1> DEFINE c == Candidate(page[i].num, SocialLink, NoLabel, <<1, i, 0>>)
<1>2. c \in SocialLinkCandidates(page) /\ c.num = n /\ c.natural = SocialLink
  BY <1>1 DEF SocialLinkCandidates, Candidate
<1> HIDE DEF c
<1>3. \A prior : c \in CollectPhoneCandidates(page, prior)
  BY <1>1, <1>2 DEF CollectPhoneCandidates, Valid
<1>4. PICK r \in Readings(page, FALSE) : r.num = n /\ r.source = SocialLink
  <2> DEFINE dni == DetectDNIVendor(page) \/ FALSE
  <2>1. PhoneNumberFact(c, dni) \in Readings(page, FALSE)
    BY <1>3 DEF Readings, AllCandidates
  <2>2. PhoneNumberFact(c, dni).num = c.num /\ PhoneNumberFact(c, dni).source = c.natural
    BY DEF PhoneNumberFact
  <2> QED BY <1>2, <2>1, <2>2
<1>5. PICK m \in CollectSiteNumbers(page, FALSE) : m.num = n
  BY <1>4, CollectFacts DEF PageFacts, PageFact
<1>6. m.source = SocialLink
  <2>1. IsFact(m) /\ \A q \in Readings(page, FALSE) : q.num = m.num => q.source <= m.source
    BY CollectFacts DEF PageFacts, PageFact
  <2>2. r.source <= m.source /\ m.source \in 0..6
    BY <1>4, <1>5, <2>1 DEF IsFact
  <2> QED BY <1>4, <2>2, Tiers
<1>7. PICK q \in Readings(page, FALSE) : q.source = m.source /\ q.anchored = m.anchored
  BY CollectFacts DEF PageFacts, PageFact
<1>8. q.anchored
  <2>1. PICK d \in AllCandidates(page) : q = PhoneNumberFact(d, DetectDNIVendor(page) \/ FALSE)
    BY DEF Readings
  <2>2. q.source = d.natural /\ q.anchored = NumberIsAnchored(d.natural)
    BY <2>1 DEF PhoneNumberFact
  <2>3. NumberIsAnchored(SocialLink)
    BY DEF NumberIsAnchored
  <2> QED BY <1>6, <1>7, <2>2, <2>3
<1> QED BY <1>3, <1>5, <1>7, <1>8 DEF SiteNumbers

LEMMA PagesAreExtractedHolds ==
  ASSUME page \in Seq(PageNodes)
  PROVE  PagesAreExtracted
<1> DEFINE fact == PhoneFact(page, city)
           cands == CollectPhoneCandidates(page, PriorPhone(page))
           social == {c \in cands : c.tier = SocialLink}
<1>1. SocialNumbers \subseteq {n.num : n \in {m \in SiteNumbers : m.anchored}}
  BY SocialNumbersCount
<1>2. ASSUME DetectDNIVendor(page)
      PROVE  /\ fact.phone \subseteq SocialNumbers
             /\ SocialNumbers # {} /\ fact.phone = {} => fact.poisoned
  <2>1. /\ \A n \in fact.phone : \E c \in social : c.num = n
        /\ cands # {} /\ fact.phone = {} => fact.poisoned
    BY <1>2, TrackedPhone
  <2>2. \A c \in social : c.num \in SocialNumbers
    <3>1. TAKE c \in social
    <3>2. c.natural = SocialLink
      BY CollectTypes, Tiers DEF IsCandidate
    <3>3. c \in SocialLinkCandidates(page) /\ ValidatePhone(c.num)
      BY <3>2, FinderTypes, Tiers DEF CollectPhoneCandidates, Valid
    <3> QED BY <3>3 DEF SocialLinkCandidates, Candidate, SocialNumbers, Nodes
  <2>3. SocialNumbers # {} => cands # {}
    BY SocialNumbersCount
  <2> HIDE DEF fact, social, cands
  <2> QED BY <2>1, <2>2, <2>3
<1> QED BY <1>1, <1>2 DEF PagesAreExtracted

(***************************************************************************)
(* The site's set over the pages.                                          *)
(***************************************************************************)
SiteTypeOK ==
  /\ city \in Cities
  /\ page \in Seq(PageNodes)
  /\ visited \in Seq([page : Seq(PageNodes), poisoned : BOOLEAN])

NumbersInv == \A n \in numbers : IsFact(n) /\ IsTagged(n, city)

\* Accumulation needs to know that what is there are facts, tagged.
SiteInv == SiteTypeOK /\ NumbersInv /\ AccumulatesAllReadings

PerPage(pages) == UNION {CollectSiteNumbers(v.page, v.poisoned) : v \in pages}
ReadingsOf(pages) == UNION {Readings(v.page, v.poisoned) : v \in pages}

\* The set has accumulated the pages.
Accumulates(nums, pages) ==
  /\ {n.num : n \in nums} = {r.num : r \in ReadingsOf(pages)}
  /\ \A n \in nums :
       /\ \A m \in nums : m.num = n.num => m = n
       /\ \E f \in PerPage(pages) : f.num = n.num /\ SiteNumberRank(f) = SiteNumberRank(n)
       /\ \A f \in PerPage(pages) : f.num = n.num => SiteNumberRank(f) <= SiteNumberRank(n)
       /\ n.role = "general" <=> \E r \in ReadingsOf(pages) : r.num = n.num /\ r.role = "general"

LEMMA AccumulatesPages == AccumulatesAllReadings <=> Accumulates(numbers, Pages)
BY DEF AccumulatesAllReadings, Accumulates, PerPage, ReadingsOf

Elements(s) == {s[i] : i \in DOMAIN s}

LEMMA AppendPages ==
  ASSUME NEW V, NEW s \in Seq(V), NEW v \in V
  PROVE  Elements(Append(s, v)) = Elements(s) \cup {v}
<1>1. DOMAIN Append(s, v) = DOMAIN s \cup {Len(s) + 1} /\ Append(s, v)[Len(s) + 1] = v
      /\ \A i \in DOMAIN s : Append(s, v)[i] = s[i]
  OBVIOUS
<1> QED BY <1>1 DEF Elements

\* A page more.
LEMMA AccumulatesOneMore ==
  ASSUME NEW nums, NEW ct, NEW pages \in SUBSET [page : Seq(PageNodes), poisoned : BOOLEAN],
         \A n \in nums : IsFact(n) /\ IsTagged(n, ct),
         Accumulates(nums, pages),
         NEW v \in [page : Seq(PageNodes), poisoned : BOOLEAN]
  PROVE  LET sum == AddSiteNumbers(nums, CollectSiteNumbers(v.page, v.poisoned), ct)
         IN  /\ \A n \in sum : IsFact(n) /\ IsTagged(n, ct)
             /\ Accumulates(sum, pages \cup {v})
<1> DEFINE more == CollectSiteNumbers(v.page, v.poisoned)
           read == Readings(v.page, v.poisoned)
           sum == AddSiteNumbers(nums, more, ct)
           both == nums \cup more
<1>1. /\ \A n \in more : IsFact(n) /\ \E r \in read : r.num = n.num
      /\ \A n \in more : n.role = "general" <=> \E r \in read : r.num = n.num /\ r.role = "general"
      /\ \A r \in read : \E n \in more : n.num = r.num
  <2>1. PICK pg \in Seq(PageNodes), poisoned \in BOOLEAN : v.page = pg /\ v.poisoned = poisoned
    OBVIOUS
  <2>2. PageFacts(more, read)
    BY <2>1, CollectFacts
  <2> HIDE DEF more, read
  <2> QED BY <2>2 DEF PageFacts, PageFact
<1> HIDE DEF more, read
<1>2. /\ \A n \in sum :
           /\ IsFact(n) /\ IsTagged(n, ct)
           /\ \A m \in sum : m.num = n.num => m = n
           /\ \E f \in both : f.num = n.num /\ SiteNumberRank(f) = SiteNumberRank(n)
           /\ \A f \in both : f.num = n.num => SiteNumberRank(f) <= SiteNumberRank(n)
           /\ n.role = "general" <=> \E f \in both : f.num = n.num /\ f.role = "general"
      /\ \A f \in both : \E n \in sum : n.num = f.num
  BY <1>1, AddFacts
<1> HIDE DEF sum
<1>3. PerPage(pages \cup {v}) = PerPage(pages) \cup more
  BY DEF PerPage, more
<1>4. ReadingsOf(pages \cup {v}) = ReadingsOf(pages) \cup read
  BY DEF ReadingsOf, read
<1> DEFINE before == ReadingsOf(pages)
           offered == PerPage(pages)
<1>5. /\ \A n \in nums : \E r \in before : r.num = n.num
      /\ \A r \in before : \E n \in nums : n.num = r.num
      /\ \A n \in nums : \E f \in offered : f.num = n.num /\ SiteNumberRank(f) = SiteNumberRank(n)
      /\ \A n \in nums : \A f \in offered : f.num = n.num => SiteNumberRank(f) <= SiteNumberRank(n)
      /\ \A n \in nums : n.role = "general" <=> \E r \in before : r.num = n.num /\ r.role = "general"
  <2>1. {n.num : n \in nums} = {r.num : r \in before}
    BY DEF Accumulates
  <2>2. /\ \A n \in nums : \E r \in before : r.num = n.num
        /\ \A r \in before : \E n \in nums : n.num = r.num
    <3> HIDE DEF before
    <3> QED BY <2>1
  <2>3. /\ \A n \in nums : \E f \in offered : f.num = n.num /\ SiteNumberRank(f) = SiteNumberRank(n)
        /\ \A n \in nums : \A f \in offered : f.num = n.num => SiteNumberRank(f) <= SiteNumberRank(n)
    BY DEF Accumulates
  <2>4. \A n \in nums : n.role = "general" <=> \E r \in before : r.num = n.num /\ r.role = "general"
    BY DEF Accumulates
  <2> QED BY <2>2, <2>3, <2>4
<1>6. \A f \in offered : IsFact(f) /\ \E n \in nums : n.num = f.num
  <2>1. TAKE f \in offered
  <2>2. PICK w \in pages : f \in CollectSiteNumbers(w.page, w.poisoned)
    BY DEF PerPage
  <2>3. w.page \in Seq(PageNodes) /\ w.poisoned \in BOOLEAN
    OBVIOUS
  <2>4. IsFact(f) /\ \E r \in Readings(w.page, w.poisoned) : r.num = f.num
    <3>1. PICK pg \in Seq(PageNodes), poisoned \in BOOLEAN : w.page = pg /\ w.poisoned = poisoned
      BY <2>3
    <3>2. PageFacts(CollectSiteNumbers(w.page, w.poisoned), Readings(w.page, w.poisoned))
      BY <3>1, CollectFacts
    <3> QED BY <2>2, <3>2 DEF PageFacts, PageFact
  <2>5. Readings(w.page, w.poisoned) \subseteq before
    BY DEF ReadingsOf
  <2> QED BY <1>5, <2>4, <2>5
<1> HIDE DEF before, offered
<1>7. {n.num : n \in sum} = {r.num : r \in before \cup read}
  <2>1. \A n \in sum : \E r \in before \cup read : r.num = n.num
    BY <1>1, <1>2, <1>5
  <2>2. \A r \in before \cup read : \E n \in sum : n.num = r.num
    BY <1>1, <1>2, <1>5
  <2> QED BY <2>1, <2>2
<1>8. ASSUME NEW n \in sum
      PROVE  /\ \E f \in offered \cup more : f.num = n.num /\ SiteNumberRank(f) = SiteNumberRank(n)
             /\ \A f \in offered \cup more : f.num = n.num => SiteNumberRank(f) <= SiteNumberRank(n)
             /\ n.role = "general" <=> \E r \in before \cup read : r.num = n.num /\ r.role = "general"
  <2>1. \E f \in offered \cup more : f.num = n.num /\ SiteNumberRank(f) = SiteNumberRank(n)
    BY <1>2, <1>5
  <2>2. ASSUME NEW f \in offered \cup more, f.num = n.num
        PROVE  SiteNumberRank(f) <= SiteNumberRank(n)
    <3>1. PICK g \in both : g.num = f.num /\ SiteNumberRank(f) <= SiteNumberRank(g)
      <4>1. CASE f \in more
        BY <1>1, <4>1, RanksAreNatural
      <4>2. CASE f \in offered
        BY <1>5, <1>6, <4>2
      <4> QED BY <2>2, <4>1, <4>2
    <3>2. SiteNumberRank(g) <= SiteNumberRank(n)
      BY <1>2, <2>2, <3>1
    <3>3. IsFact(f) /\ IsFact(g) /\ IsFact(n)
      BY <1>1, <1>2, <1>6, <2>2
    <3>4. /\ SiteNumberRank(f) \in 0..3 /\ SiteNumberRank(g) \in 0..3
          /\ SiteNumberRank(n) \in 0..3
      BY <3>3, RanksAreNatural
    <3> QED BY <3>1, <3>2, <3>4
  <2>3. n.role = "general" <=> \E r \in before \cup read : r.num = n.num /\ r.role = "general"
    BY <1>1, <1>2, <1>5
  <2> QED BY <2>1, <2>2, <2>3
<1>9. Accumulates(sum, pages \cup {v})
  <2>1. PerPage(pages \cup {v}) = offered \cup more /\ ReadingsOf(pages \cup {v}) = before \cup read
    BY <1>3, <1>4 DEF before, offered
  <2>2. {n.num : n \in sum} = {r.num : r \in ReadingsOf(pages \cup {v})}
    BY <1>7, <2>1
  <2>3. \A n \in sum :
          /\ \E f \in PerPage(pages \cup {v}) : f.num = n.num /\ SiteNumberRank(f) = SiteNumberRank(n)
          /\ \A f \in PerPage(pages \cup {v}) : f.num = n.num => SiteNumberRank(f) <= SiteNumberRank(n)
          /\ n.role = "general" <=> \E r \in ReadingsOf(pages \cup {v}) : r.num = n.num /\ r.role = "general"
    <3>1. TAKE n \in sum
    <3>2. \E f \in PerPage(pages \cup {v}) : f.num = n.num /\ SiteNumberRank(f) = SiteNumberRank(n)
      BY <1>8, <2>1
    <3>3. \A f \in PerPage(pages \cup {v}) : f.num = n.num => SiteNumberRank(f) <= SiteNumberRank(n)
      BY <1>8, <2>1
    <3>4. n.role = "general" <=> \E r \in ReadingsOf(pages \cup {v}) : r.num = n.num /\ r.role = "general"
      <4>1. n.role = "general" <=> \E r \in before \cup read : r.num = n.num /\ r.role = "general"
        BY <1>8
      <4>2. ReadingsOf(pages \cup {v}) = before \cup read
        BY <2>1
      <4> QED BY <4>1, <4>2
    <3> QED BY <3>2, <3>3, <3>4
  <2> QED BY <1>2, <2>2, <2>3 DEF Accumulates
<1> QED BY <1>2, <1>9 DEF sum, more

LEMMA SiteInvInit == SiteInit => SiteInv
<1> SUFFICES ASSUME SiteInit PROVE SiteInv
  OBVIOUS
<1>1. SiteTypeOK /\ NumbersInv
  BY DEF SiteInit, SiteTypeOK, NumbersInv
<1>2. Pages = {} /\ numbers = {}
  BY DEF SiteInit, Pages
<1>3. Accumulates(numbers, Pages)
  BY <1>2 DEF Accumulates, PerPage, ReadingsOf
<1> QED BY <1>1, <1>3, AccumulatesPages DEF SiteInv

LEMMA PublishKeepsSiteInv ==
  ASSUME SiteInv, NEW node \in PageNodes, Publish(node)
  PROVE  SiteInv'
<1>1. SiteTypeOK' /\ NumbersInv'
  BY DEF SiteInv, SiteTypeOK, NumbersInv, Publish, IsTagged
<1>2. AccumulatesAllReadings'
  <2>1. Pages' = Pages /\ numbers' = numbers
    BY DEF Publish, Pages
  <2> QED BY <2>1 DEF SiteInv, AccumulatesAllReadings
<1> QED BY <1>1, <1>2 DEF SiteInv

LEMMA ReadPageKeepsSiteInv ==
  ASSUME SiteInv, NEW rawPoisoned \in BOOLEAN, ReadPage(rawPoisoned)
  PROVE  SiteInv'
<1> DEFINE poisoned == rawPoisoned \/ PhoneFact(page, city).poisoned \/ DetectDNIVendor(page)
           v == [page |-> page, poisoned |-> poisoned]
<1>1. /\ visited' = Append(visited, v)
      /\ numbers' = AddSiteNumbers(numbers, CollectSiteNumbers(page, poisoned), city)
      /\ page' = <<>> /\ city' = city
  BY DEF ReadPage
<1>2. v \in [page : Seq(PageNodes), poisoned : BOOLEAN] /\ v.page = page /\ v.poisoned = poisoned
  <2>1. poisoned \in BOOLEAN
    OBVIOUS
  <2> HIDE DEF poisoned
  <2> QED BY <2>1 DEF SiteInv, SiteTypeOK
<1> HIDE DEF v, poisoned
<1>3. SiteTypeOK'
  BY <1>1, <1>2 DEF SiteInv, SiteTypeOK
<1>4. Pages' = Pages \cup {v} /\ Pages \subseteq [page : Seq(PageNodes), poisoned : BOOLEAN]
  <2>1. visited \in Seq([page : Seq(PageNodes), poisoned : BOOLEAN])
    BY DEF SiteInv, SiteTypeOK
  <2> DEFINE V == [page : Seq(PageNodes), poisoned : BOOLEAN]
  <2>2. Elements(Append(visited, v)) = Elements(visited) \cup {v}
    <3>1. visited \in Seq(V) /\ v \in V
      BY <1>2, <2>1
    <3> HIDE DEF V
    <3> QED BY <3>1, AppendPages
  <2>3. Pages \subseteq V
    <3>1. visited \in Seq(V)
      BY <2>1
    <3> HIDE DEF V
    <3> QED BY <3>1 DEF Pages
  <2> QED BY <1>1, <2>2, <2>3 DEF Pages, Elements
<1>5. (\A n \in numbers' : IsFact(n) /\ IsTagged(n, city)) /\ Accumulates(numbers', Pages \cup {v})
  <2>1. numbers' = AddSiteNumbers(numbers, CollectSiteNumbers(v.page, v.poisoned), city)
    BY <1>1, <1>2
  <2>2. (\A n \in numbers : IsFact(n) /\ IsTagged(n, city)) /\ Accumulates(numbers, Pages)
    BY AccumulatesPages DEF SiteInv, NumbersInv
  <2> QED BY <1>2, <1>4, <2>1, <2>2, AccumulatesOneMore
<1>6. NumbersInv'
  BY <1>1, <1>5 DEF NumbersInv
<1>7. AccumulatesAllReadings'
  BY <1>4, <1>5 DEF AccumulatesAllReadings, Accumulates, PerPage, ReadingsOf
<1> QED BY <1>3, <1>6, <1>7 DEF SiteInv

LEMMA SiteInvInvariant == SiteSpec => []SiteInv
<1>1. SiteInv /\ [SiteNext]_siteVars => SiteInv'
  <2> SUFFICES ASSUME SiteInv, [SiteNext]_siteVars PROVE SiteInv'
    OBVIOUS
  <2>1. CASE \E node \in PageNodes : Publish(node)
    BY <2>1, PublishKeepsSiteInv
  <2>2. CASE \E rawPoisoned \in BOOLEAN : ReadPage(rawPoisoned)
    BY <2>2, ReadPageKeepsSiteInv
  <2>3. CASE UNCHANGED siteVars
    <3>1. Pages' = Pages /\ UNCHANGED <<city, page, visited, numbers>>
      BY <2>3 DEF siteVars, Pages
    <3>2. SiteTypeOK' /\ NumbersInv'
      BY <3>1 DEF SiteInv, SiteTypeOK, NumbersInv, IsTagged
    <3>3. AccumulatesAllReadings'
      BY <3>1 DEF SiteInv, AccumulatesAllReadings
    <3> QED BY <3>2, <3>3 DEF SiteInv
  <2> QED BY <2>1, <2>2, <2>3 DEF SiteNext
<1> QED BY <1>1, SiteInvInit, PTL DEF SiteSpec

(***************************************************************************)
(* The local number and the venue.                                         *)
(***************************************************************************)
LEMMA CityLocalWinsHolds ==
  ASSUME SiteInv
  PROVE  CityLocalWins
<1> DEFINE prior == PriorPhone(page)
           cands == CollectPhoneCandidates(page, prior)
           local == {c \in cands : c.num.code \in CityAreaCodes[city]}
           pick == Best(local, [c \in local |-> PickTier(c)])
           found == ResolvePhoneForCityDNI(page, city, prior)
           Match(n) == ClassifyCityMembership(n, city).match
           Overrides(c) == \/ c.num.code \in CityAreaCodes[city]
                           \/ RegionForTier(c.tier) \in {"contacts", "microdata"}
                           \/ prior = {}
<1>1. SUFFICES ASSUME ~DetectDNIVendor(page), NEW d \in cands, Match(d.num)
               PROVE  \E n \in PhoneFact(page, city).phone :
                        Match(n) /\ \A m \in numbers : m.num = n => ~m.foreign
  BY DEF CityLocalWins
<1>2. d \in local
  BY <1>1 DEF ClassifyCityMembership
<1>3. pick \in local
  <2>1. \A c \in cands : IsCandidate(c)
    BY CollectTypes DEF SiteInv, SiteTypeOK
  <2>2. \A c \in local : [x \in local |-> PickTier(x)][c] \in 0..6 /\ c.at \in Places
    BY <2>1, Tiers DEF PickTier, IsCandidate
  <2> DEFINE rank == [c \in local |-> PickTier(c)]
  <2> HIDE DEF local, rank
  <2>3. Best(local, rank) \in local
    BY <1>2, <2>2, BestIsBest DEF rank
  <2> QED BY <2>3 DEF rank
<1>4. found = [phone |-> {pick}, omit |-> FALSE]
  <2>1. PickPhoneCandidate(cands, city) = pick
    BY <1>2 DEF PickPhoneCandidate
  <2> HIDE DEF pick
  <2> QED BY <1>1, <2>1 DEF ResolvePhoneForCityDNI
<1>5. PhoneFact(page, city).phone = {pick.num}
  <2>1. PhoneFact(page, city) =
          [poisoned |-> found.omit,
           phone |-> IF found.omit THEN {}
                     ELSE IF \E c \in found.phone : Overrides(c) THEN {c.num : c \in found.phone}
                     ELSE prior]
    BY DEF PhoneFact
  <2>2. Overrides(pick)
    BY <1>3
  <2> HIDE DEF found, pick, Overrides, prior
  <2> QED BY <1>4, <2>1, <2>2
<1> HIDE DEF pick
<1>6. Match(pick.num) /\ ~ClassifyCityMembership(pick.num, city).foreign
  BY <1>3 DEF ClassifyCityMembership
<1>7. \A m \in numbers : m.num = pick.num => ~m.foreign
  BY <1>6 DEF SiteInv, NumbersInv, IsTagged
<1> QED BY <1>5, <1>6, <1>7

\* The venue's slot stays empty if it was and nothing offered is routed to it.
LEMMA FillEmpty ==
  ASSUME NEW slot, NEW offers
  PROVE  Fill(slot, offers, FALSE) = {} <=> slot = {} /\ \A o \in offers : o.legal # FALSE
BY DEF Fill

\* What a layer offers for the venue.
LEMMA RoutedToVenue ==
  ASSUME NEW addrs, NEW legal, \A o \in Routed(addrs, legal) : o.legal # FALSE
  PROVE  \A a \in addrs : ~ValidateAddress(a) \/ IsLegalAddress(a) \/ legal
<1>1. ASSUME NEW a \in addrs, ValidateAddress(a), ~IsLegalAddress(a), ~legal
      PROVE  FALSE
  <2> DEFINE o == [addr |-> a, legal |-> legal \/ IsLegalAddress(a)]
  <2>1. o \in Routed(addrs, legal)
    BY <1>1 DEF Routed
  <2>2. o.legal = FALSE
    BY <1>1
  <2> QED BY <2>1, <2>2
<1> QED BY <1>1

\* A venue element, wherever it is, keeps the slot from staying empty.
LEMMA ElementsAreLegal ==
  ASSUME NEW pg \in Seq(PageNodes), \A o \in FirstElement(pg, FALSE) : o.legal # FALSE
  PROVE  \A i \in Nodes(pg, "address") : ~ValidateAddress(pg[i].addr) \/ IsLegalAddress(pg[i].addr)
<1> DEFINE of == {i \in Nodes(pg, "address") :
                    ValidateAddress(pg[i].addr) /\ IsLegalAddress(pg[i].addr) = FALSE}
<1>1. \A i \in Nodes(pg, "address") : i \in Nat /\ IsLegalAddress(pg[i].addr) \in BOOLEAN
  BY NodesOf, PageTypes, NodesAssumption DEF IsLegalAddress
<1>2. of = {}
  <2>1. SUFFICES ASSUME of # {} PROVE FALSE
    OBVIOUS
  <2>2. of \in SUBSET Nat
    BY <1>1
  <2>3. PICK j \in of : \A k \in of : j <= k
    <3> HIDE DEF of
    <3> QED BY <2>1, <2>2, LeastNatural
  <2>4. Routed({pg[j].addr}, FALSE) \subseteq FirstElement(pg, FALSE)
    BY <2>3 DEF FirstElement
  <2>5. \A a \in {pg[j].addr} : ~ValidateAddress(a) \/ IsLegalAddress(a) \/ FALSE
    BY <2>4, RoutedToVenue
  <2> QED BY <2>3, <2>5
<1> QED BY <1>1, <1>2

LEMMA VenueKeepsItsSlotHolds ==
  ASSUME page \in Seq(PageNodes)
  PROVE  VenueKeepsItsSlot
<1> DEFINE ofPlace == Routed(UNION {page[i].addr : i \in FirstItem(page, "place")}, FALSE)
           ofEvent == Routed(UNION {page[i].addr : i \in FirstItem(page, "event")}, FALSE)
           venueBefore == Fill(Fill({}, ofPlace, FALSE), ofEvent, FALSE)
           ofOrg == UNION {Routed(page[i].addr, OrgAddressIsLegal(page[i], venueBefore, page))
                             : i \in FirstItem(page, "org")}
           labels == Nodes(page, "labelled")
           ofLabel == UNION {Routed({page[i].addr}, FALSE)
                               : i \in {j \in labels : \A k \in labels : j <= k}}
           firstLabel == {j \in labels : \A k \in labels : j <= k}
           slot == Fill(Fill(Fill(venueBefore, ofOrg, FALSE), ofLabel, FALSE),
                        FirstElement(page, FALSE), FALSE)
           Settled(i, a) == \/ ~ValidateAddress(a) \/ IsLegalAddress(a)
                            \/ page[i].kind = "org" /\ (page[i].legalID \/ page[i].legalName)
<1>1. AddressFacts(page).address = slot
  BY DEF AddressFacts
<1>2. \A kind : \A i \in FirstItem(page, kind) : i \in Nodes(page, kind) /\ page[i].kind = kind /\ i \in DOMAIN page
  BY NodesOf DEF FirstItem
<1>3. SUFFICES ASSUME slot = {}
               PROVE  /\ \A kind \in {"place", "event", "org"} : \A i \in FirstItem(page, kind) :
                           \A a \in page[i].addr : Settled(i, a)
                      /\ \A i \in Nodes(page, "address") \cup firstLabel : Settled(i, page[i].addr)
  <2> HIDE DEF slot, Settled
  <2> QED BY <1>1, <1>2, NodesOf DEF VenueKeepsItsSlot, Settled
<1>4. /\ venueBefore = {}
      /\ \A o \in ofPlace : o.legal # FALSE
      /\ \A o \in ofEvent : o.legal # FALSE
      /\ \A o \in ofOrg : o.legal # FALSE
      /\ \A o \in ofLabel : o.legal # FALSE
      /\ \A o \in FirstElement(page, FALSE) : o.legal # FALSE
  <2> DEFINE withOrg == Fill(venueBefore, ofOrg, FALSE)
             withLabel == Fill(withOrg, ofLabel, FALSE)
  <2>1. slot = Fill(withLabel, FirstElement(page, FALSE), FALSE)
    OBVIOUS
  <2> HIDE DEF ofPlace, ofEvent, ofOrg, ofLabel, withLabel
  <2>2. withLabel = {} /\ \A o \in FirstElement(page, FALSE) : o.legal # FALSE
    BY <1>3, <2>1, FillEmpty
  <2> HIDE DEF withOrg
  <2>3. withOrg = {} /\ \A o \in ofLabel : o.legal # FALSE
    BY <2>2, FillEmpty DEF withLabel
  <2> HIDE DEF venueBefore
  <2>4. venueBefore = {} /\ \A o \in ofOrg : o.legal # FALSE
    BY <2>3, FillEmpty DEF withOrg
  <2>5. Fill({}, ofPlace, FALSE) = {} /\ \A o \in ofEvent : o.legal # FALSE
    BY <2>4, FillEmpty DEF venueBefore
  <2>6. \A o \in ofPlace : o.legal # FALSE
    BY <2>5, FillEmpty
  <2> QED BY <2>2, <2>3, <2>4, <2>5, <2>6
<1>5. \A i \in FirstItem(page, "place") : \A a \in page[i].addr : Settled(i, a)
  <2>1. \A a \in UNION {page[i].addr : i \in FirstItem(page, "place")} :
          ~ValidateAddress(a) \/ IsLegalAddress(a) \/ FALSE
    BY <1>4, RoutedToVenue
  <2> QED BY <2>1
<1>6. \A i \in FirstItem(page, "event") : \A a \in page[i].addr : Settled(i, a)
  <2>1. \A a \in UNION {page[i].addr : i \in FirstItem(page, "event")} :
          ~ValidateAddress(a) \/ IsLegalAddress(a) \/ FALSE
    BY <1>4, RoutedToVenue
  <2> QED BY <2>1
<1>7. \A i \in Nodes(page, "address") : Settled(i, page[i].addr)
  BY <1>4, ElementsAreLegal
<1>8. ASSUME NEW i \in FirstItem(page, "org"), NEW a \in page[i].addr
      PROVE  Settled(i, a)
  <2> DEFINE legal == OrgAddressIsLegal(page[i], venueBefore, page)
  <2>1. \A o \in Routed(page[i].addr, legal) : o.legal # FALSE
    BY <1>4
  <2>2. ~ValidateAddress(a) \/ IsLegalAddress(a) \/ legal
    <3>1. legal \in BOOLEAN
      BY DEF OrgAddressIsLegal
    <3> HIDE DEF legal
    <3>2. CASE legal = FALSE
      <4>1. \A o \in Routed(page[i].addr, FALSE) : o.legal # FALSE
        BY <2>1, <3>2
      <4>2. \A b \in page[i].addr : ~ValidateAddress(b) \/ IsLegalAddress(b) \/ FALSE
        BY <4>1, RoutedToVenue
      <4> QED BY <4>2
    <3> QED BY <3>1, <3>2
  <2>3. VenueElement(page) = {}
    BY <1>4, ElementsAreLegal DEF VenueElement
  <2>4. legal => page[i].legalID \/ page[i].legalName \/ \E b \in page[i].addr : IsLegalAddress(b)
    BY <1>4, <2>3 DEF OrgAddressIsLegal
  <2>5. page[i].kind = "org" /\ \A b \in page[i].addr : b = a
    <3>1. page[i].kind = "org" /\ i \in DOMAIN page
      BY <1>2
    <3> QED BY <3>1, PageTypes
  <2> HIDE DEF legal
  <2> QED BY <2>2, <2>4, <2>5
<1>9. \A i \in firstLabel : Settled(i, page[i].addr)
  <2>1. SUFFICES ASSUME NEW i \in firstLabel
                 PROVE  ~ValidateAddress(page[i].addr) \/ IsLegalAddress(page[i].addr) \/ FALSE
    OBVIOUS
  <2>2. \A o \in Routed({page[i].addr}, FALSE) : o.legal # FALSE
    BY <1>4
  <2>3. \A a \in {page[i].addr} : ~ValidateAddress(a) \/ IsLegalAddress(a) \/ FALSE
    BY <2>2, RoutedToVenue
  <2> QED BY <2>3
<1> QED BY <1>5, <1>6, <1>7, <1>8, <1>9

(***************************************************************************)
(* A text node printed after the others.                                   *)
(***************************************************************************)
LEMMA AppendText ==
  ASSUME NEW pg \in Seq(PageNodes), NEW node \in PageNodes, node.kind = "text"
  PROVE  LET pg2 == Append(pg, node)
         IN  /\ pg2 \in Seq(PageNodes)
             /\ \A i \in DOMAIN pg : pg2[i] = pg[i] /\ i \in Nat /\ i <= Len(pg)
             /\ \A kind : kind # "text" => Nodes(pg2, kind) = Nodes(pg, kind)
             /\ Nodes(pg2, "text") = Nodes(pg, "text") \cup {Len(pg) + 1}
             /\ \A kind : Nodes(pg, kind) \subseteq DOMAIN pg
<1> DEFINE pg2 == Append(pg, node)
<1>1. /\ pg2 \in Seq(PageNodes) /\ DOMAIN pg2 = DOMAIN pg \cup {Len(pg) + 1}
      /\ \A i \in DOMAIN pg : pg2[i] = pg[i] /\ i \in Nat /\ i <= Len(pg)
      /\ pg2[Len(pg) + 1] = node /\ Len(pg) + 1 \notin DOMAIN pg
  OBVIOUS
<1> HIDE DEF pg2
<1> QED BY <1>1 DEF Nodes, pg2

LEMMA SameFinders ==
  ASSUME NEW pg \in Seq(PageNodes), NEW node \in PageNodes, node.kind = "text"
  PROVE  LET pg2 == Append(pg, node)
         IN  /\ CollectPhoneCandidates(pg2, {}) = CollectPhoneCandidates(pg, {})
             /\ BranchJSONCandidates(pg2) = BranchJSONCandidates(pg)
             /\ SchemaPlaceCandidates(pg2) = SchemaPlaceCandidates(pg)
             /\ DetectDNIVendor(pg2) <=> DetectDNIVendor(pg)
<1> DEFINE pg2 == Append(pg, node)
<1>1. \A kind : kind # "text" =>
        Nodes(pg2, kind) = Nodes(pg, kind) /\ \A i \in Nodes(pg, kind) : pg2[i] = pg[i]
  BY AppendText
<1> HIDE DEF pg2
<1>2. Nodes(pg2, "social") = Nodes(pg, "social") /\ \A i \in Nodes(pg, "social") : pg2[i] = pg[i]
  BY <1>1
<1>3. SocialLinkCandidates(pg2) = SocialLinkCandidates(pg)
  BY <1>2 DEF SocialLinkCandidates
<1>4. Nodes(pg2, "tel") = Nodes(pg, "tel") /\ \A i \in Nodes(pg, "tel") : pg2[i] = pg[i]
  BY <1>1
<1>5. TelCandidates(pg2) = TelCandidates(pg)
  BY <1>4 DEF TelCandidates
<1>6. Nodes(pg2, "microdata") = Nodes(pg, "microdata") /\ \A i \in Nodes(pg, "microdata") : pg2[i] = pg[i]
  BY <1>1
<1>7. MicrodataCandidates(pg2) = MicrodataCandidates(pg)
  BY <1>6 DEF MicrodataCandidates
<1>8. Nodes(pg2, "og") = Nodes(pg, "og") /\ \A i \in Nodes(pg, "og") : pg2[i] = pg[i]
  BY <1>1
<1>9. OgPhoneCandidates(pg2) = OgPhoneCandidates(pg)
  BY <1>8 DEF OgPhoneCandidates
<1>10. CollectPhoneCandidates(pg2, {}) = CollectPhoneCandidates(pg, {})
  BY <1>3, <1>5, <1>7, <1>9 DEF CollectPhoneCandidates
<1>11. Nodes(pg2, "script") = Nodes(pg, "script") /\ \A i \in Nodes(pg, "script") : pg2[i] = pg[i]
  BY <1>1
<1>12. BranchJSONCandidates(pg2) = BranchJSONCandidates(pg)
  <2> DEFINE Of(node2, i) == {Candidate(node2.nums[k], BranchJSON, NoLabel, <<5, i, k>>)
                                : k \in DOMAIN node2.nums}
             Running(p) == {j \in Nodes(p, "script") : ~p[j].src /\ p[j].runs}
             Listed(p) == UNION {Of(p[i], i) : i \in Running(p)}
  <2>1. \A p : BranchJSONCandidates(p) = Capped(Valid(Listed(p)))
    BY DEF BranchJSONCandidates
  <2>2. Running(pg2) = Running(pg) /\ \A i \in Running(pg) : pg2[i] = pg[i]
    BY <1>11
  <2> HIDE DEF Of, Running
  <2>3. Listed(pg2) = Listed(pg)
    BY <2>2
  <2> HIDE DEF Listed
  <2> QED BY <2>1, <2>3
<1>13. Nodes(pg2, "place") = Nodes(pg, "place") /\ \A i \in Nodes(pg, "place") : pg2[i] = pg[i]
  BY <1>1
<1>14. SchemaPlaceCandidates(pg2) = SchemaPlaceCandidates(pg)
  <2> DEFINE Listed(p) == UNION {{Candidate(n, SchemaPlace, NoLabel, <<6, i, 0>>)
                                    : n \in p[i].phone} : i \in Nodes(p, "place")}
  <2>1. Listed(pg2) = Listed(pg)
    BY <1>13
  <2>2. \A p : SchemaPlaceCandidates(p) =
                 IF Cardinality(Nodes(p, "place")) < 2 THEN {} ELSE Capped(Valid(Listed(p)))
    BY DEF SchemaPlaceCandidates
  <2> HIDE DEF Listed
  <2> QED BY <1>13, <2>1, <2>2
<1>15. DetectDNIVendor(pg2) <=> DetectDNIVendor(pg)
  BY <1>11 DEF DetectDNIVendor
<1> QED BY <1>10, <1>12, <1>14, <1>15 DEF pg2

\* The text candidates only grow, by numbers that no other candidate has in
\* either form.
LEMMA TextCandidatesGrow ==
  ASSUME NEW pg \in Seq(PageNodes), NEW node \in PageNodes, node.kind = "text", NEW existing
  PROVE  LET before == ContactsTextCandidates(pg, existing)
             after == ContactsTextCandidates(Append(pg, node), existing)
         IN  /\ before \subseteq after
             /\ \A c \in after \ before : \A d \in existing \cup before :
                  CanonicalPhoneKey(c.num) # CanonicalPhoneKey(d.num)
<1> DEFINE pg2 == Append(pg, node)
           last == Len(pg) + 1
           Block(p, i) == p[i].labelled /\ ~p[i].idLabel /\ ~InsideTracker(p[i].up)
           Read(p, i) == {Candidate(p[i].nums[k], Contacts, RoleLabel(p[i].near), <<7, i, k>>)
                            : k \in DOMAIN p[i].nums}
           Found(p) == Valid(UNION {Read(p, i) : i \in {j \in Nodes(p, "text") : Block(p, j)}})
           Same(c, d) == CanonicalPhoneKey(c.num) = CanonicalPhoneKey(d.num)
<1>1. \A p : ContactsTextCandidates(p, existing) =
        {c \in Found(p) : /\ \A d \in existing : ~Same(c, d)
                          /\ \A d \in Found(p) : Same(c, d) => ~Before(d.at, c.at)}
  BY DEF ContactsTextCandidates
<1>2. /\ Nodes(pg2, "text") = Nodes(pg, "text") \cup {last}
      /\ \A i \in Nodes(pg, "text") : pg2[i] = pg[i] /\ i \in Nat /\ i < last
      /\ last \in Nat
  BY AppendText
<1> HIDE DEF pg2, last
<1>3. \A i \in Nodes(pg, "text") : (Block(pg2, i) <=> Block(pg, i)) /\ Read(pg2, i) = Read(pg, i)
  BY <1>2
<1>4. \A p, i : \A c \in Read(p, i) : \E k : c.at = <<7, i, k>>
  BY DEF Candidate
<1> HIDE DEF Block, Read
<1>5. \A p, c : c \in Found(p) <=> ValidatePhone(c.num) /\ \E i \in Nodes(p, "text") : Block(p, i) /\ c \in Read(p, i)
  BY DEF Valid
<1> HIDE DEF Found
<1>6. \A c \in Found(pg) : c \in Found(pg2) /\ \E i \in Nat : \E k : i < last /\ c.at = <<7, i, k>>
  BY <1>2, <1>3, <1>4, <1>5
<1>7. \A c \in Found(pg2) : c \in Found(pg) \/ \E k : c.at = <<7, last, k>>
  BY <1>2, <1>3, <1>4, <1>5
<1>8. \A i \in Nat : \A k, l : i < last => Before(<<7, i, k>>, <<7, last, l>>) /\ ~Before(<<7, last, l>>, <<7, i, k>>)
  BY <1>2 DEF Before
<1> HIDE DEF Same
<1>9. ContactsTextCandidates(pg, existing) \subseteq ContactsTextCandidates(pg2, existing)
  <2>1. SUFFICES ASSUME NEW c \in ContactsTextCandidates(pg, existing)
                 PROVE  c \in ContactsTextCandidates(pg2, existing)
    OBVIOUS
  <2>2. c \in Found(pg2) /\ \A d \in existing : ~Same(c, d)
    BY <1>1, <1>6, <2>1
  <2>3. PICK i \in Nat : \E k : i < last /\ c.at = <<7, i, k>>
    BY <1>1, <1>6, <2>1
  <2>4. ASSUME NEW d \in Found(pg2), Same(c, d) PROVE ~Before(d.at, c.at)
    <3>1. CASE d \in Found(pg)
      BY <1>1, <2>1, <2>4, <3>1
    <3>2. CASE \E l : d.at = <<7, last, l>>
      BY <1>8, <2>3, <3>2
    <3> QED BY <1>7, <3>1, <3>2
  <2> QED BY <1>1, <2>2, <2>4
<1>10. ASSUME NEW c \in ContactsTextCandidates(pg2, existing) \ ContactsTextCandidates(pg, existing)
       PROVE  \A d \in existing \cup ContactsTextCandidates(pg, existing) : ~Same(c, d)
  <2>1. PICK l : c.at = <<7, last, l>>
    <3>1. c \notin Found(pg)
      BY <1>1, <1>6, <1>10
    <3> QED BY <1>1, <1>7, <3>1
  <2>2. ASSUME NEW d \in ContactsTextCandidates(pg, existing) PROVE ~Same(c, d)
    <3>1. d \in Found(pg2) /\ Before(d.at, c.at)
      BY <1>1, <1>6, <1>8, <2>1
    <3> QED BY <1>1, <3>1
  <2> QED BY <1>1, <2>2
<1> QED BY <1>9, <1>10 DEF pg2, Same

\* The facts of some readings.
Collected(all) == ReduceRoleGeneralWins(DedupeKeepStronger(all, [f \in all |-> f.source]), all)

\* What is collected stays, and what is added has the number of one of "more".
Grown(before, after, more) ==
  /\ before \subseteq after
  /\ \A n \in after \ before : \E f \in more : n.num = f.num

\* Readings whose keys are new leave the facts of the others as they were, and
\* are none of theirs.
LEMMA CollectGrows ==
  ASSUME NEW R, NEW more, \A f \in R \cup more : IsFact(f),
         \A r \in more : \A q \in R : CanonicalPhoneKey(r.num) # CanonicalPhoneKey(q.num)
  PROVE  Grown(Collected(R), Collected(R \cup more), more)
<1> DEFINE rank(all) == [f \in all |-> f.source]
           Of(all, num) == {d \in all : d.num = num}
           Chosen(all, f) == Best(Of(all, f.num), rank(all))
           both == R \cup more
<1>1. \A all : Collected(all) = {Reduced(n, all) : n \in {Chosen(all, f) : f \in all}}
  BY ReduceIsReduced DEF Collected, DedupeKeepStronger
<1>2. \A f \in R : \A r \in more : r.num # f.num
  OBVIOUS
<1>3. ASSUME NEW f \in R PROVE Chosen(both, f) = Chosen(R, f)
  <2>1. Of(both, f.num) = Of(R, f.num)
    BY <1>2
  <2> DEFINE S == Of(R, f.num)
  <2>2. \A x \in S : rank(both)[x] = rank(R)[x]
    OBVIOUS
  <2>3. Best(S, rank(both)) = Best(S, rank(R))
    <3> HIDE DEF S, rank
    <3> QED BY <2>2, BestOfRanks
  <2> QED BY <2>1, <2>3
<1>4. ASSUME NEW f \in both
      PROVE  IsFact(Chosen(both, f)) /\ Chosen(both, f).num = f.num
  <2> DEFINE S == Of(both, f.num)
  <2>1. S # {} /\ \A x \in S : rank(both)[x] \in 0..6 /\ x.at \in Places
    BY DEF IsFact
  <2>2. Best(S, rank(both)) \in S
    <3> HIDE DEF S, rank
    <3> QED BY <2>1, BestIsBest
  <2> QED BY <2>2
<1>5. ASSUME NEW f \in R
      PROVE  Reduced(Chosen(R, f), both) = Reduced(Chosen(R, f), R)
  <2> DEFINE n == Chosen(R, f)
             General(all) == {g \in all : g.num = n.num /\ g.role = "general"}
  <2>1. General(both) = General(R)
    <3> HIDE DEF n
    <3>1. n.num = f.num
      BY <1>3, <1>4 DEF n
    <3> QED BY <1>2, <3>1
  <2>2. \A all : Reduced(n, all) =
                   IF General(all) = {} THEN n
                   ELSE [n EXCEPT !.role = "general",
                                  !.label = Best(General(all), [g \in General(all) |-> 0]).label]
    <3> HIDE DEF n
    <3> QED BY DEF Reduced
  <2> HIDE DEF n, General
  <2> QED BY <2>1, <2>2 DEF n
<1> HIDE DEF Chosen
<1>6. Collected(R) \subseteq Collected(both)
  <2>1. SUFFICES ASSUME NEW f \in R PROVE Reduced(Chosen(R, f), R) \in Collected(both)
    BY <1>1
  <2>2. Reduced(Chosen(R, f), R) = Reduced(Chosen(both, f), both)
    BY <1>3, <1>5
  <2> QED BY <1>1, <2>2
<1>7. ASSUME NEW n \in Collected(both) \ Collected(R)
      PROVE  \E f \in more : n.num = f.num
  <2>1. PICK f \in both : n = Reduced(Chosen(both, f), both)
    BY <1>1
  <2>2. f \notin R
    <3>1. SUFFICES ASSUME f \in R PROVE FALSE
      OBVIOUS
    <3>2. n = Reduced(Chosen(R, f), R)
      BY <1>3, <1>5, <2>1, <3>1
    <3>3. n \in Collected(R)
      BY <1>1, <3>1, <3>2
    <3> QED BY <3>3
  <2>3. n.num = f.num
    <3> DEFINE m == Chosen(both, f)
    <3>1. IsFact(m) /\ m.num = f.num
      BY <1>4
    <3> HIDE DEF m, both
    <3>2. Reduced(m, both).num = m.num
      BY <3>1, ReducedFact
    <3> QED BY <2>1, <3>1, <3>2 DEF m
  <2> QED BY <2>2, <2>3
<1> QED BY <1>6, <1>7 DEF Grown

\* The page's numbers stay as they were, and what is added has none of their keys.
LEMMA TextOnlyAdds ==
  ASSUME NEW pg \in Seq(PageNodes), NEW node \in PageNodes, node.kind = "text"
  PROVE  LET before == CollectSiteNumbers(pg, FALSE)
             after == CollectSiteNumbers(Append(pg, node), FALSE)
         IN  /\ before \subseteq after
             /\ \A n \in after \ before : \A m \in before :
                  CanonicalPhoneKey(n.num) # CanonicalPhoneKey(m.num)
<1> DEFINE pg2 == Append(pg, node)
           structured == CollectPhoneCandidates(pg, {}) \cup BranchJSONCandidates(pg)
                           \cup SchemaPlaceCandidates(pg)
           text == ContactsTextCandidates(pg, structured)
           more == ContactsTextCandidates(pg2, structured) \ text
           dni == DetectDNIVendor(pg) \/ FALSE
           Facts(cands) == {PhoneNumberFact(c, dni) : c \in cands}
<1>1. text \subseteq ContactsTextCandidates(pg2, structured)
      /\ \A c \in more : \A d \in structured \cup text :
           CanonicalPhoneKey(c.num) # CanonicalPhoneKey(d.num)
  <2> HIDE DEF structured
  <2> QED BY TextCandidatesGrow
<1>2. AllCandidates(pg) = structured \cup text /\ AllCandidates(pg2) = AllCandidates(pg) \cup more
  <2>1. AllCandidates(pg) = structured \cup text
    BY DEF AllCandidates
  <2>2. AllCandidates(pg2) = structured \cup ContactsTextCandidates(pg2, structured)
    BY SameFinders DEF AllCandidates
  <2> QED BY <1>1, <2>1, <2>2
<1> HIDE DEF structured, text, more
<1>3. (DetectDNIVendor(pg2) \/ FALSE) = dni /\ pg2 \in Seq(PageNodes)
  <2>1. DetectDNIVendor(pg2) <=> DetectDNIVendor(pg)
    BY SameFinders
  <2> QED BY <2>1
<1> HIDE DEF pg2
<1> DEFINE R == Facts(AllCandidates(pg))
           added == Facts(more)
<1>4. Readings(pg, FALSE) = R /\ Readings(pg2, FALSE) = R \cup added
  <2>1. Readings(pg, FALSE) = R
    BY DEF Readings
  <2>2. Readings(pg2, FALSE) = Facts(AllCandidates(pg2))
    BY <1>3 DEF Readings
  <2>3. Facts(AllCandidates(pg) \cup more) = R \cup added
    OBVIOUS
  <2> QED BY <1>2, <2>1, <2>2, <2>3
<1>5. \A r \in added : \A q \in R : CanonicalPhoneKey(r.num) # CanonicalPhoneKey(q.num)
  <2>1. \A c : PhoneNumberFact(c, dni).num = c.num
    BY DEF PhoneNumberFact
  <2> HIDE DEF dni
  <2> QED BY <1>1, <1>2, <2>1
<1>6. \A f \in R \cup added : IsFact(f)
  BY <1>3, <1>4, ReadingTypes
<1>7. CollectSiteNumbers(pg, FALSE) = Collected(R) /\ CollectSiteNumbers(pg2, FALSE) = Collected(R \cup added)
  BY <1>4 DEF CollectSiteNumbers, Collected
<1> HIDE DEF R, added
<1>8. Grown(Collected(R), Collected(R \cup added), added)
  BY <1>5, <1>6, CollectGrows
<1>9. \A m \in Collected(R) : \E q \in R : m.num = q.num
  <2>1. PageFacts(CollectSiteNumbers(pg, FALSE), Readings(pg, FALSE))
    BY CollectFacts
  <2> QED BY <1>4, <1>7, <2>1 DEF PageFacts, PageFact
<1>10. ASSUME NEW n \in Collected(R \cup added) \ Collected(R), NEW m \in Collected(R)
       PROVE  CanonicalPhoneKey(n.num) # CanonicalPhoneKey(m.num)
  <2>1. PICK f \in added : n.num = f.num
    BY <1>8 DEF Grown
  <2>2. PICK q \in R : m.num = q.num
    BY <1>9
  <2> QED BY <1>5, <2>1, <2>2
<1> QED BY <1>7, <1>8, <1>10 DEF pg2, Grown

(***************************************************************************)
(* The theorems.                                                           *)
(***************************************************************************)
\* The one phone and the set of numbers judge every call-tracking page alike:
\* what one refuses the other does not trust (resolvePhoneForCityDNI and
\* dniTrustworthy).
THEOREM VerdictsAgreeCorrect == SiteSpec => []VerdictsAgree
<1>1. SiteInv => VerdictsAgree
  BY VerdictsAgreeHolds DEF SiteInv, SiteTypeOK
<1> QED BY <1>1, SiteInvInvariant, PTL

\* On every page the number set has the hard-coded links, and the phone of a
\* tracked page is one of them or refused: with VerdictsAgreeCorrect, what Enrich
\* assumes of the pages (Extracted) is what the extractor makes of any page.
THEOREM PagesAreExtractedCorrect == SiteSpec => []PagesAreExtracted
<1>1. SiteInv => PagesAreExtracted
  BY PagesAreExtractedHolds DEF SiteInv, SiteTypeOK
<1> QED BY <1>1, SiteInvInvariant, PTL

\* Over any number of pages addSiteNumbers keeps every number read, once, with
\* the best trust of any page, and general if any reading was.
THEOREM AccumulatesAllReadingsCorrect == SiteSpec => []AccumulatesAllReadings
<1>1. SiteInv => AccumulatesAllReadings
  BY DEF SiteInv
<1> QED BY <1>1, SiteInvInvariant, PTL

\* On every page without call tracking a number of the city wins the phone
\* (pickPhoneCandidate and applyContactOverride), and is not tagged foreign.
THEOREM CityLocalWinsCorrect == SiteSpec => []CityLocalWins
<1>1. SiteInv => CityLocalWins
  BY CityLocalWinsHolds
<1> QED BY <1>1, SiteInvInvariant, PTL

\* On every page an empty Address means that no address the cascade looks at is
\* a venue's (orgAddressIsLegal and the layers around it).
THEOREM VenueKeepsItsSlotCorrect == SiteSpec => []VenueKeepsItsSlot
<1>1. SiteInv => VenueKeepsItsSlot
  BY VenueKeepsItsSlotHolds DEF SiteInv, SiteTypeOK
<1> QED BY <1>1, SiteInvInvariant, PTL

\* Printing more text near a phone label changes no number read so far and adds
\* no second form of one (contactsTextCandidates).
THEOREM TextOnlyFillsGapsCorrect == SiteSpec => TextOnlyFillsGaps
<1> DEFINE Fills == LET before == SiteNumbers
                        after == CollectSiteNumbers(page', FALSE)
                    IN  Len(page') > Len(page) /\ page'[Len(page')].kind = "text" =>
                          /\ before \subseteq after
                          /\ \A n \in after \ before : \A m \in before :
                               CanonicalPhoneKey(n.num) # CanonicalPhoneKey(m.num)
<1>1. SiteInv /\ [SiteNext]_siteVars => [Fills]_siteVars
  <2> SUFFICES ASSUME SiteInv, SiteNext, Len(page') > Len(page), page'[Len(page')].kind = "text"
               PROVE  LET before == CollectSiteNumbers(page, FALSE)
                          after == CollectSiteNumbers(page', FALSE)
                      IN  /\ before \subseteq after
                          /\ \A n \in after \ before : \A m \in before :
                               CanonicalPhoneKey(n.num) # CanonicalPhoneKey(m.num)
    BY DEF SiteNumbers
  <2>1. page \in Seq(PageNodes)
    BY DEF SiteInv, SiteTypeOK
  <2>2. PICK node \in PageNodes : page' = Append(page, node)
    <3>1. CASE \E node \in PageNodes : Publish(node)
      BY <3>1 DEF Publish
    <3>2. CASE \E rawPoisoned \in BOOLEAN : ReadPage(rawPoisoned)
      <4>1. page' = <<>>
        BY <3>2 DEF ReadPage
      <4> QED BY <2>1, <4>1
    <3> QED BY <3>1, <3>2 DEF SiteNext
  <2>3. page'[Len(page')] = node
    BY <2>1, <2>2
  <2> QED BY <2>1, <2>2, <2>3, TextOnlyAdds
<1> QED BY <1>1, SiteInvInvariant, PTL DEF SiteSpec, TextOnlyFillsGaps

=============================================================================
