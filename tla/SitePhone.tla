----------------------------- MODULE SitePhone -----------------------------
(***************************************************************************)
(* The phones of one official-site page (extract/contacts.go,              *)
(* sitenumbers.go, dni.go, citycode.go, branchjson.go, schemaplace.go,     *)
(* contactstext.go and phonerole.go): which candidates the finders read    *)
(* off the DOM, which single one becomes the phone of the page, and the    *)
(* whole set that becomes its SiteNumbers with trust and role.             *)
(*                                                                         *)
(* A page is the sequence of its nodes in document order, and a node is    *)
(* what one finder may see of it.  Candidates are a set: each carries the  *)
(* place where the code would append it, <<finder, node, nth>>, so that    *)
(* "the first" is the least place.  An optional value is a set of at most  *)
(* one element.                                                            *)
(***************************************************************************)
EXTENDS Naturals, FiniteSets, Sequences

CONSTANTS
  Labels,                \* texts printed near numbers
  DepartmentalLabels,    \* those classifyPhoneRole matches: rental desk, accounts, fax
  MaxPhoneLabelAncestor, \* levels above a number that are searched for a label
  MaxBranchCandidates    \* cap on the candidates of one page's branch data

NoLabel == ""

ASSUME LabelsAssumption == NoLabel \notin Labels /\ DepartmentalLabels \subseteq Labels
ASSUME CapsAssumption == MaxPhoneLabelAncestor \in Nat /\ MaxBranchCandidates \in Nat \ {0}

(***************************************************************************)
(* Numbers: a trunk prefix, an area code, and the rest of the line.  Their *)
(* digits are the whole record; "8 (812)" and "+7 (812)" differ.           *)
(***************************************************************************)
ValidCodeRanges ==
  {<<301, 349>>, <<351, 395>>, <<401, 499>>, <<800, 816>>, <<820, 879>>, <<900, 999>>}

IsValidAreaCode(code) == \E r \in ValidCodeRanges : r[1] <= code /\ code <= r[2]
IsTollFree(code) == code = 800
IsGeographicAreaCode(code) ==
  IsValidAreaCode(code) /\ code \notin 900..999 /\ ~IsTollFree(code) /\ code \notin 803..809

ValidatePhone(n) == IsValidAreaCode(n.code)

CanonicalPhoneKey(n) == [n EXCEPT !.prefix = "7"]

CityAreaCodes == [spb |-> {812}, moscow |-> {495, 499}, elsewhere |-> {}]
Cities == DOMAIN CityAreaCodes

ClassifyCityMembership(n, city) ==
  LET match == n.code \in CityAreaCodes[city]
  IN  [match |-> match,
       foreign |-> CityAreaCodes[city] # {} /\ IsGeographicAreaCode(n.code) /\ ~match]

(***************************************************************************)
(* Tiers (contacts.go).                                                    *)
(***************************************************************************)
Demoted == 0
Microdata == 1
Body == 2
Contacts == 3
BranchJSON == 4
SchemaPlace == 5
SocialLink == 6

BUG_StructuredOnly(tier) == tier \in {Microdata, Contacts, BranchJSON, SchemaPlace}

NumberIsAnchored(tier) == tier \in {Microdata, Contacts, BranchJSON, SchemaPlace, SocialLink}

BUG_AnchoredEvenThen(tier, dni) == NumberIsAnchored(tier)

DniTrustworthy(tier, dni) == IF dni THEN tier = SocialLink ELSE NumberIsAnchored(tier)

\* The region of a node: the classes of its ancestors, nearest first.
Levels(up, class) == {i \in DOMAIN up : class \in up[i]}
InsideTracker(up) == Levels(up, "tracker") # {}

\* isCallTrackingDemoted: the nearest tracker has no contacts region above it
\* only if it merely wraps one.
CallTrackingDemoted(up) ==
  /\ InsideTracker(up)
  /\ \/ Levels(up, "contacts") = {}
     \/ \E i \in Levels(up, "tracker") :
          /\ \A j \in Levels(up, "tracker") : i <= j
          /\ \E k \in Levels(up, "contacts") : i <= k

TelTier(up) ==
  IF CallTrackingDemoted(up) THEN Demoted
  ELSE IF Levels(up, "contacts") # {} THEN Contacts ELSE Body

(***************************************************************************)
(* Roles (phonerole.go).  "near" lists, from the number's node upwards,    *)
(* the siblings before it, nearest first, and the node's own text.         *)
(***************************************************************************)
ClassifyPhoneRole(label) ==
  IF label \in DepartmentalLabels THEN "departmental" ELSE "general"

PrecedingLabel(siblings) ==
  LET texts == SelectSeq(siblings, LAMBDA s : ~s.nav /\ ~s.phone /\ s.text # NoLabel)
  IN  IF texts = <<>> THEN NoLabel ELSE texts[1].text

LevelLabel(near, depth) ==
  LET level == near[depth]
      before == PrecedingLabel(level.before)
  IN  IF before # NoLabel THEN before
      ELSE IF depth > 1 /\ ~level.nav THEN level.own ELSE NoLabel

RoleLabel(near) ==
  LET depths == {d \in DOMAIN near : d <= MaxPhoneLabelAncestor + 1 /\ LevelLabel(near, d) # NoLabel}
  IN  IF depths = {} THEN NoLabel
      ELSE LevelLabel(near, CHOOSE d \in depths : \A e \in depths : d <= e)

(***************************************************************************)
(* Candidates and the finders.                                             *)
(***************************************************************************)
\* Places are compared finder by finder, then node by node, then within a node.
Before(p, q) ==
  \/ p[1] < q[1]
  \/ p[1] = q[1] /\ (p[2] < q[2] \/ (p[2] = q[2] /\ p[3] < q[3]))

\* The first of the best: a later candidate must be strictly better to win.
Best(cands, rank) ==
  CHOOSE c \in cands :
    \A d \in cands : rank[d] < rank[c] \/ (rank[d] = rank[c] /\ ~Before(d.at, c.at))

Candidate(n, natural, label, at) ==
  [num |-> n, natural |-> natural, label |-> label, at |-> at,
   tier |-> IF IsTollFree(n.code) THEN Demoted ELSE natural]

Valid(cands) == {c \in cands : ValidatePhone(c.num)}

Nodes(page, kind) == {i \in DOMAIN page : page[i].kind = kind}

PriorCandidates(prior) == {Candidate(n, Microdata, NoLabel, <<0, 0, 0>>) : n \in prior}

SocialLinkCandidates(page) ==
  {Candidate(page[i].num, SocialLink, NoLabel, <<1, i, 0>>) : i \in Nodes(page, "social")}

TelCandidates(page) ==
  {Candidate(page[i].num, TelTier(page[i].up), RoleLabel(page[i].near), <<2, i, 0>>)
     : i \in Nodes(page, "tel")}

MicrodataCandidates(page) ==
  {Candidate(page[i].num, Microdata, RoleLabel(page[i].near), <<3, i, 0>>)
     : i \in Nodes(page, "microdata")}

OgPhoneCandidates(page) ==
  {Candidate(page[i].num, Microdata, NoLabel, <<4, i, 0>>) : i \in Nodes(page, "og")}

CollectPhoneCandidates(page, prior) ==
  Valid(PriorCandidates(prior) \cup SocialLinkCandidates(page) \cup TelCandidates(page)
          \cup MicrodataCandidates(page) \cup OgPhoneCandidates(page))

Capped(cands) ==
  {c \in cands : Cardinality({d \in cands : Before(d.at, c.at)}) < MaxBranchCandidates}

\* Inline executable scripts of a bounded size, with the phone values of the
\* JSON literals they assign.
BranchJSONCandidates(page) ==
  Capped(Valid(UNION {{Candidate(page[i].nums[k], BranchJSON, NoLabel, <<5, i, k>>)
                         : k \in DOMAIN page[i].nums}
                        : i \in {j \in Nodes(page, "script") : ~page[j].src /\ page[j].runs}}))

\* A single place is left to the fact cascade.
SchemaPlaceCandidates(page) ==
  LET places == Nodes(page, "place")
  IN  IF Cardinality(places) < 2 THEN {}
      ELSE Capped(Valid(UNION {{Candidate(n, SchemaPlace, NoLabel, <<6, i, 0>>)
                                  : n \in page[i].phone} : i \in places}))

BUG_FillsOwnForm(page, existing) ==
  Valid(UNION {{Candidate(page[i].nums[k], Contacts, RoleLabel(page[i].near), <<7, i, k>>)
                  : k \in DOMAIN page[i].nums}
                 : i \in {j \in Nodes(page, "text") : page[j].labelled /\ ~page[j].idLabel}})

\* Plain text near a phone label fills gaps only: no number of the structured
\* finders in either form, none of a tracker or of a requisites block.
ContactsTextCandidates(page, existing) ==
  LET blocks == {i \in Nodes(page, "text") :
                   page[i].labelled /\ ~page[i].idLabel /\ ~InsideTracker(page[i].up)}
      found == Valid(UNION {{Candidate(page[i].nums[k], Contacts, RoleLabel(page[i].near), <<7, i, k>>)
                               : k \in DOMAIN page[i].nums} : i \in blocks})
      Same(c, d) == CanonicalPhoneKey(c.num) = CanonicalPhoneKey(d.num)
  IN  {c \in found : /\ \A d \in existing : ~Same(c, d)
                     /\ \A d \in found : Same(c, d) => ~Before(d.at, c.at)}

DetectDNIVendor(page) ==
  \E i \in Nodes(page, "script") :
    IF page[i].src THEN "loader" \in page[i].tokens ELSE "config" \in page[i].tokens

(***************************************************************************)
(* The phone of the page: resolvePhoneForCityDNI.                          *)
(***************************************************************************)
PickTier(c) == IF c.tier = SocialLink THEN Body ELSE c.tier

BUG_ContactsFirst(cands, city) == Best(cands, [c \in cands |-> PickTier(c)])

PickPhoneCandidate(cands, city) ==
  LET local == {c \in cands : c.num.code \in CityAreaCodes[city]}
      pool == IF local # {} THEN local ELSE cands
  IN  Best(pool, [c \in pool |-> PickTier(c)])

RegionForTier(tier) ==
  IF tier \in {SocialLink, Contacts} THEN "contacts"
  ELSE IF tier = Microdata THEN "microdata" ELSE "other"

BUG_AnyPhoneThen(page, city, prior) ==
  LET cands == CollectPhoneCandidates(page, prior)
  IN  IF cands = {} THEN [phone |-> {}, omit |-> FALSE]
      ELSE [phone |-> {PickPhoneCandidate(cands, city)}, omit |-> FALSE]

\* "phone" is {} or one candidate, "omit" is dniOmit.
ResolvePhoneForCityDNI(page, city, prior) ==
  LET cands == CollectPhoneCandidates(page, prior)
      social == {c \in cands : c.tier = SocialLink}
  IN  IF cands = {} THEN [phone |-> {}, omit |-> FALSE]
      ELSE IF ~DetectDNIVendor(page)
      THEN [phone |-> {PickPhoneCandidate(cands, city)}, omit |-> FALSE]
      ELSE [phone |-> IF social = {} THEN {} ELSE {Best(social, [c \in social |-> 0])},
            omit |-> social = {}]

(***************************************************************************)
(* The SiteNumbers of the page, and their union over pages.                *)
(***************************************************************************)
AllCandidates(page) ==
  LET structured == CollectPhoneCandidates(page, {}) \cup BranchJSONCandidates(page)
                      \cup SchemaPlaceCandidates(page)
  IN  structured \cup ContactsTextCandidates(page, structured)

\* Its Source is the natural tier.
PhoneNumberFact(c, dni) ==
  [num |-> c.num, source |-> c.natural, at |-> c.at, dni |-> dni,
   anchored |-> NumberIsAnchored(c.natural), trustworthy |-> DniTrustworthy(c.natural, dni),
   label |-> c.label, role |-> ClassifyPhoneRole(c.label), match |-> FALSE, foreign |-> FALSE]

DedupeKeepStronger(facts, rank) == {Best({d \in facts : d.num = f.num}, rank) : f \in facts}

BUG_RoleRides(out, all) == out

ReduceRoleGeneralWins(out, all) ==
  {LET general == {f \in all : f.num = n.num /\ f.role = "general"}
   IN  IF general = {} THEN n
       ELSE [n EXCEPT !.role = "general",
                      !.label = Best(general, [f \in general |-> 0]).label] : n \in out}

Readings(page, pagePoisoned) ==
  LET dni == DetectDNIVendor(page) \/ pagePoisoned
  IN  {PhoneNumberFact(c, dni) : c \in AllCandidates(page)}

CollectSiteNumbers(page, pagePoisoned) ==
  LET all == Readings(page, pagePoisoned)
  IN  ReduceRoleGeneralWins(DedupeKeepStronger(all, [f \in all |-> f.source]), all)

SiteNumberRank(n) == (IF n.anchored THEN 1 ELSE 0) + (IF n.trustworthy THEN 2 ELSE 0)

BUG_LastPageWins(numbers, nums, city) ==
  {n \in numbers : \A m \in nums : m.num # n.num} \cup nums

Tagged(n, city) ==
  LET membership == ClassifyCityMembership(n.num, city)
  IN  [n EXCEPT !.match = membership.match, !.foreign = membership.foreign]

\* addSiteNumbers: what is there comes before what the page adds, tagged.
AddSiteNumbers(numbers, nums, city) ==
  LET older == {[n EXCEPT !.at = <<0, 0, 0>>] : n \in numbers}
      newer == {[Tagged(n, city) EXCEPT !.at = <<1, 0, 0>>] : n \in nums}
      all == older \cup newer
  IN  ReduceRoleGeneralWins(DedupeKeepStronger(all, [n \in all |-> SiteNumberRank(n)]), all)
=============================================================================
