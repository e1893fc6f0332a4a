----------------------------- MODULE SiteFacts -----------------------------
(***************************************************************************)
(* The facts of an official site (extract/facts.go, legal_address.go and   *)
(* structured/parser.go, with the readers of <address> in contacts.go):    *)
(* the phone with its refusal and the two addresses, over pages that a     *)
(* site prints node by node and the enricher reads one after another.      *)
(*                                                                         *)
(* SitePhone has the nodes that show numbers.  A "place" or an "org" is a  *)
(* schema.org item: a phone, an address, the rank of its type, and whether *)
(* an org carries a legal identifier or a legalName.  An "event" has a     *)
(* location, "labelled" is text with an address label, "address" is the    *)
(* element of that name.                                                   *)
(***************************************************************************)
EXTENDS SitePhone

CONSTANTS
  PageNodes,     \* the nodes a site may print
  MaxPages,      \* bound: pages read for one item; the code reads two
  MaxNodes       \* bound: nodes a site prints in all

ASSUME SiteAssumption == MaxPages \in Nat /\ MaxNodes \in Nat

\* What is listed is a sequence, types have a rank, and an item has one address
\* at most; a marker is found or it is not.
ASSUME NodesAssumption ==
  \A node \in PageNodes :
    /\ node.kind \in {"script", "text"} => node.nums \in Seq([prefix : {"7", "8"}, code : Nat, line : Nat])
    /\ node.kind \in {"place", "org", "event"} =>
         /\ node.type \in Nat
         /\ \A a, b \in node.addr : a = b
    /\ node.kind = "address" => node.addr.marker \in BOOLEAN

(***************************************************************************)
(* Phone: layers 1 and 2, and the contact override.                        *)
(***************************************************************************)
\* FirstPlace and FirstOrganization: types in the order the code lists them,
\* then document order.
FirstItem(page, kind) ==
  {i \in Nodes(page, kind) :
     \A j \in Nodes(page, kind) :
       page[i].type < page[j].type \/ (page[i].type = page[j].type /\ i <= j)}

ItemPhone(page, kind) == {n \in UNION {page[i].phone : i \in FirstItem(page, kind)} : ValidatePhone(n)}

Layer1Phone(page) ==
  LET place == ItemPhone(page, "place")
  IN  IF place # {} THEN place ELSE ItemPhone(page, "org")

\* What regexPhone sees of a node once scripts and the head are stripped: text
\* and attributes, a widget's tel: among them.  Of the href of a WhatsApp link
\* it sees a number that is written with "+7" or "8", not the bare wa.me/7...;
\* shown tells which.
VisibleNumbers(node) ==
  IF node.kind \in {"tel", "microdata"} \/ (node.kind = "social" /\ node.shown) THEN <<node.num>>
  ELSE IF node.kind = "text" THEN node.nums ELSE <<>>

RegexPhone(page) ==
  LET seen == {i \in DOMAIN page : VisibleNumbers(page[i]) # <<>>}
      first == {i \in seen : \A j \in seen : i <= j}
  IN  {n \in {VisibleNumbers(page[i])[1] : i \in first} : ValidatePhone(n)}

PriorPhone(page) ==
  IF Layer1Phone(page) # {} THEN Layer1Phone(page) ELSE RegexPhone(page)

\* applyContactOverride.
PhoneFact(page, city) ==
  LET prior == PriorPhone(page)
      found == ResolvePhoneForCityDNI(page, city, prior)
      Overrides(c) == \/ c.num.code \in CityAreaCodes[city]
                      \/ RegionForTier(c.tier) \in {"contacts", "microdata"}
                      \/ prior = {}
  IN  [poisoned |-> found.omit,
       phone |-> IF found.omit THEN {}
                 ELSE IF \E c \in found.phone : Overrides(c) THEN {c.num : c \in found.phone}
                 ELSE prior]

(***************************************************************************)
(* Addresses.  marker: reLegalAddressMarker finds a legal identifier, a    *)
(* legal label or a company form in it.                                    *)
(***************************************************************************)
IsLegalAddress(a) == a.marker

ValidateAddress(a) == a.valid

\* firstVenueAddressElement.
VenueElement(page) ==
  LET venues == {i \in Nodes(page, "address") :
                   ValidateAddress(page[i].addr) /\ ~IsLegalAddress(page[i].addr)}
  IN  {page[i].addr : i \in {j \in venues : \A k \in venues : j <= k}}

BUG_ItemtypeSuffices(org, venue, page) == TRUE

\* orgAddressIsLegal; venue is the address the layers before it have found.
OrgAddressIsLegal(org, venue, page) ==
  \/ org.legalID \/ org.legalName
  \/ \E a \in org.addr :
       IsLegalAddress(a) \/ \E v \in venue \cup VenueElement(page) : v # a

\* The offers of a layer: an address and the slot it is routed to.
Routed(addrs, legal) ==
  {[addr |-> a, legal |-> legal \/ IsLegalAddress(a)] : a \in {b \in addrs : ValidateAddress(b)}}

\* A slot filled before stays.
Fill(slot, offers, legal) ==
  IF slot # {} THEN slot ELSE {o.addr : o \in {p \in offers : p.legal = legal}}

FirstElement(page, legal) ==
  LET of == {i \in Nodes(page, "address") :
               ValidateAddress(page[i].addr) /\ IsLegalAddress(page[i].addr) = legal}
  IN  UNION {Routed({page[i].addr}, legal) : i \in {j \in of : \A k \in of : j <= k}}

\* Place, event, organisation, first label, elements: each fills what is empty.
AddressFacts(page) ==
  LET ofPlace == Routed(UNION {page[i].addr : i \in FirstItem(page, "place")}, FALSE)
      ofEvent == Routed(UNION {page[i].addr : i \in FirstItem(page, "event")}, FALSE)
      venueBefore == Fill(Fill({}, ofPlace, FALSE), ofEvent, FALSE)
      ofOrg == UNION {Routed(page[i].addr, OrgAddressIsLegal(page[i], venueBefore, page))
                        : i \in FirstItem(page, "org")}
      labels == Nodes(page, "labelled")
      ofLabel == UNION {Routed({page[i].addr}, FALSE)
                          : i \in {j \in labels : \A k \in labels : j <= k}}
      Slot(legal) ==
        Fill(Fill(Fill(Fill(Fill({}, ofPlace, legal), ofEvent, legal), ofOrg, legal),
                  ofLabel, legal),
             FirstElement(page, legal), legal)
  IN  [address |-> Slot(FALSE), legalAddress |-> Slot(TRUE)]

(***************************************************************************)
(* A site prints its pages and the enricher reads them.                    *)
(***************************************************************************)
VARIABLES
  city,      \* Item.City
  page,      \* what the page being fetched prints so far
  visited,   \* the pages read, each with the poison verdict of its raw fetch
  numbers    \* the resolver's siteNumbers

siteVars == <<city, page, visited, numbers>>

Pages == {visited[i] : i \in DOMAIN visited}

Publish(node) ==
  /\ Len(visited) < MaxPages
  /\ Len(page) + (IF visited = <<>> THEN 0 ELSE Len(visited[1].page)) < MaxNodes
  /\ page' = Append(page, node)
  /\ UNCHANGED <<city, visited, numbers>>

\* fetchAndExtract or mergeContactsPage, as far as numbers go: the page's own
\* refusal counts, or that of the raw page a render replaced.
ReadPage(rawPoisoned) ==
  /\ Len(visited) < MaxPages
  /\ page # <<>>
  /\ LET poisoned == rawPoisoned \/ PhoneFact(page, city).poisoned \/ DetectDNIVendor(page)
     IN  /\ visited' = Append(visited, [page |-> page, poisoned |-> poisoned])
         /\ numbers' = AddSiteNumbers(numbers, CollectSiteNumbers(page, poisoned), city)
  /\ page' = <<>>
  /\ UNCHANGED city

SiteInit == city \in Cities /\ page = <<>> /\ visited = <<>> /\ numbers = {}

SiteNext ==
  \/ \E node \in PageNodes : Publish(node)
  \/ \E rawPoisoned \in BOOLEAN : ReadPage(rawPoisoned)

SiteSpec == SiteInit /\ [][SiteNext]_siteVars

(***************************************************************************)
(* Properties.                                                             *)
(***************************************************************************)
SiteNumbers == CollectSiteNumbers(page, FALSE)
Trusted == {n \in SiteNumbers : n.trustworthy}

\* The single phone and the number set judge a call-tracking page alike, one
\* in resolvePhoneForCityDNI and the other through dniTrustworthy: a refused
\* phone means no number of the set is trusted either, a phone reported there
\* is a trusted one, and a trusted number means a phone is reported.  A
\* toll-free social link is the exception: only the set takes it.
VerdictsAgree ==
  LET fact == PhoneFact(page, city)
      Local == {n \in Trusted : ~IsTollFree(n.num.code)}
  IN  /\ fact.poisoned => DetectDNIVendor(page) /\ fact.phone = {} /\ Local = {}
      /\ DetectDNIVendor(page) =>
           /\ fact.phone \subseteq {n.num : n \in Trusted}
           /\ Local # {} => fact.phone # {}

SocialNumbers == {page[i].num : i \in {j \in Nodes(page, "social") : ValidatePhone(page[j].num)}}

\* With VerdictsAgree, what the pipeline takes a page to be (Enrich's Extracted; fetchAndExtract and
\* mergeContactsPage compare facts and number set of different versions of it):
\* a hard-coded WhatsApp link always shows in the number set, whatever the same
\* number is printed as elsewhere; next to a widget only such a link can be the
\* phone, and if none is although the page has one, the phone was refused.
PagesAreExtracted ==
  LET fact == PhoneFact(page, city)
  IN  /\ SocialNumbers \subseteq {n.num : n \in {m \in SiteNumbers : m.anchored}}
      /\ DetectDNIVendor(page) =>
           /\ fact.phone \subseteq SocialNumbers
           /\ SocialNumbers # {} /\ fact.phone = {} => fact.poisoned

\* However the pages' numbers are merged (addSiteNumbers after the dedupe of
\* each page), the set holds every number read, once, with the best trust any
\* page gave it, and departmental only if no reading on any page was general.
AccumulatesAllReadings ==
  LET perPage == UNION {CollectSiteNumbers(v.page, v.poisoned) : v \in Pages}
      readings == UNION {Readings(v.page, v.poisoned) : v \in Pages}
  IN  /\ {n.num : n \in numbers} = {r.num : r \in readings}
      /\ \A n \in numbers :
           /\ \A m \in numbers : m.num = n.num => m = n
           /\ \E f \in perPage : f.num = n.num /\ SiteNumberRank(f) = SiteNumberRank(n)
           /\ \A f \in perPage : f.num = n.num => SiteNumberRank(f) <= SiteNumberRank(n)
           /\ n.role = "general" <=> \E r \in readings : r.num = n.num /\ r.role = "general"

\* Text near a phone label fills gaps (contactsTextCandidates): printing more
\* of it changes nothing of the numbers already read, their trust or their
\* role, and adds no second form of one of them.
TextOnlyFillsGaps ==
  [][LET before == SiteNumbers
         after == CollectSiteNumbers(page', FALSE)
     IN  Len(page') > Len(page) /\ page'[Len(page')].kind = "text" =>
           /\ before \subseteq after
           /\ \A n \in after \ before : \A m \in before :
                CanonicalPhoneKey(n.num) # CanonicalPhoneKey(m.num)]_siteVars

\* The local-area-code rule: without call tracking, a number of the city
\* anywhere among the candidates, the earlier layers' included, makes the
\* phone a number of the city, whatever tier or order the others have; and the
\* numbers of the site that are tagged foreign are never the phone then.
CityLocalWins ==
  LET cands == CollectPhoneCandidates(page, PriorPhone(page))
      Membership(n) == ClassifyCityMembership(n, city)
  IN  ~DetectDNIVendor(page) /\ (\E c \in cands : Membership(c.num).match) =>
        \E n \in PhoneFact(page, city).phone :
          Membership(n).match /\ \A m \in numbers : m.num = n => ~m.foreign

\* No venue loses its map slot to the legal one (orgAddressIsLegal, which must
\* look ahead at the elements of a later layer): if Address stays empty, every
\* valid address that a layer of the cascade looks at, the first label's too, is
\* legal by its own words, or is that of an organisation with a legal identifier
\* or name.
VenueKeepsItsSlot ==
  LET labels == Nodes(page, "labelled")
      Offered(i) == IF page[i].kind \in {"labelled", "address"} THEN {page[i].addr} ELSE page[i].addr
      LookedAt == FirstItem(page, "place") \cup FirstItem(page, "event")
                    \cup FirstItem(page, "org") \cup Nodes(page, "address")
                    \cup {j \in labels : \A k \in labels : j <= k}
  IN  AddressFacts(page).address = {} =>
        \A i \in LookedAt : \A a \in Offered(i) :
          \/ ~ValidateAddress(a) \/ IsLegalAddress(a)
          \/ page[i].kind = "org" /\ (page[i].legalID \/ page[i].legalName)

=============================================================================
