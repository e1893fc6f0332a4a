------------------------------ MODULE MCEnrich ------------------------------
(***************************************************************************)
(* Instances of Enrich for TLC: the phone, and the hours as the other      *)
(* contact fact that decides which version of a page is richer.            *)
(***************************************************************************)
EXTENDS Enrich

MCValues == [f \in Fields |->
  CASE f = "phone" -> {"own", "whatsapp", "proxy"}
    [] f = "hours" -> {"hours"}
    [] OTHER -> {}]
MCLength == [v \in AllValues |-> 1]

\* Phones and hours of one source; no item of this instance has a website.
Val(phone, hours) ==
  [f \in Fields |-> CASE f = "phone" -> phone [] f = "hours" -> hours [] OTHER -> Absent]

Phones == Values["phone"] \cup {Absent}
Offer(phone) == [val |-> Val(phone, Absent), fills |-> {}, poisoned |-> FALSE]

\* The item pins nothing; the maps and the search offer the venue's own phone.
MCSeeds == {Nothing}
MCCards == {Offer("own")}
MCSnippets == {Nothing, Offer("own")}
MCSearchFacts == {Nothing, Offer("own")}

\* A page anchors its own phone or one that only branch JSON has; next to a
\* widget also a proxy.
MCPages ==
  {p \in {[facts |-> [val |-> Val(phone, hours), fills |-> {}, poisoned |-> poisoned],
           vendor |-> vendor, anchored |-> anchored, html |-> TRUE] :
             phone \in Phones, hours \in {"hours", Absent}, poisoned \in BOOLEAN,
             vendor \in BOOLEAN, anchored \in SUBSET Values["phone"]} :
     /\ p \in Extracted
     /\ \/ p.anchored \subseteq {p.facts.val["phone"]}
        \/ p.facts.val["phone"] = Absent /\ p.anchored = {"own"}
        \/ p.vendor /\ p.anchored \in {{"proxy"}, {"proxy", "whatsapp"}}}

=============================================================================
