---------------------------- MODULE MCSiteFacts ----------------------------
(***************************************************************************)
(* An instance of SiteFacts: a Petersburg line in its two forms, a Moscow  *)
(* line, a mobile and a toll-free number, an invalid one, four addresses.  *)
(***************************************************************************)
EXTENDS SiteFacts

spb == [prefix |-> "7", code |-> 812, line |-> 1]
spb8 == [spb EXCEPT !.prefix = "8"]
msk == [prefix |-> "7", code |-> 495, line |-> 1]
mobile == [prefix |-> "7", code |-> 921, line |-> 1]
free == [prefix |-> "8", code |-> 800, line |-> 1]
invalid == [prefix |-> "7", code |-> 817, line |-> 1]

Address(id, valid, marker) == [id |-> id, valid |-> valid, marker |-> marker]
venue == Address("venue", TRUE, FALSE)
seat == Address("seat", TRUE, FALSE)
marked == Address("seat", TRUE, TRUE)
garbage == Address("garbage", FALSE, FALSE)

Sibling(text) == [nav |-> FALSE, phone |-> FALSE, text |-> text]
Level(before, own) == [before |-> before, nav |-> FALSE, own |-> own]
\* A heading one level above the number, unlabelled below.
Under(text) == <<Level(<<>>, NoLabel), Level(<<Sibling(text)>>, NoLabel)>>
Unlabelled == <<Level(<<>>, NoLabel)>>

Tel(n, up, near) == [kind |-> "tel", num |-> n, up |-> up, near |-> near]
Inline(tokens, nums, runs) ==
  [kind |-> "script", src |-> FALSE, runs |-> runs, tokens |-> tokens, nums |-> nums]
Text(nums, near, idLabel) ==
  [kind |-> "text", nums |-> nums, up |-> <<{}>>, near |-> near, labelled |-> TRUE, idLabel |-> idLabel]
Org(phone, addr, id) ==
  [kind |-> "org", type |-> 1, phone |-> phone, addr |-> addr, legalID |-> id, legalName |-> FALSE]

MCPhoneNodes == {
  [kind |-> "social", num |-> mobile, shown |-> FALSE],
  [kind |-> "social", num |-> mobile, shown |-> TRUE],
  [kind |-> "social", num |-> free, shown |-> TRUE],
  Tel(spb, <<{}>>, Unlabelled),
  Tel(spb, <<{"contacts"}>>, Under("rental desk")),
  Tel(free, <<{"contacts"}>>, Unlabelled),
  Tel(mobile, <<{"tracker"}>>, Unlabelled),
  Tel(msk, <<{"tracker"}, {"contacts"}>>, Unlabelled),
  Tel(msk, <<{"contacts"}, {"tracker"}>>, Unlabelled),
  [kind |-> "microdata", num |-> spb, near |-> Under("reception")],
  [kind |-> "microdata", num |-> invalid, near |-> Unlabelled],
  [kind |-> "og", num |-> msk],
  [kind |-> "script", src |-> TRUE, runs |-> TRUE, tokens |-> {"loader"}, nums |-> <<>>],
  Inline({"config"}, <<spb, mobile, msk>>, TRUE),
  Inline({"loader"}, <<msk>>, TRUE),
  Inline({}, <<msk>>, FALSE),
  Text(<<spb8, mobile>>, Unlabelled, FALSE),
  Text(<<spb>>, Under("rental desk"), FALSE),
  Text(<<msk>>, Unlabelled, TRUE)}

MCItemNodes == {
  [kind |-> "place", type |-> 1, phone |-> {msk}, addr |-> {venue}],
  [kind |-> "place", type |-> 2, phone |-> {spb}, addr |-> {marked}],
  Org({mobile}, {seat}, FALSE),
  Org({}, {seat}, TRUE),
  Org({spb}, {venue}, FALSE),
  [kind |-> "event", type |-> 1, phone |-> {}, addr |-> {garbage}]}

MCAddressNodes == {
  [kind |-> "address", addr |-> venue],
  [kind |-> "address", addr |-> marked],
  [kind |-> "labelled", addr |-> seat],
  [kind |-> "labelled", addr |-> venue]}

MCPageNodes == MCPhoneNodes \cup MCItemNodes \cup MCAddressNodes
=============================================================================
