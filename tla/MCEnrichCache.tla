---------------------------- MODULE MCEnrichCache ----------------------------
(***************************************************************************)
(* Instances of EnrichCache for TLC: one page, looked up plainly and       *)
(* without the maps check (another key); and with a phone pinned, with or  *)
(* without an e-mail (the same key).                                       *)
(***************************************************************************)
EXTENDS EnrichCache

Plain == [site |-> "page", seed |-> "none", email |-> "", skipMapsCheck |-> FALSE]
MCItems == {Plain, [Plain EXCEPT !.skipMapsCheck = TRUE]}
MCSeededItems == {[Plain EXCEPT !.seed = "phone", !.email = e] : e \in {"", "verified"}}

=============================================================================
