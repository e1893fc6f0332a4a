----------------------------- MODULE MCResolver -----------------------------
(***************************************************************************)
(* Instances of Resolver for TLC.  The fields are independent but for the  *)
(* medium confidence of a card, so each run follows a few of them.         *)
(***************************************************************************)
EXTENDS Resolver

MCValues == [f \in Fields |->
  CASE f = "phone" -> {"p1", "p2"}
    [] f = "address" -> {"short", "longer"}
    [] OTHER -> {f}]
MCLength == [v \in AllValues |-> IF v = "longer" THEN 2 ELSE 1]

=============================================================================
