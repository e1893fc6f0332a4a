--------------------------- MODULE SourcePriority ---------------------------
(***************************************************************************)
(* What the resolver promises, with no merge order, no comparator and no   *)
(* per-field update: at any time each field holds one of the values that   *)
(* its strongest source has offered so far, unless the phone was refused.  *)
(* A refusal stands in for a rotating proxy number, so it is made only     *)
(* while neither the operator nor the site has offered a phone, and it is  *)
(* never taken back.                                                       *)
(***************************************************************************)
EXTENDS Integers

CONSTANTS Fields, Values, Absent

None == 0
OfficialSite == 4
PoisonLock == 5
Operator == 6
Sources == None..Operator

VARIABLES
  offered,  \* every <<field, source, value>> offered so far
  refused,  \* the phone has been refused
  won       \* [Fields -> [val, source]]: what each field holds

vars == <<offered, refused, won>>

Strongest(offers, f, s) ==
  /\ \E v \in Values[f] : <<f, s, v>> \in offers
  /\ \A t \in Sources : t > s => \A v \in Values[f] : <<f, t, v>> \notin offers

\* w is a result the offers justify for field f.
Justified(offers, ref, f, w) ==
  IF f = "phone" /\ ref
  THEN w = [val |-> Absent, source |-> PoisonLock]
  ELSE \/ <<f, w.source, w.val>> \in offers /\ Strongest(offers, f, w.source)
       \/ /\ \A s \in Sources, v \in Values[f] : <<f, s, v>> \notin offers
          /\ w = [val |-> Absent, source |-> None]

Init ==
  /\ offered = {}
  /\ refused = FALSE
  /\ won = [f \in Fields |-> [val |-> Absent, source |-> None]]

\* Some sources speak, and possibly one of them refuses the phone.
Hear ==
  /\ offered \subseteq offered'
  /\ refused => refused'
  /\ refused' /\ ~refused =>
       \A s \in Sources, v \in Values["phone"] :
         s >= OfficialSite => <<"phone", s, v>> \notin offered
  /\ \A f \in Fields : Justified(offered', refused', f, won'[f])

Spec == Init /\ [][Hear]_vars

=============================================================================
