----------------------------- MODULE AtomicNews -----------------------------
(***************************************************************************)
(* What the news store promises: the entries of a project change by one    *)
(* whole request at a time, applied to the entries that are there.         *)
(***************************************************************************)
EXTENDS NewsEntries

VARIABLES
  content,   \* the entries of the project
  last       \* the request that made them so

AtomicInit == content \in SUBSET Entry /\ last = None

Perform(req) ==
  /\ content' \in Outcomes(req, content)
  /\ last' = req

AtomicNext == last' \in Requests /\ Perform(last')

AtomicSpec == AtomicInit /\ [][AtomicNext]_<<content, last>>

=============================================================================
