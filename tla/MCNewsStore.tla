----------------------------- MODULE MCNewsStore -----------------------------
(***************************************************************************)
(* An instance of NewsStore for TLC: two URLs, one of them under two IDs,  *)
(* added together, and over a missing, an empty or a filled file.          *)
(***************************************************************************)
EXTENDS NewsStore

NewEntry(url, newsId) == [newsId |-> newsId, url |-> url, status |-> "pending"]
First == NewEntry("u1", "n1")
Same == NewEntry("u1", "n2")      \* the same URL under another ID
Second == NewEntry("u2", "n1")    \* the same ID: nothing makes IDs unique

MCAsked ==
  {[op |-> "add", items |-> items] : items \in {<<First, Same>>, <<Second, Same>>}}
    \cup {[op |-> "update", newsId |-> "n1", status |-> "selected"],
          [op |-> "purge", purged |-> {e \in Entry : e.status = "selected"}]}
MCFirstFiles == {Missing, Whole({}), Whole({First})}

=============================================================================
