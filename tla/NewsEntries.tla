----------------------------- MODULE NewsEntries -----------------------------
(***************************************************************************)
(* What the operations of the news store make of the entries of a project  *)
(* (news/store_ops.go): AddItems, UpdateItem and PurgeItems work on what   *)
(* they loaded, Save replaces it.  Of an entry only what they look at is   *)
(* kept; a score is updated, or left alone, like a status.  The order of   *)
(* the entries is left out: it decides which of two entries with one ID is *)
(* updated, which is a choice here.                                        *)
(***************************************************************************)
EXTENDS Integers, Sequences

CONSTANTS
  URLs, NewsIDs,
  Statuses,    \* not "", which leaves a status as it is
  None         \* no request, nothing loaded

Entry == [newsId : NewsIDs, url : URLs, status : Statuses]

Requests ==
  [op : {"add"}, items : Seq(Entry)]
    \cup [op : {"update"}, newsId : NewsIDs, status : Statuses \cup {""}]
    \cup [op : {"purge"}, purged : SUBSET Entry]    \* shouldPurge
    \cup [op : {"save"}, entries : SUBSET Entry]

HasURL(entries, url) == \E e \in entries : e.url = url

BUG_ExistingOnly(entries, items) ==
  entries \cup {items[k] : k \in {n \in DOMAIN items : ~HasURL(entries, items[n].url)}}

\* AddItems: the items whose URL is neither stored nor among the items before.
WithNew(entries, items) ==
  entries \cup
    {items[k] : k \in {n \in DOMAIN items :
                         /\ ~HasURL(entries, items[n].url)
                         /\ \A m \in 1..(n - 1) : items[m].url # items[n].url}}

Matches(entries, newsId) == {e \in entries : e.newsId = newsId}

\* UpdateItem.
Updated(entries, e, status) ==
  (entries \ {e}) \cup {[e EXCEPT !.status = IF status = "" THEN @ ELSE status]}

\* What a request may write over these entries; empty if it does not write:
\* nothing added, not found, nothing removed.  Save does not look.
Outcomes(req, entries) ==
  IF req.op = "add" THEN {WithNew(entries, req.items)} \ {entries}
  ELSE IF req.op = "update" THEN
    {Updated(entries, e, req.status) : e \in Matches(entries, req.newsId)}
  ELSE IF req.op = "purge" THEN {entries \ req.purged} \ {entries}
  ELSE {req.entries}

=============================================================================
