------------------------------ MODULE NewsStore ------------------------------
(***************************************************************************)
(* The file-based news store (news/store.go, news/store_ops.go), for one   *)
(* project: load and modify under the lock, write to a temporary file,     *)
(* rename.  The process may die between any two system calls; what the     *)
(* file system was told survives, and clients start again with nothing.    *)
(* One Store is rooted at the directory: its lock is not known to others.  *)
(***************************************************************************)
EXTENDS NewsEntries

CONSTANTS
  Clients,
  FirstFiles,       \* what may be in the file at the start
  Asked             \* the requests clients make of their own accord

VARIABLES
  file, tmp,        \* {project}.json and {project}.json.tmp
  pc, request,
  data,             \* the entries a writer is about to write
  seen,             \* what a client last got from the public Load
  last              \* history: the request whose entries were renamed last

newsVars == <<file, tmp, pc, request, data, seen, last>>

Whole(entries) == [state |-> "whole", entries |-> entries]
Missing == [state |-> "missing", entries |-> {}]
Torn == [state |-> "torn", entries |-> {}]    \* truncated, or written in part
File == [state : {"whole"}, entries : SUBSET Entry] \cup {Missing, Torn}

Unique(entries) == \A e, f \in entries : e.url = f.url => e = f

ASSUME StoreAssumption ==
  /\ Asked \subseteq {req \in Requests : req.op # "save"}
  /\ FirstFiles \subseteq {f \in File : f # Torn /\ Unique(f.entries)}

WriterSteps == {"load", "create", "write", "rename"}

StoreTypeOK ==
  /\ file \in File
  /\ tmp \in File
  /\ pc \in [Clients -> {"idle", "reading"} \cup WriterSteps]
  /\ request \in [Clients -> Requests \cup {None}]
  /\ data \in [Clients -> (SUBSET Entry) \cup {None}]
  /\ seen \in [Clients -> (SUBSET Entry) \cup {None}]
  /\ last \in Requests \cup {None}
  /\ \A c, d \in Clients : pc[c] \in WriterSteps /\ pc[d] # "idle" => c = d    \* the lock

BUG_LoadUnlocked == \A d \in Clients : pc[d] \in {"idle", "reading", "load"}

\* s.mu.Lock does not block.
CanLock == \A d \in Clients : pc[d] = "idle"

\* s.mu.RLock does not block.
CanRLock == \A d \in Clients : pc[d] \notin WriterSteps

\* Return from the operation, whatever its result.
Return(c) ==
  /\ pc' = [pc EXCEPT ![c] = "idle"]
  /\ request' = [request EXCEPT ![c] = None]
  /\ data' = [data EXCEPT ![c] = None]

\* AddItems, UpdateItem, PurgeItems.
Ask(c, req) ==
  /\ pc[c] = "idle" /\ CanLock
  /\ request' = [request EXCEPT ![c] = req]
  /\ pc' = [pc EXCEPT ![c] = "load"]
  /\ UNCHANGED <<file, tmp, data, seen, last>>

\* The public Save, of an edit of what the client last loaded; it loads nothing.
SaveSeen(c, status) ==
  /\ pc[c] = "idle" /\ CanLock
  /\ seen[c] # None
  /\ LET edited == {[e EXCEPT !.status = status] : e \in seen[c]}
     IN /\ request' = [request EXCEPT ![c] = [op |-> "save", entries |-> edited]]
        /\ data' = [data EXCEPT ![c] = edited]
  /\ pc' = [pc EXCEPT ![c] = "create"]
  /\ seen' = [seen EXCEPT ![c] = None]
  /\ UNCHANGED <<file, tmp, last>>

\* The public Load (so ListItems, ExistingURLs and TotalCount, which only read).
RLock(c) ==
  /\ pc[c] = "idle" /\ CanRLock
  /\ pc' = [pc EXCEPT ![c] = "reading"]
  /\ UNCHANGED <<file, tmp, request, data, seen, last>>

Read(c) ==
  /\ pc[c] = "reading"
  /\ seen' = [seen EXCEPT ![c] = IF file = Torn THEN None ELSE file.entries]
  /\ pc' = [pc EXCEPT ![c] = "idle"]
  /\ UNCHANGED <<file, tmp, request, data, last>>

\* load, and the early returns: a file that does not parse, and nothing to do.
Load(c) ==
  /\ pc[c] = "load"
  /\ \/ /\ file # Torn
        /\ \E outcome \in Outcomes(request[c], file.entries) :
             data' = [data EXCEPT ![c] = outcome]
        /\ pc' = [pc EXCEPT ![c] = "create"]
        /\ UNCHANGED request
     \/ /\ file # Torn => Outcomes(request[c], file.entries) = {}
        /\ Return(c)
  /\ UNCHANGED <<file, tmp, seen, last>>

BUG_NoTemporaryFile(c) ==
  /\ pc[c] = "create"
  /\ file' = Torn
  /\ pc' = [pc EXCEPT ![c] = "write"]
  /\ UNCHANGED <<tmp, request, data, seen, last>>

\* save: MkdirAll, and os.WriteFile creates or truncates the temporary file.
Create(c) ==
  /\ pc[c] = "create"
  /\ tmp' = Torn
  /\ pc' = [pc EXCEPT ![c] = "write"]
  /\ UNCHANGED <<file, request, data, seen, last>>

Write(c) ==
  /\ pc[c] = "write"
  /\ tmp' = Whole(data[c])
  /\ pc' = [pc EXCEPT ![c] = "rename"]
  /\ UNCHANGED <<file, request, data, seen, last>>

Rename(c) ==
  /\ pc[c] = "rename"
  /\ file' = tmp
  /\ tmp' = Missing
  /\ last' = request[c]
  /\ Return(c)
  /\ UNCHANGED seen

\* Any of the system calls of save fails; the temporary file stays as it is.
FailSave(c) ==
  /\ pc[c] \in {"create", "write", "rename"}
  /\ Return(c)
  /\ UNCHANGED <<file, tmp, seen, last>>

\* The process dies and is started again.
Crash ==
  /\ pc' = [c \in Clients |-> "idle"]
  /\ request' = [c \in Clients |-> None]
  /\ data' = [c \in Clients |-> None]
  /\ seen' = [c \in Clients |-> None]
  /\ UNCHANGED <<file, tmp, last>>

StoreInit ==
  /\ file \in FirstFiles
  /\ tmp = Missing
  /\ pc = [c \in Clients |-> "idle"]
  /\ request = [c \in Clients |-> None]
  /\ data = [c \in Clients |-> None]
  /\ seen = [c \in Clients |-> None]
  /\ last = None

StoreNext ==
  \/ \E c \in Clients :
       \/ \E req \in Asked : Ask(c, req)
       \/ \E status \in Statuses : SaveSeen(c, status)
       \/ RLock(c) \/ Read(c)
       \/ Load(c) \/ Create(c) \/ Write(c) \/ Rename(c) \/ FailSave(c)
  \/ Crash

StoreSpec == StoreInit /\ [][StoreNext]_newsVars

(***************************************************************************)
(* Properties.                                                             *)
(***************************************************************************)
\* "Save writes entries for a project to disk atomically" (store.go): whatever
\* fails, whenever the process dies, and although the next save truncates the
\* same temporary file, the file always parses.
FileIsWhole == file # Torn

\* Deduplication by URL survives concurrency, failed saves and restarts: no URL
\* is stored twice, also when clients save edits of what they once loaded.
URLsAreUnique == Unique(file.entries)

\* The store implements AtomicNews: what is renamed is always the outcome of one
\* request on the entries the file has at that moment, so no operation loses the
\* effect of another (the public Save, which loads nothing, replaces it).
Atomic == INSTANCE AtomicNews WITH content <- file.entries
ImplementsAtomicNews == Atomic!AtomicSpec

=============================================================================
