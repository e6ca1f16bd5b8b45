------------------------------ MODULE ModelCatalog ------------------------------
(***************************************************************************)
(* The listing of an endpoint's models (ModelCatalog::fetch_models, crates/*)
(* darius-daemon/src/model_catalog.rs): a minute in the memory of each     *)
(* process, then a file all processes share, then the endpoint.  The file  *)
(* is written under one fixed temporary name and renamed, so two writers   *)
(* may hold the same inode, and one may still write what is published.     *)
(***************************************************************************)
EXTENDS Integers

CONSTANTS
  Processes,
  Inodes,      \* enough for every file that is open or has a name
  MemoryTtl,   \* MEMORY_TTL
  MaxVersion,  \* bound on the listings the endpoint serves; the first, 0, is empty
  MaxTime      \* bound on the clock

VARIABLES
  served,    \* the listing the endpoint would answer with now
  tmp, file, \* the inode of the temporary and of the cache file, or "none"
  data,      \* per inode: {} just truncated, {listing}, or {Torn}
  memory,    \* per process: the listing kept and when it was put: {} or {entry}
  process,   \* per process: where in fetch_models, its listing and the inode it writes
  answer,    \* the last answer, of any process, and the age of what memory gave
  now

vars == <<served, tmp, file, data, memory, process, answer, now>>

Torn == -1
Idle == [at |-> "idle", listing |-> Torn, inode |-> "none"]
Fallback == [source |-> "fallback", listing |-> 0, age |-> 0]

Init ==
  /\ served = 0 /\ tmp = "none" /\ file = "none"
  /\ data = [i \in Inodes |-> {}]
  /\ memory = [p \in Processes |-> {}]
  /\ process = [p \in Processes |-> Idle]
  /\ answer = Fallback
  /\ now = 0

Tick ==
  /\ now < MaxTime /\ now' = now + 1
  /\ UNCHANGED <<served, tmp, file, data, memory, process, answer>>

EndpointChanges ==
  /\ served < MaxVersion /\ served' = served + 1
  /\ UNCHANGED <<tmp, file, data, memory, process, answer, now>>

Moves(p, at) == process' = [process EXCEPT ![p] = [Idle EXCEPT !.at = at]]
Answers(source, listing, age) == answer' = [source |-> source, listing |-> listing, age |-> age]
Puts(p, listing) == memory' = [memory EXCEPT ![p] = {[listing |-> listing, at |-> now]}]

\* memory_get.
Fresh(entry) == now - entry.at < MemoryTtl

FetchModels(p) ==
  /\ process[p] = Idle
  /\ \/ \E e \in memory[p] :
          /\ Fresh(e) /\ Answers("memory", e.listing, now - e.at)
          /\ UNCHANGED <<memory, process>>
     \/ /\ \A e \in memory[p] : ~Fresh(e)
        /\ memory' = [memory EXCEPT ![p] = {}]
        /\ Moves(p, "disk") /\ UNCHANGED answer
  /\ UNCHANGED <<served, tmp, file, data, now>>

\* Mutant: a file that is empty or cut short is taken.
WholeAlways(content) == TRUE

\* What parses and lists a model.
Whole(content) == content # {} /\ content \cap {Torn, 0} = {}

\* A file does not grow old.  One that is not whole is put aside, whatever has
\* taken its name by then.
ReadDisk(p) ==
  /\ process[p].at = "disk"
  /\ \/ file = "none" /\ Moves(p, "live") /\ UNCHANGED <<memory, answer>>
     \/ /\ file # "none" /\ Whole(data[file])
        /\ \E l \in data[file] \cup (IF data[file] = {} THEN {Torn} ELSE {}) : Puts(p, l) /\ Answers("cached", l, 0)
        /\ Moves(p, "idle")
     \/ file # "none" /\ ~Whole(data[file]) /\ Moves(p, "aside") /\ UNCHANGED <<memory, answer>>
  /\ UNCHANGED <<served, tmp, file, data, now>>

PutAside(p) ==
  /\ process[p].at = "aside" /\ Moves(p, "live")
  /\ file' = "none"
  /\ UNCHANGED <<served, tmp, data, memory, answer, now>>

\* 401, another status, no connection or no list: the fallback, kept nowhere.
FetchLive(p) ==
  /\ process[p].at = "live"
  /\ \/ process' = [process EXCEPT ![p] = [at |-> "open", listing |-> served, inode |-> "none"]] /\ UNCHANGED answer
     \/ Moves(p, "idle") /\ answer' = Fallback
  /\ UNCHANGED <<served, tmp, file, data, memory, now>>

Used == {tmp, file} \cup {process[p].inode : p \in Processes}

\* DiskCache::write: fs::write truncates the temporary if there is one,
OpenTmp(p) ==
  /\ process[p].at = "open"
  /\ LET i == IF tmp = "none" THEN CHOOSE j \in Inodes : j \notin Used ELSE tmp IN
       /\ tmp' = i /\ data' = [data EXCEPT ![i] = {}]
       /\ process' = [process EXCEPT ![p].at = "write", ![p].inode = i]
  /\ UNCHANGED <<served, file, memory, answer, now>>

\* writes to the inode it opened, over what another wrote there since: the
\* shorter of two leaves the end of the longer,
WriteTmp(p) ==
  /\ process[p].at = "write"
  /\ LET i == process[p].inode IN
     \E content \in {process[p].listing} \cup (IF data[i] \subseteq {process[p].listing} THEN {} ELSE {Torn}) :
       data' = [data EXCEPT ![i] = {content}]
  /\ process' = [process EXCEPT ![p].at = "rename"]
  /\ UNCHANGED <<served, tmp, file, memory, answer, now>>

\* and renames what has the name; a failure to store is no failure to answer.
RenameTmp(p) ==
  /\ process[p].at = "rename"
  /\ IF tmp = "none" THEN UNCHANGED <<tmp, file>> ELSE file' = tmp /\ tmp' = "none"
  /\ data' = [i \in Inodes |-> IF i \in {file'} \cup (Used \ {file}) THEN data[i] ELSE {}]
  /\ Puts(p, process[p].listing) /\ Answers("live", process[p].listing, 0)
  /\ Moves(p, "idle")
  /\ UNCHANGED <<served, now>>

Restart(p) ==
  /\ process[p] # Idle
  /\ Moves(p, "idle") /\ memory' = [memory EXCEPT ![p] = {}]
  /\ UNCHANGED <<served, tmp, file, data, answer, now>>

Next ==
  \/ Tick \/ EndpointChanges
  \/ \E p \in Processes :
       \/ FetchModels(p) \/ ReadDisk(p) \/ PutAside(p) \/ FetchLive(p)
       \/ OpenTmp(p) \/ WriteTmp(p) \/ RenameTmp(p) \/ Restart(p)

-------------------------------------------------------------------------------
(* Properties.                                                               *)

\* However writers meet on the temporary file, an answer is a listing the endpoint
\* served, whole; from the file it lists a model; and memory gives none that it
\* has had for a minute.
ListingsAreWhole ==
  /\ answer.listing # Torn
  /\ answer.source = "cached" => answer.listing # 0
  /\ answer.age < MemoryTtl

-------------------------------------------------------------------------------
(* The inductive invariant of ListingsAreWhole.                               *)

\* A process that has a listing of the endpoint's keeps and writes that one.
Kept(p) ==
  /\ process[p].at \in {"open", "write", "rename"} => process[p].listing # Torn
  /\ \A e \in memory[p] : e.listing # Torn

TypeOK ==
  /\ served \in Nat /\ DOMAIN memory = Processes /\ DOMAIN process = Processes
  /\ \A p \in Processes : DOMAIN process[p] = DOMAIN Idle

IInv == TypeOK /\ (\A p \in Processes : Kept(p)) /\ ListingsAreWhole
===============================================================================
