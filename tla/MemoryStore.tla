------------------------------ MODULE MemoryStore ------------------------------
(***************************************************************************)
(* The memory of a profile (crates/darius-memory/src/lib.rs), as the tools *)
(* of sessions (register_memory_builtins) and the memory commands of other *)
(* processes use it: each client has a connection of its own, a statement  *)
(* with its triggers is atomic, an operation of several statements is not. *)
(* A record is its body and its tags; last_accessed_at is never written    *)
(* again, so the newest record stays the first.                            *)
(***************************************************************************)
EXTENDS Integers, SequencesExt

CONSTANTS
  Clients, Bodies, Tags,
  Size,        \* of a body: the length of its line in a pack
  Huge,        \* bodies over 32768 bytes
  File,        \* the lines of the JSONL file: bodies, or "junk"
  Handoff,     \* what is distilled: a goal and its decisions
  Limit,       \* records a search returns: 12
  PackChars,   \* characters of a pack: 3500
  MaxRows      \* bound on the records made

VARIABLES
  rows,      \* records, oldest first: [id, body, tags, by]
  index,     \* records_fts: [id, body, tags]
  made,      \* records made, counted: the next id
  client,    \* per client: what it does and what is left of it
  file,      \* what export wrote: bodies
  overlap    \* history: two imports ran at once

vars == <<rows, index, made, client, file, overlap>>

Idle == [op |-> "idle", rest |-> <<>>]

Init ==
  /\ rows = <<>> /\ index = {} /\ made = 0
  /\ client = [c \in Clients |-> Idle]
  /\ file = <<>> /\ overlap = FALSE

Entry(row) == [id |-> row.id, body |-> row.body, tags |-> row.tags]

\* upsert only inserts; the trigger records_ai writes the index.
Insert(body, by) ==
  LET row == [id |-> made + 1, body |-> body, tags |-> "none", by |-> by] IN
  /\ made < MaxRows /\ made' = made + 1
  /\ rows' = Append(rows, row)
  /\ index' = index \cup {Entry(row)}

Keep == UNCHANGED <<rows, index, made>>

\* The tool stores the record before it cuts its answer at byte 80, which panics
\* inside a character: whether it answers or not, the record is stored.
Remember(c, body) ==
  /\ client[c] = Idle
  /\ IF body \in Huge THEN Keep ELSE Insert(body, "tool")
  /\ UNCHANGED <<client, file, overlap>>

\* distill_handoff: the goal, then each decision, a statement each, whatever is
\* stored already.
BeginDistill(c, bodies) ==
  /\ client[c] = Idle
  /\ client' = [client EXCEPT ![c] = [op |-> "distill", rest |-> bodies]]
  /\ Keep /\ UNCHANGED <<file, overlap>>

BeginImport(c, lines) ==
  /\ client[c] = Idle /\ lines # <<>>
  /\ client' = [client EXCEPT ![c] = [op |-> "import", rest |-> lines]]
  /\ overlap' = (overlap \/ \E d \in Clients : client[d].op \in {"import", "insert"})
  /\ Keep /\ UNCHANGED <<file>>

\* Mutant: only the newest record is compared.
HashOfNewest(body) == rows # <<>> /\ Last(rows).body = body

\* hash_exists; the index on content_hash is not unique.
HashExists(body) == \E i \in DOMAIN rows : rows[i].body = body

\* A line that does not parse is skipped, as is a body that is known; the insert
\* is a statement of its own.
ImportLine(c) ==
  /\ client[c].op = "import" /\ client[c].rest # <<>>
  /\ LET line == Head(client[c].rest)
         skip == line = "junk" \/ HashExists(line) IN
     client' = [client EXCEPT ![c] =
       IF ~skip THEN [@ EXCEPT !.op = "insert"]
       ELSE IF Len(@.rest) = 1 THEN Idle ELSE [@ EXCEPT !.rest = Tail(client[c].rest)]]
  /\ Keep /\ UNCHANGED <<file, overlap>>

\* A body that is too large ends the whole operation; what it stored stays.
InsertNext(c) ==
  LET body == Head(client[c].rest)
      left == Tail(client[c].rest) IN
  /\ client[c].op \in {"insert", "distill"} /\ client[c].rest # <<>>
  /\ IF body \in Huge THEN Keep ELSE Insert(body, client[c].op)
  /\ client' = [client EXCEPT ![c] =
       IF body \in Huge \/ left = <<>> THEN Idle
       ELSE [@ EXCEPT !.rest = left, !.op = IF client[c].op = "insert" THEN "import" ELSE "distill"]]
  /\ UNCHANGED <<file, overlap>>

\* A process killed, or a caller started again.
Restart(c) ==
  /\ client[c] # Idle
  /\ client' = [client EXCEPT ![c] = Idle]
  /\ Keep /\ UNCHANGED <<file, overlap>>

\* The trigger records_ad.
Delete(c, i) ==
  /\ client[c] = Idle /\ i \in DOMAIN rows
  /\ rows' = RemoveAt(rows, i)
  /\ index' = {e \in index : e.id # rows[i].id}
  /\ UNCHANGED <<made, client, file, overlap>>

\* The trigger records_au: the entry is deleted and made anew.
UpdateTags(c, i, tags) ==
  /\ client[c] = Idle /\ i \in DOMAIN rows
  /\ rows' = [rows EXCEPT ![i].tags = tags]
  /\ index' = {e \in index : e.id # rows[i].id} \cup {[Entry(rows[i]) EXCEPT !.tags = tags]}
  /\ UNCHANGED <<made, client, file, overlap>>

\* search without a text: the newest records first.
Newest(n) == SubSeq(Reverse(rows), 1, IF Len(rows) < n THEN Len(rows) ELSE n)

\* search with a text: through the index, joined with the records.
Matching(body) == {i \in DOMAIN rows : \E e \in index : e.body = body /\ e.id = rows[i].id}

\* build_pack stops at the first record that does not fit.
Fill(acc, size) ==
  IF acc.full \/ acc.size + size > PackChars THEN [acc EXCEPT !.full = TRUE]
  ELSE [n |-> acc.n + 1, size |-> acc.size + size, full |-> FALSE]
NothingPacked == [n |-> 0, size |-> 0, full |-> FALSE]
Filled(found) ==
  LET fill[n \in 0 .. Len(found)] ==
        IF n = 0 THEN NothingPacked ELSE Fill(fill[n - 1], Size[found[n].body])
  IN  fill[Len(found)]
Pack == SubSeq(Newest(Limit), 1, Filled(Newest(Limit)).n)

\* export_jsonl searches with the default query, whose limit is that of a search.
Export(c) ==
  /\ client[c] = Idle
  /\ file' = [i \in DOMAIN Newest(Limit) |-> Newest(Limit)[i].body]
  /\ Keep /\ UNCHANGED <<client, overlap>>

Next ==
  \/ \E c \in Clients, b \in Bodies : Remember(c, b)
  \/ \E c \in Clients : BeginDistill(c, Handoff)
  \/ \E c \in Clients : BeginImport(c, File) \/ BeginImport(c, file)
  \/ \E c \in Clients : ImportLine(c) \/ InsertNext(c) \/ Restart(c) \/ Export(c)
  \/ \E c \in Clients, i \in 1 .. MaxRows :
       Delete(c, i) \/ \E t \in Tags : UpdateTags(c, i, t)

-------------------------------------------------------------------------------
(* Properties.                                                               *)

\* The index the triggers keep is that of the records: a search by text finds the
\* records that hold it, no deleted one and no tags of before.
IndexMirrorsRows ==
  /\ index = {Entry(rows[i]) : i \in DOMAIN rows}
  /\ \A b \in Bodies : Matching(b) = {i \in DOMAIN rows : rows[i].body = b}

\* Unless two imports overlapped, importing a file again, or a file with the same
\* line twice, makes no second record of a body.
ImportsAreOnce ==
  ~overlap => \A i, j \in DOMAIN rows :
    rows[i].body = rows[j].body /\ rows[i].by = "insert" /\ rows[j].by = "insert" => i = j

\* Per place of a sequence of numbers, the sum up to there.
Sums(w) == LET sum[n \in 0 .. Len(w)] == IF n = 0 THEN 0 ELSE sum[n - 1] + w[n] IN sum
Total(w) == Sums(w)[Len(w)]
SumSizes(pack) == Total([i \in DOMAIN pack |-> Size[pack[i].body]])

\* A pack is within its bounds and leaves out no record newer than one it shows.
PackIsBounded ==
  /\ Len(Pack) <= Limit
  /\ SumSizes(Pack) <= PackChars
  /\ \A i \in 1 .. Len(Pack) : Pack[i] = rows[Len(rows) + 1 - i]

MemoryIsSound == IndexMirrorsRows /\ ImportsAreOnce /\ PackIsBounded

Stored == Bodies \ Huge
Lines == Bodies \cup Huge \cup {"junk"}

TypeOK ==
  /\ made \in Nat
  /\ rows \in Seq([id : 1 .. made, body : Stored, tags : Tags \cup {"none"}, by : {"tool", "insert", "distill"}])
  /\ client \in [Clients -> [op : {"idle", "import", "insert", "distill"}, rest : Seq(Lines)]]
  /\ \A c \in Clients :
       /\ client[c].op = "insert" => client[c].rest # <<>> /\ Head(client[c].rest) # "junk"
       /\ client[c].op = "distill" => client[c].rest \in Seq(Bodies \cup Huge)
  /\ file \in Seq(Stored) /\ overlap \in BOOLEAN

IdsDiffer == \A i, j \in DOMAIN rows : rows[i].id = rows[j].id => i = j

\* One import runs, and what it is about to insert nobody imported before.
Imports(c) == client[c].op \in {"import", "insert"}
ImportIsAlone ==
  ~overlap =>
    /\ \A c, d \in Clients : Imports(c) /\ Imports(d) => c = d
    /\ \A c \in Clients : client[c].op = "insert" =>
         \A i \in DOMAIN rows : rows[i].by = "insert" => rows[i].body # Head(client[c].rest)

\* The inductive invariant.
IInv == TypeOK /\ IdsDiffer /\ index = {Entry(rows[i]) : i \in DOMAIN rows} /\ ImportIsAlone /\ ImportsAreOnce
===============================================================================
