---------------------------------- MODULE Skills ----------------------------------
(***************************************************************************)
(* Skills: the curator's registry in memory and the archive it writes of   *)
(* stale ones (crates/darius-skills/src/lib.rs), their manifests (crates/  *)
(* darius-skill-parser), and the preface the loop is given of a folder of  *)
(* manifests (crates/darius-cognitive/src/skills.rs).  auto_archive holds  *)
(* the curator for itself, so only a failure or a crash ends it early.     *)
(* A manifest is a sequence of lines of five kinds, and how they end.      *)
(***************************************************************************)
EXTENDS Integers, Sequences, SequencesExt, FiniteSets

CONSTANTS
  Ids,          \* ids the curator draws; one is never drawn twice
  Threshold,    \* staleness_threshold
  Manifests,    \* [lines |-> of "fence", "name", "field", "heading", "text"; crlf |-> BOOLEAN]
  Caps,         \* max_chars of a preface, in lines
  MaxTime, MaxFiles

VARIABLES
  now,
  registry,  \* per id: none, or the skill: its source, its last use, whether it is pinned
  drawn,     \* the ids drawn so far
  files,     \* per id: what the archive has of it, of "torn", "temp", "whole"
  pass,      \* auto_archive: where it is, the ids left, the one at hand, those done
  folder,    \* manifests
  preface    \* the last one made: of which manifests, out of which, under which cap

vars == <<now, registry, drawn, files, pass, folder, preface>>

NoPass == [at |-> "idle", left |-> {}, done |-> {}]

Init ==
  /\ now = 0 /\ drawn = {} /\ pass = NoPass
  /\ registry = [i \in Ids |-> {}] /\ files = [i \in Ids |-> {}]
  /\ folder = <<>> /\ preface = [of |-> <<>>, matched |-> <<>>, cap |-> 0]

Tick == now < MaxTime /\ now' = now + 1 /\ UNCHANGED <<registry, drawn, files, pass, folder, preface>>

-------------------------------------------------------------------------------
(* Manifests.                                                                *)

Places(m, kind) == {n \in DOMAIN m.lines : m.lines[n] = kind}
First(places) == CHOOSE n \in places : \A o \in places : n <= o
After(m, n) == SubSeq(m.lines, n + 1, Len(m.lines))

\* parse: fields between two fences, or a heading; lines that end in CR LF hide the
\* second fence from the search for the body.
Fenced(m) == m.lines # <<>> /\ m.lines[1] = "fence"
Closing(m) == Places(m, "fence") \ {1}
Loadable(m) ==
  IF Fenced(m) THEN Closing(m) # {} /\ \E n \in Places(m, "name") : n < First(Closing(m))
  ELSE Places(m, "heading") # {}
ManifestBody(m) ==
  IF ~Fenced(m) THEN After(m, First(Places(m, "heading")))
  ELSE IF m.crlf THEN <<>> ELSE After(m, First(Closing(m)))

\* parse_skill_md: what follows the second fence, wherever the first is.
PrefaceBody(m) ==
  LET fences == Places(m, "fence") IN
  IF Cardinality(fences) < 2 THEN m.lines ELSE After(m, First(fences \ {First(fences)}))

-------------------------------------------------------------------------------
(* The curator.                                                              *)

Idle == pass.at = "idle"

\* add_skill: loaded from a manifest, or made by the agent.
Add(i, source) ==
  /\ Idle /\ i \notin drawn /\ drawn' = drawn \cup {i}
  /\ registry' = [registry EXCEPT ![i] = {[source |-> source, last |-> now, pinned |-> FALSE]}]
  /\ UNCHANGED <<now, files, pass, folder, preface>>
Load(i, m) == Loadable(m) /\ Add(i, "user")
Create(i) == Add(i, "agent")

Change(i, f(_)) ==
  /\ Idle /\ registry[i] # {}
  /\ registry' = [registry EXCEPT ![i] = {f(s) : s \in registry[i]}]
  /\ UNCHANGED <<now, drawn, files, pass, folder, preface>>
RecordUse(i) == Change(i, LAMBDA s : [source |-> s.source, last |-> now, pinned |-> s.pinned])
Pin(i, pinned) == Change(i, LAMBDA s : [source |-> s.source, last |-> s.last, pinned |-> pinned])
RemoveSkill(i) ==
  /\ Idle /\ registry[i] # {} /\ registry' = [registry EXCEPT ![i] = {}]
  /\ UNCHANGED <<now, drawn, files, pass, folder, preface>>

\* is_stale.
IsStale(s) == ~s.pinned /\ s.source = "agent" /\ now - s.last > Threshold
Stale == {i \in Ids : \E s \in registry[i] : IsStale(s)}

Goes(next) == pass' = next /\ UNCHANGED <<now, drawn, folder, preface>>

\* auto_archive: which ones, each written aside and renamed, in any order...
Begin == Idle /\ Stale # {} /\ Goes([at |-> "write", left |-> Stale, done |-> {}]) /\ UNCHANGED <<registry, files>>

WriteTemp(i) ==
  /\ pass.at = "write" /\ i \in pass.left
  /\ files' = [files EXCEPT ![i] = (@ \ {"torn"}) \cup {"temp"}]
  /\ Goes([pass EXCEPT !.at = "rename"]) /\ UNCHANGED registry
WriteFails(i) ==
  /\ pass.at = "write" /\ i \in pass.left /\ files' = [files EXCEPT ![i] = @ \cup {"torn"}]
  /\ Goes(NoPass) /\ UNCHANGED registry

Past(i) ==
  Goes([at |-> IF pass.left = {i} THEN "mark" ELSE "write", left |-> pass.left \ {i}, done |-> pass.done \cup {i}])

Rename(i) ==
  /\ pass.at = "rename" /\ i \in pass.left /\ "temp" \in files[i]
  /\ files' = [files EXCEPT ![i] = (@ \ {"temp"}) \cup {"whole"}]
  /\ Past(i) /\ UNCHANGED registry

\* Mutant: a file that could not be renamed does not stop the pass.
RenameFailsOnwards(i) ==
  /\ pass.at = "rename" /\ i \in pass.left /\ "temp" \in files[i]
  /\ files' = [files EXCEPT ![i] = @ \ {"temp"}]
  /\ Past(i) /\ UNCHANGED registry

RenameFails(i) ==
  /\ pass.at = "rename" /\ i \in pass.left /\ "temp" \in files[i]
  /\ files' = [files EXCEPT ![i] = @ \ {"temp"}]
  /\ Goes(NoPass) /\ UNCHANGED registry

\* ... and marked once all are written.
Mark ==
  /\ pass.at = "mark"
  /\ registry' = [i \in Ids |-> IF i \in pass.done
                                THEN {[source |-> "archived", last |-> s.last, pinned |-> s.pinned] : s \in registry[i]}
                                ELSE registry[i]]
  /\ Goes(NoPass) /\ UNCHANGED files

\* The registry is in memory; the archive stays, with what was written aside cut short.
Crash ==
  /\ registry' = [i \in Ids |-> {}]
  /\ files' = [i \in Ids |-> IF "temp" \in files[i] THEN (files[i] \ {"temp"}) \cup {"torn"} ELSE files[i]]
  /\ Goes(NoPass)

-------------------------------------------------------------------------------
(* The preface.                                                              *)

\* load_skills_from_dir sees what is in the folder.
PutFile(m) ==
  /\ Len(folder) < MaxFiles /\ folder' = Append(folder, m)
  /\ UNCHANGED <<now, registry, drawn, files, pass, preface>>

\* An entry is a head and a body.
EntrySize(k) == 1 + Len(PrefaceBody(folder[k]))

\* Per place of a sequence of numbers, the sum up to there.
Sums(w) == LET sum[n \in 0 .. Len(w)] == IF n = 0 THEN 0 ELSE sum[n - 1] + w[n] IN sum
Total(w) == Sums(w)[Len(w)]
SizeOf(ks) == Total([n \in DOMAIN ks |-> EntrySize(ks[n])])

\* build_skill_preface: those that match the goal, up to the first that does not fit.
Offer(t, k, cap) ==
  LET size == t.size + EntrySize(k) IN
  IF t.full \/ size > cap THEN [t EXCEPT !.matched = Append(@, k), !.full = TRUE]
  ELSE [of |-> Append(t.of, k), matched |-> Append(t.matched, k), size |-> size, full |-> FALSE]
NothingTaken == [of |-> <<>>, matched |-> <<>>, size |-> 0, full |-> FALSE]
Taken(matches, cap) ==
  LET scan[k \in 0 .. Len(folder)] ==
        IF k = 0 THEN NothingTaken
        ELSE IF k \in matches THEN Offer(scan[k - 1], k, cap) ELSE scan[k - 1]
  IN  scan[Len(folder)]

Prepare(matches, cap) ==
  /\ LET t == Taken(matches, cap) IN preface' = [of |-> t.of, matched |-> t.matched, cap |-> cap]
  /\ UNCHANGED <<now, registry, drawn, files, pass, folder>>

Next ==
  \/ Tick \/ Begin \/ Mark \/ Crash
  \/ \E i \in Ids :
       \/ \E m \in Manifests : Load(i, m)
       \/ Create(i) \/ RecordUse(i) \/ RemoveSkill(i)
       \/ \E pinned \in BOOLEAN : Pin(i, pinned)
       \/ WriteTemp(i) \/ WriteFails(i) \/ Rename(i) \/ RenameFails(i)
  \/ \E m \in Manifests : PutFile(m)
  \/ \E matches \in SUBSET DOMAIN folder, cap \in Caps : Prepare(matches, cap)

-------------------------------------------------------------------------------
(* Properties.                                                               *)

\* A skill marked archived has a whole file, whatever failed or crashed before, and only
\* the agent's own skills ever have one; a preface holds whole entries in their order,
\* within its cap, and stops only at one that does not fit; both readers of a manifest
\* that starts with fields find the same body, unless its lines end in CR LF.
SkillsAreKept ==
  /\ \A i \in Ids : \A s \in registry[i] :
       /\ s.source = "archived" => "whole" \in files[i]
       /\ files[i] # {} => s.source \in {"agent", "archived"}
  /\ \A i \in pass.done : "whole" \in files[i]
  /\ IsPrefix(preface.of, preface.matched)
  /\ SizeOf(preface.of) <= preface.cap
  /\ preface.of # preface.matched =>
       SizeOf(SubSeq(preface.matched, 1, Len(preface.of) + 1)) > preface.cap
  /\ \A k \in DOMAIN folder :
       Fenced(folder[k]) /\ Loadable(folder[k]) /\ ~folder[k].crlf =>
         ManifestBody(folder[k]) = PrefaceBody(folder[k])

SkillRecord == [source : {"user", "agent", "archived"}, last : Nat, pinned : BOOLEAN]

TypeOK ==
  /\ now \in Nat /\ drawn \subseteq Ids /\ folder \in Seq(Manifests)
  /\ registry \in [Ids -> SUBSET SkillRecord] /\ \A i \in Ids : \A s, t \in registry[i] : s = t
  /\ files \in [Ids -> SUBSET {"torn", "temp", "whole"}]
  /\ pass \in [at : {"idle", "write", "rename", "mark"}, left : SUBSET Ids, done : SUBSET Ids]
  /\ preface.matched \in Seq(DOMAIN folder) /\ preface.of \in Seq(DOMAIN folder)

\* What a pass is at was the agent's and nobody changes it; only ids that were drawn have
\* a skill or a file.
PassIsOfAgents ==
  /\ pass.at = "idle" => pass = NoPass
  /\ \A i \in pass.left \cup pass.done : i \in drawn /\ \A s \in registry[i] : s.source = "agent"
  /\ \A i \in Ids \ drawn : registry[i] = {} /\ files[i] = {}

\* The inductive invariant.
IInv == TypeOK /\ PassIsOfAgents /\ SkillsAreKept
===============================================================================
