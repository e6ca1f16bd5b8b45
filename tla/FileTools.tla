------------------------------- MODULE FileTools -------------------------------
(***************************************************************************)
(* The file tools (crates/darius-tools/src): how a path of a model becomes *)
(* a place in the workspace, how write_file makes its directories, writes  *)
(* a temporary file and renames it, how read_file and search_files look at *)
(* the tree meanwhile, and how long results spill.  Several sessions of one *)
(* process share a workspace, so writers and searches interleave between   *)
(* any two system calls, and a writer may be killed.                       *)
(*                                                                         *)
(* A path is a sequence of names from the top of the file system; a file   *)
(* holds one value of Contents, written whole or not at all by a rename.   *)
(***************************************************************************)
EXTENDS Integers, Sequences, FiniteSets, SequencesExt

CONSTANTS
  Writers,    \* calls of write_file that may run at the same time
  Root,       \* the canonical workspace root
  Tree0,      \* the file system at the start: path -> node
  Raws,       \* the relative paths the model asks for
  Contents,   \* what it writes
  Matching,   \* the contents a search looks for
  Cap,        \* MAX_RESULTS, or the limit of the call
  MaxVisited, \* entries a search may look at
  MaxDepth    \* levels a search may descend

VARIABLES
  tree,   \* the file system: path -> node
  write,  \* per writer, its call
  scan    \* one search: its stack, hits, and whether the tree changed under it

vars == <<tree, write, scan>>

Dir == [kind |-> "dir", data |-> <<>>]
File(c) == [kind |-> "file", data |-> c]
Missing == <<"missing">>
NoWrite == [at |-> "idle", raw |-> <<>>, content |-> "none", path |-> <<>>, old |-> "none"]
NoScan == [at |-> "idle", from |-> <<>>, stack |-> <<>>, left |-> {}, depth |-> 0, out |-> <<>>, visited |-> 0,
           steady |-> TRUE]

Init ==
  /\ tree = Tree0
  /\ write = [w \in Writers |-> NoWrite]
  /\ scan = NoScan

-------------------------------------------------------------------------------
(* Paths.                                                                    *)

Exists(t, path) == path \in DOMAIN t
Parent(path) == SubSeq(path, 1, Len(path) - 1)
Below(base, path) == Len(base) <= Len(path) /\ SubSeq(path, 1, Len(base)) = base

\* canonicalize: one component after the other, a link replaced by its target.  It
\* succeeds if there is something at the end.
Canonical(t, path) ==
  LET Step(seen, name) ==
        LET here == Append(seen, name) IN
        IF seen = Missing \/ ~Exists(t, here) THEN Missing
        ELSE IF t[here].kind = "link" THEN t[here].data ELSE here
  IN FoldLeft(Step, <<>>, path)

Joined(raw) == Root \o raw

Resolves(t, path) == Exists(t, Canonical(t, path))

\* An existing path is inside if its canonical form is.
Inside(t, path) == Resolves(t, path) /\ Below(Root, Canonical(t, path))

\* resolve for reading: a path that exists and stays inside.
ResolveRead(t, raw) == IF Inside(t, Joined(raw)) THEN Canonical(t, Joined(raw)) ELSE Missing

\* resolve_create: the parent exists inside; the last name is kept as it is and
\* must not be a link.
ResolveCreate(t, raw) ==
  LET parent == Canonical(t, Parent(Joined(raw)))
      path == Append(parent, Last(raw))
  IN IF ~Inside(t, Parent(Joined(raw))) \/ (Exists(t, path) /\ t[path].kind = "link")
     THEN Missing ELSE path

\* The longest prefix that exists; links are followed by the test.
NearestExisting(t, path) ==
  CHOOSE n \in 0..Len(path) :
    /\ n = 0 \/ Resolves(t, SubSeq(path, 1, n))
    /\ \A m \in n + 1..Len(path) : ~Resolves(t, SubSeq(path, 1, m))

\* The canonical form of that prefix, and what create_dir_all would make below it.
Base(t, raw) ==
  LET parent == Parent(Joined(raw)) IN Canonical(t, SubSeq(parent, 1, NearestExisting(t, parent)))
Made(t, raw) ==
  LET parent == Parent(Joined(raw))
      n == NearestExisting(t, parent)
  IN {Base(t, raw) \o SubSeq(parent, n + 1, m) : m \in n + 1..Len(parent)}

IsDir(t, path) == Exists(t, path) /\ t[path].kind = "dir"

\* ensure_parent_dirs: the nearest existing ancestor must be inside, then every
\* missing one is created: below a directory, and where not even a link that leads
\* nowhere is.
ParentDirsOk(t, raw) ==
  /\ Inside(t, SubSeq(Joined(raw), 1, NearestExisting(t, Parent(Joined(raw)))))
  /\ IsDir(t, Base(t, raw)) /\ \A p \in Made(t, raw) : ~Exists(t, p)

WithParentDirs(t, raw) ==
  [p \in DOMAIN t \cup Made(t, raw) |-> IF p \in DOMAIN t THEN t[p] ELSE Dir]

-------------------------------------------------------------------------------
(* write_file.  The directories are made and the path resolved before the    *)
(* check of protected names, and once more inside write_atomic.              *)

Change(t) == tree' = t /\ scan' = [scan EXCEPT !.steady = @ /\ (scan.at = "idle" \/ t = tree)]
Fail(w) == write' = [write EXCEPT ![w] = [NoWrite EXCEPT !.at = "failed"]]

BeginWrite(w, raw, content) ==
  /\ write[w].at = "idle"
  /\ IF ParentDirsOk(tree, raw)
     THEN /\ Change(WithParentDirs(tree, raw))
          /\ write' = [write EXCEPT ![w] = [NoWrite EXCEPT !.at = "checking", !.raw = raw,
                                                           !.content = content]]
     ELSE Fail(w) /\ UNCHANGED <<tree, scan>>

Protected(path) == Last(path) = "AGENTS"

\* The check of the resolved name, then the path of write_atomic and its parent.
CheckWrite(w) ==
  /\ write[w].at = "checking"
  /\ LET path == ResolveCreate(tree, write[w].raw) IN
     IF path = Missing \/ Protected(path) \/ ~IsDir(tree, Parent(path))
     THEN Fail(w)
     ELSE write' = [write EXCEPT ![w].at = "reading", ![w].path = path]
  /\ UNCHANGED <<tree, scan>>

\* The old content, for the preview of the difference.
ReadOld(w) ==
  /\ write[w].at = "reading"
  /\ LET path == write[w].path IN
     write' = [write EXCEPT ![w].at = "writing",
                 ![w].old = IF Exists(tree, path) /\ tree[path].kind = "file"
                            THEN tree[path].data ELSE "none"]
  /\ UNCHANGED <<tree, scan>>

\* Mutant: the content is written into the target itself.
TempPathIsTarget(w) == write[w].path

\* Where the unfinished content of w lies: its own name, next to its target.
TempPath(w) == Append(Parent(write[w].path), w)

\* The temporary file has the content only when it is complete.
WriteTemp(w) ==
  /\ write[w].at = "writing"
  /\ Change([p \in DOMAIN tree \cup {TempPath(w)} |->
               IF p = TempPath(w) THEN File("partial") ELSE tree[p]])
  /\ write' = [write EXCEPT ![w].at = "flushing"]

\* The rename replaces the target, but not a directory.
Persist(w) ==
  /\ write[w].at = "flushing"
  /\ LET path == write[w].path
         rest == [p \in DOMAIN tree \ {TempPath(w)} |-> tree[p]]
     IN IF IsDir(tree, path)
        THEN Change(rest) /\ Fail(w)
        ELSE /\ Change([p \in DOMAIN rest \cup {path} |->
                          IF p = path THEN File(write[w].content) ELSE rest[p]])
             /\ write' = [write EXCEPT ![w].at = "done"]

Kill(w) ==
  /\ write[w].at \in {"checking", "reading", "writing", "flushing"}
  /\ write' = [write EXCEPT ![w] = [NoWrite EXCEPT !.at = "killed"]]
  /\ UNCHANGED <<tree, scan>>

-------------------------------------------------------------------------------
(* search_files: depth first over a stack of directories, one entry a step.   *)

Children(t, d) == {p \in DOMAIN t : Len(p) = Len(d) + 1 /\ Below(d, p)}

Push(stack, d, depth) == Append(stack, [dir |-> d, depth |-> depth])

BeginSearch(raw) ==
  /\ scan.at = "idle"
  /\ ResolveRead(tree, raw) # Missing
  /\ scan' = [NoScan EXCEPT !.at = "walking", !.from = ResolveRead(tree, raw),
                              !.stack = Push(<<>>, ResolveRead(tree, raw), 0)]
  /\ UNCHANGED <<tree, write>>

\* read_dir of the directory on top of the stack; a file has no entries.
OpenDir ==
  /\ scan.at = "walking" /\ scan.left = {} /\ scan.stack # <<>>
  /\ LET top == Last(scan.stack) IN
     scan' = [scan EXCEPT !.stack = Front(@), !.depth = top.depth, !.left = Children(tree, top.dir)]
  /\ UNCHANGED <<tree, write>>

Accepts(t, p) == Exists(t, p) /\ t[p].kind = "file" /\ t[p].data \in Matching

\* Links are never followed.
Descends(t, p) == IsDir(t, p)

Landing(t, p) == IF t[p].kind = "link" THEN t[p].data ELSE p

\* One entry, in whatever order the directory lists them.
Visit(p) ==
  /\ scan.at = "walking" /\ p \in scan.left /\ scan.visited < MaxVisited
  /\ LET seen == [scan EXCEPT !.left = @ \ {p}, !.visited = @ + 1]
         found == [seen EXCEPT !.out = Append(@, p)]
     IN scan' = IF Descends(tree, p)
                THEN IF scan.depth < MaxDepth
                     THEN [seen EXCEPT !.stack = Push(@, Landing(tree, p), scan.depth + 1)] ELSE seen
                ELSE IF ~Accepts(tree, p) THEN seen
                ELSE IF Len(found.out) >= Cap THEN [found EXCEPT !.at = "capped"] ELSE found
  /\ UNCHANGED <<tree, write>>

EndSearch ==
  /\ scan.at = "walking"
  /\ \/ scan.left = {} /\ scan.stack = <<>> /\ scan' = [scan EXCEPT !.at = "complete"]
     \/ scan.left # {} /\ scan.visited >= MaxVisited /\ scan' = [scan EXCEPT !.at = "exhausted"]
  /\ UNCHANGED <<tree, write>>

Next ==
  \/ \E w \in Writers, raw \in Raws, content \in Contents : BeginWrite(w, raw, content)
  \/ \E w \in Writers : CheckWrite(w) \/ ReadOld(w) \/ WriteTemp(w) \/ Persist(w) \/ Kill(w)
  \/ \E raw \in Raws \cup {<<>>} : BeginSearch(raw)
  \/ OpenDir \/ EndSearch
  \/ \E p \in scan.left : Visit(p)

-------------------------------------------------------------------------------
(* Properties.                                                               *)

\* What writes may not touch: what is outside the workspace, and the protected names.
Apart(p) == ~Below(Root, p) \/ Last(p) = "AGENTS"

\* Whoever else writes, is killed or makes directories: nothing outside the
\* workspace changes, protected files keep what they hold and none appears, though a
\* directory may, and a file that is no call's temporary file holds one complete
\* content: the atomic write of write_file.rs.
FilesAreWhole ==
  /\ \A p \in DOMAIN Tree0 : Apart(p) => Exists(tree, p) /\ tree[p] = Tree0[p]
  /\ \A p \in DOMAIN tree \ DOMAIN Tree0 : Apart(p) => Below(Root, p) /\ tree[p] = Dir
  /\ \A p \in DOMAIN tree :
       tree[p].kind = "file" /\ Last(p) \notin Writers =>
         tree[p].data \in Contents \/ (p \in DOMAIN Tree0 /\ tree[p] = Tree0[p])

Within(d, p) == Below(d, p) /\ Len(p) - Len(d) \in 1..MaxDepth + 1

\* A search never leaves the workspace nor lists a file twice, whatever changes
\* under it, keeps its caps, and one that reached its end over a tree nobody
\* changed has found exactly the matching files of the depth it may descend to.
SearchIsExact ==
  /\ Len(scan.out) <= Cap /\ scan.visited <= MaxVisited
  /\ \A i \in DOMAIN scan.out : Below(Root, scan.out[i])
  /\ IsInjective(scan.out)
  /\ scan.at = "complete" /\ scan.steady =>
       ToSet(scan.out) = {p \in DOMAIN tree : Accepts(tree, p) /\ Within(scan.from, p)}
===============================================================================
