------------------------------- MODULE PromptCache -------------------------------
(***************************************************************************)
(* CacheCoordinator (crates/darius-daemon/src/cache.rs): which prompt      *)
(* prefixes are warm, under which version of the system prompt, and what   *)
(* that is counted as.  Four locks, taken one inside the other by some     *)
(* calls and one after the other by others.                                *)
(***************************************************************************)
EXTENDS Integers, Sequences, FiniteSets

CONSTANTS
  Threads, Prefixes,
  MaxCalls   \* bounds the calls made

VARIABLES
  holder,   \* per lock: who has it
  doing,    \* per thread: the call it is in, the locks it has still to take, what it knows
  version,  \* system_prompt_version
  warm,     \* cached_keys: per prefix none, or the version it was recorded under
  stats,    \* per_turn_stats, how many
  metrics,  \* hits and misses
  calls

vars == <<holder, doing, version, warm, stats, metrics, calls>>

Locks == {"version", "keys", "stats", "metrics"}

\* What each call locks, in its order.
Order(call) ==
  CASE call = "check" -> <<"keys", "stats", "metrics">>
    [] call = "record" -> <<"stats", "metrics">>
    [] call = "bump" -> <<"version", "keys">>
    [] call = "clear" -> <<"stats", "keys">>
    [] call = "read" -> <<"version">>

Rest == [call |-> "none", takes |-> <<>>, prefix |-> {}, knows |-> 0, hit |-> FALSE, under |-> 0]

Init ==
  /\ holder = [l \in Locks |-> {}] /\ doing = [t \in Threads |-> Rest]
  /\ version = 1 /\ warm = [p \in Prefixes |-> {}]
  /\ stats = 0 /\ metrics = [hits |-> 0, misses |-> 0] /\ calls = 0

Begin(t, call, prefix) ==
  /\ doing[t].takes = <<>> /\ calls < MaxCalls /\ calls' = calls + 1
  /\ doing' = [doing EXCEPT ![t].call = call, ![t].takes = Order(call), ![t].prefix = prefix, ![t].hit = FALSE]
  /\ UNCHANGED <<holder, version, warm, stats, metrics>>

\* clear_stats' first guard is a temporary, gone before it takes the keys.
LetsGo(call) == call = "clear"

Mine(t) == {l \in Locks : holder[l] = {t}}

\* The lock it waits for next: what it lets go, what it keeps.
Take(t, l) ==
  /\ doing[t].takes # <<>> /\ l = Head(doing[t].takes) /\ holder[l] = {}
  /\ LET last == Tail(doing[t].takes) = <<>>
         freed == IF last \/ LetsGo(doing[t].call) THEN Mine(t) \cup {l} ELSE {}
     IN  holder' = [k \in Locks |-> IF k \in freed THEN {} ELSE IF k = l THEN {t} ELSE holder[k]]
  /\ UNCHANGED calls
Moves(t, hit, under, knows) ==
  doing' = [doing EXCEPT ![t].takes = Tail(@), ![t].hit = hit, ![t].under = under, ![t].knows = knows]
Goes(t) == Moves(t, doing[t].hit, doing[t].under, doing[t].knows)

\* check_or_record_key: warm, or from now on.
TakeKeys(t) ==
  /\ Take(t, "keys") /\ UNCHANGED <<version, stats, metrics>>
  /\ IF doing[t].call = "check"
     THEN \E p \in doing[t].prefix :
            IF warm[p] # {} THEN Moves(t, TRUE, CHOOSE v \in warm[p] : TRUE, doing[t].knows) /\ UNCHANGED warm
            ELSE /\ warm' = [warm EXCEPT ![p] = {version}]
                 /\ Moves(t, FALSE, 0, doing[t].knows)
     ELSE warm' = [p \in Prefixes |-> {}] /\ Goes(t)

\* record_turn and clear_stats: one more, or none.
TakeStats(t) ==
  /\ Take(t, "stats") /\ Goes(t) /\ UNCHANGED <<version, warm, metrics>>
  /\ stats' = IF doing[t].call = "clear" THEN 0 ELSE stats + 1

TakeMetrics(t) ==
  /\ Take(t, "metrics") /\ Goes(t) /\ UNCHANGED <<version, warm, stats>>
  /\ metrics' = IF doing[t].call = "record" \/ doing[t].hit THEN [metrics EXCEPT !.hits = @ + 1]
                ELSE [metrics EXCEPT !.misses = @ + 1]

\* bump_version and system_prompt_version.
TakeVersion(t) ==
  /\ Take(t, "version") /\ UNCHANGED <<warm, stats, metrics>>
  /\ IF doing[t].call = "bump" THEN version' = version + 1 /\ Goes(t)
     ELSE Moves(t, FALSE, 0, version) /\ UNCHANGED version

Next ==
  \E t \in Threads :
    \/ TakeKeys(t) \/ TakeStats(t) \/ TakeMetrics(t) \/ TakeVersion(t)
    \/ \E call \in {"record", "bump", "clear", "read"} : Begin(t, call, {})
    \/ \E p \in Prefixes : Begin(t, "check", {p})

-------------------------------------------------------------------------------
(* Properties.                                                               *)

WaitsFor(t, u) == doing[t].takes # <<>> /\ holder[Head(doing[t].takes)] = {u}

\* The threads that wait for one another make no circle; a caller who has read the version is never
\* told that a prefix is warm which was recorded before that version; and every recorded
\* turn that is still listed is counted, once the threads are out.
CacheIsOfVersion ==
  /\ \A S \in SUBSET Threads : S # {} => \E t \in S : \A u \in S : ~WaitsFor(t, u)
  /\ \A t \in Threads : doing[t].hit => doing[t].under >= doing[t].knows
  /\ (\A t \in Threads : doing[t].takes = <<>>) => stats <= metrics.hits + metrics.misses

Calls == {"check", "record", "bump", "clear", "read"}

\* Where a thread may be: in which call, what it has still to take and what it has.
Spot(call, takes, mine) ==
  \/ takes = <<>> /\ mine = {}
  \/ /\ call = "check"
     /\ \/ takes = <<"keys", "stats", "metrics">> /\ mine = {}
        \/ takes = <<"stats", "metrics">> /\ mine = {"keys"}
        \/ takes = <<"metrics">> /\ mine = {"keys", "stats"}
  \/ /\ call = "record"
     /\ \/ takes = <<"stats", "metrics">> /\ mine = {}
        \/ takes = <<"metrics">> /\ mine = {"stats"}
  \/ /\ call = "bump"
     /\ \/ takes = <<"version", "keys">> /\ mine = {}
        \/ takes = <<"keys">> /\ mine = {"version"}
  \/ /\ call = "clear"
     /\ takes \in {<<"stats", "keys">>, <<"keys">>} /\ mine = {}
  \/ call = "read" /\ takes = <<"version">> /\ mine = {}

TypeOK ==
  /\ DOMAIN holder = Locks
  /\ doing \in [Threads -> [call : Calls \cup {"none"}, takes : Seq(Locks), prefix : SUBSET Prefixes,
                            knows : Nat, hit : BOOLEAN, under : Nat]]
  /\ version \in Nat /\ warm \in [Prefixes -> SUBSET Nat]
  /\ stats \in Nat /\ metrics \in [hits : Nat, misses : Nat]

\* Every thread has the locks of where it is in its call, and no other.
LocksAreHeld ==
  /\ \A l \in Locks : holder[l] \in {{}} \cup {{t} : t \in Threads}
  /\ \A t \in Threads : Spot(doing[t].call, doing[t].takes, Mine(t))

\* Between the version and the keys of a bump what is warm is one version behind, and
\* nobody knows the new one.
Bumping == \E t \in Threads : doing[t].call = "bump" /\ doing[t].takes = <<"keys">>
VersionsAreKnown ==
  /\ \A t \in Threads : doing[t].knows <= version /\ (Bumping => doing[t].knows < version)
  /\ \A p \in Prefixes : \A v \in warm[p] : v = version \/ (Bumping /\ v + 1 = version)

TurnsAreCounted ==
  stats <= metrics.hits + metrics.misses
             + (IF \E t \in Threads : doing[t].takes = <<"metrics">> THEN 1 ELSE 0)

\* The inductive invariant.
IInv ==
  /\ TypeOK /\ LocksAreHeld /\ VersionsAreKnown /\ TurnsAreCounted
  /\ \A t \in Threads : doing[t].hit => doing[t].under >= doing[t].knows
===============================================================================
