------------------------------- MODULE ModelCalls -------------------------------
(***************************************************************************)
(* Calls on a provider: which one a role is routed to (crates/darius-      *)
(* daemon/src/model_router.rs), with what credential, and what is done     *)
(* when it is refused (model_router/chat_completions.rs, post_chat).  Other *)
(* callers re-register roles, log in and out, and rotate the Nous token    *)
(* meanwhile.  A provider registered under a role has no profile; one      *)
(* called under its own name has that profile's.                           *)
(***************************************************************************)
EXTENDS Integers, Sequences, FiniteSets

CONSTANTS
  Callers,
  Roles,        \* the names "default" and "rater" are registered under
  MaxVersion    \* bounds the registrations and the tokens issued

\* Without a profile, or with one: keyless, with a key or local, of Nous.
ProfileKinds == {"none", "keyless", "api", "local", "nous"}
NoHeader == [kind |-> "absent", version |-> 0]
Idle == [at |-> "idle", role |-> "", gen |-> 0, model |-> "", profile |-> "none",
         header |-> NoHeader, managed |-> FALSE, posts |-> <<>>]

VARIABLES
  registry,   \* per role: the registration, 0 before any, and whether it is enabled
  overrides,  \* the roles with a model of their own
  key,        \* the key's variable: "unset", "blank" or "set"
  token,      \* the OAuth store: the version of the Nous token, 0 for none
  valid,      \* the version the portal accepts
  calls       \* per caller

vars == <<registry, overrides, key, token, valid, calls>>

Init ==
  /\ registry = [r \in Roles |-> [gen |-> 0, enabled |-> FALSE]]
  /\ overrides = {}
  /\ key \in {"unset", "blank", "set"}
  /\ token = 0 /\ valid = 1
  /\ calls = [c \in Callers |-> Idle]

Set(c, r) == calls' = [calls EXCEPT ![c] = r]

-------------------------------------------------------------------------------
(* Others.                                                                   *)

Register(r, enabled) ==
  /\ registry[r].gen < MaxVersion
  /\ registry' = [registry EXCEPT ![r] = [gen |-> @.gen + 1, enabled |-> enabled]]
  /\ UNCHANGED <<overrides, key, token, valid, calls>>

SetEnabled(r, enabled) ==
  /\ registry[r].gen > 0 /\ registry' = [registry EXCEPT ![r].enabled = enabled]
  /\ UNCHANGED <<overrides, key, token, valid, calls>>

SetOverride(r) ==
  /\ overrides' = overrides \cup {r}
  /\ UNCHANGED <<registry, key, token, valid, calls>>

\* The portal no longer takes the token it gave; a new login replaces the stored one.
Revoke ==
  /\ valid < MaxVersion /\ valid' = valid + 1
  /\ UNCHANGED <<registry, overrides, key, token, calls>>

Login == token' = valid /\ UNCHANGED <<registry, overrides, key, valid, calls>>
Logout == token' = 0 /\ UNCHANGED <<registry, overrides, key, valid, calls>>

-------------------------------------------------------------------------------
(* A call.                                                                   *)

\* route: single_provider, a snapshot.
Route(c, r) ==
  /\ calls[c].at = "idle"
  /\ Set(c, IF registry[r].enabled
            THEN [Idle EXCEPT !.at = "routed", !.role = r, !.gen = registry[r].gen]
            ELSE [Idle EXCEPT !.at = "no provider", !.role = r])
  /\ UNCHANGED <<registry, overrides, key, token, valid>>

\* The model under a lock of its own; with no key variable at all, a made-up answer.
Resolve(c) ==
  /\ calls[c].at = "routed"
  /\ Set(c, [calls[c] EXCEPT !.model = IF calls[c].role \in overrides THEN "override" ELSE "registered",
                             !.at = IF key = "unset" THEN "made up" ELSE "called"])
  /\ UNCHANGED <<registry, overrides, key, token, valid>>

\* A session calls the provider it configured.
Call(c, profile) ==
  /\ calls[c].at = "idle" /\ profile # "none"
  /\ Set(c, [Idle EXCEPT !.at = "called", !.profile = profile])
  /\ UNCHANGED <<registry, overrides, key, token, valid>>

\* resolve_auth.
Authorize(c) ==
  /\ calls[c].at = "called"
  /\ LET Gets(kind, version, managed) ==
           Set(c, [calls[c] EXCEPT !.at = "ready", !.managed = managed,
                                   !.header = [kind |-> kind, version |-> version]])
         p == calls[c].profile IN
     \/ p = "keyless" /\ Gets("empty", 0, FALSE)
     \/ p # "keyless" /\ key = "set" /\ Gets("key", 0, FALSE)
     \/ p = "nous" /\ key # "set" /\ token > 0 /\ Gets("token", token, TRUE)
     \/ p = "local" /\ key # "set" /\ Gets("ollama", 0, FALSE)
     \/ /\ key # "set" /\ (p \in {"none", "api"} \/ (p = "nous" /\ token = 0))
        /\ Set(c, [calls[c] EXCEPT !.at = "unauthorized"])
  /\ UNCHANGED <<registry, overrides, key, token, valid>>

\* Mutant: any refusal is retried with a token.
RetriesAll(call) == TRUE

\* A refusal of a token from the store, the first time.
Retries(call) == call.managed

\* The provider takes it, or refuses it; a stale token it always refuses.
Post(c, refused) ==
  /\ calls[c].at \in {"ready", "refreshed"}
  /\ calls[c].header.kind = "token" /\ calls[c].header.version # valid => refused
  /\ Set(c, [calls[c] EXCEPT
       !.posts = Append(@, calls[c].header),
       !.at = IF ~refused THEN "answered"
              ELSE IF calls[c].at = "ready" /\ Retries(calls[c]) THEN "refused" ELSE "failed"])
  /\ UNCHANGED <<registry, overrides, key, token, valid>>

\* NousAuthService::refresh: a new token, stored, if there is one to refresh.
Refresh(c) ==
  /\ calls[c].at = "refused"
  /\ \/ /\ token > 0 /\ valid < MaxVersion
        /\ valid' = valid + 1 /\ token' = valid'
        /\ Set(c, [calls[c] EXCEPT !.at = "refreshed", !.header = [kind |-> "token", version |-> token']])
     \/ Set(c, [calls[c] EXCEPT !.at = "unauthorized"]) /\ UNCHANGED <<token, valid>>
  /\ UNCHANGED <<registry, overrides, key>>

\* No connection, the deadline, the turn cancelled.
Break(c) ==
  /\ calls[c].at \in {"called", "ready", "refused", "refreshed"}
  /\ Set(c, [calls[c] EXCEPT !.at = "failed"])
  /\ UNCHANGED <<registry, overrides, key, token, valid>>

Next ==
  \/ \E r \in Roles, e \in BOOLEAN : Register(r, e) \/ SetEnabled(r, e)
  \/ \E r \in Roles : SetOverride(r)
  \/ Revoke \/ Login \/ Logout
  \/ \E c \in Callers :
       \/ Resolve(c) \/ Authorize(c) \/ Refresh(c) \/ Break(c)
       \/ \E r \in Roles : Route(c, r)
       \/ \E profile \in ProfileKinds : Call(c, profile)
       \/ \E refused \in BOOLEAN : Post(c, refused)

-------------------------------------------------------------------------------
(* Properties.                                                               *)

\* A token from the store goes to Nous only, a keyless provider gets no credential, and
\* a local one never a token; nothing is posted more than twice, and twice only if the
\* first was a stored token and the second a later one; a made-up answer means that no
\* key was there to ask with, and nothing was posted for it.
CredentialsStayHome ==
  \A c \in Callers :
    LET call == calls[c] IN
    /\ \A n \in DOMAIN call.posts :
         /\ call.posts[n].kind = "token" <=> call.profile = "nous" /\ key # "set"
         /\ call.posts[n].kind = "empty" <=> call.profile = "keyless"
         /\ call.posts[n].kind = "ollama" => call.profile = "local" /\ key # "set"
         /\ call.profile = "none" => call.gen > 0 /\ call.gen <= registry[call.role].gen
    /\ Len(call.posts) <= 2
    /\ Len(call.posts) = 2 => call.managed /\ call.posts[1].version < call.posts[2].version
    /\ call.at = "made up" => key = "unset" /\ call.posts = <<>>

-------------------------------------------------------------------------------
(* The inductive invariant of CredentialsStayHome.                            *)

Headers == [kind : {"absent", "empty", "key", "token", "ollama"}, version : Nat]

TypeOK ==
  /\ registry \in [Roles -> [gen : Nat, enabled : BOOLEAN]]
  /\ token \in Nat /\ valid \in Nat /\ token <= valid
  /\ calls \in [Callers ->
       [at : {"idle", "no provider", "routed", "made up", "called", "ready", "unauthorized",
              "answered", "refused", "refreshed", "failed"},
        role : Roles \cup {""}, gen : Nat, model : {"", "registered", "override"}, profile : ProfileKinds,
        header : Headers, managed : BOOLEAN, posts : Seq(Headers)]]

\* The header suits the call's provider, as each of those posted with it does.
Suits(call, header) ==
  /\ header.kind = "token" <=> call.profile = "nous" /\ key # "set"
  /\ header.kind = "empty" <=> call.profile = "keyless"
  /\ header.kind = "ollama" => call.profile = "local" /\ key # "set"

\* What a call has posted at each point of its way, and with what header it goes on.
Posted(call) ==
  /\ call.at \in {"idle", "no provider", "routed", "made up", "called", "ready"} => call.posts = <<>>
  /\ call.at \in {"ready", "refused", "refreshed"} =>
       Suits(call, call.header) /\ (call.managed <=> call.header.kind = "token")
  /\ call.at \in {"ready", "refused"} /\ call.managed => call.header.version <= valid
  /\ call.at = "refused" => call.managed /\ call.posts = <<call.header>>
  /\ call.at = "refreshed" =>
       call.managed /\ Len(call.posts) = 1 /\ call.posts[1].version < call.header.version

\* A call without a profile was routed to a provider that was registered.
Routed(call) ==
  call.at \notin {"idle", "no provider"} /\ call.profile = "none" =>
    call.role \in Roles /\ call.gen > 0 /\ call.gen <= registry[call.role].gen

IInv ==
  /\ TypeOK
  /\ \A r \in Roles : registry[r].enabled => registry[r].gen > 0
  /\ \A c \in Callers : Posted(calls[c]) /\ Routed(calls[c])
  /\ CredentialsStayHome
===============================================================================
