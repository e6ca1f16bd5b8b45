-------------------------------- MODULE Providers --------------------------------
(***************************************************************************)
(* What decides whether a provider has its credential: the start of a      *)
(* session (crates/darius-cli/src/runtime_selector.rs), a choice of model  *)
(* (runtime.rs), the probe (config_probe.rs), the listing (models_cmd.rs), *)
(* and the request itself (crates/darius-daemon/src/model_router/          *)
(* chat_completions.rs), over one environment, .env and OAuth store.       *)
(***************************************************************************)

CONSTANT Selectable  \* records: profile "api", "keyless", "nous" or "custom" (not in the
                  \* registry); address "remote", "loopback" or "any" (0.0.0.0); key
                  \* "named" or "NONE"

VARIABLES
  config,    \* the stored choice: {} or {choice}
  exported,  \* the variable of the key in the shell
  dotenv,    \* the .env files have it
  store,     \* the OAuth store: "none", "fresh", "expired" or "quarantined"
  session,   \* {} or the one running: its choice, its key, how it came to it
  last       \* what the last step sent, if it was a request, a probe or a listing

vars == <<config, exported, dotenv, store, session, last>>

Exports == {"unset", "blank", "set"}

Init ==
  /\ config = {} /\ exported = "unset" /\ dotenv = FALSE /\ store = "none"
  /\ session = {} /\ last = {}

-------------------------------------------------------------------------------
(* The user, in a shell.                                                     *)

Configure ==
  /\ config' \in {{c} : c \in Selectable}
  /\ UNCHANGED <<exported, dotenv, store, session>> /\ last' = {}

Export ==
  /\ \/ exported' \in Exports \ {exported} /\ UNCHANGED dotenv
     \/ ~dotenv /\ dotenv' = TRUE /\ UNCHANGED exported
  /\ UNCHANGED <<config, store, session>> /\ last' = {}

\* auth login and logout; the clock; a refresh that failed for good.
StoreChanges ==
  /\ \/ store' = "fresh"
     \/ store' = "none"
     \/ store = "fresh" /\ store' = "expired"
     \/ store = "expired" /\ store' = "quarantined"
  /\ UNCHANGED <<config, exported, dotenv, session>> /\ last' = {}

\* load_dotenv_if_present: what is exported, blank too, is not overwritten.
Merged == IF exported = "unset" /\ dotenv THEN "set" ELSE exported

-------------------------------------------------------------------------------
(* Deciding.                                                                 *)

\* The documented order (resolve_credential): keyless, the key, the store.
Resolves(c, key) ==
  \/ c.profile = "keyless" \/ c.key = "NONE" \/ key = "set"
  \/ c.profile = "nous" /\ store = "fresh"

\* select.
Selects(c, key) == c.address # "remote" \/ c.key = "NONE" \/ key = "set"

\* apply_model_config, which knows one address less and takes a blank key.
Applies(c, key) == c.address = "loopback" \/ c.key = "NONE" \/ key # "unset"

\* is_keyless of the client: only of a profile in the registry.
SkipsLookup(c) == c.profile = "keyless" \/ (c.profile # "custom" /\ c.key = "NONE")

\* resolve_auth and the refresh it may do: what the request sends.
Auth(c, key, stored) ==
  IF SkipsLookup(c) THEN {"empty"}
  ELSE IF key = "set" THEN {"key"}
  ELSE IF c.profile = "nous" THEN (IF stored = "fresh" THEN {"token"}
                                   ELSE IF stored = "expired" THEN {"token", "denied"} ELSE {"denied"})
  ELSE IF c.address # "remote" \/ c.key = "NONE" THEN {"placeholder"} ELSE {"denied"}

\* bearer_for.
Bearer(c, key) == IF c.profile = "keyless" \/ c.key = "NONE" \/ key # "set" THEN "nothing" ELSE "key"

-------------------------------------------------------------------------------
(* Commands.                                                                 *)

Start ==
  /\ \E c \in config :
       session' = IF Selects(c, Merged) THEN {[choice |-> c, key |-> Merged, how |-> "started"]} ELSE {}
  /\ UNCHANGED <<config, exported, dotenv, store>> /\ last' = {}

\* The choice is stored before it is looked at.
Choose(c) ==
  /\ \E s \in session :
       session' = {IF Applies(c, s.key) THEN [choice |-> c, key |-> s.key, how |-> "chosen"] ELSE s}
  /\ config' = {c}
  /\ UNCHANGED <<exported, dotenv, store>> /\ last' = {}

\* With the store as the step leaves it.
Gives(c, how, key, sent) == last' = {[choice |-> c, how |-> how, key |-> key, sent |-> sent, store |-> store']}

\* A token that is refreshed is saved.
Request ==
  /\ \E s \in session : \E sent \in Auth(s.choice, s.key, store) :
       /\ store' = IF sent = "token" THEN "fresh" ELSE store
       /\ Gives(s.choice, s.how, s.key, sent)
  /\ UNCHANGED <<config, exported, dotenv, session>>

\* The probe: .env is not read; the store is asked first, which refreshes what expired,
\* and the key none the less.
Probe ==
  /\ \E c \in config :
       LET keyless == c.profile = "keyless" \/ c.key = "NONE"
           passes == c.address # "remote" \/ keyless \/ exported = "set"
       IN /\ c.profile = "nous" => store \in {"fresh", "expired"}
          /\ store' = IF c.profile = "nous" THEN "fresh" ELSE store
          /\ \E sent \in Auth(c, exported, store') :
               Gives(c, "started", exported, IF passes THEN sent ELSE "refused")
  /\ UNCHANGED <<config, exported, dotenv, session>>

List(c) ==
  /\ UNCHANGED <<config, exported, dotenv, store, session>>
  /\ Gives(c, "started", Merged, Bearer(c, Merged))

Quit ==
  /\ session # {} /\ session' = {}
  /\ UNCHANGED <<config, exported, dotenv, store>> /\ last' = {}

Next ==
  \/ Configure \/ Export \/ StoreChanges
  \/ Start \/ Request \/ Probe \/ Quit
  \/ \E c \in Selectable : Choose(c) \/ List(c)

-------------------------------------------------------------------------------
(* Properties.                                                               *)

\* The five deciders agree where it counts: a session that was let start, or a
\* probe that passed, has its request denied only for want of a token in the store;
\* a chosen model also for a blank key; never when the documented order finds a
\* credential (credentials.rs:4); and no key goes to a keyless provider.
CredentialsAgree ==
  \A l \in last :
    /\ l.sent = "denied" => /\ \/ l.choice.profile = "nous" /\ l.store # "fresh"
                               \/ l.how = "chosen" /\ l.key = "blank"
                            /\ ~Resolves(l.choice, l.key)
    /\ l.choice.profile = "keyless" => l.sent \notin {"key", "token"}

-------------------------------------------------------------------------------
(* The inductive invariant of CredentialsAgree.                               *)

\* A session has passed the decider it came through.
Admitted(s) ==
  /\ s.key \in Exports
  /\ s.how \in {"started", "chosen"}
  /\ s.how = "started" => Selects(s.choice, s.key)
  /\ s.how = "chosen" => Applies(s.choice, s.key)

IInv ==
  /\ exported \in Exports
  /\ \A s \in session : Admitted(s)
  /\ CredentialsAgree
===============================================================================
