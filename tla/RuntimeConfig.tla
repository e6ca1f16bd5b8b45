----------------------------- MODULE RuntimeConfig -----------------------------
(***************************************************************************)
(* The configuration of a profile and the processes that share its files:  *)
(* sessions, which read .env and config.toml when they start and write     *)
(* config.toml when a model is chosen (crates/darius-cli/src/runtime.rs,   *)
(* runtime_selector.rs, crates/darius-core/src/config.rs), and config      *)
(* init, preset and setup (crates/darius-cli/src/config_init.rs).  There   *)
(* is no lock: what fs::write truncates is torn until it is written.       *)
(***************************************************************************)
EXTENDS Integers

CONSTANTS
  Sessions, Wizards,
  Models,     \* what a config or a choice names; each but the keyless needs one key
  Keyless,    \* models of a local address or of a profile without a key
  Mock        \* models of the providers mock and offline

VARIABLES
  config,     \* config.toml: absent, torn or whole; its model
  dotenv,     \* <home>/.env: torn or whole; the model key, and the other keys
  session,    \* per session: where it is, its environment, label, model in use, choice
  wizard      \* per config command: where it is, its model, --force, what it read

vars == <<config, dotenv, session, wizard>>

NoConfig == [state |-> "absent", model |-> "none"]
Off == [at |-> "off", key |-> FALSE, offline |-> FALSE, label |-> "none", model |-> "none", choice |-> "none"]
Done == [at |-> "done", model |-> "none", force |-> FALSE, read |-> FALSE]

Init ==
  /\ config = NoConfig
  /\ dotenv = [state |-> "whole", key |-> FALSE, others |-> FALSE]
  /\ session = [s \in Sessions |-> Off]
  /\ wizard = [w \in Wizards |-> Done]

Whole(model) == [state |-> "whole", model |-> model]

-------------------------------------------------------------------------------
(* Sessions.                                                                 *)

\* load_dotenv_if_present; of a torn file the lines there are.
LoadDotenv(s, offline) ==
  /\ session[s].at = "off"
  /\ \E key \in {dotenv.key, FALSE} :
       /\ dotenv.state = "whole" => key = dotenv.key
       /\ session' = [session EXCEPT ![s] = [Off EXCEPT !.at = "env", !.key = key, !.offline = offline]]
  /\ UNCHANGED <<config, dotenv, wizard>>

\* A live provider comes from the stored config and has its key, or needs none;
\* without a config the runtime is one for setting up, whatever keys there are.
Selected(s) ==
  IF session[s].offline THEN {[label |-> "offline-demo", model |-> "mock"]}
  ELSE IF config.state = "absent" THEN {[label |-> "not-configured", model |-> "mock"]}
  ELSE IF config.model \in Keyless \/ session[s].key
       THEN {[label |-> config.model, model |-> config.model]}
  ELSE {}

\* A torn config is an error, offline too; so is a key that is missing, and a
\* provider the router does not know.
Resolve(s) ==
  /\ session[s].at = "env"
  /\ session' = [session EXCEPT ![s] =
       IF config.state = "torn" \/ Selected(s) = {} \/ (~@.offline /\ config.model \in Mock) THEN Off
       ELSE [@ EXCEPT !.at = "up", !.label = (CHOOSE r \in Selected(s) : TRUE).label,
                      !.model = (CHOOSE r \in Selected(s) : TRUE).model]]
  /\ UNCHANGED <<config, dotenv, wizard>>

\* apply_model_config: save_model_config writes a file of the model alone.
BeginSave(s, m) ==
  /\ session[s].at = "up"
  /\ session' = [session EXCEPT ![s].at = "saving", ![s].choice = m]
  /\ config' = [state |-> "torn", model |-> "none"]
  /\ UNCHANGED <<dotenv, wizard>>

\* The mock only offline; another model only with its key.
Usable(s, m) ==
  IF m \in Mock THEN session[s].offline ELSE m \in Keyless \/ session[s].key

\* The label is renamed before anything is looked at; the model in use changes
\* only when all is well.
FinishSave(s) ==
  LET m == session[s].choice IN
  /\ session[s].at = "saving"
  /\ config' = Whole(m)
  /\ session' = [session EXCEPT ![s].at = "up", ![s].label = m, ![s].choice = "none",
                   ![s].model = IF Usable(s, m) THEN (IF m \in Mock THEN "mock" ELSE m) ELSE @]
  /\ UNCHANGED <<dotenv, wizard>>

Quit(s) ==
  /\ session[s].at # "off"
  /\ session' = [session EXCEPT ![s] = Off]
  /\ UNCHANGED <<config, dotenv, wizard>>

-------------------------------------------------------------------------------
(* config setup, preset and init.                                            *)

To(w, at) == wizard' = [wizard EXCEPT ![w].at = at]

\* setup stores a key that was typed before it looks for a config.
BeginSetup(w, m, typed) ==
  /\ wizard[w] = Done /\ (typed => m \notin Keyless) /\ m \notin Mock
  /\ wizard' = [wizard EXCEPT ![w] =
       [Done EXCEPT !.at = IF typed THEN "read" ELSE "look", !.model = m]]
  /\ UNCHANGED <<config, dotenv, session>>

BeginInit(w, m, force) ==
  /\ wizard[w] = Done /\ m \notin Mock
  /\ wizard' = [wizard EXCEPT ![w] = [at |-> "look", model |-> m, force |-> force, read |-> FALSE]]
  /\ UNCHANGED <<config, dotenv, session>>

\* append_home_env_key: the other lines are read, and written back with the key.
ReadEnv(w) ==
  /\ wizard[w].at = "read"
  /\ \E others \in {dotenv.others, FALSE} :
       /\ dotenv.state = "whole" => others = dotenv.others
       /\ wizard' = [wizard EXCEPT ![w].at = "truncate", ![w].read = others]
  /\ UNCHANGED <<config, dotenv, session>>

TruncateEnv(w) ==
  /\ wizard[w].at = "truncate" /\ To(w, "write")
  /\ dotenv' = [dotenv EXCEPT !.state = "torn"]
  /\ UNCHANGED <<config, session>>

WriteEnv(w) ==
  /\ wizard[w].at = "write"
  /\ wizard' = [wizard EXCEPT ![w].at = "look", ![w].read = FALSE]
  /\ dotenv' = [state |-> "whole", key |-> TRUE, others |-> wizard[w].read]
  /\ UNCHANGED <<config, session>>

\* initialize_profile: a first look, then a private file of its own, written whole.
Look(w) ==
  /\ wizard[w].at = "look"
  /\ IF config.state # "absent" /\ ~wizard[w].force
     THEN wizard' = [wizard EXCEPT ![w] = Done]
     ELSE To(w, "publish")
  /\ UNCHANGED <<config, dotenv, session>>

\* Mutant: a rename in every case.
PublishesAlways(w) == TRUE

\* publish: a rename when forced; else a hard link, which fails if the target
\* has come to exist.
Publishes(w) == wizard[w].force \/ config.state = "absent"

Publish(w) ==
  /\ wizard[w].at = "publish"
  /\ IF Publishes(w)
     THEN config' = Whole(wizard[w].model)
     ELSE UNCHANGED config
  /\ wizard' = [wizard EXCEPT ![w] = Done]
  /\ UNCHANGED <<dotenv, session>>

Kill(w) ==
  /\ wizard[w] # Done
  /\ wizard' = [wizard EXCEPT ![w] = Done]
  /\ UNCHANGED <<config, dotenv, session>>

\* The user, with an editor.
UserEdits ==
  /\ \/ config.state # "absent" /\ config' = NoConfig /\ UNCHANGED dotenv
     \/ dotenv' = [dotenv EXCEPT !.others = TRUE] /\ dotenv.state = "whole" /\ UNCHANGED config
  /\ UNCHANGED <<session, wizard>>

Next ==
  \/ \E s \in Sessions, offline \in BOOLEAN : LoadDotenv(s, offline)
  \/ \E s \in Sessions : Resolve(s) \/ FinishSave(s) \/ Quit(s)
  \/ \E s \in Sessions, m \in Models : BeginSave(s, m)
  \/ \E w \in Wizards, m \in Models, b \in BOOLEAN : BeginSetup(w, m, b) \/ BeginInit(w, m, b)
  \/ \E w \in Wizards : ReadEnv(w) \/ TruncateEnv(w) \/ WriteEnv(w) \/ Look(w) \/ Publish(w) \/ Kill(w)
  \/ UserEdits

-------------------------------------------------------------------------------
(* Properties.                                                               *)

\* A model in use has its key or needs none, and the mock answers nobody who did
\* not ask for it or has yet to set up.
ModelsAreBacked ==
  \A s \in Sessions : session[s].at \in {"up", "saving"} =>
    IF session[s].model = "mock" THEN session[s].offline \/ session[s].label = "not-configured" \/ session[s].label \in Models
    ELSE session[s].model \in Keyless \/ session[s].key

\* Without --force a config that exists is replaced by no other, of whichever
\* process and however late it came: of wizards that run together one publishes.
WizardsReplaceNothing ==
  \A w \in Wizards : wizard[w].at = "publish" /\ wizard'[w] = Done /\ ~wizard[w].force =>
    config.state = "absent" \/ config' = config

ConfigIsSafe == []ModelsAreBacked /\ [][WizardsReplaceNothing]_vars

-------------------------------------------------------------------------------
(* The inductive invariant of ModelsAreBacked.                                *)

TypeOK ==
  /\ config.state \in {"absent", "torn", "whole"}
  /\ dotenv \in [state : {"torn", "whole"}, key : BOOLEAN, others : BOOLEAN]
  /\ session \in [Sessions -> [at : {"off", "env", "up", "saving"}, key : BOOLEAN, offline : BOOLEAN,
                               label : Models \cup {"none", "offline-demo", "not-configured"},
                               model : Models \cup {"none", "mock"}, choice : Models \cup {"none"}]]
  /\ wizard \in [Wizards -> [at : {"done", "read", "truncate", "write", "look", "publish"},
                             model : Models \cup {"none"}, force : BOOLEAN, read : BOOLEAN]]

\* What is on its way to config.toml, and what is there, is a model.
ModelsAreNamed ==
  /\ config.state = "whole" => config.model \in Models
  /\ \A s \in Sessions : session[s].at = "saving" => session[s].choice \in Models
  /\ \A w \in Wizards : wizard[w].at # "done" => wizard[w].model \in Models

IInv == TypeOK /\ ModelsAreNamed /\ ModelsAreBacked
===============================================================================
