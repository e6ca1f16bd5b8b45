------------------------------- MODULE MCClients ------------------------------
(* What a session asks models with, and what its terminal shows, on small     *)
(* instances: budgets, configuration, listings, credentials, requests and     *)
(* streams, the composer and the screen.  They share no state, so a behaviour *)
(* runs one of them, the focus it was started with, while the others keep     *)
(* their initial state.  Budget is extended, so its constants are these too.  *)
EXTENDS Budget, Sequences, Functions, TLC

CONSTANTS
  Sessions, Wizards, Models, Keyless, Mock,      \* RuntimeConfig
  Processes, Inodes, MemoryTtl, MaxTime,         \* ModelCatalog
  Tasks, Ttl, RetryDelay, MaxDevTime,            \* ModelsDev
  Selectable,                                    \* Providers
  Callers, Roles,                                \* ModelCalls
  Services, States,                              \* AuthStore, with Processes
  MaxVersion,                                    \* what is served, registered, issued and updated
  Indexes, MaxStream,                            \* StreamDecode
  MaxMessages, MaxCalls, Profiles,               \* WireRequests
  Letters, Commands, ModelName, Entries, MaxLine,             \* Composer
  MaxItems, MaxBody, Heights, Width, Smallest, Welcoming, Rows \* Screen

VARIABLES
  focus,
  config, dotenv, session, wizard,                                     \* RuntimeConfig
  offered, tmp, file, data, memory, process, listing, listNow,         \* ModelCatalog
  served, disk, etag, cache, retry, task, answer, devNow,              \* ModelsDev
  chosen, exported, envFile, store, running, last,                     \* Providers
  at, sent, line, text, shown, calls, output,                          \* StreamDecode
  conversation, body,                                                  \* WireRequests
  registry, overrides, key, token, valid, asked,                       \* ModelCalls
  typed, cursor, slash, palette, picker, entered,                      \* Composer
  items, scroll, height, overlays,                                     \* Screen
  authFile, authDisk, authLock, authOp, acked                          \* AuthStore

configVars == <<config, dotenv, session, wizard>>
catalogVars == <<offered, tmp, file, data, memory, process, listing, listNow>>
devVars == <<served, disk, etag, cache, retry, task, answer, devNow>>
providerVars == <<chosen, exported, envFile, store, running, last>>
streamVars == <<at, sent, line, text, shown, calls, output>>
wireVars == <<conversation, body>>
callVars == <<registry, overrides, key, token, valid, asked>>
typingVars == <<typed, cursor, slash, palette, picker, entered>>
screenVars == <<items, scroll, height, overlays>>
storeVars == <<authFile, authDisk, authLock, authOp, acked>>

\* A limit of two small requests: a third is squeezed or refused.
MCLimit == [s \in Scopes |-> 6]

\* No definition tells one request from another.
RequestSymmetry == Permutations(Requests)

Config == INSTANCE RuntimeConfig
Catalog == INSTANCE ModelCatalog WITH served <- offered, answer <- listing, now <- listNow
Dev == INSTANCE ModelsDev WITH MaxTime <- MaxDevTime, now <- devNow

\* One choice of each kind the deciders tell apart.
Choice(profile, address, name) == [profile |-> profile, address |-> address, key |-> name]
MCSelectable ==
  {Choice("api", "remote", "named"), Choice("keyless", "remote", "NONE"),
   Choice("nous", "remote", "named"), Choice("custom", "any", "named"),
   Choice("custom", "loopback", "NONE")}

Credentials == INSTANCE Providers WITH config <- chosen, dotenv <- envFile, session <- running

Stream == INSTANCE StreamDecode WITH Calls <- Indexes, MaxLines <- MaxStream, answer <- output

Wire == INSTANCE WireRequests WITH request <- body

Router == INSTANCE ModelCalls WITH calls <- asked

\* What memory gives has an age below its limit; a back-off is no time before now.
ASSUME DelayAssumption == MemoryTtl \in Nat \ {0} /\ RetryDelay \in Nat

\* Three commands and two models to pick.
MCCommands == <<"h", "m", "q">>
MCEntries == <<"m", "q">>

Typing == INSTANCE Composer WITH line <- typed

\* The rows of the sections around the transcript.
MCRows == [composer |-> 2, welcome |-> 2, palette |-> 2, picker |-> 2, permission |-> 3]

Drawn == INSTANCE Screen WITH
  MaxLines <- MaxBody, Composer <- Rows.composer, Welcome <- Rows.welcome,
  Palette <- Rows.palette, Picker <- Rows.picker, Permission <- Rows.permission

\* Lists are lists, and what counts rows is a natural number.
ASSUME TerminalAssumption ==
  /\ Commands \in Seq(Range(Commands)) /\ Entries \in Seq(Range(Entries))
  /\ Heights \subseteq Nat /\ Width \in Nat \ {0}
  /\ Rows \in [{"composer", "welcome", "palette", "picker", "permission"} -> Nat]

Store == INSTANCE AuthStore WITH
  Providers <- Services, file <- authFile, disk <- authDisk, lock <- authLock, op <- authOp

-------------------------------------------------------------------------------
\* A component out of focus rests in one of its initial states.
ClientsInit ==
  /\ focus \in {"budget", "config", "catalog", "dev", "credentials", "stream", "wire",
                "router", "typing", "drawn", "store"}
  /\ Init
  /\ Config!Init /\ Catalog!Init /\ Dev!Init /\ Credentials!Init /\ Stream!Init /\ Wire!Init
  /\ Router!Init /\ (focus = "router" \/ key = "unset")
  /\ Typing!Init
  /\ Drawn!Init /\ (focus = "drawn" \/ height = CHOOSE h \in Heights : TRUE)
  /\ Store!Init

\* The component runs and the others, whose variables these are, rest.
Only(name, others) == focus = name /\ UNCHANGED <<focus, others>>

ClientsNext ==
  \/ Only("budget",
       <<configVars, catalogVars, devVars, providerVars, streamVars, wireVars,
         callVars, typingVars, screenVars, storeVars>>)
     /\ Next
  \/ Only("config",
       <<vars, catalogVars, devVars, providerVars, streamVars, wireVars,
         callVars, typingVars, screenVars, storeVars>>)
     /\ Config!Next
  \/ Only("catalog",
       <<vars, configVars, devVars, providerVars, streamVars, wireVars,
         callVars, typingVars, screenVars, storeVars>>)
     /\ Catalog!Next
  \/ Only("dev",
       <<vars, configVars, catalogVars, providerVars, streamVars, wireVars,
         callVars, typingVars, screenVars, storeVars>>)
     /\ Dev!Next
  \/ Only("credentials",
       <<vars, configVars, catalogVars, devVars, streamVars, wireVars,
         callVars, typingVars, screenVars, storeVars>>)
     /\ Credentials!Next
  \/ Only("stream",
       <<vars, configVars, catalogVars, devVars, providerVars, wireVars,
         callVars, typingVars, screenVars, storeVars>>)
     /\ Stream!Next
  \/ Only("wire",
       <<vars, configVars, catalogVars, devVars, providerVars, streamVars,
         callVars, typingVars, screenVars, storeVars>>)
     /\ Wire!Next
  \/ Only("router",
       <<vars, configVars, catalogVars, devVars, providerVars, streamVars,
         wireVars, typingVars, screenVars, storeVars>>)
     /\ Router!Next
  \/ Only("typing",
       <<vars, configVars, catalogVars, devVars, providerVars, streamVars,
         wireVars, callVars, screenVars, storeVars>>)
     /\ Typing!Next
  \/ Only("drawn",
       <<vars, configVars, catalogVars, devVars, providerVars, streamVars,
         wireVars, callVars, typingVars, storeVars>>)
     /\ Drawn!Next
  \/ Only("store",
       <<vars, configVars, catalogVars, devVars, providerVars, streamVars, wireVars,
         callVars, typingVars, screenVars>>)
     /\ Store!Next

clientsVars == <<focus, vars, configVars, catalogVars, devVars, providerVars, streamVars, wireVars,
                 callVars, typingVars, screenVars, storeVars>>

ClientsSpec == ClientsInit /\ [][ClientsNext]_clientsVars

\* The composer alone.
TypingSpec == ClientsInit /\ focus = "typing" /\ [][ClientsNext]_clientsVars

-------------------------------------------------------------------------------
(* Properties: those of the components, two of a kind under one name.         *)

\* A model in use has its key or needs none, and of wizards that run together one
\* publishes its configuration.
ConfigIsSafe == Config!ConfigIsSafe

\* A listing given is whole and was served; and a failed request holds back those after
\* it for the delay.
ListingsHold == Catalog!ListingsAreWhole /\ Dev!BackOffHolds

\* Whoever decides whether a provider has its credential decides the same where it
\* counts; a credential goes to the provider it is for, at most twice; and no update
\* of the stored ones is lost, to another process or a crash.
CredentialsHold ==
  Credentials!CredentialsAgree /\ Router!CredentialsStayHome /\ Store!StoreIsSafe

\* What is kept of a stream is what its lines carry; and a Messages body begins with the
\* user, alternates, and has every result right after its call.
WireIsFaithful == Stream!StreamIsFaithful /\ Wire!RequestsAreAnswerable

\* The cursor stays in the line, a goal is the line on the screen and a command the one
\* typed out; and a frame shows the end of the transcript, or has no row left empty.
TerminalIsFaithful == Typing!LineIsEditable /\ Drawn!WindowIsFull

\* README.md:67: ordinary text is typed into the composer, and Enter submits it.
OrdinaryTextIsSubmitted == Typing!OrdinaryTextIsSubmitted
===============================================================================
