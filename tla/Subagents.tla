-------------------------------- MODULE Subagents --------------------------------
(***************************************************************************)
(* Child agents and the four tools that manage them (crates/darius-        *)
(* cognitive/src/subagent.rs).  The workers report their steps and their   *)
(* output from threads of their own; the tools are called by the parent.   *)
(* A schema looks into a payload one level deep, which is as deep as two   *)
(* calls of validate_value differ.                                         *)
(***************************************************************************)
EXTENDS Integers, Sequences, FiniteSets

CONSTANTS
  Agents,      \* ids spawn can give
  Keys,        \* names of fields
  MaxEntries   \* bounds a transcript

Types == {"string", "number"}
Fields == UNION {[ks -> Types] : ks \in SUBSET Keys}
Payload(type, fields) == [type |-> type, fields |-> fields]
Answers ==
  {Payload("junk", <<>>)} \cup {Payload(t, <<>>) : t \in Types} \cup {Payload("object", f) : f \in Fields}
Schemas == [type : {"any", "object"}, required : SUBSET Keys, properties : Fields]

VARIABLES
  agents,   \* per id: none, or its state
  partial,  \* per id: what stop gave, if it was called
  reply     \* of the last call

vars == <<agents, partial, reply>>

Init ==
  /\ agents = [a \in Agents |-> {}] /\ partial = [a \in Agents |-> {}]
  /\ reply = "none"

ListRunning == {a \in Agents : \E s \in agents[a] : s.running}

\* One entry of the map replaced, under its lock.
Put(a, s) == agents' = [agents EXCEPT ![a] = {s}] /\ reply' = "ok" /\ UNCHANGED partial
Fails(error) == reply' = error /\ UNCHANGED <<agents, partial>>

Log(s, entry, steps) ==
  [schema |-> s.schema, steps |-> s.steps + steps, transcript |-> Append(s.transcript, entry),
   output |-> s.output, running |-> s.running]

\* subagent_spawn.
Spawn(a, schema) ==
  /\ agents[a] = {}
  /\ Put(a, [schema |-> schema, steps |-> 0, transcript |-> <<"prompt">>, output |-> {}, running |-> TRUE])

\* subagent_spawn, subagent_steer and subagent_stop look at their arguments first.
CallWithout == Fails("invalid arguments")

\* steer and record_step ask for it under the lock.
MayTell(s) == s.running

\* subagent_steer.
Steer(a) ==
  IF agents[a] = {} THEN Fails("not found")
  ELSE \E s \in agents[a] :
         IF MayTell(s) THEN Len(s.transcript) < MaxEntries /\ Put(a, Log(s, "steer", 0))
         ELSE Fails("terminated")

RecordStep(a) ==
  IF agents[a] = {} THEN Fails("not found")
  ELSE \E s \in agents[a] :
    IF MayTell(s) THEN Len(s.transcript) < MaxEntries /\ Put(a, Log(s, "step", 1))
    ELSE Fails("terminated")

\* stop: of an ended agent too.
Halt(s) ==
  [schema |-> s.schema, steps |-> s.steps, transcript |-> s.transcript, output |-> s.output, running |-> FALSE]

\* subagent_stop.
Stop(a) ==
  IF agents[a] = {} THEN Fails("not found")
  ELSE \E s \in agents[a] :
         /\ agents' = [agents EXCEPT ![a] = {Halt(s)}]
         /\ partial' = [partial EXCEPT ![a] = {[steps |-> s.steps, transcript |-> s.transcript]}]
         /\ reply' = "ok"

-------------------------------------------------------------------------------
(* The schema.                                                               *)

\* A field's own schema has a type only.
FieldFits(type, expected) == type = expected

\* validate_value, of what parses.
Valid(p, schema) ==
  /\ p.type # "junk"
  /\ schema.type = "object" => p.type = "object"
  /\ p.type = "object" =>
       /\ schema.required \subseteq DOMAIN p.fields
       /\ \A k \in DOMAIN schema.properties \cap DOMAIN p.fields :
            FieldFits(p.fields[k], schema.properties[k])

\* complete: no question whether the agent was stopped.
Complete(a, p) ==
  IF agents[a] = {} THEN Fails("not found")
  ELSE \E s \in agents[a] :
    IF \A schema \in s.schema : Valid(p, schema)
    THEN Put(a, [schema |-> s.schema, steps |-> s.steps, transcript |-> s.transcript,
                 output |-> {p}, running |-> FALSE])
    ELSE Fails("schema violation")

Next ==
  \/ CallWithout
  \/ \E a \in Agents :
       \/ \E schema \in Schemas : Spawn(a, {schema})
       \/ Spawn(a, {}) \/ Steer(a) \/ Stop(a) \/ RecordStep(a)
       \/ \E p \in Answers : Complete(a, p)

-------------------------------------------------------------------------------
(* Properties.                                                               *)

\* Whatever the worker still does, the transcript and the steps stop gave are the last
\* there are, and the agent is not listed again; the steps are those of the transcript;
\* an output kept has every field its schema asks for, and no field of a wrong type.
SubagentsSettle ==
  \A a \in Agents :
    /\ \A r \in partial[a] :
         /\ a \notin ListRunning
         /\ \A s \in agents[a] : r.transcript = s.transcript /\ r.steps = s.steps
    /\ \A s \in agents[a] :
         /\ s.steps = Cardinality({i \in DOMAIN s.transcript : s.transcript[i] = "step"})
         /\ \A p \in s.output : \A schema \in s.schema :
              p.type = "object" =>
                \A k \in Keys :
                  /\ k \in schema.required => k \in DOMAIN p.fields
                  /\ k \in DOMAIN p.fields /\ k \in DOMAIN schema.properties =>
                       p.fields[k] = schema.properties[k]

AgentRecord ==
  [schema : SUBSET Schemas, steps : Nat, transcript : Seq({"prompt", "steer", "step"}),
   output : SUBSET Answers, running : BOOLEAN]

\* The inductive invariant: only an agent there is has been stopped.
IInv ==
  /\ agents \in [Agents -> SUBSET AgentRecord] /\ DOMAIN partial = Agents
  /\ \A a \in Agents : (\A s, u \in agents[a] : s = u) /\ (agents[a] = {} => partial[a] = {})
  /\ SubagentsSettle
===============================================================================
