-------------------------------- MODULE TaskGraph --------------------------------
(***************************************************************************)
(* What a workflow's tasks are checked for when they are defined           *)
(* (src/src/syros/workflows.py: normalize_tasks, dependency_closure,       *)
(* _validate_tasks), and the layers their options come from (agents.py).   *)
(* Operators only.  A task is known by its place in the list, its prompt   *)
(* by the results it interpolates, its agent by a name.                    *)
(***************************************************************************)
EXTENDS Naturals, FiniteSets

CONSTANTS Omitted,   \* depends_on: None
          Unset,     \* an option at its default
          Provides   \* CATALOG: each connector's servers

(* depends_on left out means the task before.                              *)
DependsOn(tasks, t) ==
  IF tasks[t].depends_on # Omitted THEN tasks[t].depends_on
  ELSE IF t = 1 THEN {} ELSE {t - 1}

Direct(tasks) == [t \in DOMAIN tasks |-> DependsOn(tasks, t)]

(* Kahn's rounds: of the tasks that remain those with nothing left to wait *)
(* for get their closure from the closures of what they depend on.         *)
(* Mutant: the closure of a task is what it names.                         *)
ClosureOfNamed(direct, closure, t) == direct[t]
ClosureOf(direct, closure, t) == direct[t] \cup UNION {closure[d] : d \in direct[t]}

Round(direct, was) ==
  LET ready == {t \in DOMAIN was.remaining : was.remaining[t] = {}}
      known == DOMAIN was.closure
  IN  [closure |-> [t \in known \cup ready |->
                      IF t \in known THEN was.closure[t] ELSE ClosureOf(direct, was.closure, t)],
       remaining |-> [t \in DOMAIN was.remaining \ ready |-> was.remaining[t] \ ready]]

Unsorted(direct) == [closure |-> [t \in {} |-> {}], remaining |-> direct]

Rounds(direct) ==
  LET after[n \in 0..Cardinality(DOMAIN direct)] ==
        IF n = 0 THEN Unsorted(direct) ELSE Round(direct, after[n - 1])
  IN  after[Cardinality(DOMAIN direct)]

(* dependency_closure; what remains is a cycle or hangs below one.         *)
Closure(direct) == Rounds(direct).closure

Cyclic(direct) == DOMAIN Rounds(direct).remaining # {}

(* normalize_tasks: dependencies exist and are others, there is no cycle,  *)
(* and whose result is interpolated is upstream.                           *)
Normal(tasks) ==
  LET direct == Direct(tasks) IN
  /\ \A t \in DOMAIN tasks : direct[t] \subseteq DOMAIN tasks \ {t}
  /\ ~Cyclic(direct)
  /\ \A t \in DOMAIN tasks :
       tasks[t].refs \subseteq IF t \in DOMAIN Closure(direct) THEN Closure(direct)[t] ELSE {}

-----------------------------------------------------------------------------
(* AgentOptions: the workspace, the connectors, and the mcp_servers.       *)
Default == [space |-> Unset, connectors |-> Unset, servers |-> {}]

(* agents.merge: a field that differs from its default overrides.          *)
Merge(base, overrides) ==
  [f \in DOMAIN Default |-> IF overrides[f] = Default[f] THEN base[f] ELSE overrides[f]]

(* agents.resolve: explicit options over the agent's over those of the     *)
(* workspace they come to name, over the settings.                         *)
Resolve(explicit, agent, spaces, settings) ==
  LET named == Merge(agent, explicit)
      there == IF named.space = Unset THEN named ELSE Merge(spaces[named.space], named)
  IN  Merge(settings, there)

(* validate_connectors, and the servers the connectors expand to.          *)
Known(connectors) == connectors \subseteq DOMAIN Provides
ServerNames(connectors) == UNION {Provides[c] : c \in connectors \cap DOMAIN Provides}

(* AgentOptions.validate.                                                  *)
Validated(options) ==
  options.connectors # Unset =>
    Known(options.connectors) /\ ServerNames(options.connectors) \cap options.servers = {}

(* What a run mounts: the connectors' servers under the explicit ones.     *)
Mounted(options) ==
  LET expanded == IF options.connectors = Unset THEN {} ELSE ServerNames(options.connectors)
  IN  [n \in expanded \cup options.servers |-> IF n \in options.servers THEN "own" ELSE "connector"]

(* The options of an agent, of none the defaults.                          *)
OptionsOf(agent, agents) == IF agent = Unset THEN Default ELSE agents[agent]

(* _validate_tasks: what a task asks for, over the workflow's defaults,    *)
AsksFor(doc, t) == Merge(doc.options, doc.tasks[t].options)

(* and the workspace it will get, leaving the settings out.                *)
(* Mutant: the agent's is left out as well.                                *)
SpaceWithoutAgent(doc, t, agents) == AsksFor(doc, t).space
SpaceAsDefined(doc, t, agents) ==
  IF AsksFor(doc, t).space # Unset THEN AsksFor(doc, t).space
  ELSE OptionsOf(doc.tasks[t].agent, agents).space

(* _reject_concurrent_workspace.                                           *)
Concurrent(closure, t, u) == t \notin closure[u] /\ u \notin closure[t]

SharesConcurrently(doc, agents) ==
  LET closure == Closure(Direct(doc.tasks)) IN
  \E t, u \in DOMAIN doc.tasks :
    /\ t < u /\ Concurrent(closure, t, u)
    /\ SpaceAsDefined(doc, t, agents) # Unset
    /\ SpaceAsDefined(doc, t, agents) = SpaceAsDefined(doc, u, agents)
=============================================================================
