------------------------------- MODULE SetupProofs -------------------------------
(***************************************************************************)
(* Theorems about what an installation keeps besides sessions: the         *)
(* definitions of workflows, for any graphs, options and changes, and the  *)
(* files of a skill, for any pushes, names and directories.  What Kahn's   *)
(* rounds leave behind is shown by induction on the round, as an argument  *)
(* about the least number of a set.                                        *)
(***************************************************************************)
EXTENDS Definitions, SkillPush, WellFoundedInduction, FiniteSetTheorems, TLAPS

(* Among numbers there is a least.                                         *)
LEMMA LeastNat ==
  ASSUME NEW T \in SUBSET Nat, T # {}
  PROVE  \E x \in T : \A y \in T : x <= y
  <1> DEFINE R == OpToRel(<, Nat)
  <1>1. IsWellFoundedOn(R, Nat)
    BY NatLessThanWellFounded, Zenon
  <1>2. R = {ss \in Nat \X Nat : ss[1] < ss[2]}
    BY DEF OpToRel
  <1> HIDE DEF R
  <1>3. PICK x \in T : \A y \in T : ~ (<<y, x>> \in R)
    BY <1>1, WFMin
  <1>4. \A y \in T : <<y, x>> \in R <=> y < x
    BY <1>2
  <1>5. \A y \in T : y \in Nat /\ x \in Nat /\ ~(y < x)
    BY <1>3, <1>4
  <1>6. \A y \in T : x <= y
    BY <1>5
  <1>7. QED
    BY <1>6

(* Induction, for a set of numbers.                                        *)
LEMMA NatSetInduction ==
  ASSUME NEW S, 0 \in S, \A n \in Nat : n \in S => n + 1 \in S
  PROVE  Nat \subseteq S
  <1>1. SUFFICES ASSUME Nat \ S # {} PROVE FALSE
    OBVIOUS
  <1>2. PICK x \in Nat \ S : \A y \in Nat \ S : x <= y
    BY <1>1, LeastNat
  <1>3. x # 0
    BY <1>2
  <1>4. x - 1 \in Nat /\ x - 1 \in S /\ (x - 1) + 1 = x
    BY <1>2, <1>3
  <1>5. QED
    BY <1>2, <1>4

(* The rounds of Kahn's algorithm up to the k-th.                          *)
IsKahn(direct, f, k) ==
  f = [n \in 0..k |-> IF n = 0 THEN Unsorted(direct) ELSE Round(direct, f[n - 1])]

LEMMA KahnRuns ==
  ASSUME NEW direct, NEW k \in Nat
  PROVE  \E f : IsKahn(direct, f, k)
  <1> DEFINE S == {n \in Nat : \E f : IsKahn(direct, f, n)}
  <1>1. 0 \in S
    <2>1. IsKahn(direct, [n \in 0..0 |-> Unsorted(direct)], 0)
      BY DEF IsKahn
    <2>2. QED
      BY <2>1
  <1>2. ASSUME NEW n \in Nat, n \in S PROVE n + 1 \in S
    <2>1. PICK f : IsKahn(direct, f, n)
      BY <1>2
    <2> DEFINE g == [i \in 0..(n + 1) |-> IF i = n + 1 THEN Round(direct, f[n]) ELSE f[i]]
    <2>2. \A i \in 0..n : f[i] = IF i = 0 THEN Unsorted(direct) ELSE Round(direct, f[i - 1])
      BY <2>1 DEF IsKahn
    <2>3. \A i \in 0..(n + 1) : g[i] = IF i = 0 THEN Unsorted(direct) ELSE Round(direct, g[i - 1])
      <3>1. TAKE i \in 0..(n + 1)
      <3>2. CASE i = 0
        BY <2>2, <3>2
      <3>3. CASE i = n + 1
        <4>1. i - 1 = n /\ g[i - 1] = f[n] /\ i # 0
          BY <3>3
        <4>2. QED
          BY <3>3, <4>1
      <3>4. CASE i # 0 /\ i # n + 1
        <4>1. i - 1 \in 0..n /\ i \in 0..n /\ g[i - 1] = f[i - 1] /\ g[i] = f[i]
          BY <3>4
        <4>2. QED
          BY <2>2, <3>4, <4>1
      <3>5. QED
        BY <3>2, <3>3, <3>4
    <2>4. g = [i \in 0..(n + 1) |-> IF i = 0 THEN Unsorted(direct) ELSE Round(direct, g[i - 1])]
      <3> DEFINE h == [i \in 0..(n + 1) |-> IF i = 0 THEN Unsorted(direct) ELSE Round(direct, g[i - 1])]
      <3>1. \A i \in 0..(n + 1) : g[i] = h[i]
        BY <2>3
      <3>2. g = [i \in 0..(n + 1) |-> g[i]] /\ h = [i \in 0..(n + 1) |-> h[i]]
        OBVIOUS
      <3> HIDE DEF g, h
      <3>3. g = h
        BY <3>1, <3>2
      <3>4. QED
        BY <3>3 DEF h
    <2>5. IsKahn(direct, g, n + 1)
      <3> HIDE DEF g
      <3>1. QED
        BY <2>4 DEF IsKahn
    <2>6. QED
      BY <2>5
  <1> HIDE DEF S
  <1>3. Nat \subseteq S
    BY <1>1, <1>2, NatSetInduction
  <1>4. QED
    BY <1>3 DEF S

(* There are such rounds, and dependency_closure runs them.                *)
LEMMA RoundsAre ==
  ASSUME NEW direct, IsFiniteSet(DOMAIN direct)
  PROVE  \E f : /\ IsKahn(direct, f, Cardinality(DOMAIN direct))
                /\ Rounds(direct) = f[Cardinality(DOMAIN direct)]
  <1> DEFINE N == Cardinality(DOMAIN direct)
             f == CHOOSE g : IsKahn(direct, g, N)
  <1>1. N \in Nat
    BY FS_CardinalityType
  <1>2. IsKahn(direct, f, N)
    BY <1>1, KahnRuns
  <1>3. Rounds(direct) = f[N]
    BY DEF Rounds, IsKahn
  <1>4. QED
    BY <1>2, <1>3

(* What the rounds keep: a task is sorted after what it depends on, and    *)
(* its closure is that and the closures of that; the rest waits for what   *)
(* is not sorted.                                                          *)
SortedSoFar(direct, was) ==
  /\ DOMAIN was.closure \cup DOMAIN was.remaining = DOMAIN direct
  /\ DOMAIN was.closure \cap DOMAIN was.remaining = {}
  /\ \A t \in DOMAIN was.remaining : was.remaining[t] = direct[t] \ DOMAIN was.closure
  /\ \A t \in DOMAIN was.closure :
       /\ direct[t] \subseteq DOMAIN was.closure
       /\ was.closure[t] = direct[t] \cup UNION {was.closure[d] : d \in direct[t]}

LEMMA UnsortedIsSorted ==
  ASSUME NEW direct
  PROVE  SortedSoFar(direct, Unsorted(direct)) /\ DOMAIN Unsorted(direct).closure = {}
  BY DEF SortedSoFar, Unsorted

LEMMA RoundKeepsSorted ==
  ASSUME NEW direct, NEW was, SortedSoFar(direct, was)
  PROVE  /\ SortedSoFar(direct, Round(direct, was))
         /\ \A t \in DOMAIN Round(direct, was).closure \ DOMAIN was.closure :
              t \in DOMAIN direct /\ direct[t] \subseteq DOMAIN was.closure
  <1> DEFINE ready == {t \in DOMAIN was.remaining : was.remaining[t] = {}}
             known == DOMAIN was.closure
             closure == [t \in known \cup ready |->
                           IF t \in known THEN was.closure[t] ELSE ClosureOf(direct, was.closure, t)]
             remaining == [t \in DOMAIN was.remaining \ ready |-> was.remaining[t] \ ready]
  <1>1. Round(direct, was).closure = closure /\ Round(direct, was).remaining = remaining
    BY DEF Round
  <1>2. DOMAIN closure = known \cup ready /\ DOMAIN remaining = DOMAIN was.remaining \ ready
    OBVIOUS
  <1>3. \A t \in ready : t \in DOMAIN direct /\ direct[t] \subseteq known
    BY DEF SortedSoFar
  <1>4. \A t \in DOMAIN remaining : remaining[t] = direct[t] \ DOMAIN closure
    BY <1>2 DEF SortedSoFar
  <1>5. \A t \in known : closure[t] = was.closure[t] /\ direct[t] \subseteq known
    BY DEF SortedSoFar
  <1>6. \A t \in ready : closure[t] = direct[t] \cup UNION {was.closure[d] : d \in direct[t]}
    <2>1. \A t \in ready : t \notin known
      BY DEF SortedSoFar
    <2>2. QED
      BY <2>1 DEF ClosureOf
  <1>7. ASSUME NEW t \in DOMAIN closure
        PROVE  /\ direct[t] \subseteq DOMAIN closure
               /\ closure[t] = direct[t] \cup UNION {closure[d] : d \in direct[t]}
    <2>1. direct[t] \subseteq known
      BY <1>2, <1>3, <1>5, <1>7
    <2>2. {closure[d] : d \in direct[t]} = {was.closure[d] : d \in direct[t]}
      <3>1. \A d \in direct[t] : closure[d] = was.closure[d]
        BY <1>5, <2>1
      <3> HIDE DEF closure
      <3>2. QED
        BY <3>1
    <2>3. closure[t] = direct[t] \cup UNION {was.closure[d] : d \in direct[t]}
      <3>1. CASE t \in known
        BY <1>5, <3>1 DEF SortedSoFar
      <3>2. CASE t \in ready
        BY <1>6, <3>2
      <3>3. QED
        BY <1>2, <3>1, <3>2
    <2>4. QED
      BY <1>2, <2>1, <2>2, <2>3
  <1>8. /\ DOMAIN closure \cup DOMAIN remaining = DOMAIN direct
        /\ DOMAIN closure \cap DOMAIN remaining = {}
    BY <1>2 DEF SortedSoFar
  <1> HIDE DEF closure, remaining
  <1>9. QED
    BY <1>1, <1>2, <1>3, <1>4, <1>7, <1>8 DEF SortedSoFar

(* When no cycle remains, every task has its closure, and in any tasks     *)
(* there is one that depends on none of them.                              *)
LEMMA ClosureIs ==
  ASSUME NEW direct, IsFiniteSet(DOMAIN direct), ~Cyclic(direct)
  PROVE  /\ DOMAIN Closure(direct) = DOMAIN direct
         /\ \A t \in DOMAIN direct :
              /\ direct[t] \subseteq DOMAIN direct
              /\ Closure(direct)[t] = direct[t] \cup UNION {Closure(direct)[d] : d \in direct[t]}
         /\ \A S \in SUBSET DOMAIN direct :
              S # {} => \E t \in S : direct[t] \cap S = {}
  <1> DEFINE N == Cardinality(DOMAIN direct)
  <1>1. N \in Nat
    BY FS_CardinalityType
  <1>2. PICK f : IsKahn(direct, f, N) /\ Rounds(direct) = f[N]
    BY RoundsAre
  <1> HIDE DEF N
  <1>3. /\ f[0] = Unsorted(direct)
        /\ \A n \in 1..N : f[n] = Round(direct, f[n - 1])
    BY <1>1, <1>2 DEF IsKahn
  <1>4. \A n \in 0..N : SortedSoFar(direct, f[n])
    <2> DEFINE S == {n \in Nat : n <= N => SortedSoFar(direct, f[n])}
    <2>1. 0 \in S
      BY <1>3, UnsortedIsSorted
    <2>2. ASSUME NEW n \in Nat, n \in S PROVE n + 1 \in S
      <3>1. SUFFICES ASSUME n + 1 <= N PROVE SortedSoFar(direct, f[n + 1])
        OBVIOUS
      <3>2. f[n + 1] = Round(direct, f[n]) /\ SortedSoFar(direct, f[n])
        <4>1. n + 1 \in 1..N /\ (n + 1) - 1 = n
          BY <1>1, <3>1
        <4>2. n <= N
          BY <1>1, <3>1
        <4>3. QED
          BY <1>3, <2>2, <4>1, <4>2
      <3>3. QED
        BY <3>2, RoundKeepsSorted
    <2> HIDE DEF S
    <2>3. Nat \subseteq S
      BY <2>1, <2>2, NatSetInduction
    <2>4. QED
      BY <1>1, <2>3 DEF S
  <1>5. SortedSoFar(direct, Rounds(direct)) /\ DOMAIN Rounds(direct).remaining = {}
    BY <1>1, <1>2, <1>4 DEF Cyclic
  <1>6. ASSUME NEW S \in SUBSET DOMAIN direct, S # {}
        PROVE  \E t \in S : direct[t] \cap S = {}
    <2> DEFINE R == {n \in 0..N : DOMAIN f[n].closure \cap S # {}}
    <2>1. N \in R
      BY <1>1, <1>2, <1>5, <1>6 DEF SortedSoFar
    <2>2. R \in SUBSET Nat /\ R # {}
      BY <2>1
    <2> HIDE DEF R
    <2>3. PICK n \in R : \A m \in R : n <= m
      BY <2>2, LeastNat
    <2>4. n \in 0..N /\ DOMAIN f[n].closure \cap S # {}
      BY DEF R
    <2>5. n # 0
      BY <1>3, <2>4, UnsortedIsSorted
    <2>6. n - 1 \in 0..N /\ f[n] = Round(direct, f[n - 1]) /\ n - 1 \notin R
      BY <1>1, <1>3, <2>3, <2>4, <2>5
    <2>7. DOMAIN f[n - 1].closure \cap S = {}
      BY <2>6 DEF R
    <2>8. PICK t \in S : t \in DOMAIN f[n].closure
      BY <2>4
    <2>9. direct[t] \subseteq DOMAIN f[n - 1].closure
      BY <1>4, <2>6, <2>7, <2>8, RoundKeepsSorted
    <2>10. QED
      BY <2>7, <2>8, <2>9
  <1>7. QED
    BY <1>5, <1>6 DEF SortedSoFar, Closure

-----------------------------------------------------------------------------
(* What the definition is, and what is kept of it.                         *)
DefTyped ==
  /\ stage \in {"draft", "defined", "refused"}
  /\ changed \in BOOLEAN
  /\ task \in [Tasks -> {"pending", "running", "succeeded", "failed"}]
  /\ agents \in [Agents -> Layers \cup {Gone}]
  /\ spaces \in [Spaces -> Layers]
  /\ settings \in Layers
  /\ DOMAIN options = Tasks

Upstream(t) == Closure(Direct(draft.tasks))[t]

LEMMA DraftFacts ==
  ASSUME Admitted
  PROVE  /\ IsFiniteSet(Tasks) /\ Tasks \subseteq Nat
         /\ draft.by \in {"workflow", "console", "client"}
         /\ draft.by # "workflow" => Tasks = {1} /\ draft.tasks[1].refs = {}
         /\ NamesSpace(draft.options)
         /\ \A t \in Tasks : /\ draft.tasks[t].agent \in Agents \cup {Unset}
                             /\ NamesSpace(draft.tasks[t].options)
  BY SetupAssumption DEF Admitted, Tasks

(* What being normal gives a definition's graph.                           *)
LEMMA GraphFacts ==
  ASSUME Admitted, Normal(draft.tasks)
  PROVE  /\ \A t \in Tasks :
              /\ DependsOn(draft.tasks, t) \subseteq Tasks
              /\ Upstream(t) = DependsOn(draft.tasks, t)
                                 \cup UNION {Upstream(d) : d \in DependsOn(draft.tasks, t)}
              /\ draft.tasks[t].refs \subseteq Upstream(t)
         /\ \A S \in SUBSET Tasks :
              S # {} => \E t \in S : DependsOn(draft.tasks, t) \cap S = {}
  <1> DEFINE direct == Direct(draft.tasks)
  <1>1. DOMAIN direct = Tasks /\ \A t \in Tasks : direct[t] = DependsOn(draft.tasks, t)
    BY DEF Direct, Tasks
  <1>2. ~Cyclic(direct) /\ IsFiniteSet(DOMAIN direct)
    BY <1>1, DraftFacts DEF Normal
  <1>3. \A t \in Tasks : Upstream(t) = Closure(direct)[t]
    BY DEF Upstream
  <1>4. \A t \in Tasks :
          draft.tasks[t].refs \subseteq IF t \in DOMAIN Closure(direct) THEN Closure(direct)[t] ELSE {}
    BY DEF Normal, Tasks
  <1> HIDE DEF direct
  <1>5. /\ DOMAIN Closure(direct) = Tasks
        /\ \A t \in Tasks :
             /\ direct[t] \subseteq Tasks
             /\ Closure(direct)[t] = direct[t] \cup UNION {Closure(direct)[d] : d \in direct[t]}
        /\ \A S \in SUBSET Tasks : S # {} => \E t \in S : direct[t] \cap S = {}
    BY <1>1, <1>2, ClosureIs
  <1>6. ASSUME NEW t \in Tasks
        PROVE  Upstream(t) = DependsOn(draft.tasks, t)
                                \cup UNION {Upstream(d) : d \in DependsOn(draft.tasks, t)}
    <2>1. DependsOn(draft.tasks, t) = direct[t] /\ direct[t] \subseteq Tasks
      BY <1>1, <1>5
    <2>2. {Upstream(d) : d \in direct[t]} = {Closure(direct)[d] : d \in direct[t]}
      BY <1>3, <2>1
    <2>3. QED
      BY <1>3, <1>5, <2>1, <2>2
  <1>7. QED
    BY <1>1, <1>3, <1>4, <1>5, <1>6

(* What is upstream of a task is tasks, up to the roots.                   *)
LEMMA UpstreamAreTasks ==
  ASSUME Admitted, Normal(draft.tasks)
  PROVE  \A t \in Tasks : Upstream(t) \subseteq Tasks
  <1> DEFINE S == {t \in Tasks : ~(Upstream(t) \subseteq Tasks)}
  <1>1. SUFFICES ASSUME S # {} PROVE FALSE
    OBVIOUS
  <1>2. PICK t \in S : DependsOn(draft.tasks, t) \cap S = {}
    BY <1>1, GraphFacts
  <1>3. \A d \in DependsOn(draft.tasks, t) : Upstream(d) \subseteq Tasks
    BY <1>2, GraphFacts
  <1>4. Upstream(t) \subseteq Tasks
    BY <1>2, <1>3, GraphFacts
  <1>5. QED
    BY <1>2, <1>4

-----------------------------------------------------------------------------
(* How one step moves the tasks of a definition.                           *)
Stays == stage' = stage /\ task' = task

LEMMA DraftStays ==
  ASSUME DefNext
  PROVE  draft' = draft /\ Tasks' = Tasks /\ \A t : Upstream(t)' = Upstream(t)
  <1>1. draft' = draft
    BY DEF DefNext, Create, CreateRefused, ConsoleSession, ClientSession, StartSession, Fire, UpdateAgent,
           DeleteAgent, CreateAgent, UpdateWorkspace, UpdateSettings, StartTask, StartFails, FinishTask
  <1>2. QED
    BY <1>1 DEF Tasks, Upstream

LEMMA TaskMoves ==
  ASSUME DefTyped, Admitted, DefNext
  PROVE  \/ Stays
         \/ /\ stage = "draft" /\ task' = task
            /\ stage' = "refused" \/ (stage' = "defined" /\ draft.by = "workflow" /\ Normal(draft.tasks))
         \/ /\ stage = "draft" /\ stage' = "defined" /\ draft.by # "workflow"
            /\ task' = [task EXCEPT ![1] = "running"]
         \/ /\ stage = "defined" /\ stage' = stage
            /\ \E t \in Tasks :
                 \/ Ready(t) /\ task' = [task EXCEPT ![t] = "running"]
                 \/ task[t] = "running" /\ task' = [task EXCEPT ![t] = "succeeded"]
                 \/ (Ready(t) \/ task[t] = "running") /\ task' = Failed(t)
  <1>1. CASE Create \/ CreateRefused
    BY <1>1 DEF Create, CreateRefused, runVars
  <1>2. CASE ConsoleSession \/ ClientSession
    BY <1>2 DEF ConsoleSession, ClientSession, StartSession, runVars
  <1>3. CASE Fire \/ UpdateAgent \/ DeleteAgent \/ CreateAgent \/ UpdateWorkspace \/ UpdateSettings
    BY <1>3 DEF Fire, UpdateAgent, DeleteAgent, CreateAgent, UpdateWorkspace, UpdateSettings, runVars,
                Stays
  <1>4. ASSUME NEW t \in Tasks, StartTask(t) \/ StartFails(t)
        PROVE  /\ stage = "defined" /\ stage' = stage
               /\ \/ Ready(t) /\ task' = [task EXCEPT ![t] = "running"]
                  \/ Ready(t) /\ task' = Failed(t)
    BY <1>4 DEF StartTask, StartFails
  <1>5. ASSUME NEW t \in Tasks, FinishTask(t)
        PROVE  /\ stage = "defined" /\ stage' = stage
               /\ \/ task[t] = "running" /\ task' = [task EXCEPT ![t] = "succeeded"]
                  \/ task[t] = "running" /\ task' = Failed(t)
    BY <1>5 DEF FinishTask, Admitted
  <1>6. QED
    BY <1>1, <1>2, <1>3, <1>4, <1>5 DEF DefNext

LEMMA NextTyped ==
  ASSUME DefTyped, Admitted, DefNext
  PROVE  DefTyped'
  <1> USE DEF DefTyped, runVars, storedVars
  <1>0. Tasks' = Tasks
    BY DraftStays
  <1>1. CASE Create \/ CreateRefused
    BY <1>0, <1>1 DEF Create, CreateRefused
  <1>2. CASE ConsoleSession \/ ClientSession
    BY <1>0, <1>2 DEF ConsoleSession, ClientSession, StartSession
  <1>3. CASE Fire \/ UpdateAgent \/ DeleteAgent \/ CreateAgent \/ UpdateWorkspace \/ UpdateSettings
    BY <1>0, <1>3 DEF Fire, UpdateAgent, DeleteAgent, CreateAgent, UpdateWorkspace, UpdateSettings, Stores
  <1>4. ASSUME NEW t \in Tasks, StartTask(t) \/ StartFails(t) \/ FinishTask(t)
        PROVE  DefTyped'
    BY <1>0, <1>4 DEF StartTask, StartFails, FinishTask, Failed
  <1>5. QED
    BY <1>1, <1>2, <1>3, <1>4 DEF DefNext

LEMMA NextAdmitted ==
  ASSUME DefTyped, Admitted, DefNext
  PROVE  Admitted'
  <1>1. draft' = draft /\ Tasks' = Tasks
    BY DraftStays
  <1>2. draft.by # "workflow" => Tasks = {1}
    BY DraftFacts
  <1>3. stage' # "defined" => \A t \in Tasks : task'[t] = "pending"
    BY TaskMoves DEF Admitted, Stays
  <1>4. stage' = "defined" => IF draft.by = "workflow" THEN Normal(draft.tasks) ELSE task'[1] # "pending"
    BY <1>2, TaskMoves DEF DefTyped, Admitted, Stays, Failed
  <1>5. QED
    BY <1>1, <1>3, <1>4 DEF Admitted

(* A task that fails takes what is downstream of it along, one that starts *)
(* has all that is upstream of it behind it.                               *)
LEMMA NextFlows ==
  ASSUME DefTyped, FlowInv, DefNext
  PROVE  Flows'
  <1> DEFINE dep(t) == DependsOn(draft.tasks, t)
  <1>1. /\ draft' = draft /\ Tasks' = Tasks /\ \A t : Upstream(t)' = Upstream(t)
        /\ \A t : DependsOn(draft.tasks, t)' = dep(t)
    BY DraftStays
  <1>2. SUFFICES ASSUME stage' = "defined", draft.by = "workflow", NEW u \in Tasks
        PROVE  /\ task'[u] \in {"running", "succeeded"} => \A d \in Upstream(u) : task'[d] = "succeeded"
               /\ \A d \in dep(u) : task'[d] = "failed" => task'[u] = "failed"
    BY <1>1 DEF Flows, Upstream
  <1>3. CASE stage = "draft"
    <2>1. task' = task
      BY <1>2, <1>3, TaskMoves DEF Stays, FlowInv
    <2>2. \A t \in Tasks : task[t] = "pending"
      BY <1>3 DEF FlowInv, Admitted
    <2>3. dep(u) \subseteq Tasks
      <3>1. Normal(draft.tasks)'
        BY <1>1, <1>2, NextAdmitted DEF Admitted, FlowInv
      <3>2. QED
        BY <1>1, <3>1, GraphFacts DEF FlowInv
    <2>4. QED
      BY <2>1, <2>2, <2>3
  <1>4. CASE stage # "draft"
    <2>1. stage = "defined" /\ Normal(draft.tasks)
      BY <1>2, <1>4, TaskMoves DEF FlowInv, Admitted, Stays
    <2>2. /\ \A t \in Tasks :
               /\ dep(t) \subseteq Tasks
               /\ Upstream(t) = dep(t) \cup UNION {Upstream(d) : d \in dep(t)}
      BY <2>1, GraphFacts DEF FlowInv
    <2>3. \A t \in Tasks :
            /\ task[t] \in {"running", "succeeded"} => \A d \in Upstream(t) : task[d] = "succeeded"
            /\ \A d \in dep(t) : task[d] = "failed" => task[t] = "failed"
      BY <1>2, <2>1 DEF FlowInv, Flows, Upstream
    <2>4. CASE task' = task
      BY <2>3, <2>4
    <2>5. ASSUME NEW t \in Tasks, Ready(t), task' = [task EXCEPT ![t] = "running"]
          PROVE  /\ task'[u] \in {"running", "succeeded"} =>
                      \A d \in Upstream(u) : task'[d] = "succeeded"
                 /\ \A d \in dep(u) : task'[d] = "failed" => task'[u] = "failed"
      <3>1. task[t] = "pending" /\ \A d \in dep(t) : task[d] = "succeeded"
        BY <2>5 DEF Ready
      <3>2. \A d \in Upstream(t) : task[d] = "succeeded"
        BY <2>2, <2>3, <3>1
      <3>3. QED
        BY <2>2, <2>3, <2>5, <3>1, <3>2 DEF DefTyped
    <2>6. ASSUME NEW t \in Tasks, task[t] = "running", task' = [task EXCEPT ![t] = "succeeded"]
          PROVE  /\ task'[u] \in {"running", "succeeded"} =>
                      \A d \in Upstream(u) : task'[d] = "succeeded"
                 /\ \A d \in dep(u) : task'[d] = "failed" => task'[u] = "failed"
      BY <2>2, <2>3, <2>6 DEF DefTyped
    <2>7. ASSUME NEW t \in Tasks, task[t] # "succeeded", task' = Failed(t)
          PROVE  /\ task'[u] \in {"running", "succeeded"} =>
                      \A d \in Upstream(u) : task'[d] = "succeeded"
                 /\ \A d \in dep(u) : task'[d] = "failed" => task'[u] = "failed"
      <3>1. \A v \in Tasks : task'[v] = IF v = t \/ t \in Upstream(v) THEN "failed" ELSE task[v]
        BY <2>7 DEF Failed, Upstream
      <3>2. ASSUME task'[u] \in {"running", "succeeded"}, NEW d \in Upstream(u)
            PROVE  task'[d] = "succeeded"
        <4>1. task'[u] = task[u] /\ task[d] = "succeeded"
          BY <2>3, <3>1, <3>2
        <4>2. d \in Tasks
          BY <2>1, <3>2, UpstreamAreTasks DEF FlowInv
        <4>3. d # t /\ t \notin Upstream(d)
          BY <2>3, <2>7, <4>1, <4>2
        <4>4. QED
          BY <3>1, <4>1, <4>2, <4>3
      <3>3. ASSUME NEW d \in dep(u), task'[d] = "failed" PROVE task'[u] = "failed"
        <4>1. d \in Tasks
          BY <2>2
        <4>2. d = t \/ t \in Upstream(d) => t \in Upstream(u)
          BY <2>2
        <4>3. QED
          BY <2>3, <3>1, <3>3, <4>1, <4>2
      <3>4. QED
        BY <3>2, <3>3
    <2>8. QED
      BY <2>4, <2>5, <2>6, <2>7, <1>4, TaskMoves DEF Stays, Ready, FlowInv
  <1>5. QED
    BY <1>3, <1>4

(* ... and to begin with nothing has moved.                                *)
LEMMA InitFlow ==
  ASSUME DefInit
  PROVE  DefTyped /\ FlowInv
  <1>1. PICK s \in Setups : draft = s.draft /\ agents = s.agents /\ settings = s.settings
    BY DEF DefInit
  <1>2. DefTyped
    BY <1>1, SetupAssumption, LayerAssumption DEF DefInit, DefTyped
  <1>3. Admitted
    BY <1>1 DEF DefInit, Admitted
  <1>4. QED
    BY <1>2, <1>3 DEF DefInit, FlowInv, Flows

(* Of the tasks that are left one depends on none of them, and what it     *)
(* depends on has not failed, or it would have with it.                    *)
LEMMA FlowRunsThrough ==
  ASSUME DefTyped, FlowInv
  PROVE  RunsThrough
  <1>1. SUFFICES ASSUME stage = "defined"
        PROVE  /\ (\E t \in Tasks : task[t] = "pending") =>
                    \E t \in Tasks : Ready(t) \/ task[t] = "running"
               /\ \A t \in Tasks, d \in Tasks :
                    task[t] = "running" /\ d \in draft.tasks[t].refs => task[d] = "succeeded"
    BY DEF RunsThrough
  <1>2. CASE draft.by # "workflow"
    <2>1. Tasks = {1} /\ draft.tasks[1].refs = {} /\ task[1] # "pending"
      BY <1>1, <1>2, DraftFacts DEF FlowInv, Admitted
    <2>2. QED
      BY <2>1
  <1>3. CASE draft.by = "workflow"
    <2>1. Normal(draft.tasks)
      BY <1>1, <1>3 DEF FlowInv, Admitted
    <2>2. \A t \in Tasks :
            /\ task[t] \in {"running", "succeeded"} => \A d \in Upstream(t) : task[d] = "succeeded"
            /\ \A d \in DependsOn(draft.tasks, t) : task[d] = "failed" => task[t] = "failed"
      BY <1>1, <1>3 DEF FlowInv, Flows, Upstream
    <2>3. ASSUME NEW p \in Tasks, task[p] = "pending", \A t \in Tasks : task[t] # "running"
          PROVE  \E t \in Tasks : Ready(t)
      <3> DEFINE S == {t \in Tasks : task[t] = "pending"}
      <3>1. S \in SUBSET Tasks /\ S # {}
        BY <2>3
      <3>2. PICK t \in S : DependsOn(draft.tasks, t) \cap S = {}
        BY <2>1, <3>1, GraphFacts DEF FlowInv
      <3>3. DependsOn(draft.tasks, t) \subseteq Tasks
        BY <2>1, <3>2, GraphFacts DEF FlowInv
      <3>4. \A d \in DependsOn(draft.tasks, t) : task[d] = "succeeded"
        BY <2>2, <2>3, <3>2, <3>3 DEF DefTyped
      <3>5. QED
        BY <3>2, <3>4 DEF Ready
    <2>4. \A t \in Tasks : draft.tasks[t].refs \subseteq Upstream(t)
      BY <2>1, GraphFacts DEF FlowInv
    <2>5. QED
      BY <2>2, <2>3, <2>4
  <1>4. QED
    BY <1>2, <1>3

LEMMA Unmoved ==
  ASSUME UNCHANGED defVars, DefTyped, FlowInv
  PROVE  DefTyped' /\ FlowInv'
  <1>1. /\ draft' = draft /\ stage' = stage /\ task' = task /\ agents' = agents /\ spaces' = spaces
        /\ settings' = settings /\ changed' = changed /\ options' = options
    BY DEF defVars
  <1>2. QED
    BY <1>1 DEF DefTyped, FlowInv, Admitted, Flows, Tasks, Upstream

(* What holds of the flow of tasks in every state.                         *)
LEMMA FlowStands ==
  DefSpec => [](DefTyped /\ FlowInv)
  <1>1. DefTyped /\ FlowInv /\ [DefNext]_defVars => (DefTyped /\ FlowInv)'
    BY NextTyped, NextAdmitted, NextFlows, Unmoved DEF FlowInv
  <1>2. QED
    BY <1>1, InitFlow, PTL DEF DefSpec

(* A definition that was admitted can be run to its end, whatever its      *)
(* graph is, whichever tasks fail and whatever is stored meanwhile: some   *)
(* task can go on until none is left, and no prompt is rendered before the *)
(* results it interpolates.                                                *)
THEOREM DefinitionRunsThrough ==
  DefSpec => []RunsThrough
  BY FlowStands, FlowRunsThrough, PTL

-----------------------------------------------------------------------------
(* What options come of the layers.                                        *)
LEMMA MergedFields ==
  ASSUME NEW base, NEW over
  PROVE  /\ Merge(base, over).space = IF over.space = Unset THEN base.space ELSE over.space
         /\ Merge(base, over).connectors =
              IF over.connectors = Unset THEN base.connectors ELSE over.connectors
         /\ Merge(base, over).servers = IF over.servers = {} THEN base.servers ELSE over.servers
  <1>1. DOMAIN Default = {"space", "connectors", "servers"}
    BY DEF Default
  <1>2. Default.space = Unset /\ Default.connectors = Unset /\ Default.servers = {}
    BY DEF Default
  <1>3. QED
    BY <1>1, <1>2 DEF Merge

(* Without one in the settings, the workspace of a task is the one that    *)
(* was compared when it was defined.                                       *)
LEMMA ResolvedSpace ==
  ASSUME NEW t, settings.space = Unset
  PROVE  Resolved(t).space = SpaceAsDefined(draft, t, agents)
  <1> DEFINE asked == AsksFor(draft, t)
             named == Merge(AgentOf(t), asked)
             there == IF named.space = Unset THEN named ELSE Merge(spaces[named.space], named)
  <1>1. Resolved(t) = Merge(settings, there)
    BY DEF Resolved, Resolve
  <1>2. named.space = SpaceAsDefined(draft, t, agents)
    <2>1. named.space = IF asked.space = Unset THEN AgentOf(t).space ELSE asked.space
      BY MergedFields
    <2>2. QED
      BY <2>1 DEF SpaceAsDefined, AgentOf
  <1> HIDE DEF asked, named
  <1>3. there.space = named.space
    BY MergedFields
  <1> HIDE DEF there
  <1>4. QED
    BY <1>1, <1>2, <1>3, MergedFields

(* Where no stored layer brings servers, a task has those it asks for.     *)
LEMMA ResolvedServers ==
  ASSUME DefTyped, Admitted, NEW t \in Tasks, AgentOf(t) # Gone,
         ~StoredServers, ~BringsServers(AgentOf(t))
  PROVE  /\ Resolved(t).connectors = AsksFor(draft, t).connectors
         /\ Resolved(t).servers = AsksFor(draft, t).servers
  <1> DEFINE asked == AsksFor(draft, t)
             named == Merge(AgentOf(t), asked)
             there == IF named.space = Unset THEN named ELSE Merge(spaces[named.space], named)
  <1>1. Resolved(t) = Merge(settings, there)
    BY DEF Resolved, Resolve
  <1>2. /\ settings.connectors = Unset /\ settings.servers = {}
        /\ \A w \in Spaces : spaces[w].connectors = Unset /\ spaces[w].servers = {}
        /\ AgentOf(t).connectors = Unset /\ AgentOf(t).servers = {}
    BY DEF StoredServers, BringsServers
  <1>3. NamesSpace(asked)
    BY DraftFacts, MergedFields DEF AsksFor, NamesSpace
  <1>4. NamesSpace(AgentOf(t))
    <2>1. CASE draft.tasks[t].agent = Unset
      BY <2>1 DEF AgentOf, OptionsOf, NamesSpace, Default
    <2>2. CASE draft.tasks[t].agent # Unset
      <3>1. AgentOf(t) \in Layers
        BY <2>2, DraftFacts DEF AgentOf, OptionsOf, DefTyped
      <3>2. QED
        BY <3>1, LayerAssumption
    <2>3. QED
      BY <2>1, <2>2
  <1>5. /\ named.space = IF asked.space = Unset THEN AgentOf(t).space ELSE asked.space
        /\ named.connectors =
             IF asked.connectors = Unset THEN AgentOf(t).connectors ELSE asked.connectors
        /\ named.servers = IF asked.servers = {} THEN AgentOf(t).servers ELSE asked.servers
    BY MergedFields
  <1> HIDE DEF asked, named
  <1>6. /\ named.connectors = asked.connectors /\ named.servers = asked.servers
        /\ NamesSpace(named)
    BY <1>2, <1>3, <1>4, <1>5 DEF NamesSpace
  <1>7. there.connectors = asked.connectors /\ there.servers = asked.servers
    <2>1. CASE named.space = Unset
      BY <1>6, <2>1
    <2>2. CASE named.space # Unset
      <3>1. named.space \in Spaces /\ there = Merge(spaces[named.space], named)
        BY <1>6, <2>2 DEF NamesSpace
      <3> DEFINE stored == spaces[named.space]
      <3>2. stored.connectors = Unset /\ stored.servers = {}
        BY <1>2, <3>1
      <3> HIDE DEF stored
      <3>3. /\ Merge(stored, named).connectors =
                 IF named.connectors = Unset THEN stored.connectors ELSE named.connectors
            /\ Merge(stored, named).servers =
                 IF named.servers = {} THEN stored.servers ELSE named.servers
        BY MergedFields
      <3>4. there = Merge(stored, named)
        BY <3>1 DEF stored
      <3>5. QED
        BY <1>6, <3>2, <3>3, <3>4
    <2>3. QED
      BY <2>1, <2>2
  <1> HIDE DEF there
  <1>8. /\ Merge(settings, there).connectors = asked.connectors
        /\ Merge(settings, there).servers = asked.servers
    <2>1. /\ Merge(settings, there).connectors =
               IF there.connectors = Unset THEN settings.connectors ELSE there.connectors
          /\ Merge(settings, there).servers =
               IF there.servers = {} THEN settings.servers ELSE there.servers
      BY MergedFields
    <2>2. QED
      BY <1>2, <1>7, <2>1
  <1>9. QED
    BY <1>1, <1>8 DEF asked

(* A server that is not one's own comes from its connector.               *)
LEMMA MountsConnectors ==
  ASSUME NEW o, Validated(o), o.connectors # Unset
  PROVE  \A n \in ServerNames(o.connectors) : Mounted(o)[n] = "connector"
  BY DEF Validated, Mounted

(* Two live tasks are concurrent, and were compared.                       *)
LEMMA LaunchedAsChecked ==
  ASSUME DefTyped, FlowInv, LaunchInv
  PROVE  LaunchesAsChecked
  <1>1. NoWorkspaceClash
    <2>1. SUFFICES ASSUME ~changed, settings.space = Unset, NEW t \in Tasks, NEW u \in Tasks,
                          Live(t), Live(u), t # u, options[t].space # Unset
          PROVE  options[t].space # options[u].space
      BY DEF NoWorkspaceClash
    <2>2. stage = "defined" /\ task[t] = "running" /\ task[u] = "running"
      BY <2>1 DEF Live
    <2>3. draft.by = "workflow"
      BY <2>1, DraftFacts DEF FlowInv
    <2>4. /\ options[t] = Resolved(t) /\ options[u] = Resolved(u)
          /\ ~SharesConcurrently(draft, agents)
      BY <2>1, <2>2, <2>3 DEF LaunchInv, AsStored, Sound
    <2>5. /\ options[t].space = SpaceAsDefined(draft, t, agents)
          /\ options[u].space = SpaceAsDefined(draft, u, agents)
      BY <2>1, <2>4, ResolvedSpace
    <2>6. t \notin Upstream(u) /\ u \notin Upstream(t)
      BY <2>2, <2>3 DEF FlowInv, Flows, Upstream
    <2>7. Concurrent(Closure(Direct(draft.tasks)), t, u) /\ Concurrent(Closure(Direct(draft.tasks)), u, t)
      BY <2>6 DEF Concurrent, Upstream
    <2>8. t < u \/ u < t
      BY <2>1, DraftFacts DEF FlowInv
    <2>9. QED
      BY <2>1, <2>4, <2>5, <2>7, <2>8 DEF SharesConcurrently, Tasks
  <1>2. NothingDropped
    <2>1. SUFFICES ASSUME draft.by = "console" \/ (~changed /\ ~StoredServers), NEW t \in Tasks, Live(t),
                          draft.by = "console" \/ ~BringsServers(AgentOf(t)),
                          options[t].connectors # Unset
          PROVE  \A n \in ServerNames(options[t].connectors) : Mounted(options[t])[n] = "connector"
      BY DEF NothingDropped
    <2>2. stage = "defined" /\ task[t] = "running"
      BY <2>1 DEF Live
    <2>3. Validated(options[t])
      <3>1. CASE draft.by = "console"
        BY <2>2, <3>1 DEF LaunchInv, AsValidated
      <3>2. CASE draft.by # "console"
        <4>1. AgentOf(t) # Gone /\ options[t] = Resolved(t) /\ Validated(AsksFor(draft, t))
          BY <2>1, <2>2, <3>2 DEF LaunchInv, AsStored, AsValidated
        <4>2. /\ options[t].connectors = AsksFor(draft, t).connectors
              /\ options[t].servers = AsksFor(draft, t).servers
          BY <2>1, <3>2, <4>1, ResolvedServers DEF FlowInv
        <4>3. QED
          BY <4>1, <4>2 DEF Validated
      <3>3. QED
        BY <3>1, <3>2
    <2>4. QED
      BY <2>1, <2>3, MountsConnectors
  <1>3. QED
    BY <1>1, <1>2 DEF LaunchesAsChecked

-----------------------------------------------------------------------------
LEMMA InitLaunch ==
  ASSUME DefInit
  PROVE  LaunchInv
  BY DEF DefInit, LaunchInv, AsStored, AsValidated

(* Nothing that is read changes before something stored does, except that  *)
(* an agent is created; one that was there already is not.                 *)
LEMMA KnownAgentsStay ==
  ASSUME DefTyped, DefNext, ~changed'
  PROVE  /\ ~changed /\ draft' = draft /\ spaces' = spaces /\ settings' = settings
         /\ \A t \in Tasks : OptionsOf(draft.tasks[t].agent, agents) # Gone =>
              OptionsOf(draft.tasks[t].agent, agents') = OptionsOf(draft.tasks[t].agent, agents)
  <1>1. CASE Create \/ CreateRefused \/ ConsoleSession \/ ClientSession \/ Fire
             \/ \E t \in Tasks : StartTask(t) \/ StartFails(t) \/ FinishTask(t)
    BY <1>1 DEF Create, CreateRefused, ConsoleSession, ClientSession, StartSession, Fire, StartTask,
                StartFails, FinishTask, storedVars
  <1>2. CASE CreateAgent
    BY <1>2 DEF CreateAgent, OptionsOf, DefTyped
  <1>3. ~(UpdateAgent \/ DeleteAgent \/ UpdateWorkspace \/ UpdateSettings)
    BY DEF UpdateAgent, DeleteAgent, UpdateWorkspace, UpdateSettings, Stores
  <1>4. QED
    BY <1>1, <1>2, <1>3 DEF DefNext

LEMMA NextAsStored ==
  ASSUME DefTyped, FlowInv, AsStored, DefNext
  PROVE  AsStored'
  <1>1. SUFFICES ASSUME ~changed'
        PROVE  /\ \A w \in Spaces : spaces'[w] = Default
               /\ stage' = "defined" =>
                    /\ draft'.by = "workflow" => Sound(draft)'
                    /\ \A t \in Tasks' :
                         task'[t] = "running" => AgentOf(t)' # Gone /\ options'[t] = Resolved(t)'
    BY DEF AsStored
  <1>2. /\ ~changed /\ draft' = draft /\ spaces' = spaces /\ settings' = settings
        /\ \A t \in Tasks : OptionsOf(draft.tasks[t].agent, agents) # Gone =>
             OptionsOf(draft.tasks[t].agent, agents') = OptionsOf(draft.tasks[t].agent, agents)
    BY <1>1, KnownAgentsStay
  <1>3. Tasks' = Tasks
    BY DraftStays
  <1>4. \A w \in Spaces : spaces'[w] = Default
    BY <1>2 DEF AsStored
  <1>5. \A t \in Tasks : AgentOf(t) # Gone => AgentOf(t)' = AgentOf(t) /\ Resolved(t)' = Resolved(t)
    BY <1>2 DEF AgentOf, Resolved
  <1>6. ASSUME Sound(draft), draft.by = "workflow" PROVE Sound(draft)'
    <2>1. \A t \in Tasks : OptionsOf(draft.tasks[t].agent, agents') = OptionsOf(draft.tasks[t].agent, agents)
      BY <1>2, <1>6 DEF Sound, Tasks
    <2>2. \A t \in Tasks : SpaceAsDefined(draft, t, agents') = SpaceAsDefined(draft, t, agents)
      BY <2>1 DEF SpaceAsDefined
    <2>3. SharesConcurrently(draft, agents') <=> SharesConcurrently(draft, agents)
      BY <2>2 DEF SharesConcurrently, Tasks
    <2>4. QED
      BY <1>2, <1>6, <2>1, <2>3 DEF Sound, Tasks
  <1>7. stage' = "defined" /\ draft.by = "workflow" => Sound(draft)
    <2>1. CASE stage = "defined"
      BY <1>2, <2>1 DEF AsStored
    <2>2. CASE stage # "defined"
      <3>1. stage' = "defined" /\ draft.by = "workflow" => Create
        BY <2>2 DEF DefNext, CreateRefused, ConsoleSession, ClientSession, Fire, UpdateAgent, DeleteAgent,
                    CreateAgent, UpdateWorkspace, UpdateSettings, StartTask, StartFails, FinishTask,
                    StartSession
      <3>2. QED
        BY <3>1 DEF Create
    <2>3. QED
      BY <2>1, <2>2
  <1>8. ASSUME stage' = "defined", NEW t \in Tasks, task'[t] = "running"
        PROVE  AgentOf(t) # Gone /\ options'[t] = Resolved(t)
    <2>1. CASE stage' = stage /\ task' = task /\ options' = options
      BY <1>2, <1>8, <2>1 DEF AsStored
    <2>2. CASE Create \/ CreateRefused
      <3>1. task'[t] = "pending"
        BY <2>2 DEF Create, CreateRefused, runVars, FlowInv, Admitted
      <3>2. QED
        BY <1>8, <3>1
    <2>3. CASE ConsoleSession \/ ClientSession
      <3>1. Tasks = {1}
        BY <2>3, DraftFacts DEF ConsoleSession, ClientSession, FlowInv
      <3>2. AgentOf(1) # Gone /\ options'[1] = Resolved(1)
        BY <1>8, <2>3, <3>1 DEF ConsoleSession, ClientSession, StartSession, DefTyped
      <3>3. QED
        BY <3>1, <3>2
    <2>4. ASSUME NEW u \in Tasks, StartTask(u)
          PROVE  AgentOf(t) # Gone /\ options'[t] = Resolved(t)
      BY <1>2, <1>8, <2>4 DEF StartTask, AsStored, DefTyped
    <2>5. ASSUME NEW u \in Tasks, StartFails(u) \/ FinishTask(u)
          PROVE  AgentOf(t) # Gone /\ options'[t] = Resolved(t)
      <3>1. options' = options /\ stage' = stage
        BY <2>5 DEF StartFails, FinishTask
      <3>2. task[t] = "running"
        BY <1>8, <2>5 DEF StartFails, FinishTask, Failed, DefTyped
      <3>3. QED
        BY <1>2, <1>8, <3>1, <3>2 DEF AsStored
    <2>6. CASE Fire \/ UpdateAgent \/ DeleteAgent \/ CreateAgent \/ UpdateWorkspace \/ UpdateSettings
      <3>1. stage' = stage /\ task' = task /\ options' = options
        BY <2>6 DEF Fire, UpdateAgent, DeleteAgent, CreateAgent, UpdateWorkspace, UpdateSettings, runVars
      <3>2. QED
        BY <2>1, <3>1
    <2>7. QED
      BY <2>2, <2>3, <2>4, <2>5, <2>6 DEF DefNext
  <1>9. QED
    BY <1>2, <1>3, <1>4, <1>5, <1>6, <1>7, <1>8

LEMMA NextAsValidated ==
  ASSUME DefTyped, FlowInv, LaunchInv, DefNext
  PROVE  AsValidated'
  <1>1. draft' = draft /\ Tasks' = Tasks
    BY DraftStays
  <1>2. SUFFICES ASSUME stage' = "defined", NEW t \in Tasks
        PROVE  IF draft.by = "console" THEN task'[t] = "running" => Validated(options'[t])
                                       ELSE Validated(AsksFor(draft, t))
    BY <1>1 DEF AsValidated
  <1>3. CASE stage = "defined" /\ draft.by # "console"
    BY <1>3 DEF LaunchInv, AsValidated
  <1>4. CASE stage = "defined" /\ draft.by = "console"
    <2>1. Tasks = {1} /\ task[1] # "pending"
      BY <1>4, DraftFacts DEF FlowInv, Admitted
    <2>2. options' = options /\ (task'[t] = "running" => task[t] = "running")
      BY <1>4, <2>1 DEF DefNext, Create, CreateRefused, ConsoleSession, ClientSession, Fire, UpdateAgent,
                        DeleteAgent, CreateAgent, UpdateWorkspace, UpdateSettings, StartTask, StartFails,
                        FinishTask, Ready, Failed, runVars, DefTyped
    <2>3. QED
      BY <1>4, <2>2 DEF LaunchInv, AsValidated
  <1>5. CASE stage # "defined"
    <2>1. Create \/ ConsoleSession \/ ClientSession
      BY <1>2, <1>5 DEF DefNext, CreateRefused, Fire, UpdateAgent, DeleteAgent, CreateAgent,
                        UpdateWorkspace, UpdateSettings, StartTask, StartFails, FinishTask
    <2>2. CASE Create
      BY <2>2 DEF Create, Sound, Tasks
    <2>3. CASE ConsoleSession \/ ClientSession
      <3>1. Tasks = {1}
        BY <2>3, DraftFacts DEF ConsoleSession, ClientSession, FlowInv
      <3>2. QED
        BY <1>2, <2>3, <3>1 DEF ConsoleSession, ClientSession, StartSession, DefTyped
    <2>4. QED
      BY <2>1, <2>2, <2>3
  <1>6. QED
    BY <1>3, <1>4, <1>5

LEMMA LaunchUnmoved ==
  ASSUME UNCHANGED defVars, LaunchInv
  PROVE  LaunchInv'
  <1>1. /\ draft' = draft /\ stage' = stage /\ task' = task /\ agents' = agents /\ spaces' = spaces
        /\ settings' = settings /\ changed' = changed /\ options' = options
    BY DEF defVars
  <1>2. QED
    BY <1>1 DEF LaunchInv, AsStored, AsValidated, Tasks, AgentOf, Resolved, Sound

LEMMA LaunchStands ==
  DefSpec => [](DefTyped /\ FlowInv /\ LaunchInv)
  <1>1. DefTyped /\ FlowInv /\ LaunchInv /\ [DefNext]_defVars => LaunchInv'
    BY NextAsStored, NextAsValidated, LaunchUnmoved DEF LaunchInv
  <1>2. DefInit => LaunchInv
    BY InitLaunch
  <1>3. QED
    BY <1>1, <1>2, FlowStands, PTL DEF DefSpec

(* What a definition was checked for is true of what is launched, with any *)
(* options and any catalog of connectors: as long as nothing it draws on   *)
(* has changed, no two live tasks need one workspace, and no connector's   *)
(* server is dropped for one of the same name.                             *)
THEOREM WhatWasCheckedIsLaunched ==
  DefSpec => []LaunchesAsChecked
  BY LaunchStands, LaunchedAsChecked, PTL

-----------------------------------------------------------------------------
(* Division, and what it does to the order.                                *)
LEMMA Divided ==
  ASSUME NEW a \in Int, NEW n \in Nat \ {0}
  PROVE  /\ a \div n \in Int /\ a % n \in 0..(n - 1)
         /\ a = (a \div n) * n + (a % n)
  OBVIOUS

LEMMA Product ==
  ASSUME NEW x \in Nat, NEW y \in Nat
  PROVE  x * y \in Nat /\ x * y >= 0
  OBVIOUS

LEMMA OneQuotient ==
  ASSUME NEW n \in Nat \ {0}, NEW q \in Int, NEW p \in Int, NEW r \in 0..(n - 1), NEW s \in 0..(n - 1),
         q * n + r = p * n + s
  PROVE  q = p /\ r = s
  <1>1. ~(q > p)
    <2>1. SUFFICES ASSUME q > p PROVE FALSE
      OBVIOUS
    <2>2. (q - p - 1) * n >= 0
      <3>1. q - p - 1 \in Nat
        BY <2>1
      <3>2. QED
        BY <3>1, Product
    <2>3. (q - p - 1) * n = q * n - p * n - n
      OBVIOUS
    <2>4. QED
      BY <2>2, <2>3
  <1>2. ~(p > q)
    <2>1. SUFFICES ASSUME p > q PROVE FALSE
      OBVIOUS
    <2>2. (p - q - 1) * n >= 0
      <3>1. p - q - 1 \in Nat
        BY <2>1
      <3>2. QED
        BY <3>1, Product
    <2>3. (p - q - 1) * n = p * n - q * n - n
      OBVIOUS
    <2>4. QED
      BY <2>2, <2>3
  <1>3. q = p
    BY <1>1, <1>2
  <1>4. QED
    BY <1>3

LEMMA DividedBack ==
  ASSUME NEW n \in Nat \ {0}, NEW q \in Int, NEW r \in 0..(n - 1)
  PROVE  (q * n + r) \div n = q /\ (q * n + r) % n = r
  <1> DEFINE a == q * n + r
  <1>1. a \in Int
    OBVIOUS
  <1> HIDE DEF a
  <1>2. /\ a \div n \in Int /\ a % n \in 0..(n - 1)
        /\ a = (a \div n) * n + (a % n)
    BY <1>1, Divided
  <1>3. a = q * n + r
    BY DEF a
  <1>4. a \div n = q /\ a % n = r
    BY <1>2, <1>3, OneQuotient
  <1>5. QED
    BY <1>4 DEF a

LEMMA DaysInOrder ==
  ASSUME NEW n \in Nat \ {0}, NEW a \in Int, NEW b \in Int, a <= b
  PROVE  a \div n <= b \div n
  <1> DEFINE q == a \div n
             p == b \div n
  <1>1. /\ q \in Int /\ p \in Int
        /\ \E r, s \in 0..(n - 1) : a = q * n + r /\ b = p * n + s
    BY Divided
  <1> HIDE DEF q, p
  <1>2. SUFFICES ASSUME q > p PROVE FALSE
    BY <1>1 DEF q, p
  <1>3. q - p - 1 \in Nat /\ (q - p - 1) * n >= 0
    <2>1. q - p - 1 \in Nat
      BY <1>1, <1>2
    <2>2. QED
      BY <2>1, Product
  <1>4. (q - p - 1) * n = q * n - p * n - n
    BY <1>1
  <1>5. q * n \in Int /\ p * n \in Int
    BY <1>1
  <1>6. QED
    BY <1>1, <1>3, <1>4, <1>5

-----------------------------------------------------------------------------
(* What an expression and a zone are.                                      *)
IsExpression(expr) == Parses(expr) /\ Numbered(expr)
IsZone(zone) == zone.at \in Nat /\ zone.jump \in Int

LEMMA Calendar ==
  /\ MinutesPerHour \in Nat \ {0} /\ HoursPerDay \in Nat \ {0} /\ MinutesPerDay \in Nat \ {0}
  /\ MinutesPerDay = HoursPerDay * MinutesPerHour
  /\ WeekDays \in Nat \ {0} /\ Lookahead \in Nat \ {0} /\ MonthDays \in Nat \ {0}
  /\ Days \subseteq Nat
  <1>1. {MinutesPerHour, HoursPerDay, MonthDays, WeekDays, Lookahead} \subseteq Nat \ {0} /\ Days \subseteq Nat
    BY CalendarAssumption
  <1>2. MinutesPerHour * HoursPerDay = HoursPerDay * MinutesPerHour
    BY <1>1
  <1>3. (HoursPerDay - 1) * MinutesPerHour >= 0
    BY <1>1, Product
  <1>4. (HoursPerDay - 1) * MinutesPerHour = HoursPerDay * MinutesPerHour - MinutesPerHour
    BY <1>1
  <1>5. HoursPerDay * MinutesPerHour \in Nat
    BY <1>1, Product
  <1>6. QED
    BY <1>1, <1>2, <1>3, <1>4, <1>5 DEF MinutesPerDay

(* The values of a field lie in its range.                                 *)
LEMMA FieldInRange ==
  ASSUME NEW field, NEW high \in Nat, Valid(field, 0, high),
         \A part \in field : {part.from, part.to, part.step} \subseteq Nat
  PROVE  Field(field, 0, high) \subseteq 0..high
  <1>1. SUFFICES ASSUME NEW part \in field, NEW v \in Bounds(part, 0, high)[1]..Bounds(part, 0, high)[2]
        PROVE  v \in 0..high
    BY DEF Field
  <1>2. Bounds(part, 0, high)[1] \in Nat /\ Bounds(part, 0, high)[2] \in Nat
    BY DEF Bounds
  <1>3. Bounds(part, 0, high)[2] <= high
    BY DEF Valid
  <1>4. QED
    BY <1>2, <1>3

(* An unrestricted day field admits every day.                             *)
LEMMA SameDays ==
  ASSUME NEW expr, NEW d \in Days
  PROVE  DueOn(expr, d) <=> MatchesDay(expr, d)
  <1>1. ~Restricted(expr.day) => DateOf[d].day \in Field(expr.day, 1, MonthDays)
    <2>1. SUFFICES ASSUME NEW part \in expr.day, expr.day = {part}, part.kind = "star", part.step = 1
          PROVE  DateOf[d].day \in Field(expr.day, 1, MonthDays)
      BY DEF Restricted
    <2>2. DateOf[d].day \in 1..MonthDays /\ (DateOf[d].day - 1) % 1 = 0
      <3>1. DateOf[d].day \in 1..MonthDays
        BY CalendarAssumption
      <3>2. QED
        BY <3>1, Calendar
    <2>3. Bounds(part, 1, MonthDays) = <<1, MonthDays>>
      BY <2>1 DEF Bounds
    <2>4. QED
      BY <2>1, <2>2, <2>3 DEF Field
  <1>2. ~Restricted(expr.weekday) => d % WeekDays \in WeekdaysOf(expr)
    <2>1. SUFFICES ASSUME NEW part \in expr.weekday, expr.weekday = {part}, part.kind = "star",
                          part.step = 1
          PROVE  d % WeekDays \in WeekdaysOf(expr)
      BY DEF Restricted
    <2> DEFINE x == d % WeekDays
    <2>2. d \in Int /\ x \in 0..(WeekDays - 1)
      BY Calendar, Divided
    <2> HIDE DEF x
    <2>3. Bounds(part, 0, WeekDays) = <<0, WeekDays>>
      BY <2>1 DEF Bounds
    <2>4. x \in Field(expr.weekday, 0, WeekDays)
      <3>1. x \in 0..WeekDays /\ (x - 0) % 1 = 0
        BY <2>2, Calendar
      <3>2. QED
        BY <2>1, <2>3, <3>1 DEF Field
    <2>5. x % WeekDays = x
      <3>1. (0 * WeekDays + x) % WeekDays = x
        BY <2>2, Calendar, DividedBack
      <3>2. 0 * WeekDays + x = x
        BY <2>2, Calendar
      <3>3. QED
        BY <3>1, <3>2
    <2>6. QED
      BY <2>4, <2>5 DEF WeekdaysOf, x
  <1>3. QED
    BY <1>1, <1>2 DEF DueOn, MatchesDay

(* A minute of a day, by its number and by its hour and minute.            *)
LEMMA HourAndMinute ==
  ASSUME NEW d \in Int, NEW h \in 0..(HoursPerDay - 1), NEW m \in 0..(MinutesPerHour - 1)
  PROVE  LET w == d * MinutesPerDay + h * MinutesPerHour + m IN
         /\ w \in Int /\ w \div MinutesPerDay = d
         /\ (w % MinutesPerDay) \div MinutesPerHour = h
         /\ w % MinutesPerHour = m
         /\ w = (d * HoursPerDay + h) * MinutesPerHour + m
  <1> DEFINE r == h * MinutesPerHour + m
             w == d * MinutesPerDay + h * MinutesPerHour + m
  <1>1. /\ h * MinutesPerHour \in Nat /\ m \in Nat /\ d * MinutesPerDay \in Int
        /\ d * HoursPerDay \in Int /\ h \in Nat
    BY Calendar, Product
  <1>2. r \in 0..(MinutesPerDay - 1)
    <2>1. (HoursPerDay - 1 - h) * MinutesPerHour >= 0
      <3>1. HoursPerDay - 1 - h \in Nat
        BY Calendar
      <3>2. QED
        BY <3>1, Calendar, Product
    <2>2. (HoursPerDay - 1 - h) * MinutesPerHour
             = HoursPerDay * MinutesPerHour - MinutesPerHour - h * MinutesPerHour
      BY Calendar
    <2>3. QED
      BY <1>1, <2>1, <2>2, Calendar
  <1>3. w = d * MinutesPerDay + r
    BY <1>1
  <1>4. w \div MinutesPerDay = d /\ w % MinutesPerDay = r
    <2> HIDE DEF w, r
    <2>1. QED
      BY <1>2, <1>3, Calendar, DividedBack
  <1>5. r \div MinutesPerHour = h
    BY <1>1, Calendar, DividedBack
  <1>6. w = (d * HoursPerDay + h) * MinutesPerHour + m
    <2>1. d * MinutesPerDay = (d * HoursPerDay) * MinutesPerHour
      BY Calendar
    <2>2. (d * HoursPerDay + h) * MinutesPerHour = (d * HoursPerDay) * MinutesPerHour + h * MinutesPerHour
      BY <1>1, Calendar
    <2>3. QED
      BY <1>1, <2>1, <2>2
  <1>7. w % MinutesPerHour = m
    <2>1. d * HoursPerDay + h \in Int
      BY <1>1
    <2>2. ((d * HoursPerDay + h) * MinutesPerHour + m) % MinutesPerHour = m
      BY <2>1, Calendar, DividedBack
    <2>3. QED
      BY <1>6, <2>2
  <1>8. w \in Int
    BY <1>1
  <1> HIDE DEF r
  <1>9. QED
    BY <1>4, <1>5, <1>6, <1>7, <1>8

LEMMA Sizes ==
  MinutesPerHour \in Nat \ {0} /\ HoursPerDay \in Nat \ {0} /\ MinutesPerDay \in Nat \ {0}
  BY Calendar

Hours(expr) == Field(expr.hour, 0, HoursPerDay - 1)
Minutes(expr) == Field(expr.minute, 0, MinutesPerHour - 1)

LEMMA HoursAndMinutes ==
  ASSUME NEW expr, IsExpression(expr)
  PROVE  Hours(expr) \subseteq 0..(HoursPerDay - 1) /\ Minutes(expr) \subseteq 0..(MinutesPerHour - 1)
  <1>1. HoursPerDay - 1 \in Nat /\ MinutesPerHour - 1 \in Nat
    BY Calendar
  <1>2. /\ Valid(expr.hour, 0, HoursPerDay - 1) /\ Valid(expr.minute, 0, MinutesPerHour - 1)
        /\ \A part \in expr.hour : {part.from, part.to, part.step} \subseteq Nat
        /\ \A part \in expr.minute : {part.from, part.to, part.step} \subseteq Nat
    BY DEF IsExpression, Parses, Numbered
  <1>3. QED
    BY <1>1, <1>2, FieldInRange DEF Hours, Minutes

(* What next_after looks through on a day is what the expression shows.    *)
LEMMA WallsAreShown ==
  ASSUME NEW expr, IsExpression(expr), NEW w \in Int
  PROVE  Shows(expr, w) <=> /\ w \div MinutesPerDay \in Days
                            /\ MatchesDay(expr, w \div MinutesPerDay)
                            /\ w \in Walls(expr, w \div MinutesPerDay)
  <1> DEFINE d == w \div MinutesPerDay
             h == (w % MinutesPerDay) \div MinutesPerHour
             m == w % MinutesPerHour
  <1>1. d \in Days => (DueOn(expr, d) <=> MatchesDay(expr, d))
    BY SameDays
  <1>2. ASSUME h \in Hours(expr), m \in Minutes(expr) PROVE w \in Walls(expr, d)
    <2> DEFINE r == w % MinutesPerDay
               n == r % MinutesPerHour
    <2>1. d \in Int /\ r \in Int /\ w = d * MinutesPerDay + r
      BY Sizes, Divided
    <2>2. h \in Int /\ n \in 0..(MinutesPerHour - 1) /\ r = h * MinutesPerHour + n
      <3>1. h = r \div MinutesPerHour
        OBVIOUS
      <3> HIDE DEF r, h
      <3>2. QED
        BY <2>1, <3>1, Sizes, Divided
    <2>3. h \in 0..(HoursPerDay - 1)
      BY <1>2, HoursAndMinutes
    <2> HIDE DEF d, r, h, n
    <2>4. w = d * MinutesPerDay + h * MinutesPerHour + n
      <3>1. d * MinutesPerDay \in Int /\ h * MinutesPerHour \in Int
        BY <2>1, <2>2, Calendar
      <3>2. QED
        BY <2>1, <2>2, <3>1
    <2>5. w % MinutesPerHour = n
      BY <2>1, <2>2, <2>3, <2>4, HourAndMinute
    <2>6. n \in Minutes(expr)
      BY <1>2, <2>5
    <2>7. QED
      BY <1>2, <2>4, <2>6 DEF Walls, Hours, Minutes
  <1>3. ASSUME w \in Walls(expr, d), d \in Days PROVE h \in Hours(expr) /\ m \in Minutes(expr)
    <2>1. PICK i \in Hours(expr), j \in Minutes(expr) : w = d * MinutesPerDay + i * MinutesPerHour + j
      BY <1>3 DEF Walls, Hours, Minutes
    <2>2. i \in 0..(HoursPerDay - 1) /\ j \in 0..(MinutesPerHour - 1) /\ d \in Int
      BY <1>3, <2>1, HoursAndMinutes, Calendar
    <2> HIDE DEF d
    <2>3. h = i /\ m = j
      BY <2>1, <2>2, HourAndMinute
    <2>4. QED
      BY <2>3
  <1>4. Shows(expr, w) <=> d \in Days /\ DueOn(expr, d) /\ h \in Hours(expr) /\ m \in Minutes(expr)
    BY DEF Shows, Hours, Minutes
  <1> HIDE DEF d, h, m
  <1>5. Shows(expr, w) <=> d \in Days /\ MatchesDay(expr, d) /\ w \in Walls(expr, d)
    BY <1>1, <1>2, <1>3, <1>4
  <1>6. QED
    BY <1>5 DEF d

LEMMA WallsOfDay ==
  ASSUME NEW expr, IsExpression(expr), NEW d \in Days, NEW w \in Walls(expr, d)
  PROVE  w \in Int /\ w \div MinutesPerDay = d
  <1>1. PICK i \in Hours(expr), j \in Minutes(expr) : w = d * MinutesPerDay + i * MinutesPerHour + j
    BY DEF Walls, Hours, Minutes
  <1>2. i \in 0..(HoursPerDay - 1) /\ j \in 0..(MinutesPerHour - 1) /\ d \in Int
    BY <1>1, HoursAndMinutes, Calendar
  <1>3. QED
    BY <1>1, <1>2, HourAndMinute

(* An expression fires at the instants of the times it shows.              *)
LEMMA FiringTimes ==
  ASSUME NEW expr, NEW zone, IsZone(zone), NEW i \in Int
  PROVE  FiresAt(expr, zone, i) <=> \E w \in Int : Shows(expr, w) /\ Instant(zone, w) = i
  <1>1. zone.at \in Nat /\ zone.jump \in Int
    BY DEF IsZone
  <1>2. ASSUME FiresAt(expr, zone, i) PROVE \E w \in Int : Shows(expr, w) /\ Instant(zone, w) = i
    <2>1. CASE Shows(expr, WallAt(zone, i)) /\ ~(zone.jump < 0 /\ i \in zone.at..(zone.at - zone.jump - 1))
      <3>1. WallAt(zone, i) \in Int /\ Instant(zone, WallAt(zone, i)) = i
        BY <1>1, <2>1 DEF WallAt, Instant
      <3>2. QED
        BY <2>1, <3>1
    <2>2. CASE zone.jump > 0 /\ i \in zone.at..(zone.at + zone.jump - 1) /\ Shows(expr, i)
      <3>1. Instant(zone, i) = i
        BY <1>1, <2>2 DEF Instant
      <3>2. QED
        BY <2>2, <3>1
    <2>3. QED
      BY <1>2, <2>1, <2>2 DEF FiresAt
  <1>3. ASSUME NEW w \in Int, Shows(expr, w), Instant(zone, w) = i PROVE FiresAt(expr, zone, i)
    <2>1. CASE zone.jump > 0 /\ w \in zone.at..(zone.at + zone.jump - 1)
      <3>1. i = w
        BY <1>1, <1>3, <2>1 DEF Instant
      <3>2. QED
        BY <1>3, <2>1, <3>1 DEF FiresAt
    <2>2. CASE ~(zone.jump > 0 /\ w \in zone.at..(zone.at + zone.jump - 1))
      <3>1. WallAt(zone, i) = w /\ ~(zone.jump < 0 /\ i \in zone.at..(zone.at - zone.jump - 1))
        BY <1>1, <1>3, <2>2 DEF Instant, WallAt
      <3>2. QED
        BY <1>3, <3>1 DEF FiresAt
    <2>3. QED
      BY <2>1, <2>2
  <1>4. QED
    BY <1>2, <1>3

(* Nothing that is still to come lies on a day before today.               *)
LEMMA NotBeforeToday ==
  ASSUME NEW zone, IsZone(zone), ByTheHour(zone), NEW after \in Nat, NEW w \in Int,
         Instant(zone, w) > after
  PROVE  WallAt(zone, after) \div MinutesPerDay <= w \div MinutesPerDay
  <1>1. zone.at \in Nat /\ zone.jump \in Int /\ WallAt(zone, after) \in Int
    BY DEF IsZone, WallAt
  <1>2. CASE WallAt(zone, after) <= w
    BY <1>1, <1>2, Calendar, DaysInOrder
  <1>3. CASE WallAt(zone, after) > w
    <2> DEFINE d == zone.at \div MinutesPerDay
               r == zone.at % MinutesPerDay
    <2>1. /\ zone.jump > 0 /\ zone.jump = MinutesPerHour
          /\ after >= zone.at /\ w > after /\ w < zone.at + MinutesPerHour
          /\ WallAt(zone, after) = after + MinutesPerHour
      BY <1>1, <1>3, Calendar DEF Instant, WallAt, ByTheHour
    <2>2. /\ d \in Int /\ r \in 0..(MinutesPerDay - 1) /\ zone.at = d * MinutesPerDay + r
          /\ r + 2 * MinutesPerHour <= MinutesPerDay
      <3>1. r + 2 * MinutesPerHour <= MinutesPerDay
        BY <2>1 DEF ByTheHour
      <3>2. zone.at \in Int
        BY <1>1
      <3>3. d \in Int /\ r \in 0..(MinutesPerDay - 1) /\ zone.at = d * MinutesPerDay + r
        BY <3>2, Sizes, Divided
      <3>4. QED
        BY <3>1, <3>3
    <2> HIDE DEF d, r
    <2>3. /\ d * MinutesPerDay \in Int
          /\ w - d * MinutesPerDay \in 0..(MinutesPerDay - 1)
          /\ after + MinutesPerHour - d * MinutesPerDay \in 0..(MinutesPerDay - 1)
      <3>1. d * MinutesPerDay \in Int
        BY <2>2, Calendar
      <3>2. QED
        BY <1>1, <2>1, <2>2, <3>1, Calendar
    <2>4. ASSUME NEW x \in Int, x - d * MinutesPerDay \in 0..(MinutesPerDay - 1)
          PROVE  x \div MinutesPerDay = d
      <3> DEFINE y == x - d * MinutesPerDay
      <3>1. y \in 0..(MinutesPerDay - 1) /\ x = d * MinutesPerDay + y
        BY <2>3, <2>4
      <3> HIDE DEF y
      <3>2. QED
        BY <2>2, <3>1, Calendar, DividedBack
    <2>5. w \div MinutesPerDay = d /\ (after + MinutesPerHour) \div MinutesPerDay = d
      <3> DEFINE shown == after + MinutesPerHour
      <3>1. shown \in Int /\ shown - d * MinutesPerDay \in 0..(MinutesPerDay - 1)
        BY <2>3, Sizes
      <3> HIDE DEF shown
      <3>2. shown \div MinutesPerDay = d
        BY <2>4, <3>1
      <3>3. w \div MinutesPerDay = d
        BY <2>3, <2>4
      <3>4. QED
        BY <3>2, <3>3 DEF shown
    <2>6. QED
      BY <2>1, <2>2, <2>5
  <1>4. QED
    BY <1>1, <1>2, <1>3

(* What an hour's jump puts in the place of what it passes over, and       *)
(* comes earlier, is admitted itself when what is passed over is.          *)
LEMMA PassedOverAlike ==
  ASSUME NEW expr, IsExpression(expr), NEW zone, IsZone(zone), ByTheHour(zone), zone.jump > 0,
         NEW d \in Days, NEW w \in Walls(expr, d), NEW v \in Int, Shows(expr, v),
         zone.at <= v - MinutesPerHour, v - MinutesPerHour < w, w < zone.at + MinutesPerHour
  PROVE  v - MinutesPerHour \in Walls(expr, d)
  <1> DEFINE k == zone.at \div MinutesPerHour
  <1>1. PICK h \in Hours(expr), j \in Minutes(expr) : w = d * MinutesPerDay + h * MinutesPerHour + j
    BY DEF Walls, Hours, Minutes
  <1>2. h \in 0..(HoursPerDay - 1) /\ j \in 0..(MinutesPerHour - 1) /\ d \in Int
    BY <1>1, HoursAndMinutes, Calendar
  <1>3. k \in Int /\ zone.at = k * MinutesPerHour /\ k * MinutesPerHour \in Int
    <2>1. zone.at \in Int /\ zone.at % MinutesPerHour = 0
      BY DEF ByTheHour, IsZone
    <2>2. k \in Int /\ zone.at = k * MinutesPerHour + 0
      BY <2>1, Sizes, Divided
    <2> HIDE DEF k
    <2>3. k * MinutesPerHour \in Int
      BY <2>2, Sizes
    <2>4. QED
      BY <2>2, <2>3
  <1> HIDE DEF k
  <1>4. w = (d * HoursPerDay + h) * MinutesPerHour + j /\ d * HoursPerDay + h \in Int /\ w \in Int
    BY <1>1, <1>2, Calendar, HourAndMinute
  <1>5. d * HoursPerDay + h = k
    <2> DEFINE y == w - k * MinutesPerHour
    <2>1. y \in 0..(MinutesPerHour - 1) /\ w = k * MinutesPerHour + y
      BY <1>3, <1>4, Calendar
    <2> HIDE DEF y
    <2> DEFINE q == d * HoursPerDay + h
    <2>2. q \in Int /\ q * MinutesPerHour + j = k * MinutesPerHour + y
      BY <1>4, <2>1
    <2> HIDE DEF q
    <2>3. q = k
      BY <1>2, <1>3, <2>1, <2>2, Calendar, OneQuotient
    <2>4. QED
      BY <2>3 DEF q
  <1> DEFINE n == v - MinutesPerHour - k * MinutesPerHour
  <1>6. n \in 0..(MinutesPerHour - 1) /\ v = (k * MinutesPerHour + MinutesPerHour) + n
    BY <1>3, <1>4, Calendar
  <1> HIDE DEF n
  <1>7. v % MinutesPerHour = n
    <2>1. k * MinutesPerHour + MinutesPerHour = (k + 1) * MinutesPerHour
      BY <1>3, Calendar
    <2>2. ((k + 1) * MinutesPerHour + n) % MinutesPerHour = n
      <3>1. k + 1 \in Int
        BY <1>3
      <3>2. QED
        BY <1>6, <3>1, Sizes, DividedBack
    <2>3. QED
      BY <1>6, <2>1, <2>2
  <1>8. n \in Minutes(expr)
    BY <1>7 DEF Shows, Minutes
  <1>9. v - MinutesPerHour = d * MinutesPerDay + h * MinutesPerHour + n
    <2>1. d * MinutesPerDay + h * MinutesPerHour + n = (d * HoursPerDay + h) * MinutesPerHour + n
      BY <1>2, <1>6, HourAndMinute
    <2>2. v - MinutesPerHour = k * MinutesPerHour + n
      BY <1>3, <1>6, Calendar
    <2>3. QED
      BY <1>5, <2>1, <2>2
  <1>10. QED
    BY <1>8, <1>9 DEF Walls, Hours, Minutes

-----------------------------------------------------------------------------
(* The first day on which something is still to come, and the first of it. *)
LEMMA NextAfterIsWall ==
  ASSUME NEW expr, IsExpression(expr), NEW zone, IsZone(zone), NEW after \in Nat,
         NextAfter(expr, zone, after) # NoTime
  PROVE  LET today == WallAt(zone, after) \div MinutesPerDay IN
         \E d \in Days, w \in Nat :
           /\ w \in Walls(expr, d) /\ w \div MinutesPerDay = d /\ Shows(expr, w)
           /\ NextAfter(expr, zone, after) = Instant(zone, w) /\ Instant(zone, w) > after
           /\ \A v \in Int : /\ Shows(expr, v) /\ Instant(zone, v) > after
                             /\ v \div MinutesPerDay \in today..d
                             => w <= v
  <1> DEFINE today == WallAt(zone, after) \div MinutesPerDay
             on(d) == IF MatchesDay(expr, d) THEN {w \in Walls(expr, d) : Later(zone, w, after)} ELSE {}
             found == {d \in Days : d \in today..(today + Lookahead - 1) /\ on(d) # {}}
             first == CHOOSE d \in found : \A e \in found : d <= e
             wall == CHOOSE w \in on(first) : \A v \in on(first) : w <= v
  <1>1. found # {} /\ NextAfter(expr, zone, after) = Instant(zone, wall)
    BY DEF NextAfter
  <1>2. zone.at \in Nat /\ zone.jump \in Int /\ today \in Int
    <2>1. WallAt(zone, after) \in Int
      BY DEF IsZone, WallAt
    <2>2. QED
      BY <2>1, Calendar, Divided DEF IsZone
  <1>3. found \subseteq Nat /\ found \subseteq Days
    BY Calendar
  <1> HIDE DEF found
  <1>4. first \in found /\ \A e \in found : first <= e
    <2>1. \E d \in found : \A e \in found : d <= e
      BY <1>1, <1>3, LeastNat
    <2>2. QED
      BY <2>1
  <1> HIDE DEF first
  <1>5. /\ first \in Days /\ first \in Nat /\ first \in today..(today + Lookahead - 1)
        /\ on(first) # {} /\ MatchesDay(expr, first)
    BY <1>3, <1>4 DEF found
  <1>6. on(first) \subseteq Walls(expr, first) /\ \A w \in on(first) : Instant(zone, w) > after
    BY <1>5 DEF Later
  <1>7. on(first) \subseteq Nat
    <2>1. SUFFICES ASSUME NEW w \in on(first) PROVE w \in Nat
      OBVIOUS
    <2>2. PICK i \in Hours(expr), j \in Minutes(expr) :
            w = first * MinutesPerDay + i * MinutesPerHour + j
      BY <1>6 DEF Walls, Hours, Minutes
    <2>3. i \in Nat /\ j \in Nat
      BY <2>2, HoursAndMinutes
    <2>4. first * MinutesPerDay \in Nat /\ i * MinutesPerHour \in Nat
      BY <1>5, <2>3, Calendar, Product
    <2>5. QED
      BY <2>2, <2>3, <2>4
  <1> DEFINE onFirst == on(first)
  <1>8. wall \in onFirst /\ \A v \in onFirst : wall <= v
    <2>1. onFirst \in SUBSET Nat /\ onFirst # {}
      BY <1>5, <1>7
    <2> HIDE DEF onFirst
    <2>2. \E w \in onFirst : \A v \in onFirst : w <= v
      BY <2>1, LeastNat
    <2>3. (CHOOSE w \in onFirst : \A v \in onFirst : w <= v) \in onFirst
          /\ \A v \in onFirst : (CHOOSE w \in onFirst : \A u \in onFirst : w <= u) <= v
      BY <2>2
    <2>4. QED
      BY <2>3 DEF onFirst
  <1> HIDE DEF wall
  <1>9. /\ wall \in Nat /\ wall \in Walls(expr, first) /\ wall \div MinutesPerDay = first
        /\ Instant(zone, wall) > after
    BY <1>5, <1>6, <1>7, <1>8, WallsOfDay
  <1>10. Shows(expr, wall)
    BY <1>5, <1>9, WallsAreShown
  <1>11. ASSUME NEW v \in Int, Shows(expr, v), Instant(zone, v) > after,
                v \div MinutesPerDay \in today..first
         PROVE  wall <= v
    <2> DEFINE day == v \div MinutesPerDay
    <2>1. day \in Days /\ v \in on(day)
      BY <1>11, WallsAreShown DEF Later
    <2>2. day \in Nat /\ day \in today..first
      BY <1>11, <2>1, Calendar
    <2>3. day \in found
      <3>1. on(day) # {}
        BY <2>1
      <3> HIDE DEF day, on
      <3>2. day \in today..(today + Lookahead - 1)
        BY <1>2, <1>5, <2>2, Calendar
      <3>3. QED
        BY <2>1, <3>1, <3>2 DEF found
    <2>4. day = first
      <3>1. first <= day
        BY <1>4, <2>3
      <3> HIDE DEF day
      <3>2. QED
        BY <1>5, <2>2, <3>1
    <2>5. QED
      BY <1>8, <2>1, <2>4
  <1>12. QED
    BY <1>1, <1>5, <1>9, <1>10, <1>11

LEMMA NextAfterFires ==
  ASSUME NEW expr, IsExpression(expr), NEW zone, IsZone(zone), NEW after \in Nat,
         NextAfter(expr, zone, after) # NoTime
  PROVE  /\ NextAfter(expr, zone, after) \in Nat /\ NextAfter(expr, zone, after) > after
         /\ FiresAt(expr, zone, NextAfter(expr, zone, after))
  <1>1. PICK w \in Nat : /\ Shows(expr, w) /\ NextAfter(expr, zone, after) = Instant(zone, w)
                        /\ Instant(zone, w) > after
    BY NextAfterIsWall
  <1>2. Instant(zone, w) \in Nat
    BY <1>1 DEF Instant, IsZone
  <1>3. QED
    BY <1>1, <1>2, FiringTimes

LEMMA NextAfterSkipsNone ==
  ASSUME NEW expr, IsExpression(expr), NEW zone, IsZone(zone), ByTheHour(zone), NEW after \in Nat,
         NextAfter(expr, zone, after) # NoTime,
         NEW i \in (after + 1)..(NextAfter(expr, zone, after) - 1)
  PROVE  ~FiresAt(expr, zone, i)
  <1> DEFINE today == WallAt(zone, after) \div MinutesPerDay
  <1>1. PICK d \in Days, w \in Nat :
          /\ w \in Walls(expr, d) /\ w \div MinutesPerDay = d /\ Shows(expr, w)
          /\ NextAfter(expr, zone, after) = Instant(zone, w)
          /\ \A v \in Int : /\ Shows(expr, v) /\ Instant(zone, v) > after
                            /\ v \div MinutesPerDay \in today..d
                            => w <= v
    BY NextAfterIsWall
  <1>2. /\ zone.at \in Nat /\ zone.jump \in Int /\ today \in Int /\ d \in Int
        /\ Instant(zone, w) \in Nat
    <2>1. WallAt(zone, after) \in Int
      BY DEF IsZone, WallAt
    <2>2. Instant(zone, w) \in Nat
      BY <1>1, NextAfterFires
    <2>3. QED
      BY <2>1, <2>2, Calendar, Divided DEF IsZone
  <1>3. SUFFICES ASSUME FiresAt(expr, zone, i) PROVE FALSE
    OBVIOUS
  <1>4. i \in Int /\ i > after /\ i < Instant(zone, w)
    BY <1>1, <1>2
  <1>5. PICK v \in Int : Shows(expr, v) /\ Instant(zone, v) = i
    BY <1>3, <1>4, FiringTimes
  <1>6. today <= v \div MinutesPerDay /\ v \div MinutesPerDay \in Int
    BY <1>4, <1>5, NotBeforeToday, Sizes, Divided
  <1> HIDE DEF today
  <1>7. ~(v < w)
    <2>1. SUFFICES ASSUME v < w PROVE FALSE
      OBVIOUS
    <2>2. v \div MinutesPerDay <= d
      BY <1>1, <2>1, Sizes, DaysInOrder
    <2>3. w <= v
      BY <1>1, <1>2, <1>4, <1>5, <1>6, <2>2
    <2>4. QED
      BY <2>1, <2>3
  <1>8. /\ zone.jump > 0 /\ zone.jump = MinutesPerHour /\ i = v - MinutesPerHour
        /\ zone.at <= v - MinutesPerHour /\ v - MinutesPerHour < w /\ w < zone.at + MinutesPerHour
    BY <1>2, <1>4, <1>5, <1>7, Sizes DEF Instant, ByTheHour
  <1>9. v - MinutesPerHour \in Walls(expr, d)
    BY <1>1, <1>5, <1>8, PassedOverAlike
  <1> DEFINE u == v - MinutesPerHour
  <1>10. u \in Int /\ u \div MinutesPerDay = d
    BY <1>9, WallsOfDay
  <1>11. Instant(zone, u) = i
    BY <1>2, <1>8, Sizes DEF Instant
  <1>12. Shows(expr, u)
    <2>1. MatchesDay(expr, d)
      BY <1>1, WallsAreShown
    <2>2. QED
      BY <1>9, <1>10, <2>1, WallsAreShown
  <1>13. today <= d
    BY <1>4, <1>10, <1>11, NotBeforeToday DEF today
  <1>14. w <= u
    BY <1>1, <1>2, <1>4, <1>10, <1>11, <1>12, <1>13
  <1>15. QED
    BY <1>8, <1>14, Sizes

-----------------------------------------------------------------------------
(* Each tick, and the definition, leave the slot that next_after gives.    *)
LEMMA SlotFacts ==
  ASSUME Admitted, SlotInv, stage = "defined", draft.cron # Manual
  PROVE  IsExpression(draft.cron) /\ IsZone(draft.zone) /\ slot = NextAfter(draft.cron, draft.zone, now)
         /\ slot # NoTime /\ now \in Nat /\ (JumpsByTheHour => ByTheHour(draft.zone))
  <1>1. PICK s \in Setups : draft = s.draft
    BY DEF Admitted
  <1>2. QED
    BY <1>1, SetupAssumption DEF SlotInv, IsExpression, IsZone, JumpsByTheHour

LEMMA InitSlot ==
  ASSUME DefInit
  PROVE  SlotInv
  BY TimeAssumption DEF DefInit, SlotInv

LEMMA NextSlot ==
  ASSUME Admitted, SlotInv, DefNext
  PROVE  SlotInv'
  <1>1. CASE Create
    BY <1>1 DEF Create, Fires, SlotInv
  <1>2. CASE CreateRefused
    BY <1>2 DEF CreateRefused, SlotInv, timeVars
  <1>3. CASE ConsoleSession \/ ClientSession
    <2>1. draft.cron = Manual
      BY <1>3, SetupAssumption DEF ConsoleSession, ClientSession, Admitted
    <2>2. QED
      BY <1>3, <2>1 DEF ConsoleSession, ClientSession, StartSession, SlotInv, timeVars
  <1>4. CASE Fire
    <2>1. slot # NoTime
      BY <1>4 DEF Fire
    <2>2. stage = "defined" /\ draft.cron # Manual
      BY <2>1 DEF SlotInv
    <2>3. slot \in Nat
      BY <2>2, SlotFacts, NextAfterFires
    <2>4. now' \in Nat
      BY <1>4, <2>3, TimeAssumption DEF Fire
    <2>5. QED
      BY <1>4, <2>2, <2>4 DEF Fire, SlotInv
  <1>5. CASE UpdateAgent \/ DeleteAgent \/ CreateAgent \/ UpdateWorkspace \/ UpdateSettings
             \/ \E t \in Tasks : StartTask(t) \/ StartFails(t) \/ FinishTask(t)
    <2>1. draft' = draft /\ stage' = stage /\ now' = now /\ slot' = slot
      BY <1>5 DEF UpdateAgent, DeleteAgent, CreateAgent, UpdateWorkspace, UpdateSettings, StartTask,
                  StartFails, FinishTask, timeVars
    <2>2. QED
      BY <2>1 DEF SlotInv
  <1>6. QED
    BY <1>1, <1>2, <1>3, <1>4, <1>5 DEF DefNext

LEMMA SlotStands ==
  DefSpec => [](DefTyped /\ FlowInv /\ SlotInv)
  <1>1. DefTyped /\ FlowInv /\ SlotInv /\ [DefNext]_defVars => SlotInv'
    <2>1. ASSUME UNCHANGED defVars, SlotInv PROVE SlotInv'
      <3>1. draft' = draft /\ stage' = stage /\ now' = now /\ slot' = slot
        BY <2>1 DEF defVars
      <3>2. QED
        BY <2>1, <3>1 DEF SlotInv
    <2>2. QED
      BY <2>1, NextSlot DEF FlowInv
  <1>2. DefInit => SlotInv
    BY InitSlot
  <1>3. QED
    BY <1>1, <1>2, FlowStands, PTL DEF DefSpec

(* The state of a definition is of its type.                               *)
THEOREM DefTypeCorrect ==
  DefSpec => []DefTypeOK
  <1>1. DefTyped /\ FlowInv /\ SlotInv => DefTypeOK
    <2>1. SUFFICES ASSUME DefTyped, FlowInv, SlotInv PROVE slot \in Nat \cup {NoTime} /\ now \in Nat
      BY DEF DefTyped, DefTypeOK
    <2>2. CASE stage = "defined" /\ draft.cron # Manual
      BY <2>1, <2>2, SlotFacts, NextAfterFires DEF FlowInv
    <2>3. CASE ~(stage = "defined" /\ draft.cron # Manual)
      BY <2>1, <2>3 DEF SlotInv
    <2>4. QED
      BY <2>1, <2>2, <2>3 DEF SlotInv
  <1>2. QED
    BY <1>1, SlotStands, PTL

(* "A schedule must never fire backwards": whatever the zone does, the     *)
(* next slot lies ahead, and the expression fires there.                   *)
THEOREM NeverBackwards ==
  DefSpec => []SlotAhead
  <1>1. DefTyped /\ FlowInv /\ SlotInv => SlotAhead
    BY SlotFacts, NextAfterFires DEF FlowInv, SlotAhead
  <1>2. QED
    BY <1>1, SlotStands, PTL

(* ... and where the clocks go forward by the hour no time at which the    *)
(* expression fires lies in between, for any expression, calendar and      *)
(* jump back.                                                              *)
THEOREM NoSlotSkipped ==
  JumpsByTheHour => (DefSpec => []SlotIsNext)
  <1>1. JumpsByTheHour /\ DefTyped /\ FlowInv /\ SlotInv => SlotIsNext
    <2>1. SUFFICES ASSUME JumpsByTheHour, FlowInv, SlotInv, stage = "defined", draft.cron # Manual
          PROVE  slot > now /\ FiresAt(draft.cron, draft.zone, slot)
                 /\ \A i \in (now + 1)..(slot - 1) : ~FiresAt(draft.cron, draft.zone, i)
      BY DEF SlotIsNext, SlotAhead, NoneBefore
    <2>2. /\ IsExpression(draft.cron) /\ IsZone(draft.zone) /\ ByTheHour(draft.zone) /\ now \in Nat
          /\ slot = NextAfter(draft.cron, draft.zone, now) /\ slot # NoTime
      BY <2>1, SlotFacts DEF FlowInv
    <2>3. QED
      BY <2>2, NextAfterFires, NextAfterSkipsNone
  <1>2. CASE JumpsByTheHour
    <2>1. DefTyped /\ FlowInv /\ SlotInv => SlotIsNext
      BY <1>1, <1>2
    <2>2. DefSpec => []SlotIsNext
      BY <2>1, SlotStands, PTL
    <2>3. QED
      BY <2>2
  <1>3. QED
    BY <1>2

-----------------------------------------------------------------------------
(* The files of a skill.  That a push keeps it whole is about directories  *)
(* without files below a linked directory: the walk does not list those,   *)
(* and --replace prunes them.                                              *)
SkillTyped == SkillTypeOK /\ dir \in [Pushers -> Directories]

LEMMA SkillTypeInit == SkillInit => SkillTyped
  <1> SUFFICES ASSUME SkillInit
               PROVE  SkillTyped
    OBVIOUS
  <1>1. dir \in [Pushers -> Directories]
    BY DEF SkillInit
  <1>2. dir \in [Pushers -> [Files -> FileShapes]]
    <2>1. [Files -> Shapes] \subseteq [Files -> FileShapes]
      <3>1. Shapes \subseteq FileShapes
        BY ShapeAssumption DEF ShapeAssumption
      <3> QED
        BY <3>1
    <2>2. Directories \subseteq [Files -> Shapes]
      BY Zenon DEF Directories
    <2> QED
      BY <1>1, <2>1, <2>2
  <1> QED
    BY <1>1, <1>2 DEF SkillInit, SkillTyped, SkillTypeOK

LEMMA SkillTypeStep == SkillTyped /\ [SkillNext]_skillVars => SkillTyped'
  <1> SUFFICES ASSUME SkillTyped, [SkillNext]_skillVars
               PROVE  SkillTyped'
    OBVIOUS
  <1> USE DEF SkillTyped, SkillTypeOK
  <1>1. ASSUME NEW p \in Pushers, Push(p)
        PROVE  SkillTyped'
    <2>1. CASE Walk(p) \/ Uploaded(p)
      BY <2>1 DEF Walk, Uploaded, At, LeftFor, Alone, Uploads
    <2>2. CASE Upload(p)
      BY <2>2 DEF Upload, LeftFor, Alone
    <2>3. CASE Prune(p)
      BY <2>3 DEF Prune, LeftFor, Removed, Alone
    <2>4. CASE Pruned(p) \/ Fails(p)
      BY <2>4 DEF Pruned, Fails, At, Alone
    <2> QED
      BY <1>1, <2>1, <2>2, <2>3, <2>4 DEF Push
  <1>2. CASE StartSync \/ CommandLineSync \/ SyncWrite
    BY <1>2, OfficialAssumption DEF StartSync, CommandLineSync, SyncWrite
  <1>3. CASE PersonActs
    BY <1>3 DEF PersonActs, WriteSkillFile, DeleteSkillFile, DeleteSkill, DeleteListed, DeleteFails,
                Removed
  <1>4. CASE UNCHANGED skillVars
    BY <1>4 DEF skillVars
  <1> QED
    BY <1>1, <1>2, <1>3, <1>4 DEF SkillNext

(* Every state is of its type.                                             *)
THEOREM SkillTypeCorrect == SkillSpec => []SkillTypeOK
  <1>1. SkillTyped => SkillTypeOK
    BY DEF SkillTyped
  <1> QED
    BY <1>1, SkillTypeInit, SkillTypeStep, PTL DEF SkillSpec

-----------------------------------------------------------------------------
(* What a push knows: that its own SKILL.md is fit to upload, that nothing *)
(* it will prune is its own, and that what it has uploaded is missing only *)
(* where somebody else removed it.                                         *)
Passed(p) == step[p] \in {"upload", "prune", "done"}
Pending(p) == IF step[p] = "upload" THEN left[p] ELSE {}

PrunesOthersOnly ==
  \A p \in Pushers : step[p] = "prune" => left[p] \cap Keep(dir[p]) = {}

PassedWithSkillMd == \A p \in Pushers : Passed(p) => SkillMd \in Uploads(dir[p])

BlamedForOthersOnly ==
  \A p \in Pushers, f \in Files : blame[f] = p => f # SkillMd /\ f \notin Keep(dir[p])

MissingByOthers ==
  \A p \in Pushers, f \in Files :
    Passed(p) /\ f \in Uploads(dir[p]) \ (bucket \cup Pending(p)) => blame[f] \notin {Nobody, p}

PushInv ==
  PrunesOthersOnly /\ PassedWithSkillMd /\ BlamedForOthersOnly /\ MissingByOthers

LEMMA PushInit == SkillInit => PushInv
  <1> SUFFICES ASSUME SkillInit
               PROVE  PushInv
    OBVIOUS
  <1>1. \A p \in Pushers : step[p] = "look" /\ p # Nobody
    BY PusherAssumption DEF SkillInit
  <1>2. \A f \in Files : blame[f] = Nobody
    BY DEF SkillInit
  <1> QED
    BY <1>1, <1>2 DEF PushInv, PrunesOthersOnly, PassedWithSkillMd, BlamedForOthersOnly,
                      MissingByOthers, Passed

(* Removing is safe where the remover does not carry the name.             *)
LEMMA RemovalKeeps ==
  ASSUME SkillTyped, PushInv, NEW f \in Files, NEW who \in Pushers \cup {Person}, Removed(f, who),
         who \in Pushers => f # SkillMd /\ f \notin Keep(dir[who]),
         UNCHANGED <<dir, step>>,
         \A p \in Pushers : left'[p] \subseteq left[p] /\ (step[p] = "upload" => left'[p] = left[p])
  PROVE  PushInv'
  <1> USE DEF SkillTyped, SkillTypeOK, PushInv
  <1>1. blame'[f] = who /\ \A g \in Files \ {f} : blame'[g] = blame[g] /\ (g \in bucket' <=> g \in bucket)
    BY DEF Removed
  <1>2. PrunesOthersOnly' /\ PassedWithSkillMd'
    BY DEF PrunesOthersOnly, PassedWithSkillMd, Passed
  <1>3. BlamedForOthersOnly'
    BY <1>1, PusherAssumption DEF BlamedForOthersOnly
  <1>4. MissingByOthers'
    <2>1. \A p \in Pushers : f \in Uploads(dir[p]) => who \notin {Nobody, p}
      BY PusherAssumption DEF Keep, Nobody, Person
    <2>2. \A p \in Pushers : Pending(p)' = Pending(p)
      BY DEF Pending
    <2> QED
      BY <1>1, <2>1, <2>2 DEF MissingByOthers, Passed
  <1> QED
    BY <1>2, <1>3, <1>4

LEMMA OwnStep ==
  ASSUME SkillTyped, PushInv, NEW p \in Pushers, Push(p)
  PROVE  PushInv'
  <1> USE DEF SkillTyped, SkillTypeOK
  <1>d. dir' = dir
    BY DEF Push, Walk, Upload, Uploaded, Prune, Pruned, Fails, Alone
  <1>1. CASE Walk(p)
    <2>1. CASE /\ Require(dir[p]) /\ step' = [step EXCEPT ![p] = "upload"]
               /\ left' = [left EXCEPT ![p] = Uploads(dir[p])]
      <3>1. UNCHANGED <<bucket, blame>>
        BY <1>1 DEF Walk
      <3> QED
        BY <1>d, <2>1, <3>1 DEF PushInv, PrunesOthersOnly, PassedWithSkillMd, BlamedForOthersOnly,
                                MissingByOthers, Passed, Pending, Require
    <2>2. CASE step' = [step EXCEPT ![p] = "refused"] /\ UNCHANGED left
      <3>1. UNCHANGED <<bucket, blame>>
        BY <1>1 DEF Walk
      <3> QED
        BY <1>d, <2>2, <3>1 DEF PushInv, PrunesOthersOnly, PassedWithSkillMd, BlamedForOthersOnly,
                                MissingByOthers, Passed, Pending
    <2> QED
      BY <1>1, <2>1, <2>2 DEF Walk, At, LeftFor
  <1>2. CASE Upload(p)
    <2>1. PICK f \in left[p] : /\ left' = [left EXCEPT ![p] = left[p] \ {f}]
                               /\ bucket' = bucket \cup {f}
      BY <1>2 DEF Upload, LeftFor
    <2>2. UNCHANGED <<step, blame>> /\ step[p] = "upload"
      BY <1>2 DEF Upload
    <2> QED
      BY <1>d, <2>1, <2>2 DEF PushInv, PrunesOthersOnly, PassedWithSkillMd, BlamedForOthersOnly,
                              MissingByOthers, Passed, Pending
  <1>3. CASE Uploaded(p)
    <2>1. UNCHANGED <<bucket, blame>> /\ left[p] = {} /\ step[p] = "upload"
      BY <1>3 DEF Uploaded, At
    <2>2. CASE step' = [step EXCEPT ![p] = "prune"] /\ left' = [left EXCEPT ![p] = bucket \ Keep(dir[p])]
      BY <1>d, <2>1, <2>2 DEF PushInv, PrunesOthersOnly, PassedWithSkillMd, BlamedForOthersOnly,
                              MissingByOthers, Passed, Pending
    <2>3. CASE step' = [step EXCEPT ![p] = "done"] /\ UNCHANGED left
      BY <1>d, <2>1, <2>3 DEF PushInv, PrunesOthersOnly, PassedWithSkillMd, BlamedForOthersOnly,
                              MissingByOthers, Passed, Pending
    <2> QED
      BY <1>3, <2>2, <2>3 DEF Uploaded, At, LeftFor
  <1>4. CASE Prune(p)
    <2>1. PICK f \in left[p] \cap bucket : /\ left' = [left EXCEPT ![p] = left[p] \ {f}]
                                           /\ Removed(f, p)
      BY <1>4 DEF Prune, LeftFor
    <2>2. UNCHANGED step /\ step[p] = "prune"
      BY <1>4 DEF Prune
    <2>3. f \notin Keep(dir[p])
      BY <2>1, <2>2 DEF PushInv, PrunesOthersOnly
    <2>4. f # SkillMd
      BY <2>2, <2>3 DEF PushInv, PassedWithSkillMd, Passed, Keep
    <2> QED
      BY <1>d, <2>1, <2>2, <2>3, <2>4, RemovalKeeps
  <1>5. CASE Pruned(p) \/ Fails(p)
    <2>1. PICK x \in {"done", "failed"} :
            step' = [step EXCEPT ![p] = x] /\ (x = "done" => step[p] = "prune")
      BY <1>5 DEF Pruned, Fails, At
    <2>2. UNCHANGED <<bucket, left, blame>>
      BY <1>5 DEF Pruned, Fails
    <2> QED
      BY <1>d, <2>1, <2>2 DEF PushInv, PrunesOthersOnly, PassedWithSkillMd, BlamedForOthersOnly,
                              MissingByOthers, Passed, Pending
  <1> QED
    BY <1>1, <1>2, <1>3, <1>4, <1>5 DEF Push

LEMMA PushStep == SkillTyped /\ PushInv /\ [SkillNext]_skillVars => PushInv'
  <1> SUFFICES ASSUME SkillTyped, PushInv, [SkillNext]_skillVars
               PROVE  PushInv'
    OBVIOUS
  <1>1. ASSUME UNCHANGED <<dir, step, left, blame>>, bucket \subseteq bucket'
        PROVE  PushInv'
    BY <1>1 DEF PushInv, PrunesOthersOnly, PassedWithSkillMd, BlamedForOthersOnly,
                MissingByOthers, Passed, Pending
  <1>2. CASE StartSync \/ CommandLineSync \/ SyncWrite \/ WriteSkillFile \/ DeleteSkill \/ DeleteFails
    BY <1>1, <1>2 DEF StartSync, CommandLineSync, SyncWrite, WriteSkillFile, DeleteSkill, DeleteFails
  <1>3. CASE DeleteSkillFile \/ DeleteListed
    <2>1. PICK f \in bucket : Removed(f, Person)
      BY <1>3 DEF DeleteSkillFile, DeleteListed
    <2>2. f \in Files /\ UNCHANGED <<dir, step, left>>
      BY <1>3, <2>1 DEF DeleteSkillFile, DeleteListed, SkillTyped, SkillTypeOK
    <2> QED
      BY <2>1, <2>2, RemovalKeeps, PusherAssumption
  <1>4. CASE UNCHANGED skillVars
    BY <1>1, <1>4 DEF skillVars
  <1> QED
    BY <1>2, <1>3, <1>4, OwnStep DEF SkillNext, PersonActs

(* No push takes away SKILL.md or what its own directory carries, and what *)
(* a push that is done has uploaded is gone only by somebody else's doing. *)
THEOREM SkillIsKept == "below_link" \notin Shapes => (SkillSpec => []PushKeepsSkill)
  <1> SUFFICES ASSUME "below_link" \notin Shapes
               PROVE  SkillSpec => []PushKeepsSkill
    OBVIOUS
  <1>1. SkillTyped /\ PushInv => PushKeepsSkill
    <2> SUFFICES ASSUME SkillTyped, PushInv, NEW p \in Pushers, NEW f \in Files
                 PROVE  /\ blame[f] = p => f # SkillMd /\ f \notin Carried(dir[p])
                        /\ step[p] = "done" /\ f \in Uploads(dir[p]) \ bucket =>
                             blame[f] \notin {Nobody, p} /\ (f = SkillMd => blame[f] = Person)
      BY DEF PushKeepsSkill
    <2> USE DEF PushInv, SkillTyped, SkillTypeOK
    <2>1. f # SkillMd => (f \in Carried(dir[p]) => f \in Keep(dir[p]))
      <3>1. f # SkillMd => dir[p][f] \in FileShapes \ {"below_link", "miscased"}
        BY DEF Directories, Files
      <3> QED
        BY <3>1 DEF Carried, Keep, Uploads, Declined, FileShapes
    <2>2. blame[f] \in Pushers => f # SkillMd
      BY DEF BlamedForOthersOnly
    <2>3. blame[f] = p => f # SkillMd /\ f \notin Carried(dir[p])
      BY <2>1 DEF BlamedForOthersOnly
    <2>4. step[p] = "done" /\ f \in Uploads(dir[p]) \ bucket => blame[f] \notin {Nobody, p}
      BY DEF MissingByOthers, Passed, Pending
    <2> QED
      BY <2>2, <2>3, <2>4
  <1> QED
    BY <1>1, SkillTypeInit, SkillTypeStep, PushInit, PushStep, PTL DEF SkillSpec
=============================================================================
