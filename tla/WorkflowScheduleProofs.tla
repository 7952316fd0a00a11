------------------------- MODULE WorkflowScheduleProofs -------------------------
(***************************************************************************)
(* Theorems about WorkflowSchedule, for any definitions and cron functions *)
(* and any number of ticks, callers and operators: its types, what the     *)
(* document knows of its runs, and, for edits that neither overlap nor     *)
(* straddle the clock, that every slot is given out once and fires what    *)
(* the workflow is.                                                        *)
(***************************************************************************)
EXTENDS WorkflowSchedule, TLAPS

(* The disjuncts of Next, by who acts.                                     *)
TickOnly(w) == TickStart(w) \/ TickList(w) \/ Park(w) \/ ClaimSlot(w) \/ Skip(w)
Edit(e) ==
  \/ CreateStart(e) \/ Create(e) \/ UpdateStart(e) \/ Update(e) \/ Pause(e)
  \/ ResumeStart(e) \/ Resume(e) \/ DrainRuns(e) \/ Drop(e)

LEMMA Cases ==
  ASSUME [Next]_vars
  PROVE  \/ \E w \in Ticks : TickOnly(w)
         \/ \E w \in Firing : Launch(w)
         \/ \E c \in Callers : Require(c)
         \/ \E e \in Operators : Edit(e)
         \/ \E r \in DOMAIN runs : RunCloses(r)
         \/ \E w \in Firing : Crash(w)
         \/ Advance
         \/ UNCHANGED vars
  BY DEF Next, Tick, TickOnly, RunNow, Firing, Console, CommandLine, Edit

LEMMA Apart ==
  /\ \A w \in Ticks : w \in Workers /\ w \in Firing /\ w \notin Callers /\ w \notin Operators
  /\ \A w \in Callers : w \in Workers /\ w \in Firing /\ w \notin Ticks /\ w \notin Operators
  /\ \A w \in Operators : w \in Workers /\ w \notin Firing /\ w \notin Ticks /\ w \notin Callers
  BY WorkerAssumption DEF Workers, Firing

LEMMA Slots ==
  ASSUME NEW d \in Defs, NEW t \in 0..MaxTime
  PROVE  /\ NextSlot(d, t) \in Int
         /\ NextSlot(d, t) = Manual \/ NextSlot(d, t) = CronError \/ NextSlot(d, t) > t
         /\ NextSlot(d, t) # CronError => NextSlot(d, t) \in Nat
  BY CronAssumption, BoundAssumption DEF NextSlot, Manual, CronError

LEMMA NoDocType == NoDoc \in Docs /\ NoPlan \in [def : Defs, next : {0}]
<1>1. (CHOOSE d \in Defs : TRUE) \in Defs
  BY DefAssumption
<1> QED
  BY <1>1 DEF NoDoc, Docs, NoPlan, Manual

-----------------------------------------------------------------------------
(* The types, and what a tick with a due workflow in hand knows of it.     *)
KnownDue ==
  \A w \in Ticks :
    /\ plan[w].next \in Nat \cup {CronError}
    /\ pc[w] = "due" => snap[w].next \in 1..now[w]

Typed == TypeOK /\ KnownDue

LEMMA TypeInit == Init => Typed
<1> SUFFICES ASSUME Init
             PROVE  Typed
  OBVIOUS
<1>1. wf \in Docs /\ wf.last_run = 0
  <2>1. CASE wf = NoDoc
    BY <2>1, NoDocType DEF NoDoc
  <2>2. CASE \E d \in Defs, enabled \in BOOLEAN :
               NextSlot(d, 0) # CronError /\ wf = Built(d, NextSlot(d, 0), enabled)
    <3>1. PICK d \in Defs, enabled \in BOOLEAN :
            NextSlot(d, 0) # CronError /\ wf = Built(d, NextSlot(d, 0), enabled)
      BY <2>2
    <3>2. NextSlot(d, 0) \in Nat
      BY <3>1, Slots, BoundAssumption
    <3> QED
      BY <3>1, <3>2, NoDocType DEF Built, Docs, NoDoc
  <2> QED
    BY <2>1, <2>2 DEF Init
<1>2. runs = <<>> /\ clock = 0 /\ crashes = 0 /\ edits = 0
  BY DEF Init
<1>3. pc \in [Workers -> Stations] /\ \A w \in Ticks : pc[w] = "idle"
  BY Apart DEF Init, Stations
<1>4. /\ snap \in [Firing -> Docs] /\ own \in [Firing -> Nat]
      /\ \A w \in Firing : snap[w].last_run = 0 /\ own[w] = 0
  BY NoDocType DEF Init, NoDoc
<1>5. now \in [Ticks -> 0..MaxTime]
  BY BoundAssumption DEF Init
<1>6. /\ plan \in [Ticks \cup Operators -> [def : Defs, next : Int]]
      /\ \A w \in Ticks \cup Operators : plan[w].next = 0
  BY NoDocType DEF Init
<1>7. claimed = {} /\ stale = {} /\ clean = TRUE /\ counted = [runs |-> 0, skips |-> 0]
  BY DEF Init
<1> QED
  BY <1>1, <1>2, <1>3, <1>4, <1>5, <1>6, <1>7, BoundAssumption DEF Typed, TypeOK, KnownDue

(* A launcher that is through.                                             *)
LEMMA ForgetType ==
  ASSUME Typed, NEW w \in Firing, Forget(w)
  PROVE  /\ snap' \in [Firing -> Docs] /\ own' \in [Firing -> Nat]
         /\ now' \in [Ticks -> 0..MaxTime]
         /\ plan' \in [Ticks \cup Operators -> [def : Defs, next : Int]]
         /\ \A e \in Operators : plan'[e].next \in Nat
         /\ \A v \in Firing : snap'[v].last_run <= Len(runs) /\ own'[v] <= Len(runs)
         /\ \A v \in Ticks : plan'[v].next \in Nat \cup {CronError}
         /\ \A v \in Firing \ {w} : snap'[v] = snap[v]
         /\ \A v \in Ticks \ {w} : now'[v] = now[v]
<1> USE DEF Typed, TypeOK, KnownDue
<1>0. Len(runs) \in Nat
  OBVIOUS
<1>1. /\ snap' \in [Firing -> Docs]
      /\ \A v \in Firing : snap'[v] = IF v = w THEN NoDoc ELSE snap[v]
  BY NoDocType DEF Forget
<1>2. /\ own' \in [Firing -> Nat]
      /\ \A v \in Firing : own'[v] = IF v = w THEN 0 ELSE own[v]
  BY DEF Forget
<1>3. /\ now' \in [Ticks -> 0..MaxTime]
      /\ \A v \in Ticks : now'[v] = IF v = w THEN 0 ELSE now[v]
  BY BoundAssumption DEF Forget
<1>4. /\ plan' \in [Ticks \cup Operators -> [def : Defs, next : Int]]
      /\ \A v \in Ticks \cup Operators : plan'[v] = IF v = w THEN NoPlan ELSE plan[v]
  BY NoDocType DEF Forget
<1>5. NoDoc.last_run = 0 /\ NoPlan.next = 0
  BY DEF NoDoc, NoPlan, Manual
<1>6. \A v \in Firing : snap'[v].last_run <= Len(runs) /\ own'[v] <= Len(runs)
  <2> SUFFICES ASSUME NEW v \in Firing
               PROVE  snap'[v].last_run <= Len(runs) /\ own'[v] <= Len(runs)
    OBVIOUS
  <2>1. CASE v = w
    BY <2>1, <1>0, <1>1, <1>2, <1>5
  <2>2. CASE v # w
    BY <2>2, <1>1, <1>2
  <2> QED
    BY <2>1, <2>2
<1>7. \A v \in Ticks \cup Operators : v \in Operators => plan'[v].next \in Nat
  BY <1>4, Apart
<1>8. \A v \in Ticks : plan'[v].next \in Nat \cup {CronError}
  <2> SUFFICES ASSUME NEW v \in Ticks
               PROVE  plan'[v].next \in Nat \cup {CronError}
    OBVIOUS
  <2>1. CASE v = w
    BY <2>1, <1>4, <1>5
  <2>2. CASE v # w
    BY <2>2, <1>4
  <2> QED
    BY <2>1, <2>2
<1> QED
  BY <1>1, <1>2, <1>3, <1>4, <1>6, <1>7, <1>8

(* A step that leaves the runs and the launchers' papers as they are.      *)
LEMMA PapersKept ==
  ASSUME Typed, UNCHANGED <<runs, clock, snap, now, plan, own, crashes>>,
         wf' \in Docs, wf'.last_run <= Len(runs),
         pc' \in [Workers -> Stations], edits' \in 0..MaxEdits,
         \A w \in Ticks : pc'[w] = "due" => pc[w] = "due",
         claimed' \subseteq 0..MaxTime, stale' \subseteq Firing, clean' \in BOOLEAN,
         counted' \in [runs : Nat, skips : Nat]
  PROVE  Typed'
  BY DEF Typed, TypeOK, KnownDue

(* ... and one after which a launcher is through.                          *)
LEMMA PapersDropped ==
  ASSUME Typed, NEW w \in Firing, Forget(w), UNCHANGED <<runs, clock, edits>>,
         wf' \in Docs, wf'.last_run <= Len(runs),
         NEW s \in {"idle", "done", "aborted"}, Goto(w, s),
         crashes' \in 0..MaxCrashes, claimed' \subseteq 0..MaxTime,
         stale' \subseteq Firing, clean' \in BOOLEAN,
         counted' \in [runs : Nat, skips : Nat]
  PROVE  Typed'
<1>1. pc' \in [Workers -> Stations]
  BY Apart DEF Goto, Typed, TypeOK, Stations
<1>2. \A v \in Ticks : pc'[v] = "due" => pc[v] = "due" /\ v # w
  BY Apart DEF Goto, Typed, TypeOK
<1>3. KnownDue'
  BY <1>2, ForgetType, Apart DEF Typed, KnownDue
<1> QED
  BY <1>1, <1>3, ForgetType DEF Typed, TypeOK

LEMMA TickTypes ==
  ASSUME Typed, NEW w \in Ticks, TickOnly(w)
  PROVE  Typed'
<1>w. w \in Firing /\ w \in Workers /\ w \notin Operators
  BY Apart
<1>d. wf \in Docs /\ wf.last_run <= Len(runs) /\ crashes \in 0..MaxCrashes
      /\ claimed \subseteq 0..MaxTime /\ clean \in BOOLEAN
      /\ counted \in [runs : Nat, skips : Nat] /\ stale \subseteq Firing
  BY DEF Typed, TypeOK
<1>r. \E s \in {"idle", "done", "aborted"} : Raises(w) <=> Goto(w, s)
  BY DEF Raises
<1>e. \E s \in {"idle", "done", "aborted"} : Ends(w) <=> Goto(w, s)
  BY DEF Ends
<1>1. CASE TickStart(w)
  BY <1>1, <1>w DEF TickStart, Goto, Stations, histVars, Typed, TypeOK, KnownDue
<1>2. CASE TickList(w)
  <2>1. CASE Due(wf, now[w])
    <3>1. NextSlot(wf.def, now[w]) \in Int
          /\ NextSlot(wf.def, now[w]) \in Nat \cup {CronError}
      BY <1>d, Slots DEF Docs, Typed, TypeOK
    <3>2. wf.next \in 1..now[w]
      BY <2>1, <1>d DEF Due, Docs, Typed, TypeOK
    <3>3. /\ snap' = [snap EXCEPT ![w] = wf]
          /\ plan' = [plan EXCEPT ![w] = [def |-> wf.def, next |-> NextSlot(wf.def, now[w])]]
          /\ Goto(w, "due")
          /\ UNCHANGED <<now, own, stale, wf, runs, clock, crashes, edits, claimed, clean, counted>>
      BY <1>2, <2>1 DEF TickList
    <3>4. /\ plan' \in [Ticks \cup Operators -> [def : Defs, next : Int]]
          /\ \A v \in Ticks \cup Operators : v # w => plan'[v] = plan[v]
          /\ plan'[w].next \in Nat \cup {CronError}
      BY <3>1, <3>3, <1>d DEF Typed, TypeOK, Docs
    <3>5. /\ snap' \in [Firing -> Docs]
          /\ \A v \in Firing : snap'[v].last_run <= Len(runs)
          /\ snap'[w].next \in 1..now[w]
          /\ \A v \in Firing : v # w => snap'[v] = snap[v]
      BY <3>2, <3>3, <1>d, <1>w DEF Typed, TypeOK
    <3>6. pc' \in [Workers -> Stations] /\ \A v \in Workers : v # w => pc'[v] = pc[v]
      BY <3>3, <1>w DEF Typed, TypeOK, Goto, Stations
    <3>7. TypeOK'
      BY <3>3, <3>4, <3>5, <3>6, <1>w DEF Typed, TypeOK
    <3>8. KnownDue'
      <4> SUFFICES ASSUME NEW v \in Ticks
                   PROVE  /\ plan'[v].next \in Nat \cup {CronError}
                          /\ pc'[v] = "due" => snap'[v].next \in 1..now'[v]
        BY DEF KnownDue
      <4>1. CASE v = w
        <5>1. now' = now
          BY <3>3
        <5>2. plan'[w].next \in Nat \cup {CronError} /\ snap'[w].next \in 1..now'[w]
          BY <5>1, <3>4, <3>5
        <5> QED
          BY <4>1, <5>2
      <4>2. CASE v # w
        <5>1. /\ plan'[v] = plan[v] /\ snap'[v] = snap[v] /\ pc'[v] = pc[v]
              /\ now' = now
          BY <4>2, <3>3, <3>4, <3>5, <3>6, Apart
        <5> QED
          BY <5>1 DEF Typed, KnownDue
      <4> QED
        BY <4>1, <4>2
    <3> QED
      BY <3>7, <3>8 DEF Typed
  <2>2. CASE ~Due(wf, now[w])
    BY <1>2, <2>2, <1>w, <1>d, PapersDropped DEF TickList, Leaves
  <2> QED
    BY <2>1, <2>2
<1>3. CASE Park(w)
  <2>1. wf' \in Docs /\ wf'.last_run = wf.last_run
    BY <1>3, <1>d DEF Park, Docs
  <2> QED
    BY <1>3, <2>1, <1>w, <1>d, <1>r, PapersDropped DEF Park, Leaves
<1>4. CASE ClaimSlot(w)
  <2>1. CASE CanClaimSlot(snap[w].next)
    <3>1. plan[w].next \in Nat /\ snap[w].next \in 0..MaxTime
      BY <1>4, BoundAssumption DEF ClaimSlot, Typed, TypeOK, KnownDue
    <3>2. wf' \in Docs /\ wf'.last_run = wf.last_run
      BY <1>4, <2>1, <3>1, <1>d DEF ClaimSlot, SlotMoved, Docs
    <3>3. pc' \in [Workers -> Stations] /\ \A v \in Ticks : pc'[v] = "due" => pc[v] = "due"
      BY <1>4, <2>1, <1>w, Apart DEF ClaimSlot, Goto, Stations, Typed, TypeOK
    <3> QED
      BY <1>4, <2>1, <3>1, <3>2, <3>3, <1>d, PapersKept DEF ClaimSlot, Typed, TypeOK
  <2>2. CASE ~CanClaimSlot(snap[w].next)
    BY <1>4, <2>2, <1>w, <1>d, PapersDropped DEF ClaimSlot, Leaves
  <2> QED
    BY <2>1, <2>2
<1>5. CASE Skip(w)
  <2>1. CASE wf.exists
    <3>1. wf' \in Docs /\ wf'.last_run = wf.last_run
      <4>1. snap[w].skip_count + 1 \in Nat
        BY SMTT(30), <1>w DEF Docs, Typed, TypeOK
      <4> QED
        BY <1>5, <2>1, <4>1, <1>d DEF Skip, Docs
    <3>2. /\ counted' \in [runs : Nat, skips : Nat] /\ clean' \in BOOLEAN
          /\ stale' \subseteq Firing
      BY <1>5, <2>1, <1>d DEF Skip, Outdated
    <3> QED
      BY <1>5, <2>1, <3>1, <3>2, <1>w, <1>d, <1>e, PapersDropped DEF Skip
  <2>2. CASE ~wf.exists
    BY <1>5, <2>2, <1>w, <1>d, <1>r, PapersDropped DEF Skip, Leaves
  <2> QED
    BY <2>1, <2>2
<1> QED
  BY <1>1, <1>2, <1>3, <1>4, <1>5 DEF TickOnly

LEMMA LaunchTypes ==
  ASSUME Typed, NEW w \in Firing, Launch(w)
  PROVE  Typed'
<1>w. w \in Workers /\ w \notin Operators
  BY Apart DEF Firing
<1>d. wf \in Docs /\ wf.last_run <= Len(runs) /\ crashes \in 0..MaxCrashes
      /\ claimed \subseteq 0..MaxTime /\ clean \in BOOLEAN
      /\ counted \in [runs : Nat, skips : Nat] /\ stale \subseteq Firing
  BY DEF Typed, TypeOK
<1>r. \E s \in {"idle", "done", "aborted"} : Raises(w) <=> Goto(w, s)
  BY DEF Raises
<1>e. \E s \in {"idle", "done", "aborted"} : Ends(w) <=> Goto(w, s)
  BY DEF Ends
<1>1. CASE Look(w)
  <2>1. CASE ActiveRun(snap[w]) /\ w \in Callers
    BY <1>1, <2>1, <1>d, PapersDropped DEF Look, Leaves
  <2>2. CASE ~(ActiveRun(snap[w]) /\ w \in Callers)
    <3>1. \E s \in {"skip", "launch"} : Goto(w, s)
      BY <1>1, <2>2 DEF Look
    <3>2. /\ pc' \in [Workers -> Stations]
          /\ \A v \in Ticks : pc'[v] = "due" => pc[v] = "due"
      BY <3>1, <1>w, Apart DEF Goto, Stations, Typed, TypeOK
    <3> QED
      BY <1>1, <2>2, <3>2, <1>d, PapersKept DEF Look, Typed, TypeOK
  <2> QED
    BY <2>1, <2>2
<1>2. CASE CreateRun(w)
  <2>1. runs' \in Seq(RunStatuses) /\ Len(runs') = Len(runs) + 1 /\ Len(runs) \in Nat
    BY <1>2 DEF CreateRun, Typed, TypeOK, RunStatuses
  <2>2. /\ own' \in [Firing -> Nat]
        /\ \A v \in Firing : own'[v] = own[v] \/ own'[v] = Len(runs')
    BY <1>2, <2>1 DEF CreateRun, Typed, TypeOK
  <2>3. /\ pc' \in [Workers -> Stations]
        /\ \A v \in Ticks : pc'[v] = "due" => pc[v] = "due"
    BY <1>2, <1>w, Apart DEF CreateRun, Goto, Stations, Typed, TypeOK
  <2>4. UNCHANGED <<wf, clock, snap, now, plan, crashes, edits, claimed, stale, clean, counted>>
    BY <1>2 DEF CreateRun, histVars
  <2>5. wf'.last_run <= Len(runs')
    BY <2>1, <2>4, <1>d DEF Docs
  <2>6. \A v \in Firing : snap'[v].last_run <= Len(runs') /\ own'[v] <= Len(runs')
    <3> SUFFICES ASSUME NEW v \in Firing
                 PROVE  snap'[v].last_run <= Len(runs') /\ own'[v] <= Len(runs')
      OBVIOUS
    <3>1. snap[v].last_run \in Nat /\ snap[v].last_run <= Len(runs)
          /\ own[v] \in Nat /\ own[v] <= Len(runs)
      BY DEF Typed, TypeOK, Docs
    <3> QED
      BY <3>1, <2>1, <2>2, <2>4
  <2>7. TypeOK'
    BY <2>1, <2>2, <2>3, <2>4, <2>5, <2>6 DEF Typed, TypeOK
  <2>8. KnownDue'
    BY <2>3, <2>4 DEF Typed, KnownDue
  <2> QED
    BY <2>7, <2>8 DEF Typed
<1>3. CASE LaunchError(w)
  BY <1>3, <1>d, <1>r, <1>e, PapersDropped DEF LaunchError, Leaves
<1>4. CASE RegisterRun(w)
  <2>1. CASE wf.exists
    <3>1. snap[w].run_count + 1 \in Nat /\ own[w] \in Nat /\ own[w] <= Len(runs)
      BY SMTT(30) DEF Docs, Typed, TypeOK
    <3>2. wf' \in Docs /\ wf'.last_run <= Len(runs)
      BY <1>4, <2>1, <3>1, <1>d DEF RegisterRun, Registered, Docs
    <3>3. /\ counted' \in [runs : Nat, skips : Nat] /\ clean' \in BOOLEAN
          /\ stale' \subseteq Firing
      BY <1>4, <2>1, <1>d DEF RegisterRun, Outdated
    <3> QED
      BY <1>4, <2>1, <3>2, <3>3, <1>d, <1>e, PapersDropped DEF RegisterRun
  <2>2. CASE ~wf.exists
    BY <1>4, <2>2, <1>d, <1>r, PapersDropped DEF RegisterRun, Leaves
  <2> QED
    BY <2>1, <2>2
<1> QED
  BY <1>1, <1>2, <1>3, <1>4 DEF Launch

LEMMA RequireTypes ==
  ASSUME Typed, NEW c \in Callers, Require(c)
  PROVE  Typed'
<1>w. c \in Workers /\ c \in Firing /\ c \notin Ticks
  BY Apart
<1>1. /\ pc' \in [Workers -> Stations]
      /\ \A v \in Ticks : pc'[v] = pc[v]
  BY <1>w, Apart DEF Require, Goto, Stations, Typed, TypeOK
<1>2. UNCHANGED <<wf, runs, clock, now, plan, own, crashes, edits, claimed, stale, clean, counted>>
  BY DEF Require, histVars
<1>3. /\ snap' \in [Firing -> Docs]
      /\ \A v \in Firing : snap'[v].last_run <= Len(runs)
      /\ \A v \in Ticks : snap'[v] = snap[v]
  <2>1. CASE snap' = snap
    BY <2>1 DEF Typed, TypeOK
  <2>2. CASE snap' = [snap EXCEPT ![c] = wf]
    <3>1. snap \in [Firing -> Docs] /\ wf \in Docs /\ wf.last_run <= Len(runs)
          /\ \A v \in Firing : snap[v].last_run <= Len(runs)
      BY DEF Typed, TypeOK
    <3>2. \A v \in Ticks : v \in Firing /\ v # c
      BY <1>w, Apart
    <3>3. QED
      BY <1>w, <2>2, <3>1, <3>2
  <2>3. QED
    BY <2>1, <2>2 DEF Require
<1>4. TypeOK'
  BY <1>1, <1>2, <1>3 DEF Typed, TypeOK
<1>5. KnownDue'
  BY <1>1, <1>2, <1>3 DEF Typed, KnownDue
<1> QED
  BY <1>4, <1>5 DEF Typed

LEMMA CrashTypes ==
  ASSUME Typed, NEW w \in Firing, Crash(w)
  PROVE  Typed'
<1>d. wf \in Docs /\ wf.last_run <= Len(runs) /\ crashes' \in 0..MaxCrashes
      /\ claimed \subseteq 0..MaxTime /\ clean' \in BOOLEAN
      /\ counted \in [runs : Nat, skips : Nat] /\ stale \subseteq Firing
  BY BoundAssumption DEF Typed, TypeOK, Crash
<1>e. \E s \in {"idle", "done", "aborted"} : Ends(w) <=> Goto(w, s)
  BY DEF Ends
<1> QED
  BY <1>d, <1>e, PapersDropped DEF Crash, Leaves

(* The plan of one operator changes, and where that operator stands.       *)
LEMMA PlanTypes ==
  ASSUME Typed, NEW e \in Operators, NEW p \in [def : Defs, next : Nat],
         NEW s \in Stations, Goto(e, s), plan' = [plan EXCEPT ![e] = p],
         UNCHANGED <<clock, snap, now, own, crashes>>,
         wf' \in Docs, runs' \in Seq(RunStatuses), Len(runs') = Len(runs),
         wf'.last_run <= Len(runs),
         edits' \in 0..MaxEdits, claimed' \subseteq 0..MaxTime, stale' \subseteq Firing,
         clean' \in BOOLEAN, counted' \in [runs : Nat, skips : Nat]
  PROVE  Typed'
<1>1. pc' \in [Workers -> Stations] /\ \A v \in Ticks : pc'[v] = pc[v]
  BY Apart DEF Goto, Typed, TypeOK
<1>2. /\ plan' \in [Ticks \cup Operators -> [def : Defs, next : Int]]
      /\ \A v \in Ticks \cup Operators : plan'[v] = IF v = e THEN p ELSE plan[v]
  BY DEF Typed, TypeOK
<1>3. \A o \in Operators : plan'[o].next \in Nat
  BY <1>2 DEF Typed, TypeOK
<1>4. \A v \in Ticks : plan'[v] = plan[v]
  BY <1>2, Apart
<1>5. TypeOK'
  BY <1>1, <1>2, <1>3 DEF Typed, TypeOK
<1>6. KnownDue'
  BY <1>1, <1>4 DEF Typed, KnownDue
<1> QED
  BY <1>5, <1>6 DEF Typed

LEMMA PrepareTypes ==
  ASSUME Typed, NEW e \in Operators, NEW d \in Defs,
         NEW s \in {"create", "update", "resume"}, Prepare(e, s, d)
  PROVE  Typed'
<1>1. NextSlot(d, clock) \in Nat
  BY Slots DEF Prepare, Typed, TypeOK
<1>2. edits' \in 0..MaxEdits
  BY BoundAssumption DEF Prepare, BeginsEdit, Typed, TypeOK
<1>3. s \in Stations
  BY DEF Stations
<1> QED
  BY <1>1, <1>2, <1>3, PlanTypes DEF Prepare, histVars, Typed, TypeOK

LEMMA WrittenTypes ==
  ASSUME Typed, NEW e \in Operators, NEW doc \in Docs, Written(e, doc),
         doc.last_run <= Len(runs),
         edits' \in 0..MaxEdits, counted' \in [runs : Nat, skips : Nat]
  PROVE  Typed'
<1>1. NoPlan \in [def : Defs, next : Nat] /\ "idle" \in Stations
  BY NoDocType DEF Stations
<1> QED
  BY <1>1, PlanTypes DEF Written, Typed, TypeOK

LEMMA RefusedTypes ==
  ASSUME Typed, NEW e \in Operators, Refused(e)
  PROVE  Typed'
<1>1. NoPlan \in [def : Defs, next : Nat] /\ "idle" \in Stations
  BY NoDocType DEF Stations
<1> QED
  BY <1>1, PlanTypes DEF Refused, histVars, Typed, TypeOK

(* What the edits write is a document.                                     *)
LEMMA EditDocs ==
  ASSUME Typed, NEW e \in Operators
  PROVE  /\ \A b \in BOOLEAN : /\ Built(plan[e].def, plan[e].next, b) \in Docs
                             /\ Built(plan[e].def, plan[e].next, b).last_run = 0
         /\ Redefined(plan[e]) \in Docs /\ Redefined(plan[e]).last_run = wf.last_run
         /\ Resumed(plan[e]) \in Docs /\ Resumed(plan[e]).last_run = wf.last_run
         /\ \A b \in BOOLEAN : /\ [wf EXCEPT !.enabled = b] \in Docs
                             /\ [wf EXCEPT !.enabled = b].last_run = wf.last_run
<1>1. plan[e].def \in Defs /\ plan[e].next \in Nat /\ wf \in Docs
  BY DEF Typed, TypeOK
<1>2. NoDoc \in Docs /\ NoDoc.last_run = 0
  BY NoDocType DEF NoDoc
<1> QED
  BY <1>1, <1>2 DEF Built, Redefined, Resumed, Docs

LEMMA EditTypes ==
  ASSUME Typed, NEW e \in Operators, Edit(e)
  PROVE  Typed'
<1>w. e \in Workers /\ e \notin Ticks
  BY Apart
<1>d. /\ wf \in Docs /\ wf.last_run <= Len(runs) /\ Len(runs) \in Nat
      /\ counted \in [runs : Nat, skips : Nat] /\ edits \in 0..MaxEdits
      /\ [runs |-> 0, skips |-> 0] \in [runs : Nat, skips : Nat]
      /\ wf.def \in Defs /\ 0 <= Len(runs)
  BY DEF Typed, TypeOK, Docs
<1>e. BeginsEdit(e) => edits' \in 0..MaxEdits
  BY <1>d, BoundAssumption DEF BeginsEdit
<1>1. CASE CreateStart(e) \/ UpdateStart(e) \/ ResumeStart(e)
  BY <1>1, <1>d, PrepareTypes DEF CreateStart, UpdateStart, ResumeStart
<1>2. CASE Create(e)
  BY <1>2, <1>d, EditDocs, WrittenTypes, RefusedTypes DEF Create
<1>3. CASE Update(e)
  BY <1>3, <1>d, EditDocs, WrittenTypes, RefusedTypes DEF Update
<1>4. CASE Resume(e)
  BY <1>4, <1>d, EditDocs, WrittenTypes, RefusedTypes DEF Resume
<1>5. CASE Pause(e)
  BY <1>5, <1>d, <1>e, EditDocs, WrittenTypes DEF Pause
<1>6. CASE DrainRuns(e)
  <2>1. runs' \in Seq(RunStatuses) /\ Len(runs') = Len(runs)
    BY <1>6 DEF DrainRuns, RunStatuses, Typed, TypeOK
  <2>2. plan' = [plan EXCEPT ![e] = plan[e]] /\ plan[e] \in [def : Defs, next : Nat]
    BY <1>6 DEF DrainRuns, Typed, TypeOK
  <2>3. Goto(e, "drop") /\ "drop" \in Stations
    BY <1>6 DEF DrainRuns, Stations
  <2> QED
    BY <1>6, <1>d, <1>e, <2>1, <2>2, <2>3, PlanTypes DEF DrainRuns, histVars, Typed, TypeOK
<1>7. CASE Drop(e)
  <2>1. plan' = [plan EXCEPT ![e] = plan[e]] /\ plan[e] \in [def : Defs, next : Nat]
    BY <1>7 DEF Drop, Typed, TypeOK
  <2>2. NoDoc \in Docs /\ NoDoc.last_run = 0 /\ "idle" \in Stations
    BY NoDocType DEF NoDoc, Stations
  <2>3. Goto(e, "idle") /\ wf' = NoDoc /\ clean' \in BOOLEAN
    BY <1>7 DEF Drop, Typed, TypeOK
  <2> QED
    BY <1>7, <1>d, <2>1, <2>2, <2>3, PlanTypes DEF Drop, Typed, TypeOK
<1> QED
  BY <1>1, <1>2, <1>3, <1>4, <1>5, <1>6, <1>7 DEF Edit

LEMMA TypeStep == Typed /\ [Next]_vars => Typed'
<1> SUFFICES ASSUME Typed, [Next]_vars
             PROVE  Typed'
  OBVIOUS
<1>1. ASSUME NEW r \in DOMAIN runs, RunCloses(r)
      PROVE  Typed'
  <2>1. runs' \in Seq(RunStatuses) /\ Len(runs') = Len(runs)
    BY <1>1 DEF RunCloses, RunStatuses, Typed, TypeOK
  <2> QED
    BY <1>1, <2>1 DEF RunCloses, histVars, Typed, TypeOK, KnownDue
<1>2. CASE Advance
  BY <1>2, BoundAssumption DEF Advance, histVars, Typed, TypeOK, KnownDue
<1>3. CASE UNCHANGED vars
  BY <1>3 DEF vars, Typed, TypeOK, KnownDue
<1> QED
  BY <1>1, <1>2, <1>3, Cases, TickTypes, LaunchTypes, RequireTypes, CrashTypes, EditTypes

(* The document, its runs and everybody at work on them stay of their      *)
(* types: no counter, slot or reference to a run goes out of range.        *)
THEOREM TypeCorrect == Spec => []TypeOK
<1>1. Typed => TypeOK
  BY DEF Typed
<1> QED
  BY <1>1, TypeInit, TypeStep, PTL DEF Spec

-----------------------------------------------------------------------------
(* Slots.  An edit under way has a slot that lies ahead of the clock, for  *)
(* the clock stands while it is under way and nobody else edits; a tick    *)
(* that holds a due slot finds the document where it listed it, with the   *)
(* definition it listed, or at a slot that is later or none.               *)
Writing(e) == pc[e] \in {"create", "update", "resume"}

NowPast == \A w \in Ticks : now[w] <= clock
ClaimedBefore == \A d \in claimed : d <= clock /\ (wf.next > 0 => d < wf.next)
OneEditor == \A e, o \in Operators : Editing(e) /\ Editing(o) => e = o
PlansAhead ==
  \A e \in Operators :
    /\ Writing(e) => /\ plan[e].next = 0 \/ plan[e].next > clock
                     /\ IsSlotOf(plan[e].def, plan[e].next)
    /\ pc[e] = "resume" => wf.exists /\ plan[e].def = wf.def
ListedDue ==
  \A w \in Ticks :
    pc[w] = "due" =>
      /\ plan[w].next \in {Manual, CronError} \/ plan[w].next > now[w]
      /\ IsSlotOf(snap[w].def, plan[w].next)
      /\ wf.exists => \/ wf.next = 0 \/ wf.next > snap[w].next
                      \/ wf.next = snap[w].next /\ wf.def = snap[w].def
SlotOfItsOwn == wf.exists => IsSlotOf(wf.def, wf.next)

SlotInv ==
  NowPast /\ ClaimedBefore /\ OneEditor /\ PlansAhead /\ ListedDue /\ SlotOfItsOwn

LEMMA SlotInit == Init => SlotInv
<1> SUFFICES ASSUME Init
             PROVE  SlotInv
  OBVIOUS
<1>1. SlotOfItsOwn
  <2>1. CASE wf = NoDoc
    BY <2>1 DEF NoDoc, SlotOfItsOwn
  <2>2. CASE \E d \in Defs, enabled \in BOOLEAN :
               NextSlot(d, 0) # CronError /\ wf = Built(d, NextSlot(d, 0), enabled)
    BY <2>2, BoundAssumption DEF Built, NoDoc, SlotOfItsOwn, IsSlotOf
  <2> QED
    BY <2>1, <2>2 DEF Init
<1>2. /\ \A w \in Ticks : pc[w] = "idle" /\ now[w] = 0
      /\ \A e \in Operators : pc[e] = "idle"
      /\ clock = 0 /\ claimed = {}
  BY Apart DEF Init
<1> QED
  BY <1>1, <1>2 DEF SlotInv, NowPast, ClaimedBefore, OneEditor, Editing, PlansAhead, Writing,
                    ListedDue

(* Whatever moves no slot, edits nothing and puts no listing in hand.      *)
LEMMA SlotsKept ==
  ASSUME SlotInv,
         wf'.exists = wf.exists, wf'.next = wf.next, wf'.def = wf.def,
         claimed' = claimed, clock' = clock,
         \A e \in Operators : pc'[e] = pc[e] /\ plan'[e] = plan[e],
         \A w \in Ticks : now'[w] <= clock,
         \A w \in Ticks :
           pc'[w] = "due" => /\ pc[w] = "due"
                             /\ snap'[w] = snap[w] /\ now'[w] = now[w] /\ plan'[w] = plan[w]
  PROVE  SlotInv'
<1>1. NowPast' /\ ClaimedBefore' /\ SlotOfItsOwn'
  BY DEF SlotInv, NowPast, ClaimedBefore, SlotOfItsOwn, IsSlotOf
<1>2. OneEditor' /\ PlansAhead'
  BY DEF SlotInv, OneEditor, Editing, PlansAhead, Writing, IsSlotOf
<1>3. ListedDue'
  BY DEF SlotInv, ListedDue, IsSlotOf
<1> QED
  BY <1>1, <1>2, <1>3 DEF SlotInv

(* ... with a worker that is through.                                      *)
LEMMA SlotsDropped ==
  ASSUME Typed, SlotInv, NEW w \in Firing, Forget(w),
         NEW s \in {"idle", "done", "aborted"}, Goto(w, s),
         wf'.exists = wf.exists, wf'.next = wf.next, wf'.def = wf.def,
         UNCHANGED <<claimed, clock>>
  PROVE  SlotInv'
<1>w. w \in Workers /\ w \notin Operators
  BY Apart DEF Firing
<1>1. \A v \in Workers : v # w => pc'[v] = pc[v]
  BY DEF Goto, Typed, TypeOK
<1>2. \A v \in Ticks \cup Operators : v # w => plan'[v] = plan[v]
  BY DEF Forget, Typed, TypeOK
<1>3. pc'[w] # "due"
  BY <1>w DEF Goto, Typed, TypeOK
<1>4. \A v \in Ticks : now'[v] <= clock
  <2>1. \A v \in Ticks : now'[v] = IF v = w THEN 0 ELSE now[v]
    BY DEF Forget
  <2>2. 0 <= clock /\ \A v \in Ticks : now[v] <= clock
    BY BoundAssumption DEF Typed, TypeOK, SlotInv, NowPast
  <2> QED
    BY <2>1, <2>2
<1>5. \A v \in Ticks : v # w => snap'[v] = snap[v] /\ now'[v] = now[v]
  BY ForgetType, Apart
<1> QED
  BY <1>w, <1>1, <1>2, <1>3, <1>4, <1>5, Apart, SlotsKept

LEMMA TickSlots ==
  ASSUME Typed, SlotInv, NEW w \in Ticks, TickOnly(w)
  PROVE  SlotInv'
<1>w. w \in Firing /\ w \in Workers /\ w \notin Operators
  BY Apart
<1>o. \A s : Goto(w, s) => /\ \A v \in Workers : v # w => pc'[v] = pc[v]
                           /\ pc'[w] = s
  BY <1>w DEF Goto, Typed, TypeOK
<1>r. \E s \in {"idle", "done", "aborted"} : Raises(w) <=> Goto(w, s)
  BY DEF Raises
<1>e. \E s \in {"idle", "done", "aborted"} : Ends(w) <=> Goto(w, s)
  BY DEF Ends
<1>1. CASE TickStart(w)
  <2>1. \A v \in Ticks : now'[v] = IF v = w THEN clock ELSE now[v]
    BY <1>1 DEF TickStart, Typed, TypeOK
  <2>2. pc'[w] = "timed" /\ \A v \in Workers : v # w => pc'[v] = pc[v]
    BY <1>1, <1>o DEF TickStart
  <2>3. \A v \in Ticks : now'[v] <= clock
    <3>1. \A v \in Ticks : now[v] <= clock
      BY DEF SlotInv, NowPast
    <3>2. clock <= clock
      <4>1. clock \in Nat
        BY BoundAssumption DEF Typed, TypeOK
      <4> QED
        BY <4>1
    <3> QED
      BY ONLY <2>1, <3>1, <3>2
  <2> QED
    <3>1. UNCHANGED <<wf, claimed, clock, snap, plan>>
      BY <1>1 DEF TickStart, histVars
    <3>2. \A e \in Operators : pc'[e] = pc[e] /\ plan'[e] = plan[e]
      BY <2>2, <3>1, Apart
    <3>3. \A v \in Ticks :
            pc'[v] = "due" => /\ pc[v] = "due"
                              /\ snap'[v] = snap[v] /\ now'[v] = now[v] /\ plan'[v] = plan[v]
      BY <2>1, <2>2, <3>1, Apart
    <3> QED
      BY <2>3, <3>1, <3>2, <3>3, SlotsKept
<1>2. CASE TickList(w)
  <2>1. CASE Due(wf, now[w])
    <3>1. /\ snap' = [snap EXCEPT ![w] = wf]
          /\ plan' = [plan EXCEPT ![w] = [def |-> wf.def, next |-> NextSlot(wf.def, now[w])]]
          /\ Goto(w, "due")
          /\ UNCHANGED <<now, own, stale, wf, runs, clock, crashes, edits, claimed, clean, counted>>
      BY <1>2, <2>1 DEF TickList
    <3>2. /\ \A v \in Ticks \cup Operators : v # w => plan'[v] = plan[v]
          /\ plan'[w].next = NextSlot(wf.def, now[w])
      BY <3>1 DEF Typed, TypeOK
    <3>3. snap'[w] = wf /\ \A v \in Firing : v # w => snap'[v] = snap[v]
      BY <3>1, <1>w DEF Typed, TypeOK
    <3>4. pc'[w] = "due" /\ \A v \in Workers : v # w => pc'[v] = pc[v]
      BY <3>1, <1>o
    <3>5. wf.def \in Defs /\ now[w] \in 0..MaxTime
      BY DEF Typed, TypeOK, Docs
    <3>6. NowPast' /\ ClaimedBefore' /\ SlotOfItsOwn'
      BY <3>1 DEF SlotInv, NowPast, ClaimedBefore, SlotOfItsOwn, IsSlotOf
    <3>7. OneEditor' /\ PlansAhead'
      BY <3>1, <3>2, <3>4, <1>w, Apart
         DEF SlotInv, OneEditor, Editing, PlansAhead, Writing, IsSlotOf
    <3>8. ListedDue'
      <4> SUFFICES ASSUME NEW v \in Ticks, pc'[v] = "due"
                   PROVE  /\ plan'[v].next \in {Manual, CronError} \/ plan'[v].next > now'[v]
                          /\ IsSlotOf(snap'[v].def, plan'[v].next)
                          /\ wf'.exists => \/ wf'.next = 0 \/ wf'.next > snap'[v].next
                                           \/ wf'.next = snap'[v].next /\ wf'.def = snap'[v].def
        BY DEF ListedDue, IsSlotOf
      <4>1. CASE v = w
        BY <4>1, <3>1, <3>2, <3>3, <3>5, Slots DEF IsSlotOf
      <4>2. CASE v # w
        <5>1. /\ plan'[v] = plan[v] /\ snap'[v] = snap[v] /\ pc'[v] = pc[v]
              /\ now' = now /\ wf' = wf
          BY <4>2, <3>1, <3>2, <3>3, <3>4, Apart
        <5> QED
          BY <5>1 DEF SlotInv, ListedDue
      <4> QED
        BY <4>1, <4>2
    <3> QED
      BY <3>6, <3>7, <3>8 DEF SlotInv
  <2>2. CASE ~Due(wf, now[w])
    BY <1>2, <2>2, <1>w, SlotsDropped DEF TickList, Leaves
  <2> QED
    BY <2>1, <2>2
<1>3. CASE Park(w)
  <2>1. wf'.exists = wf.exists /\ wf'.next = wf.next /\ wf'.def = wf.def
    BY <1>3 DEF Park, Typed, TypeOK, Docs
  <2> QED
    BY <1>3, <2>1, <1>w, <1>r, SlotsDropped DEF Park, Leaves
<1>4. CASE ClaimSlot(w) /\ CanClaimSlot(snap[w].next)
  <2>1. /\ wf' = SlotMoved(plan[w].next) /\ claimed' = claimed \cup {snap[w].next}
        /\ Goto(w, "claimed")
        /\ UNCHANGED <<snap, now, plan, own, stale, runs, clock>>
    BY <1>4 DEF ClaimSlot
  <2>2. /\ wf.exists /\ wf.next = snap[w].next /\ snap[w].next \in 1..now[w]
        /\ now[w] <= clock /\ clock \in Nat /\ now[w] \in Nat
        /\ plan[w].next \in Nat
        /\ plan[w].next = 0 \/ plan[w].next > now[w]
        /\ IsSlotOf(snap[w].def, plan[w].next) /\ wf.def = snap[w].def
    <3>1. /\ pc[w] = "due" /\ plan[w].next # CronError
          /\ wf.exists /\ wf.next = snap[w].next
      BY <1>4 DEF ClaimSlot, CanClaimSlot
    <3>2. /\ clock \in Nat /\ now[w] \in Nat /\ snap[w].next \in 1..now[w]
          /\ plan[w].next \in Nat \cup {CronError}
      BY <3>1, BoundAssumption DEF Typed, TypeOK, KnownDue
    <3>3. /\ now[w] <= clock
          /\ plan[w].next \in {Manual, CronError} \/ plan[w].next > now[w]
          /\ IsSlotOf(snap[w].def, plan[w].next)
          /\ \/ wf.next = 0 \/ wf.next > snap[w].next
             \/ wf.next = snap[w].next /\ wf.def = snap[w].def
      BY <3>1 DEF SlotInv, NowPast, ListedDue
    <3> QED
      BY <3>1, <3>2, <3>3 DEF Manual
  <2>3. wf'.next = plan[w].next /\ wf'.def = wf.def /\ wf'.exists = wf.exists
    BY <2>1 DEF SlotMoved, Typed, TypeOK, Docs
  <2>4. pc'[w] = "claimed" /\ \A v \in Workers : v # w => pc'[v] = pc[v]
    BY <2>1, <1>o
  <2>5. NowPast' /\ SlotOfItsOwn'
    BY <2>1, <2>2, <2>3 DEF SlotInv, NowPast, SlotOfItsOwn, IsSlotOf
  <2>6. ClaimedBefore'
    <3> SUFFICES ASSUME NEW d \in claimed'
                 PROVE  d <= clock' /\ (wf'.next > 0 => d < wf'.next)
      BY DEF ClaimedBefore
    <3>1. CASE d = snap[w].next
      BY <3>1, <2>1, <2>2, <2>3
    <3>2. CASE d \in claimed
      <4>1. d \in Nat /\ d <= clock /\ d < snap[w].next
        BY <3>2, <2>2 DEF SlotInv, ClaimedBefore, Typed, TypeOK
      <4> QED
        BY <4>1, <2>1, <2>2, <2>3
    <3> QED
      BY <2>1, <3>1, <3>2
  <2>7. OneEditor' /\ PlansAhead'
    BY <2>1, <2>3, <2>4, <1>w, Apart
       DEF SlotInv, OneEditor, Editing, PlansAhead, Writing, IsSlotOf
  <2>8. ListedDue'
    <3> SUFFICES ASSUME NEW v \in Ticks, pc'[v] = "due"
                 PROVE  /\ plan[v].next \in {Manual, CronError} \/ plan[v].next > now[v]
                        /\ IsSlotOf(snap[v].def, plan[v].next)
                        /\ wf'.next = 0 \/ wf'.next > snap[v].next
      BY <2>1 DEF ListedDue, IsSlotOf
    <3>1. pc[v] = "due"
      BY <2>4, Apart
    <3>2. snap[v].next \in Nat /\ snap[v].next <= wf.next
      <4>1. snap[v].next \in 1..now[v] /\ now[v] \in Nat
        BY <3>1, BoundAssumption DEF Typed, TypeOK, KnownDue
      <4>2. wf.next = 0 \/ wf.next > snap[v].next \/ wf.next = snap[v].next
        BY <3>1, <2>2 DEF SlotInv, ListedDue
      <4> QED
        BY <4>1, <4>2, <2>2
    <3>3. wf'.next = 0 \/ wf'.next > snap[v].next
      BY <3>2, <2>2, <2>3
    <3> QED
      BY <3>1, <3>3 DEF SlotInv, ListedDue
  <2> QED
    BY <2>5, <2>6, <2>7, <2>8 DEF SlotInv
<1>5. CASE ClaimSlot(w) /\ ~CanClaimSlot(snap[w].next)
  BY <1>5, <1>w, SlotsDropped DEF ClaimSlot, Leaves
<1>6. CASE Skip(w)
  <2>1. wf'.exists = wf.exists /\ wf'.next = wf.next /\ wf'.def = wf.def
    BY <1>6 DEF Skip, Typed, TypeOK, Docs
  <2> QED
    BY <1>6, <2>1, <1>w, <1>r, <1>e, SlotsDropped DEF Skip, Leaves
<1> QED
  BY <1>1, <1>2, <1>3, <1>4, <1>5, <1>6 DEF TickOnly

LEMMA LaunchSlots ==
  ASSUME Typed, SlotInv, NEW w \in Firing, Launch(w) \/ Crash(w)
  PROVE  SlotInv'
<1>w. w \in Workers /\ w \notin Operators
  BY Apart DEF Firing
<1>r. \E s \in {"idle", "done", "aborted"} : Raises(w) <=> Goto(w, s)
  BY DEF Raises
<1>e. \E s \in {"idle", "done", "aborted"} : Ends(w) <=> Goto(w, s)
  BY DEF Ends
<1>p. \A s \in {"skip", "launch", "register"} :
        Goto(w, s) => /\ \A e \in Operators : pc'[e] = pc[e]
                      /\ \A v \in Ticks : pc'[v] = "due" => pc[v] = "due"
  BY <1>w, Apart DEF Goto, Typed, TypeOK
<1>1. CASE Look(w)
  <2>1. CASE ActiveRun(snap[w]) /\ w \in Callers
    BY <1>1, <2>1, SlotsDropped DEF Look, Leaves
  <2>2. CASE ~(ActiveRun(snap[w]) /\ w \in Callers)
    BY <1>1, <2>2, <1>p, SlotsKept DEF Look, SlotInv, NowPast
  <2> QED
    BY <2>1, <2>2
<1>2. CASE CreateRun(w)
  BY <1>2, <1>p, SlotsKept DEF CreateRun, histVars, SlotInv, NowPast
<1>3. CASE LaunchError(w)
  BY <1>3, <1>r, <1>e, SlotsDropped DEF LaunchError, Leaves
<1>4. CASE RegisterRun(w)
  <2>1. wf'.exists = wf.exists /\ wf'.next = wf.next /\ wf'.def = wf.def
    BY <1>4 DEF RegisterRun, Registered, Typed, TypeOK, Docs
  <2> QED
    BY <1>4, <2>1, <1>r, <1>e, SlotsDropped DEF RegisterRun, Leaves
<1>5. CASE Crash(w)
  BY <1>5, <1>e, SlotsDropped DEF Crash, Leaves
<1> QED
  BY <1>1, <1>2, <1>3, <1>4, <1>5 DEF Launch

LEMMA RequireSlots ==
  ASSUME Typed, SlotInv, NEW c \in Callers, Require(c)
  PROVE  SlotInv'
<1>1. \A v \in Ticks \cup Operators : pc'[v] = pc[v]
  BY Apart DEF Require, Goto, Typed, TypeOK
<1>2. \A v \in Ticks : snap'[v] = snap[v]
  BY Apart DEF Require, Typed, TypeOK
<1> QED
  BY <1>1, <1>2, SlotsKept DEF Require, histVars, SlotInv, NowPast

(* A slot that is written while the listings stand: it is none or ahead of *)
(* them all.                                                               *)
LEMMA SlotsWritten ==
  ASSUME Typed, SlotInv, NEW e \in Operators, Goto(e, "idle"),
         plan' = [plan EXCEPT ![e] = NoPlan],
         UNCHANGED <<clock, snap, now, claimed>>,
         \A o \in Operators \ {e} : ~Editing(o),
         wf' \in Docs, wf'.next = 0 \/ wf'.next > clock,
         wf'.exists => IsSlotOf(wf'.def, wf'.next)
  PROVE  SlotInv'
<1>1. /\ \A v \in Workers : v # e => pc'[v] = pc[v]
      /\ pc'[e] = "idle"
  BY Apart DEF Goto, Typed, TypeOK
<1>2. \A o \in Operators : ~Editing(o)'
  BY <1>1, Apart DEF Editing
<1>3. OneEditor' /\ PlansAhead'
  BY <1>2 DEF OneEditor, PlansAhead, Writing, Editing
<1>4. NowPast' /\ SlotOfItsOwn'
  BY DEF SlotInv, NowPast, SlotOfItsOwn, IsSlotOf
<1>5. ClaimedBefore'
  <2>1. /\ clock \in Nat /\ wf'.next \in Nat
        /\ \A d \in claimed : d \in Nat /\ d <= clock
    BY BoundAssumption DEF SlotInv, ClaimedBefore, Typed, TypeOK, Docs
  <2> QED
    BY <2>1 DEF ClaimedBefore
<1>6. ListedDue'
  <2> SUFFICES ASSUME NEW v \in Ticks, pc'[v] = "due"
               PROVE  /\ plan'[v].next \in {Manual, CronError} \/ plan'[v].next > now'[v]
                      /\ IsSlotOf(snap'[v].def, plan'[v].next)
                      /\ wf'.next = 0 \/ wf'.next > snap'[v].next
    BY DEF ListedDue, IsSlotOf
  <2>1. pc[v] = "due" /\ plan'[v] = plan[v]
    BY <1>1, Apart DEF Typed, TypeOK
  <2>2. /\ snap[v].next \in 1..now[v] /\ now[v] \in Nat /\ clock \in Nat
        /\ now[v] <= clock /\ wf'.next \in Nat
    BY SMTT(30), <2>1, BoundAssumption DEF Typed, TypeOK, KnownDue, SlotInv, NowPast, Docs
  <2>3. wf'.next = 0 \/ wf'.next > snap[v].next
    BY <2>2
  <2> QED
    BY <2>1, <2>3 DEF SlotInv, ListedDue
<1> QED
  BY <1>3, <1>4, <1>5, <1>6 DEF SlotInv

(* ... or is left as it is, by an edit that ends.                          *)
LEMMA SlotsLeft ==
  ASSUME Typed, SlotInv, NEW e \in Operators, Goto(e, "idle"),
         plan' \in {plan, [plan EXCEPT ![e] = NoPlan]},
         UNCHANGED <<clock, snap, now, claimed>>,
         \A o \in Operators \ {e} : ~Editing(o),
         wf'.exists = wf.exists, wf'.next = wf.next, wf'.def = wf.def
  PROVE  SlotInv'
<1>1. /\ \A v \in Workers : v # e => pc'[v] = pc[v]
      /\ pc'[e] = "idle"
  BY Apart DEF Goto, Typed, TypeOK
<1>2. \A o \in Operators : ~Editing(o)'
  BY <1>1, Apart DEF Editing
<1>3. OneEditor' /\ PlansAhead'
  BY <1>2 DEF OneEditor, PlansAhead, Writing, Editing
<1>4. NowPast' /\ ClaimedBefore' /\ SlotOfItsOwn'
  BY DEF SlotInv, NowPast, ClaimedBefore, SlotOfItsOwn, IsSlotOf
<1>5. \A v \in Ticks : plan'[v] = plan[v] /\ pc'[v] = pc[v]
  BY <1>1, Apart DEF Typed, TypeOK
<1>6. ListedDue'
  BY <1>5 DEF SlotInv, ListedDue, IsSlotOf
<1> QED
  BY <1>3, <1>4, <1>6 DEF SlotInv

(* An edit that begins.                                                    *)
LEMMA SlotsBegun ==
  ASSUME Typed, SlotInv, NEW e \in Operators, NEW s, Goto(e, s),
         \A o \in Operators \ {e} : ~Editing(o),
         UNCHANGED <<wf, clock, snap, now, claimed>>,
         \A v \in Ticks : plan'[v] = plan[v],
         s # "due",
         s \in {"create", "update", "resume"} =>
           /\ plan'[e].next = 0 \/ plan'[e].next > clock
           /\ IsSlotOf(plan'[e].def, plan'[e].next),
         s = "resume" => wf.exists /\ plan'[e].def = wf.def
  PROVE  SlotInv'
<1>1. /\ \A v \in Workers : v # e => pc'[v] = pc[v]
      /\ pc'[e] = s
  BY Apart DEF Goto, Typed, TypeOK
<1>2. \A o \in Operators \ {e} : ~Editing(o)'
  BY <1>1, Apart DEF Editing
<1>3. OneEditor' /\ PlansAhead'
  BY <1>1, <1>2 DEF OneEditor, PlansAhead, Writing, Editing, IsSlotOf
<1>4. NowPast' /\ ClaimedBefore' /\ SlotOfItsOwn'
  BY DEF SlotInv, NowPast, ClaimedBefore, SlotOfItsOwn, IsSlotOf
<1>5. \A v \in Ticks : pc'[v] = pc[v]
  BY <1>1, Apart
<1>6. ListedDue'
  BY <1>5 DEF SlotInv, ListedDue, IsSlotOf
<1> QED
  BY <1>3, <1>4, <1>6 DEF SlotInv

LEMMA EditSlots ==
  ASSUME Typed, SlotInv, "overlapping_edits" \notin Faults, NEW e \in Operators, Edit(e)
  PROVE  SlotInv'
<1>b. BeginsEdit(e) => \A o \in Operators \ {e} : ~Editing(o)
  BY DEF BeginsEdit
<1>o. Editing(e) => \A o \in Operators \ {e} : ~Editing(o)
  BY DEF SlotInv, OneEditor
<1>d. /\ wf \in Docs /\ wf.def \in Defs /\ clock \in 0..MaxTime
      /\ plan[e].next \in Nat /\ plan[e].def \in Defs
  BY DEF Typed, TypeOK, Docs
<1>1. ASSUME NEW d \in Defs, NEW s \in {"create", "update", "resume"}, Prepare(e, s, d),
             s = "resume" => wf.exists /\ d = wf.def
      PROVE  SlotInv'
  <2>1. /\ plan' = [plan EXCEPT ![e] = [def |-> d, next |-> NextSlot(d, clock)]]
        /\ Goto(e, s) /\ BeginsEdit(e) /\ NextSlot(d, clock) # CronError
        /\ UNCHANGED <<wf, clock, snap, now, claimed>>
    BY <1>1 DEF Prepare, histVars
  <2>2. /\ plan'[e] = [def |-> d, next |-> NextSlot(d, clock)]
        /\ \A v \in Ticks : plan'[v] = plan[v]
    BY <2>1, Apart DEF Typed, TypeOK
  <2>3. /\ NextSlot(d, clock) = 0 \/ NextSlot(d, clock) > clock
        /\ IsSlotOf(d, NextSlot(d, clock))
    BY <2>1, <1>d, Slots DEF IsSlotOf, Manual
  <2> QED
    BY <1>1, <1>b, <2>1, <2>2, <2>3, SlotsBegun
<1>2. CASE CreateStart(e) \/ UpdateStart(e) \/ ResumeStart(e)
  BY <1>1, <1>2, <1>d DEF CreateStart, UpdateStart, ResumeStart
<1>3. ASSUME Refused(e), Editing(e)
      PROVE  SlotInv'
  BY <1>3, <1>o, SlotsLeft DEF Refused, histVars
<1>4. ASSUME Writing(e)
      PROVE  /\ plan[e].next = 0 \/ plan[e].next > clock
             /\ IsSlotOf(plan[e].def, plan[e].next)
             /\ Editing(e)
  BY <1>4 DEF SlotInv, PlansAhead, Writing, Editing
<1>5. CASE Create(e)
  <2>1. Writing(e) /\ Editing(e)
    BY <1>5 DEF Create, Writing, Editing
  <2>2. ASSUME NEW b \in BOOLEAN, Written(e, Built(plan[e].def, plan[e].next, b))
        PROVE  SlotInv'
    <3>1. /\ Built(plan[e].def, plan[e].next, b).next = plan[e].next
          /\ Built(plan[e].def, plan[e].next, b).def = plan[e].def
      BY DEF Built, NoDoc
    <3> QED
      BY <2>1, <2>2, <3>1, <1>o, <1>4, EditDocs, SlotsWritten DEF Written
  <2> QED
    BY <1>5, <2>1, <2>2, <1>3 DEF Create
<1>6. CASE Update(e)
  <2>1. Writing(e) /\ Editing(e)
    BY <1>6 DEF Update, Writing, Editing
  <2>2. /\ Redefined(plan[e]).next = plan[e].next
        /\ Redefined(plan[e]).def = plan[e].def
    BY <1>d DEF Redefined, Docs
  <2>3. ASSUME Written(e, Redefined(plan[e]))
        PROVE  SlotInv'
    BY <2>1, <2>2, <2>3, <1>o, <1>4, EditDocs, SlotsWritten DEF Written
  <2> QED
    BY <1>6, <2>1, <2>3, <1>3 DEF Update
<1>7. CASE Resume(e)
  <2>1. Writing(e) /\ Editing(e) /\ plan[e].def = wf.def
    BY <1>7 DEF Resume, Writing, Editing, SlotInv, PlansAhead
  <2>2. /\ Resumed(plan[e]).next = IF plan[e].next = Manual THEN wf.next ELSE plan[e].next
        /\ Resumed(plan[e]).def = wf.def /\ Resumed(plan[e]).exists = wf.exists
    BY <1>d DEF Resumed, Docs
  <2>3. ASSUME Written(e, Resumed(plan[e]))
        PROVE  SlotInv'
    <3>1. CASE plan[e].next = Manual
      BY <2>1, <2>2, <2>3, <3>1, <1>o, SlotsLeft DEF Written
    <3>2. CASE plan[e].next # Manual
      BY <2>1, <2>2, <2>3, <3>2, <1>o, <1>4, EditDocs, SlotsWritten DEF Written
    <3> QED
      BY <3>1, <3>2
  <2> QED
    BY <1>7, <2>1, <2>3, <1>3 DEF Resume
<1>8. CASE Pause(e)
  <2>1. /\ wf'.exists = wf.exists /\ wf'.next = wf.next /\ wf'.def = wf.def
    BY <1>8, <1>d DEF Pause, Written, Docs
  <2> QED
    BY <1>8, <2>1, <1>b, SlotsLeft DEF Pause, Written
<1>9. CASE DrainRuns(e)
  BY <1>9, <1>b, SlotsBegun DEF DrainRuns, histVars
<1>10. CASE Drop(e)
  <2>1. plan' = plan /\ Goto(e, "idle") /\ wf' = NoDoc /\ Editing(e)
        /\ UNCHANGED <<clock, snap, now, claimed>>
    BY <1>10 DEF Drop, Editing
  <2>2. NoDoc.next = 0 /\ ~NoDoc.exists
    BY DEF NoDoc, Manual
  <2>3. /\ \A v \in Workers : v # e => pc'[v] = pc[v]
        /\ pc'[e] = "idle"
    BY <2>1, Apart DEF Goto, Typed, TypeOK
  <2>4. \A o \in Operators : ~Editing(o)'
    BY <2>1, <2>3, <1>o, Apart DEF Editing
  <2>5. OneEditor' /\ PlansAhead'
    BY <2>4 DEF OneEditor, PlansAhead, Writing, Editing
  <2>6. NowPast' /\ ClaimedBefore' /\ SlotOfItsOwn'
    BY <2>1, <2>2 DEF SlotInv, NowPast, ClaimedBefore, SlotOfItsOwn
  <2>7. ListedDue'
    BY <2>1, <2>2, <2>3, Apart DEF SlotInv, ListedDue, IsSlotOf
  <2> QED
    BY <2>5, <2>6, <2>7 DEF SlotInv
<1> QED
  BY <1>2, <1>5, <1>6, <1>7, <1>8, <1>9, <1>10 DEF Edit

LEMMA SlotStep ==
  ASSUME "slow_edit" \notin Faults, "overlapping_edits" \notin Faults
  PROVE  Typed /\ SlotInv /\ [Next]_vars => SlotInv'
<1> SUFFICES ASSUME Typed, SlotInv, [Next]_vars
             PROVE  SlotInv'
  OBVIOUS
<1>1. ASSUME NEW r \in DOMAIN runs, RunCloses(r)
      PROVE  SlotInv'
  BY <1>1, SlotsKept DEF RunCloses, histVars, SlotInv, NowPast
<1>2. CASE Advance
  <2>1. /\ clock' = clock + 1 /\ clock \in Nat
        /\ UNCHANGED <<wf, pc, snap, now, plan, claimed>>
        /\ \A e \in Operators : ~Editing(e)
    BY <1>2, BoundAssumption DEF Advance, histVars, Typed, TypeOK
  <2>2. NowPast'
    BY <2>1, BoundAssumption DEF SlotInv, NowPast, Typed, TypeOK
  <2>3. ClaimedBefore'
    BY <2>1, BoundAssumption DEF SlotInv, ClaimedBefore, Typed, TypeOK
  <2>4. OneEditor' /\ PlansAhead'
    BY <2>1 DEF OneEditor, PlansAhead, Writing, Editing
  <2>5. ListedDue' /\ SlotOfItsOwn'
    BY <2>1 DEF SlotInv, ListedDue, SlotOfItsOwn, IsSlotOf
  <2> QED
    BY <2>2, <2>3, <2>4, <2>5 DEF SlotInv
<1>3. CASE UNCHANGED vars
  BY <1>3, SlotsKept DEF vars, SlotInv, NowPast
<1> QED
  BY <1>1, <1>2, <1>3, Cases, TickSlots, LaunchSlots, RequireSlots, EditSlots

(* Only the transaction takes a due slot.                                  *)
LEMMA ClaimsAre ==
  ASSUME Typed, [Next]_vars, NEW w \in Ticks, Claims(w)
  PROVE  ClaimSlot(w) /\ CanClaimSlot(snap[w].next)
<1>w. w \in Workers /\ w \in Firing
  BY Apart
<1>g. \A v \in Workers : \A s : Goto(v, s) => pc'[v] = s /\ \A u \in Workers \ {v} : pc'[u] = pc[u]
  BY DEF Goto, Typed, TypeOK
<1>c. pc[w] = "due" /\ pc'[w] = "claimed"
  BY DEF Claims
<1>1. ASSUME NEW v \in Ticks, TickOnly(v)
      PROVE  v = w /\ ClaimSlot(w) /\ CanClaimSlot(snap[w].next)
  <2>1. v \in Workers
    BY Apart
  <2> QED
    BY <1>1, <2>1, <1>w, <1>c, <1>g
       DEF TickOnly, TickStart, TickList, Park, ClaimSlot, Skip, Raises, Ends
<1>2. ASSUME NEW v \in Firing, Launch(v) \/ Crash(v)
      PROVE  FALSE
  <2>1. v \in Workers
    BY DEF Firing, Workers
  <2> QED
    BY <1>2, <2>1, <1>w, <1>c, <1>g
       DEF Launch, Look, CreateRun, LaunchError, RegisterRun, Crash, Raises, Ends
<1>3. ASSUME NEW v \in Callers, Require(v)
      PROVE  FALSE
  BY <1>3, <1>w, <1>c, <1>g, Apart DEF Require
<1>4. ASSUME NEW e \in Operators, Edit(e)
      PROVE  FALSE
  <2>1. e \in Workers /\ e # w
    BY Apart
  <2>2. \A s : Goto(e, s) => FALSE
    BY <2>1, <1>w, <1>c, <1>g
  <2>3. /\ \A s, d : Prepare(e, s, d) => FALSE
        /\ \A doc : Written(e, doc) => FALSE
        /\ Refused(e) => FALSE
    BY <2>2 DEF Prepare, Written, Refused
  <2> QED
    BY <1>4, <2>2, <2>3
       DEF Edit, CreateStart, Create, UpdateStart, Update, Pause, ResumeStart, Resume,
           DrainRuns, Drop
<1>5. ASSUME \/ \E r \in DOMAIN runs : RunCloses(r)
             \/ Advance
             \/ UNCHANGED vars
      PROVE  FALSE
  BY <1>5, <1>c DEF RunCloses, Advance, vars
<1> QED
  BY <1>1, <1>2, <1>3, <1>4, <1>5, Cases

(* What the transaction finds.                                             *)
LEMMA ClaimFinds ==
  ASSUME Typed, SlotInv, [Next]_vars, NEW w \in Ticks, Claims(w)
  PROVE  /\ snap[w].next \notin claimed /\ snap[w].next <= now[w]
         /\ ~Due(wf', now[w])
         /\ snap[w].def = wf.def /\ wf.enabled /\ IsSlotOf(wf.def, wf.next)
<1>1. ClaimSlot(w) /\ CanClaimSlot(snap[w].next)
  BY ClaimsAre
<1>2. /\ pc[w] = "due" /\ plan[w].next # CronError
      /\ wf.exists /\ wf.enabled /\ wf.next = snap[w].next
      /\ wf' = SlotMoved(plan[w].next)
  BY <1>1 DEF ClaimSlot, CanClaimSlot
<1>3. /\ now[w] \in Nat /\ snap[w].next \in 1..now[w]
      /\ plan[w].next \in Nat \cup {CronError}
  BY <1>2, BoundAssumption DEF Typed, TypeOK, KnownDue
<1>4. /\ plan[w].next \in {Manual, CronError} \/ plan[w].next > now[w]
      /\ \/ wf.next = 0 \/ wf.next > snap[w].next
         \/ wf.next = snap[w].next /\ wf.def = snap[w].def
      /\ IsSlotOf(wf.def, wf.next)
      /\ \A d \in claimed : wf.next > 0 => d < wf.next
  BY <1>2 DEF SlotInv, ListedDue, SlotOfItsOwn, ClaimedBefore
<1>5. wf'.next = plan[w].next
  BY <1>2 DEF SlotMoved, Typed, TypeOK, Docs
<1>6. ~Due(wf', now[w])
  BY <1>2, <1>3, <1>4, <1>5 DEF Due, Manual
<1>7. \A d \in claimed : d \in Nat
  BY BoundAssumption DEF Typed, TypeOK
<1>8. snap[w].next \notin claimed /\ snap[w].next <= now[w] /\ wf.def = snap[w].def
  BY <1>2, <1>3, <1>4, <1>7
<1> QED
  BY <1>2, <1>4, <1>6, <1>8

SafeEdits == "slow_edit" \notin Faults /\ "overlapping_edits" \notin Faults

(* tick and claim_slot: with any number of overlapping sweeps, callers and *)
(* edits between them, no due time is given out twice or before its time,  *)
(* and none is left that the same sweep would call due again, as long as   *)
(* edits do not overlap and write their slot before the clock moves.       *)
THEOREM SlotsGivenOnce == SafeEdits => (Spec => SlotOnce)
<1> SUFFICES ASSUME SafeEdits
             PROVE  Spec => SlotOnce
  OBVIOUS
<1> DEFINE Once ==
      \A w \in Ticks : Claims(w) =>
        /\ snap[w].next \notin claimed
        /\ snap[w].next <= now[w]
        /\ ~Due(wf', now[w])
<1>1. Typed /\ SlotInv /\ [Next]_vars => SlotInv'
  BY SlotStep DEF SafeEdits
<1>2. Typed /\ SlotInv /\ [Next]_vars => [Once]_vars
  BY ClaimFinds
<1> QED
  BY <1>1, <1>2, TypeInit, TypeStep, SlotInit, PTL DEF Spec, SlotOnce

(* Though the sweep works on an old listing, what it fires is the          *)
(* definition the workflow has at that moment, at a time that definition's *)
(* own schedule names, under the same assumption.                          *)
THEOREM FiresTheDefinition == SafeEdits => (Spec => FiresAsDefined)
<1> SUFFICES ASSUME SafeEdits
             PROVE  Spec => FiresAsDefined
  OBVIOUS
<1> DEFINE Fires ==
      \A w \in Ticks : Claims(w) =>
        snap[w].def = wf.def /\ wf.enabled /\ IsSlotOf(wf.def, wf.next)
<1>1. Typed /\ SlotInv /\ [Next]_vars => SlotInv'
  BY SlotStep DEF SafeEdits
<1>2. Typed /\ SlotInv /\ [Next]_vars => [Fires]_vars
  BY ClaimFinds
<1> QED
  BY <1>1, <1>2, TypeInit, TypeStep, SlotInit, PTL DEF Spec, FiresAsDefined

-----------------------------------------------------------------------------
(* What the document knows of its runs.  A launcher that is not outdated   *)
(* has the document as it is, and the run that one names is not running    *)
(* from its look on, so that its own run may take that one's place.        *)
SeesDocument(w) ==
  /\ wf.exists
  /\ w \notin stale => /\ snap[w].last_run = wf.last_run
                      /\ snap[w].run_count = wf.run_count
                      /\ snap[w].skip_count = wf.skip_count

RunsKnown ==
  /\ \A w \in Firing :
       /\ clean /\ Launching(w) => SeesDocument(w)
       /\ pc[w] \in {"launch", "register"} => ~ActiveRun(snap[w])
       /\ pc[w] = "register" => own[w] > 0
  /\ ~wf.exists => wf.last_run = 0
  /\ DocKnowsRuns

LEMMA KnownInit == Init => RunsKnown
<1> SUFFICES ASSUME Init
             PROVE  RunsKnown
  OBVIOUS
<1>1. \A w \in Firing : pc[w] \in {"idle", "require"}
  BY Apart DEF Init, Firing
<1>2. /\ wf.last_run = 0
      /\ wf.run_count = 0 /\ wf.skip_count = 0
  <2>1. NoDoc.last_run = 0 /\ NoDoc.run_count = 0 /\ NoDoc.skip_count = 0
    BY DEF NoDoc
  <2>2. \A d, n, b : /\ Built(d, n, b).last_run = 0
                     /\ Built(d, n, b).run_count = 0 /\ Built(d, n, b).skip_count = 0
    BY DEF Built, NoDoc
  <2> QED
    BY <2>1, <2>2 DEF Init
<1>3. runs = <<>> /\ counted = [runs |-> 0, skips |-> 0]
  BY DEF Init
<1> QED
  BY <1>1, <1>2, <1>3
     DEF RunsKnown, Launching, DocKnowsRuns, NoRunForgotten, CountsAreTrue

(* Steps that register nothing and leave no launcher newly informed.       *)
LEMMA KnownKept ==
  ASSUME Typed, RunsKnown, UNCHANGED <<runs, counted>>, clean' \in BOOLEAN, clean' => clean,
         wf'.exists = wf.exists, wf'.last_run = wf.last_run,
         wf'.run_count = wf.run_count, wf'.skip_count = wf.skip_count,
         \A w \in Firing :
           /\ Launching(w)' => /\ Launching(w) /\ snap'[w] = snap[w] /\ own'[w] = own[w]
                               /\ w \in stale => w \in stale'
           /\ pc'[w] \in {"launch", "register"} =>
                pc[w] \in {"launch", "register"} \/ ~ActiveRun(snap[w])
           /\ pc'[w] = "register" => pc[w] = "register"
           /\ pc[w] = "register" /\ clean' => pc'[w] = "register"
  PROVE  RunsKnown'
<1>1. \A w \in Firing :
        /\ (clean /\ Launching(w) => SeesDocument(w))'
        /\ (pc[w] \in {"launch", "register"} => ~ActiveRun(snap[w]))'
        /\ (pc[w] = "register" => own[w] > 0)'
  <2> SUFFICES ASSUME NEW w \in Firing
               PROVE  /\ (clean /\ Launching(w) => SeesDocument(w))'
                      /\ (pc[w] \in {"launch", "register"} => ~ActiveRun(snap[w]))'
                      /\ (pc[w] = "register" => own[w] > 0)'
    OBVIOUS
  <2>1. (clean /\ Launching(w) => SeesDocument(w))'
    BY DEF RunsKnown, SeesDocument
  <2>2. pc'[w] \in {"launch", "register"} => Launching(w)'
    BY DEF Launching
  <2>3. (pc[w] \in {"launch", "register"} => ~ActiveRun(snap[w]))'
    BY <2>2 DEF RunsKnown, ActiveRun
  <2>4. (pc[w] = "register" => own[w] > 0)'
    BY <2>2 DEF RunsKnown
  <2> QED
    BY <2>1, <2>3, <2>4
<1>2. NoRunForgotten'
  <2> SUFFICES ASSUME clean', NEW r \in DOMAIN runs, runs[r] = "running"
               PROVE  wf'.last_run = r \/ \E w \in Firing : pc'[w] = "register" /\ own'[w] = r
    BY DEF NoRunForgotten
  <2>1. wf.last_run = r \/ \E w \in Firing : pc[w] = "register" /\ own[w] = r
    BY DEF RunsKnown, DocKnowsRuns, NoRunForgotten
  <2>2. \A w \in Firing : pc[w] = "register" => pc'[w] = "register" /\ own'[w] = own[w]
    BY DEF Launching
  <2> QED
    BY <2>1, <2>2
<1>3. CountsAreTrue'
  BY DEF RunsKnown, DocKnowsRuns, CountsAreTrue
<1>4. (~wf.exists => wf.last_run = 0)'
  BY DEF RunsKnown
<1> QED
  BY <1>1, <1>2, <1>3, <1>4 DEF RunsKnown, DocKnowsRuns

(* ... of which one is a launcher that is through before its run exists.   *)
LEMMA KnownDropped ==
  ASSUME Typed, RunsKnown, NEW w \in Firing, Leaves(w),
         NEW s \in {"idle", "done", "aborted"}, Goto(w, s),
         UNCHANGED <<runs, counted>>, clean' \in BOOLEAN, clean' => clean,
         pc[w] = "register" => ~clean',
         wf'.exists = wf.exists, wf'.last_run = wf.last_run,
         wf'.run_count = wf.run_count, wf'.skip_count = wf.skip_count
  PROVE  RunsKnown'
<1>w. w \in Workers /\ Firing \subseteq Workers
  BY DEF Firing, Workers
<1>1. /\ \A v \in Firing : v # w => pc'[v] = pc[v]
      /\ pc'[w] = s
  BY <1>w DEF Goto, Typed, TypeOK
<1>2. \A v \in Firing : v # w => snap'[v] = snap[v] /\ own'[v] = own[v]
  BY DEF Leaves, Forget, Typed, TypeOK
<1>3. \A v \in Firing : v # w => (v \in stale => v \in stale')
  BY DEF Leaves
<1>4. ~Launching(w)'
  BY <1>1 DEF Launching
<1>5. \A v \in Firing : v # w => (Launching(v)' => Launching(v))
  BY <1>1 DEF Launching
<1> QED
  BY <1>1, <1>2, <1>3, <1>4, <1>5, KnownKept

(* A run is registered or a slot skipped: whoever else is launching is     *)
(* outdated from now on.                                                   *)
LEMMA KnownCounted ==
  ASSUME Typed, RunsKnown, NEW w \in Firing, wf.exists, RegisterRun(w) \/ Skip(w)
  PROVE  RunsKnown'
<1>w. w \in Workers /\ Firing \subseteq Workers
  BY DEF Firing, Workers
<1>0. /\ Outdated(w) /\ Forget(w) /\ Ends(w) /\ runs' = runs
      /\ clean' = (clean /\ w \notin stale) /\ clean \in BOOLEAN
      /\ Launching(w) /\ pc[w] \in {"register", "skip"}
  BY DEF RegisterRun, Skip, Launching, Typed, TypeOK
<1>1. /\ \A v \in Firing : v # w => pc'[v] = pc[v]
      /\ pc'[w] \in {"idle", "done"}
  BY <1>0, <1>w DEF Ends, Goto, Typed, TypeOK
<1>2. \A v \in Firing : v # w => snap'[v] = snap[v] /\ own'[v] = own[v]
  BY <1>0 DEF Forget, Typed, TypeOK
<1>3. ~Launching(w)' /\ \A v \in Firing : v # w => (Launching(v)' <=> Launching(v))
  BY <1>1 DEF Launching
<1>4. \A v \in Firing : Launching(v)' => v \in stale' /\ Launching(v)
  BY <1>0, <1>3 DEF Outdated
<1>5. wf'.exists
  BY DEF RegisterRun, Registered, Skip, Typed, TypeOK, Docs
<1>6. \A v \in Firing :
        /\ (clean /\ Launching(v) => SeesDocument(v))'
        /\ (pc[v] \in {"launch", "register"} => ~ActiveRun(snap[v]))'
        /\ (pc[v] = "register" => own[v] > 0)'
  <2> SUFFICES ASSUME NEW v \in Firing
               PROVE  /\ (clean /\ Launching(v) => SeesDocument(v))'
                      /\ (pc[v] \in {"launch", "register"} => ~ActiveRun(snap[v]))'
                      /\ (pc[v] = "register" => own[v] > 0)'
    OBVIOUS
  <2>1. (clean /\ Launching(v) => SeesDocument(v))'
    BY <1>4, <1>5 DEF SeesDocument
  <2>2. CASE v = w
    BY <2>1, <2>2, <1>1
  <2>3. CASE v # w
    BY <2>1, <2>3, <1>0, <1>1, <1>2 DEF RunsKnown, ActiveRun
  <2> QED
    BY <2>2, <2>3
<1>7. ASSUME clean'
      PROVE  /\ clean
             /\ snap[w].last_run = wf.last_run
             /\ snap[w].run_count = wf.run_count /\ snap[w].skip_count = wf.skip_count
             /\ wf.run_count = counted.runs /\ wf.skip_count = counted.skips
  BY <1>7, <1>0 DEF RunsKnown, SeesDocument, DocKnowsRuns, CountsAreTrue
<1>8. NoRunForgotten'
  <2> SUFFICES ASSUME clean', NEW r \in DOMAIN runs, runs[r] = "running"
               PROVE  wf'.last_run = r \/ \E v \in Firing : pc'[v] = "register" /\ own'[v] = r
    BY <1>0 DEF NoRunForgotten
  <2>0. wf \in Docs /\ snap[w] \in Docs /\ own[w] \in Nat /\ runs \in Seq(RunStatuses)
    BY DEF Typed, TypeOK
  <2>1. wf.last_run = r \/ \E v \in Firing : pc[v] = "register" /\ own[v] = r
    BY <1>7 DEF RunsKnown, DocKnowsRuns, NoRunForgotten
  <2>2. CASE Skip(w)
    <3>1. wf'.last_run = wf.last_run /\ pc[w] = "skip"
      BY <2>2, <2>0 DEF Skip, Docs
    <3> QED
      BY <3>1, <2>1, <1>1, <1>2
  <2>3. CASE RegisterRun(w)
    <3>1. wf'.last_run = own[w] /\ pc[w] = "register"
      BY <2>3, <2>0 DEF RegisterRun, Registered, Docs
    <3>2. wf.last_run # r
      <4>1. ~(snap[w].last_run > 0 /\ runs[snap[w].last_run] = "running")
        BY <3>1 DEF RunsKnown, ActiveRun
      <4>2. r > 0
        BY <2>0
      <4> QED
        BY <4>1, <4>2, <1>7
    <3> QED
      BY <3>1, <3>2, <2>1, <1>1, <1>2
  <2> QED
    BY <2>2, <2>3
<1>9. CountsAreTrue'
  <2> SUFFICES ASSUME clean'
               PROVE  wf'.run_count = counted'.runs /\ wf'.skip_count = counted'.skips
    BY DEF CountsAreTrue
  <2>0. wf \in Docs /\ snap[w] \in Docs /\ counted \in [runs : Nat, skips : Nat]
    BY DEF Typed, TypeOK
  <2>1. /\ snap[w].run_count = counted.runs /\ wf.run_count = counted.runs
        /\ snap[w].skip_count = counted.skips /\ wf.skip_count = counted.skips
    BY <1>7
  <2>2. CASE Skip(w)
    <3>1. /\ wf' = [wf EXCEPT !.skip_count = snap[w].skip_count + 1]
          /\ counted' = [counted EXCEPT !.skips = @ + 1]
      BY <2>2 DEF Skip
    <3> QED
      BY <2>0, <2>1, <3>1 DEF Docs
  <2>3. CASE RegisterRun(w)
    <3>1. /\ wf' = [wf EXCEPT !.last_run = own[w], !.run_count = snap[w].run_count + 1]
          /\ counted' = [counted EXCEPT !.runs = @ + 1]
      BY <2>3 DEF RegisterRun, Registered
    <3> QED
      BY <2>0, <2>1, <3>1 DEF Docs
  <2> QED
    BY <2>2, <2>3
<1> QED
  BY <1>5, <1>6, <1>8, <1>9 DEF RunsKnown, DocKnowsRuns

(* A launcher reads the document.                                          *)
LEMMA KnownRead ==
  ASSUME Typed, RunsKnown, NEW w \in Firing, NEW s \in {"due", "look"}, Goto(w, s),
         pc[w] # "register", snap' = [snap EXCEPT ![w] = wf], wf.exists,
         UNCHANGED <<wf, runs, own, stale, clean, counted>>
  PROVE  RunsKnown'
<1>w. w \in Workers /\ Firing \subseteq Workers
  BY DEF Firing, Workers
<1>1. /\ \A v \in Firing : v # w => pc'[v] = pc[v] /\ snap'[v] = snap[v]
      /\ pc'[w] = s /\ snap'[w] = wf
  BY <1>w DEF Goto, Typed, TypeOK
<1>2. \A v \in Firing :
        /\ (clean /\ Launching(v) => SeesDocument(v))'
        /\ (pc[v] \in {"launch", "register"} => ~ActiveRun(snap[v]))'
        /\ (pc[v] = "register" => own[v] > 0)'
  <2> SUFFICES ASSUME NEW v \in Firing
               PROVE  /\ (clean /\ Launching(v) => SeesDocument(v))'
                      /\ (pc[v] \in {"launch", "register"} => ~ActiveRun(snap[v]))'
                      /\ (pc[v] = "register" => own[v] > 0)'
    OBVIOUS
  <2>1. CASE v = w
    BY <2>1, <1>1 DEF SeesDocument
  <2>2. CASE v # w
    BY <2>2, <1>1 DEF RunsKnown, SeesDocument, Launching, ActiveRun
  <2> QED
    BY <2>1, <2>2
<1>3. NoRunForgotten'
  <2>1. NoRunForgotten
    BY DEF RunsKnown, DocKnowsRuns
  <2> QED
    BY <1>1, <2>1 DEF NoRunForgotten
<1> QED
  BY <1>2, <1>3 DEF RunsKnown, DocKnowsRuns, CountsAreTrue

LEMMA KnownCreated ==
  ASSUME Typed, RunsKnown, NEW w \in Firing, CreateRun(w)
  PROVE  RunsKnown'
<1>w. w \in Workers /\ Firing \subseteq Workers
  BY DEF Firing, Workers
<1>0. /\ pc[w] = "launch" /\ runs' = Append(runs, "running")
      /\ own' = [own EXCEPT ![w] = Len(runs) + 1]
      /\ UNCHANGED <<wf, snap, stale, clean, counted>>
  BY DEF CreateRun, histVars
<1>1. /\ \A v \in Firing : v # w => pc'[v] = pc[v] /\ own'[v] = own[v]
      /\ pc'[w] = "register" /\ own'[w] = Len(runs) + 1
  BY <1>w DEF CreateRun, Goto, Typed, TypeOK
<1>2. /\ Len(runs) \in Nat /\ DOMAIN runs' = 1..(Len(runs) + 1)
      /\ DOMAIN runs = 1..Len(runs)
      /\ \A r \in 1..Len(runs) : runs'[r] = runs[r]
  BY <1>0 DEF Typed, TypeOK
<1>3. \A v \in Firing : ActiveRun(snap[v])' = ActiveRun(snap[v])
  <2> SUFFICES ASSUME NEW v \in Firing
               PROVE  ActiveRun(snap[v])' = ActiveRun(snap[v])
    OBVIOUS
  <2>1. snap[v].last_run \in Nat /\ snap[v].last_run <= Len(runs)
    BY DEF Typed, TypeOK, Docs
  <2>2. snap[v].last_run > 0 => runs'[snap[v].last_run] = runs[snap[v].last_run]
    BY <2>1, <1>2
  <2> QED
    BY <2>2, <1>0 DEF ActiveRun
<1>4. \A v \in Firing :
        /\ (clean /\ Launching(v) => SeesDocument(v))'
        /\ (pc[v] \in {"launch", "register"} => ~ActiveRun(snap[v]))'
        /\ (pc[v] = "register" => own[v] > 0)'
  <2> SUFFICES ASSUME NEW v \in Firing
               PROVE  /\ (clean /\ Launching(v) => SeesDocument(v))'
                      /\ (pc[v] \in {"launch", "register"} => ~ActiveRun(snap[v]))'
                      /\ (pc[v] = "register" => own[v] > 0)'
    OBVIOUS
  <2>1. Launching(v)' => Launching(v)
    BY <1>0, <1>1 DEF Launching
  <2>2. (clean /\ Launching(v) => SeesDocument(v))'
    BY <2>1, <1>0 DEF RunsKnown, SeesDocument
  <2>3. (pc[v] \in {"launch", "register"} => ~ActiveRun(snap[v]))'
    BY <1>0, <1>1, <1>3 DEF RunsKnown
  <2>4. (pc[v] = "register" => own[v] > 0)'
    BY <1>1, <1>2 DEF RunsKnown
  <2> QED
    BY <2>2, <2>3, <2>4
<1>5. NoRunForgotten'
  <2> SUFFICES ASSUME clean, NEW r \in 1..(Len(runs) + 1), runs'[r] = "running"
               PROVE  wf.last_run = r \/ \E v \in Firing : pc'[v] = "register" /\ own'[v] = r
    BY <1>0, <1>2 DEF NoRunForgotten
  <2>1. CASE r = Len(runs) + 1
    BY <2>1, <1>1
  <2>2. CASE r \in 1..Len(runs)
    <3>1. wf.last_run = r \/ \E v \in Firing : pc[v] = "register" /\ own[v] = r
      BY <2>2, <1>2 DEF RunsKnown, DocKnowsRuns, NoRunForgotten
    <3> QED
      BY <3>1, <1>0, <1>1
  <2> QED
    BY <2>1, <2>2, <1>2
<1> QED
  BY <1>0, <1>4, <1>5 DEF RunsKnown, DocKnowsRuns, CountsAreTrue

(* Runs end, and launchers stay where they are.                            *)
LEMMA KnownEnded ==
  ASSUME Typed, RunsKnown, DOMAIN runs' = DOMAIN runs,
         \A r \in DOMAIN runs : runs'[r] = "running" => runs[r] = "running",
         UNCHANGED <<wf, snap, own, stale, clean, counted>>,
         \A w \in Firing : pc'[w] = pc[w]
  PROVE  RunsKnown'
<1>1. \A w \in Firing :
        /\ (clean /\ Launching(w) => SeesDocument(w))'
        /\ (pc[w] = "register" => own[w] > 0)'
  BY DEF RunsKnown, SeesDocument, Launching
<1>2. \A w \in Firing : (pc[w] \in {"launch", "register"} => ~ActiveRun(snap[w]))'
  <2> SUFFICES ASSUME NEW w \in Firing, pc[w] \in {"launch", "register"}
               PROVE  ~ActiveRun(snap[w])'
    OBVIOUS
  <2>1. /\ snap[w].last_run \in Nat /\ snap[w].last_run <= Len(runs)
        /\ DOMAIN runs = 1..Len(runs) /\ Len(runs) \in Nat
    BY SMTT(30) DEF Typed, TypeOK, Docs
  <2>2. snap[w].last_run > 0 => snap[w].last_run \in DOMAIN runs
    BY <2>1
  <2> QED
    BY <2>2 DEF RunsKnown, ActiveRun
<1>3. NoRunForgotten'
  BY DEF RunsKnown, DocKnowsRuns, NoRunForgotten
<1> QED
  BY <1>1, <1>2, <1>3 DEF RunsKnown, DocKnowsRuns, CountsAreTrue

(* The edits leave the launchers alone; a document is made only where      *)
(* there is none and dropped, under this condition, only when nothing is   *)
(* under way.                                                              *)
LEMMA KnownEdited ==
  ASSUME Typed, RunsKnown, NEW e \in Operators, Edit(e)
  PROVE  RunsKnown'
<1>g. \A s : Goto(e, s) => \A w \in Firing : pc'[w] = pc[w]
  BY Apart DEF Goto, Typed, TypeOK, Firing
<1>l. \A w \in Firing : pc'[w] = pc[w] => (Launching(w)' <=> Launching(w))
  BY DEF Launching
<1>d. wf \in Docs /\ clean \in BOOLEAN
  BY DEF Typed, TypeOK
<1>1. ASSUME NEW s, Goto(e, s), UNCHANGED <<runs, snap, own, stale, clean, counted>>,
             wf'.exists = wf.exists, wf'.last_run = wf.last_run,
             wf'.run_count = wf.run_count, wf'.skip_count = wf.skip_count
      PROVE  RunsKnown'
  BY <1>1, <1>g, <1>l, <1>d, KnownKept
<1>2. \A s, d : Prepare(e, s, d) => RunsKnown'
  BY <1>1 DEF Prepare, histVars
<1>3. Refused(e) => RunsKnown'
  BY <1>1 DEF Refused, histVars
<1>4. CASE CreateStart(e) \/ UpdateStart(e) \/ ResumeStart(e)
  BY <1>2, <1>4 DEF CreateStart, UpdateStart, ResumeStart
<1>5. CASE Create(e)
  <2>1. ASSUME ~wf.exists, NEW b \in BOOLEAN, Written(e, Built(plan[e].def, plan[e].next, b)),
               counted' = [runs |-> 0, skips |-> 0]
        PROVE  RunsKnown'
    <3>1. /\ wf'.last_run = 0 /\ wf'.run_count = 0 /\ wf'.skip_count = 0 /\ wf'.exists
          /\ UNCHANGED <<runs, snap, own, stale, clean>>
      BY <2>1 DEF Written, Built, NoDoc
    <3>2. \A w \in Firing : pc'[w] = pc[w]
      BY <2>1, <1>g DEF Written
    <3>3. clean => \A w \in Firing : ~Launching(w)
      BY <2>1 DEF RunsKnown, SeesDocument
    <3>4. clean => \A r \in DOMAIN runs : runs[r] # "running"
      <4>1. wf.last_run = 0 /\ \A r \in DOMAIN runs : r > 0
        BY <2>1 DEF RunsKnown, Typed, TypeOK
      <4> QED
        BY <3>3, <4>1 DEF RunsKnown, DocKnowsRuns, NoRunForgotten, Launching
    <3>5. \A w \in Firing :
            /\ (clean /\ Launching(w) => SeesDocument(w))'
            /\ (pc[w] \in {"launch", "register"} => ~ActiveRun(snap[w]))'
            /\ (pc[w] = "register" => own[w] > 0)'
      BY <3>1, <3>2, <3>3, <1>l DEF RunsKnown, ActiveRun
    <3> QED
      BY <2>1, <3>1, <3>4, <3>5 DEF RunsKnown, DocKnowsRuns, NoRunForgotten, CountsAreTrue
  <2> QED
    BY <1>5, <1>3, <2>1 DEF Create
<1>6. CASE Update(e)
  <2>1. /\ Redefined(plan[e]).exists = wf.exists /\ Redefined(plan[e]).last_run = wf.last_run
        /\ Redefined(plan[e]).run_count = wf.run_count
        /\ Redefined(plan[e]).skip_count = wf.skip_count
    BY <1>d DEF Redefined, Docs
  <2> QED
    BY <1>6, <1>1, <1>3, <2>1 DEF Update, Written
<1>7. CASE Resume(e)
  <2>1. /\ Resumed(plan[e]).exists = wf.exists /\ Resumed(plan[e]).last_run = wf.last_run
        /\ Resumed(plan[e]).run_count = wf.run_count
        /\ Resumed(plan[e]).skip_count = wf.skip_count
    BY <1>d DEF Resumed, Docs
  <2> QED
    BY <1>7, <1>1, <1>3, <2>1 DEF Resume, Written
<1>8. CASE Pause(e)
  <2>1. /\ wf'.exists = wf.exists /\ wf'.last_run = wf.last_run
        /\ wf'.run_count = wf.run_count /\ wf'.skip_count = wf.skip_count
    BY <1>8, <1>d DEF Pause, Written, Docs
  <2> QED
    BY <1>8, <1>1, <2>1 DEF Pause, Written
<1>9. CASE DrainRuns(e)
  BY <1>9, <1>g, KnownEnded DEF DrainRuns, histVars
<1>10. CASE Drop(e)
  <2>1. /\ ~wf'.exists /\ wf'.last_run = 0
        /\ clean' = (clean /\ ~(\E w \in Firing : Launching(w)) /\ \A r \in DOMAIN runs : runs[r] = "gone")
        /\ UNCHANGED <<runs, snap, own, stale, counted>>
    BY <1>10 DEF Drop, NoDoc
  <2>2. \A w \in Firing : pc'[w] = pc[w]
    BY <1>10, <1>g DEF Drop
  <2>3. \A w \in Firing :
          /\ (clean /\ Launching(w) => SeesDocument(w))'
          /\ (pc[w] \in {"launch", "register"} => ~ActiveRun(snap[w]))'
          /\ (pc[w] = "register" => own[w] > 0)'
    BY <2>1, <2>2, <1>l DEF RunsKnown, ActiveRun
  <2> QED
    BY <2>1, <2>3 DEF RunsKnown, DocKnowsRuns, NoRunForgotten, CountsAreTrue
<1> QED
  BY <1>4, <1>5, <1>6, <1>7, <1>8, <1>9, <1>10 DEF Edit

LEMMA KnownTick ==
  ASSUME Typed, RunsKnown, NEW w \in Ticks, TickOnly(w)
  PROVE  RunsKnown'
<1>w. w \in Firing /\ w \in Workers /\ Firing \subseteq Workers
  BY Apart DEF Firing, Workers
<1>d. wf \in Docs /\ clean \in BOOLEAN
  BY DEF Typed, TypeOK
<1>r. \E s \in {"idle", "done", "aborted"} : Raises(w) <=> Goto(w, s)
  BY DEF Raises
<1>k. ASSUME NEW s \in {"timed", "claimed"}, Goto(w, s), pc[w] # "register",
             s = "claimed" => Launching(w),
             UNCHANGED <<runs, snap, own, stale, clean, counted>>,
             wf'.exists = wf.exists, wf'.last_run = wf.last_run,
             wf'.run_count = wf.run_count, wf'.skip_count = wf.skip_count
      PROVE  RunsKnown'
  <2>1. pc'[w] = s /\ \A v \in Firing : v # w => pc'[v] = pc[v]
    BY <1>k, <1>w DEF Goto, Typed, TypeOK
  <2>2. \A v \in Firing : Launching(v)' => Launching(v)
    BY <1>k, <2>1 DEF Launching
  <2> QED
    BY <1>k, <1>d, <2>1, <2>2, KnownKept
<1>1. CASE TickStart(w)
  BY <1>1, <1>k DEF TickStart, histVars
<1>2. CASE TickList(w) /\ Due(wf, now[w])
  BY <1>2, <1>w, KnownRead DEF TickList, Due
<1>3. CASE TickList(w) /\ ~Due(wf, now[w])
  BY <1>3, <1>w, <1>d, KnownDropped DEF TickList
<1>4. CASE Park(w)
  <2>1. /\ wf'.exists = wf.exists /\ wf'.last_run = wf.last_run
        /\ wf'.run_count = wf.run_count /\ wf'.skip_count = wf.skip_count
    BY <1>4, <1>d DEF Park, Docs
  <2> QED
    BY <1>4, <2>1, <1>w, <1>d, <1>r, KnownDropped DEF Park
<1>5. CASE ClaimSlot(w) /\ CanClaimSlot(snap[w].next)
  <2>1. /\ wf'.exists = wf.exists /\ wf'.last_run = wf.last_run
        /\ wf'.run_count = wf.run_count /\ wf'.skip_count = wf.skip_count
    BY <1>5, <1>d DEF ClaimSlot, SlotMoved, Docs
  <2>2. pc[w] = "due" /\ Launching(w)
    BY <1>5 DEF ClaimSlot, Launching
  <2> QED
    BY <1>5, <2>1, <2>2, <1>k DEF ClaimSlot
<1>6. CASE ClaimSlot(w) /\ ~CanClaimSlot(snap[w].next)
  BY <1>6, <1>w, <1>d, KnownDropped DEF ClaimSlot
<1>7. CASE Skip(w) /\ wf.exists
  BY <1>7, <1>w, KnownCounted
<1>8. CASE Skip(w) /\ ~wf.exists
  BY <1>8, <1>w, <1>d, <1>r, KnownDropped DEF Skip
<1> QED
  BY <1>1, <1>2, <1>3, <1>4, <1>5, <1>6, <1>7, <1>8 DEF TickOnly

LEMMA KnownLaunch ==
  ASSUME Typed, RunsKnown, NEW w \in Firing, Launch(w) \/ Crash(w)
  PROVE  RunsKnown'
<1>w. w \in Workers /\ Firing \subseteq Workers
  BY DEF Firing, Workers
<1>d. clean \in BOOLEAN
  BY DEF Typed, TypeOK
<1>r. \E s \in {"idle", "done", "aborted"} : Raises(w) <=> Goto(w, s)
  BY DEF Raises
<1>e. \E s \in {"idle", "done", "aborted"} : Ends(w) <=> Goto(w, s)
  BY DEF Ends
<1>1. CASE Look(w) /\ ActiveRun(snap[w]) /\ w \in Callers
  BY <1>1, <1>d, KnownDropped DEF Look
<1>2. CASE Look(w) /\ ~(ActiveRun(snap[w]) /\ w \in Callers)
  <2>1. /\ Goto(w, IF ActiveRun(snap[w]) THEN "skip" ELSE "launch")
        /\ UNCHANGED <<wf, runs, snap, own, stale, clean, counted>>
        /\ pc[w] \in {"claimed", "look"} /\ Launching(w)
    BY <1>2 DEF Look, Launching
  <2>2. /\ pc'[w] = IF ActiveRun(snap[w]) THEN "skip" ELSE "launch"
        /\ \A v \in Firing : v # w => pc'[v] = pc[v]
    BY <2>1, <1>w DEF Goto, Typed, TypeOK
  <2>3. \A v \in Firing : Launching(v)' => Launching(v)
    BY <2>1, <2>2 DEF Launching
  <2> QED
    BY <1>d, <2>1, <2>2, <2>3, KnownKept
<1>3. CASE CreateRun(w)
  BY <1>3, KnownCreated
<1>4. CASE LaunchError(w)
  BY <1>4, <1>d, <1>r, <1>e, KnownDropped DEF LaunchError
<1>5. CASE RegisterRun(w) /\ wf.exists
  BY <1>5, KnownCounted
<1>6. CASE RegisterRun(w) /\ ~wf.exists
  <2>1. ~clean
    BY <1>6 DEF RegisterRun, RunsKnown, SeesDocument, Launching
  <2> QED
    BY <1>6, <2>1, <1>d, <1>r, KnownDropped DEF RegisterRun
<1>7. CASE Crash(w)
  BY <1>7, <1>d, <1>e, KnownDropped DEF Crash
<1> QED
  BY <1>1, <1>2, <1>3, <1>4, <1>5, <1>6, <1>7 DEF Launch

LEMMA KnownStep == Typed /\ RunsKnown /\ [Next]_vars => RunsKnown'
<1> SUFFICES ASSUME Typed, RunsKnown, [Next]_vars
             PROVE  RunsKnown'
  OBVIOUS
<1>1. ASSUME NEW c \in Callers, Require(c)
      PROVE  RunsKnown'
  <2>1. c \in Firing /\ c \in Workers /\ Firing \subseteq Workers
    BY DEF Firing, Workers
  <2>2. CASE wf.exists
    BY <1>1, <2>1, <2>2, KnownRead DEF Require, histVars
  <2>3. CASE ~wf.exists
    <3>1. UNCHANGED <<wf, runs, snap, own, stale, clean, counted>> /\ pc[c] = "require"
      BY <1>1, <2>3 DEF Require, histVars
    <3>2. pc'[c] = "done" /\ \A v \in Firing : v # c => pc'[v] = pc[v]
      BY <1>1, <2>1, <2>3 DEF Require, Goto, Typed, TypeOK
    <3>3. \A v \in Firing : Launching(v)' => Launching(v)
      BY <3>2 DEF Launching
    <3>4. clean \in BOOLEAN
      BY DEF Typed, TypeOK
    <3> QED
      BY <3>1, <3>2, <3>3, <3>4, KnownKept
  <2> QED
    BY <2>2, <2>3
<1>2. ASSUME NEW r \in DOMAIN runs, RunCloses(r)
      PROVE  RunsKnown'
  <2>1. DOMAIN runs' = DOMAIN runs /\ \A q \in DOMAIN runs : runs'[q] = "running" => runs[q] = "running"
    BY <1>2 DEF RunCloses
  <2> QED
    BY <1>2, <2>1, KnownEnded DEF RunCloses, histVars
<1>3. CASE Advance \/ UNCHANGED vars
  BY <1>3, KnownEnded DEF Advance, vars, histVars
<1> QED
  BY <1>1, <1>2, <1>3, Cases, KnownTick, KnownLaunch, KnownEdited

(* launch and run_now: whatever overlaps, a run in flight is the one the   *)
(* workflow names or about to be, and the counters count, as long as no    *)
(* launcher worked from a document that a registration it lacks has made   *)
(* old, died before its own, or lost the workflow under it.                *)
THEOREM DocumentKnowsRuns == Spec => []DocKnowsRuns
<1>1. RunsKnown => DocKnowsRuns
  BY DEF RunsKnown
<1> QED
  BY <1>1, TypeInit, TypeStep, KnownInit, KnownStep, PTL DEF Spec

=============================================================================
