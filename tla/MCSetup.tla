-------------------------------- MODULE MCSetup --------------------------------
(* What an installation keeps besides sessions: a workflow definition, or  *)
(* the files of a skill.  The two share nothing, so a behaviour has        *)
(* something to do in one of them only.                                    *)
EXTENDS Definitions, SkillPush, TLC

CONSTANTS bot, github, google, mail, desk, push1, push2, SKILL_md, notes

(* Two months of three days and a third, weeks of three days, days of      *)
(* three hours of two minutes.                                             *)
Calendar == [d \in 0..8 |-> [month |-> 1 + ((d \div 3) % 2), day |-> 1 + (d % 3)]]
(* No jump, an hour forward and an hour back, on the third day.            *)
Zones == {[at |-> 0, jump |-> 0], [at |-> 14, jump |-> 2], [at |-> 16, jump |-> -2]}

Star == [kind |-> "star", from |-> 0, to |-> 0, step |-> 1]
Each(n) == [Star EXCEPT !.step = n]
One(n) == [kind |-> "value", from |-> n, to |-> n, step |-> 1]
FromOn(n, s) == [One(n) EXCEPT !.step = s]
Between(n, m) == [kind |-> "range", from |-> n, to |-> m, step |-> 1]

Expressions ==
  [minute : {{Star}, {One(1)}},
   hour : {{Star}, {Between(1, 2)}, {FromOn(0, 2)}, {Between(2, 1)}},
   day : {{Star}, {One(2)}, {Each(2)}},
   month : {{Star}, {One(2)}},
   weekday : {{Star}, {One(1)}, {One(0), One(3)}}]

(* A connector of one server and one of two.                               *)
Catalog == (github :> {github}) @@ (google :> {google, mail})

(* Options: the workspace, or connectors, or a server of the same name.    *)
Plain == Default
AtDesk == [Default EXCEPT !.space = desk]
Connected == [Default EXCEPT !.connectors = {github, google}]
Serving == [Default EXCEPT !.servers = {mail}]
Unknown == [Default EXCEPT !.connectors = {mail}]
SomeLayers == {Plain, AtDesk, Connected}

ATask == [depends_on |-> Omitted, refs |-> {}, options |-> Plain, agent |-> Unset]
Flow(tasks) == [by |-> "workflow", tasks |-> tasks, options |-> Plain, cron |-> Manual, zone |-> CHOOSE z \in Zones : z.jump = 0]

(* Every graph of three tasks, those with cycles and unknown ids included. *)
Named == {Omitted, {}, {1}, {2}, {3}, {1, 2}, {1, 3}, {2, 3}, {4}}
Interpolated == {[t \in 1..3 |-> IF t = u THEN r ELSE {}] : u \in 1..3, r \in {{}, {1}, {2}, {3}}}
Graphs == {Flow([t \in 1..3 |-> [ATask EXCEPT !.depends_on = d[t], !.refs = r[t]]]) :
             d \in [1..3 -> Named], r \in Interpolated}

(* Chains, forks and joins whose tasks share a workspace.                  *)
Shapes3 == {<<{}, {1}, {2}>>, <<{}, {}, {1, 2}>>, <<{}, {1}, {1}>>, <<{}, {}, {1}>>}
Asked == {[options |-> o, agent |-> a] : o \in {Plain, AtDesk}, a \in {Unset, bot}}
           \cup {[options |-> Serving, agent |-> Unset]}
Shared == {[Flow([t \in 1..3 |-> [ATask EXCEPT !.depends_on = d[t], !.options = k[t].options,
                                              !.agent = k[t].agent]]) EXCEPT !.options = o] :
             d \in Shapes3, k \in [1..3 -> Asked], o \in {Plain, Connected}}

(* Every expression where the clock does not jump; where it does, those    *)
(* that name neither month nor weekday.                                    *)
Scheduled == {[Flow(<<ATask>>) EXCEPT !.cron = k[1], !.zone = k[2]] :
                k \in {x \in Expressions \X Zones :
                         \/ x[2].jump = 0
                         \/ x[1].month = {Star} /\ x[1].weekday = {Star}}}

(* Sessions of the console and of clients.                                 *)
Single == {[Flow(<<[ATask EXCEPT !.options = o, !.agent = a]>>) EXCEPT !.by = b] :
             o \in {Plain, AtDesk, Connected, Serving, Unknown}, a \in {Unset, bot},
             b \in {"console", "client"}}

NoDraft == Flow(<<ATask>>)

(* The layers matter to those that name them.                              *)
Bare(drafts) == {[draft |-> d, agents |-> [x \in {bot} |-> Plain], settings |-> Plain] : d \in drafts}
Layered(drafts) == {[draft |-> d, agents |-> [x \in {bot} |-> l], settings |-> s] :
                      d \in drafts, l \in SomeLayers, s \in {Plain, AtDesk}}
SomeSetups == Bare(Graphs) \cup Bare(Scheduled) \cup Layered(Single)
                \cup {s \in Layered(Shared) : s.settings = Plain \/ s.agents[bot] = Plain}

TwoPushers == {push1, push2}
EitherPusher == Permutations(TwoPushers)
OneNote == {notes}
OneBot == {bot}
OneDesk == {desk}
(* What one link stands for, so do a big file and a bad name.              *)
SomeShapes == {"plain", "link", "ignored", "miscased", "absent"}
Tarball == {SKILL_md, notes}

Idle == /\ bucket = {} /\ sync = {} /\ doomed = {}
        /\ dir = [p \in Pushers |-> [f \in Files |-> "absent"]]
        /\ replace = [p \in Pushers |-> FALSE]
        /\ step = [p \in Pushers |-> "refused"] /\ left = [p \in Pushers |-> {}]
        /\ blame = [f \in Files |-> Nobody]

Init == \/ DefInit /\ Idle
        \/ /\ draft = NoDraft /\ stage = "refused" /\ changed = FALSE
           /\ agents = [a \in Agents |-> Plain] /\ spaces = [w \in Spaces |-> Plain]
           /\ settings = Plain
           /\ task = [t \in Tasks |-> "pending"] /\ options = [t \in Tasks |-> Default]
           /\ now = Start /\ slot = NoTime
           /\ SkillInit

Next == \/ DefNext /\ UNCHANGED skillVars
        \/ SkillNext /\ dir # [p \in Pushers |-> [f \in Files |-> "absent"]] /\ UNCHANGED defVars

Spec == Init /\ [][Next]_<<defVars, skillVars>>
=============================================================================
