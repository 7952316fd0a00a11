-------------------------------- MODULE SkillPush --------------------------------
(***************************************************************************)
(* One skill in the bucket (src/src/syros/skills.py): what several pushes, *)
(* the sync of the official skills and people at the console do to its     *)
(* files, one object at a time.                                            *)
(*                                                                         *)
(* A file is known by its name, a directory by what each name is in it.    *)
(***************************************************************************)
EXTENDS Naturals, FiniteSets

CONSTANTS Pushers,    \* the pushes there are, each of a directory of its own
          SkillMd,    \* SKILL.md
          Others,     \* the other names
          Shapes,     \* of the shapes of files, those the directories hold
          Official    \* what the tarball carries, not too big

Files == Others \cup {SkillMd}

(* What a name may be in a directory: a link, over max_bytes, a name the   *)
(* bucket rejects, tooling state that is not looked at, spelled in another *)
(* case, in a directory that is a link, not there.                         *)
FileShapes ==
  {"plain", "link", "big", "bad_name", "ignored", "miscased", "below_link", "absent"}

(* SKILL.md is a fixed short name.                                         *)
ShapeAssumption == Shapes \subseteq FileShapes
ASSUME ShapeAssumption
ASSUME OfficialAssumption == Official \subseteq Files

Nobody == "nobody"
Person == "person"
ASSUME PusherAssumption == Pushers \cap {Nobody, Person} = {}

VARIABLES
  bucket,    \* the names under the skill's prefix
  dir,       \* what each push finds in its directory
  replace,   \* --replace
  step,      \* where each push is
  left,      \* what it has yet to upload, or to look at in its listing
  sync,      \* what the sync has yet to write
  doomed,    \* what delete_skill has listed and not deleted
  blame      \* history: who last removed each name

skillVars == <<bucket, dir, replace, step, left, sync, doomed, blame>>

-----------------------------------------------------------------------------
(* The walk.                                                               *)
Uploads(d) == {f \in Files : d[f] = "plain"}
Declined(d) == {f \in Files : d[f] \in {"link", "big", "bad_name"}}

(* The look before the walk follows links and knows no size; on a disk     *)
(* that ignores case it finds another spelling.                            *)
LooksRight(d) == d[SkillMd] \in {"plain", "link", "big", "miscased"}

(* _require_skill_md.  Mutant: the look before the walk is enough.         *)
RequireNothing(d) == TRUE
Require(d) == SkillMd \in Uploads(d)

(* Mutant: what the walk declined is pruned.                               *)
KeepUploads(d) == Uploads(d)
Keep(d) == Uploads(d) \cup Declined(d)

Removed(f, who) ==
  /\ bucket' = bucket \ {f}
  /\ blame' = [blame EXCEPT ![f] = who]

Directories ==
  {d \in [Files -> Shapes] :
     /\ d[SkillMd] \notin {"bad_name", "below_link", "ignored"}
     /\ \A f \in Others : d[f] # "miscased"}

SkillInit ==
  /\ bucket \in SUBSET Files
  /\ dir \in [Pushers -> Directories]
  /\ replace \in [Pushers -> BOOLEAN]
  /\ step = [p \in Pushers |-> "look"]
  /\ left = [p \in Pushers |-> {}]
  /\ sync = {}
  /\ doomed = {}
  /\ blame = [f \in Files |-> Nobody]

-----------------------------------------------------------------------------
At(p, here, there) == step[p] = here /\ step' = [step EXCEPT ![p] = there]
LeftFor(p, names) == left' = [left EXCEPT ![p] = names]
Alone == UNCHANGED <<dir, replace, sync, doomed>>

(* Nothing is written before the checks.                                   *)
Walk(p) ==
  /\ \/ /\ LooksRight(dir[p]) /\ Require(dir[p])
        /\ At(p, "look", "upload") /\ LeftFor(p, Uploads(dir[p]))
     \/ /\ ~LooksRight(dir[p]) \/ ~Require(dir[p])
        /\ At(p, "look", "refused") /\ UNCHANGED left
  /\ Alone /\ UNCHANGED <<bucket, blame>>

Upload(p) ==
  /\ step[p] = "upload"
  /\ \E f \in left[p] : LeftFor(p, left[p] \ {f}) /\ bucket' = bucket \cup {f}
  /\ Alone /\ UNCHANGED <<step, blame>>

(* The listing of what is to be pruned.                                    *)
Uploaded(p) ==
  /\ left[p] = {}
  /\ IF replace[p] THEN At(p, "upload", "prune") /\ LeftFor(p, bucket \ Keep(dir[p]))
     ELSE At(p, "upload", "done") /\ UNCHANGED left
  /\ Alone /\ UNCHANGED <<bucket, blame>>

Prune(p) ==
  /\ step[p] = "prune"
  /\ \E f \in left[p] \cap bucket : LeftFor(p, left[p] \ {f}) /\ Removed(f, p)
  /\ Alone /\ UNCHANGED step

Pruned(p) ==
  /\ left[p] = {} /\ At(p, "prune", "done")
  /\ Alone /\ UNCHANGED <<bucket, left, blame>>

(* The bucket refuses a write, a file cannot be read, or a name is gone by *)
(* the time it is to be deleted.                                           *)
Fails(p) ==
  /\ \/ left[p] # {} /\ At(p, "upload", "failed")
     \/ left[p] \ bucket # {} /\ At(p, "prune", "failed")
  /\ Alone /\ UNCHANGED <<bucket, left, blame>>

Push(p) == Walk(p) \/ Upload(p) \/ Uploaded(p) \/ Prune(p) \/ Pruned(p) \/ Fails(p)

-----------------------------------------------------------------------------
(* The console's sync, one at a time; it writes and never deletes.         *)
StartSync ==
  /\ sync = {} /\ sync' = Official
  /\ UNCHANGED <<bucket, dir, replace, step, left, doomed, blame>>

(* One from the command line does not know of it.                          *)
CommandLineSync ==
  /\ sync' = Official
  /\ UNCHANGED <<bucket, dir, replace, step, left, doomed, blame>>

SyncWrite ==
  /\ \E f \in sync : sync' = sync \ {f} /\ bucket' = bucket \cup {f}
  /\ UNCHANGED <<dir, replace, step, left, doomed, blame>>

WriteSkillFile ==
  /\ \E f \in Files : bucket' = bucket \cup {f}
  /\ UNCHANGED <<dir, replace, step, left, sync, doomed, blame>>

DeleteSkillFile ==
  /\ \E f \in bucket : Removed(f, Person)
  /\ UNCHANGED <<dir, replace, step, left, sync, doomed>>

(* delete_skill lists, and deletes what it listed.                         *)
DeleteSkill ==
  /\ doomed = {} /\ doomed' = bucket
  /\ UNCHANGED <<bucket, dir, replace, step, left, sync, blame>>

DeleteListed ==
  /\ \E f \in doomed \cap bucket : Removed(f, Person) /\ doomed' = doomed \ {f}
  /\ UNCHANGED <<dir, replace, step, left, sync>>

(* One is gone already.                                                    *)
DeleteFails ==
  /\ doomed \ bucket # {} /\ doomed' = {}
  /\ UNCHANGED <<bucket, dir, replace, step, left, sync, blame>>

PersonActs ==
  WriteSkillFile \/ DeleteSkillFile \/ DeleteSkill \/ DeleteListed \/ DeleteFails

SkillNext == (\E p \in Pushers : Push(p)) \/ StartSync \/ CommandLineSync \/ SyncWrite \/ PersonActs

SkillSpec == SkillInit /\ [][SkillNext]_skillVars

-----------------------------------------------------------------------------
SkillTypeOK ==
  /\ bucket \subseteq Files
  /\ dir \in [Pushers -> [Files -> FileShapes]]
  /\ replace \in [Pushers -> BOOLEAN]
  /\ step \in [Pushers -> {"look", "upload", "prune", "done", "refused", "failed"}]
  /\ left \in [Pushers -> SUBSET Files]
  /\ sync \subseteq Files /\ doomed \subseteq Files
  /\ blame \in [Files -> Pushers \cup {Nobody, Person}]

(* A file in a linked directory is carried as well, but the walk does not  *)
(* come to know of it.                                                     *)
Carried(d) == {f \in Files : d[f] \notin {"absent", "ignored"}}

(* "a pushed skill is a mountable skill", and "only what the directory     *)
(* really dropped is pruned": no push removes SKILL.md or what its own     *)
(* directory carries, be it refused, cut short or done, and what a push    *)
(* that is done uploaded is there unless somebody else removed it.         *)
PushKeepsSkill ==
  \A p \in Pushers, f \in Files :
    /\ blame[f] = p => f # SkillMd /\ f \notin Carried(dir[p])
    /\ step[p] = "done" /\ f \in Uploads(dir[p]) \ bucket =>
         blame[f] \notin {Nobody, p} /\ (f = SkillMd => blame[f] = Person)
=============================================================================
