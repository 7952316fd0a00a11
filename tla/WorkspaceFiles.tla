----------------------------- MODULE WorkspaceFiles -----------------------------
(***************************************************************************)
(* One workspace: its document with the exclusive lease (store.py), the    *)
(* files of its shared directory and of an artifact space in the bucket    *)
(* (workspace.py, artifacts.py), and everybody who works on them: the runs *)
(* of several sessions with their heartbeats (runner.py), a person editing *)
(* in the console behind a look at the lease (console/api.py), and the     *)
(* installation of a preset (presets/__init__.py).                         *)
(*                                                                         *)
(* Firestore and the bucket know nothing of each other: only the lease and *)
(* the order of the calls keep a run's copy and an edit apart.  The lease  *)
(* stays live while its holder beats and lapses some time after the beats  *)
(* have stopped: because the run is over, or because its session was       *)
(* killed, which the run may learn late.                                   *)
(***************************************************************************)
EXTENDS Naturals, FiniteSets

CONSTANTS Sessions,    \* one run each
          Readers,     \* sessions that mount the space read-only
          Files,       \* what the directory may hold
          Shipped,     \* the files of the preset
          Installers,
          Forced,      \* installs with --force
          MaxEdits,    \* bound: edits of the person
          Faults

FaultKinds ==
  {"dies",           \* a run dies
   "error",          \* a call of a run raises
   "setup_fail",     \* a connector cannot be set up
   "install_dies",   \* an install dies
   "slow_edit",      \* a run claims between an editor's look and its write
   "slow_install",   \* a file goes between an install's look and its write
   "cli_edit",       \* a CLAUDE.md from the command line reaches a leased workspace
   "cli_drop",       \* so does a delete
   "slow_beat",      \* a beat is under way when the run lets go
   "beat_in_tail",   \* a beat comes between a failed setup and the end
   "stall"}          \* beats fail for so long that the lease lapses

ASSUME SetAssumption ==
  Readers \subseteq Sessions /\ Shipped \subseteq Files /\ Forced \subseteq Installers
ASSUME BoundAssumption == MaxEdits \in Nat
ASSUME FaultAssumption == Faults \subseteq FaultKinds

Nobody == "nobody"
ASSUME NobodyAssumption == Nobody \notin Sessions

VARIABLES
  doc,       \* the workspace document: exists, holder, live
  blob,      \* who wrote each file of the directory last, or "none"
  tagged,    \* whether the object carries tags
  space,     \* who wrote the one file of the artifact space last
  run,       \* where each session's run stands
  copy,      \* its local directory
  meta,      \* the metadata its checkpoint has read
  left,      \* the files its checkpoint has yet to upload
  killed,    \* its session has been killed or deleted
  name,      \* leased_workspace["name"]: its heartbeat renews the lease
  beat,      \* a beat that is past its look at the name
  lost,      \* the lost event
  person,    \* what the console is about to do, having looked at the lease
  edits,     \* edits made, for the bound
  install,   \* where each install stands
  found,     \* what it has listed
  want,      \* history: the tags the person left on each file
  since,     \* history: files the person has changed since a run copied them
  lostEdit,  \* history: such files a run wrote over
  stray      \* history: files a run wrote after the lost event

docVars == <<doc, blob, tagged, space>>
runVars == <<run, copy, meta, left, killed, name, beat, lost>>
personVars == <<person, edits>>
installVars == <<install, found>>
histVars == <<want, since, lostEdit, stray>>
vars == <<doc, blob, tagged, space, run, copy, meta, left, killed, name, beat, lost,
          person, edits, install, found, want, since, lostEdit, stray>>

-----------------------------------------------------------------------------
LeaseActive == doc.exists /\ doc.holder # Nobody /\ doc.live

Copied == {"work", "list", "upload", "publish"}    \* has its copy of the files
InWorkspace == {"connect", "restore", "detach"} \cup Copied
Over == {"off", "dead", "done"}
Stations ==
  Over \cup InWorkspace
    \cup {"claim", "release", "tail", "setup_failed", "setup_tail", "fail", "fail_tail"}

Free(n) == [exists |-> n, holder |-> Nobody, live |-> FALSE]
Held(s) == [exists |-> TRUE, holder |-> s, live |-> TRUE]

Init ==
  /\ doc = Free(FALSE)
  /\ \E old \in SUBSET (Files \ Shipped) : \E marked \in SUBSET old :
       /\ blob = [f \in Files |-> IF f \in old THEN "agent" ELSE "none"]
       /\ tagged = [f \in Files |-> f \in marked]
       /\ want = tagged
  /\ space = "agent"
  /\ run = [s \in Sessions |-> "off"]
  /\ copy = [s \in Sessions |-> [f \in Files |-> "none"]]
  /\ meta = [s \in Sessions |-> {}]
  /\ left = [s \in Sessions |-> {}]
  /\ killed = [s \in Sessions |-> FALSE]
  /\ name = [s \in Sessions |-> FALSE]
  /\ beat = [s \in Sessions |-> FALSE]
  /\ lost = [s \in Sessions |-> FALSE]
  /\ person = <<"idle">>
  /\ edits = 0
  /\ install = [i \in Installers |-> "off"]
  /\ found = [i \in Installers |-> {}]
  /\ since = [s \in Sessions |-> {}]
  /\ lostEdit = {} /\ stray = {}

Goto(s, station) == run' = [run EXCEPT ![s] = station]

-----------------------------------------------------------------------------
(* The transactions on the lease.                                          *)

(* Mutant: whoever asks gets it.                                           *)
CanClaimAnyway(s) == TRUE
CanClaim(s) == ~LeaseActive \/ doc.holder = s

(* claim_workspace, which makes the document if there is only a directory. *)
Claimed(s) == IF CanClaim(s) THEN Held(s) ELSE doc

(* release_workspace: only the holder's.                                   *)
Released(s) == IF doc.exists /\ doc.holder = s THEN Free(TRUE) ELSE doc

-----------------------------------------------------------------------------
(* A run, from the claim of the workspace on.                              *)

Begin(s) ==
  /\ run[s] = "off"
  /\ Goto(s, "claim")
  /\ UNCHANGED <<docVars, copy, meta, left, killed, name, beat, lost,
                 personVars, installVars, histVars>>

(* An install that has listed the files has yet to write them.             *)
Undisturbed ==
  (\E i \in Installers : install[i] \in {"free", "write"}) => "slow_install" \in Faults

(* Between its look at the lease and its write somebody else is at work.   *)
Looked == person[1] \notin {"idle"} \/ \E i \in Installers : install[i] = "write"

ClaimWorkspace(s) ==
  /\ run[s] = "claim"
  /\ Looked => "slow_edit" \in Faults
  /\ doc' = Claimed(s)
  /\ Goto(s, IF CanClaim(s) THEN "connect" ELSE "tail")
  /\ name' = [name EXCEPT ![s] = CanClaim(s)]
  /\ UNCHANGED <<blob, tagged, space, copy, meta, left, killed, beat, lost,
                 personVars, installVars, histVars>>

(* Connectors, before anything is restored.                                *)
Connect(s) ==
  /\ run[s] = "connect"
  /\ \/ Goto(s, "restore")
     \/ "setup_fail" \in Faults /\ Goto(s, "setup_failed")
  /\ UNCHANGED <<docVars, copy, meta, left, killed, name, beat, lost,
                 personVars, installVars, histVars>>

(* fail_fast, after a connector's error or from the handler of exceptions. *)
(* Only the handler has detached the heartbeat before.                     *)
FailRelease(s) ==
  /\ run[s] \in {"fail", "setup_failed"}
  /\ beat[s] => "slow_beat" \in Faults
  /\ doc' = Released(s)
  /\ Goto(s, IF run[s] = "fail" THEN "fail_tail" ELSE "setup_tail")
  /\ UNCHANGED <<blob, tagged, space, copy, meta, left, killed, name, beat, lost,
                 personVars, installVars, histVars>>

(* _restore_state: the shared directory, and the space mounted into it.    *)
Restore(s) ==
  /\ run[s] = "restore"
  /\ copy' = [copy EXCEPT ![s] = blob]
  /\ since' = [since EXCEPT ![s] = {}]
  /\ Goto(s, "work")
  /\ UNCHANGED <<docVars, meta, left, killed, name, beat, lost, personVars, installVars,
                 want, lostEdit, stray>>

(* The agent writes or removes a file of its copy.  A tool call under way  *)
(* when the lease is lost goes on.                                         *)
Work(s) ==
  /\ run[s] = "work"
  /\ \E f \in Files, content \in {"agent", "none"} :
       /\ copy[s][f] # content
       /\ copy' = [copy EXCEPT ![s][f] = content]
  /\ UNCHANGED <<docVars, run, meta, left, killed, name, beat, lost,
                 personVars, installVars, histVars>>

WritesSpace(s) == s \notin Readers

(* _publish_spaces, after every turn and once more at the end.             *)
PublishSpaces(s) ==
  /\ space' = IF WritesSpace(s) THEN s ELSE space
  /\ UNCHANGED <<doc, blob, tagged, copy, meta, left, killed, name, beat, lost,
                 personVars, installVars, histVars>>

PublishTurn(s) ==
  run[s] = "work" /\ ~lost[s] /\ PublishSpaces(s) /\ UNCHANGED run

Publish(s) == run[s] = "publish" /\ PublishSpaces(s) /\ Goto(s, "detach")

(* The copy goes with the run.                                             *)
Forgets(s) ==
  /\ copy' = [copy EXCEPT ![s] = [f \in Files |-> "none"]]
  /\ meta' = [meta EXCEPT ![s] = {}]
  /\ left' = [left EXCEPT ![s] = {}]
  /\ since' = [since EXCEPT ![s] = {}]

(* The end of the loop, for want of prompts or because the session is      *)
(* dead: a run that has lost its lease returns, with no checkpoint and no  *)
(* release.  This is the last look at the lost event.                      *)
GoIdle(s) ==
  /\ run[s] = "work"
  /\ \/ lost[s] /\ Goto(s, "done") /\ Forgets(s)
     \/ ~lost[s] /\ Goto(s, "list") /\ UNCHANGED <<copy, meta, left, since>>
  /\ UNCHANGED <<docVars, killed, name, beat, lost, personVars, installVars, want, lostEdit, stray>>

(* checkpoint: the metadata of what is there, then one upload per file of  *)
(* the copy.  It never deletes.                                            *)
CheckpointList(s) ==
  /\ run[s] = "list"
  /\ meta' = [meta EXCEPT ![s] = {f \in Files : blob[f] # "none" /\ tagged[f]}]
  /\ left' = [left EXCEPT ![s] = {f \in Files : copy[s][f] # "none"}]
  /\ Goto(s, "upload")
  /\ UNCHANGED <<docVars, copy, killed, name, beat, lost, personVars, installVars, histVars>>

(* Mutant: the object is replaced, metadata and all.                       *)
BareMetadata(s, f) == FALSE
Metadata(s, f) == f \in meta[s]

Upload(s) ==
  /\ run[s] = "upload"
  /\ \E f \in left[s] :
       /\ blob' = [blob EXCEPT ![f] = copy[s][f]]
       /\ tagged' = [tagged EXCEPT ![f] = Metadata(s, f)]
       /\ left' = [left EXCEPT ![s] = @ \ {f}]
       /\ lostEdit' = IF f \in since[s] THEN lostEdit \cup {f} ELSE lostEdit
       /\ stray' = IF lost[s] THEN stray \cup {f} ELSE stray
  /\ UNCHANGED <<doc, space, run, copy, meta, killed, name, beat, lost,
                 personVars, installVars, want, since>>

Uploaded(s) ==
  /\ run[s] = "upload" /\ left[s] = {}
  /\ Goto(s, "publish")
  /\ meta' = [meta EXCEPT ![s] = {}]
  /\ UNCHANGED <<docVars, copy, left, killed, name, beat, lost, personVars, installVars, histVars>>

(* The heartbeat loses sight of the workspace before the lease is dropped. *)
(* Mutant: it does not.                                                    *)
StaysAttached(s) == name
Detached(s) == [name EXCEPT ![s] = FALSE]

Detach(s) ==
  /\ run[s] = "detach"
  /\ name' = Detached(s)
  /\ Goto(s, "release")
  /\ UNCHANGED <<docVars, copy, meta, left, killed, beat, lost, personVars, installVars, histVars>>

Release(s) ==
  /\ run[s] = "release"
  /\ beat[s] => "slow_beat" \in Faults
  /\ doc' = Released(s)
  /\ Goto(s, "tail")
  /\ Forgets(s)
  /\ UNCHANGED <<blob, tagged, space, killed, name, beat, lost, personVars, installVars,
                 want, lostEdit, stray>>

(* The label, the last record, release_session; then finally cancels the   *)
(* heartbeat.                                                              *)
End(s) ==
  /\ run[s] \in {"tail", "setup_tail", "fail_tail"}
  /\ beat[s] => "slow_beat" \in Faults
  /\ Goto(s, "done")
  /\ beat' = [beat EXCEPT ![s] = FALSE]
  /\ UNCHANGED <<docVars, copy, meta, left, killed, name, lost, personVars, installVars, histVars>>

(* An exception anywhere in the run.  The handler detaches the heartbeat   *)
(* and releases, unless the lease is lost; what it raises itself ends the  *)
(* run where it stands.                                                    *)
Fails(s) ==
  /\ "error" \in Faults
  /\ run[s] \notin Over \cup {"fail_tail"}
  /\ IF lost[s] \/ run[s] = "fail"
     THEN /\ Goto(s, "dead")
          /\ beat' = [beat EXCEPT ![s] = FALSE]
          /\ UNCHANGED name
     ELSE /\ Goto(s, "fail")
          /\ name' = [name EXCEPT ![s] = FALSE]
          /\ UNCHANGED beat
  /\ Forgets(s)
  /\ UNCHANGED <<docVars, killed, lost, personVars, installVars, want, lostEdit, stray>>

Die(s) ==
  /\ "dies" \in Faults
  /\ run[s] \notin Over
  /\ Goto(s, "dead")
  /\ beat' = [beat EXCEPT ![s] = FALSE]
  /\ Forgets(s)
  /\ UNCHANGED <<docVars, killed, name, lost, personVars, installVars, want, lostEdit, stray>>

-----------------------------------------------------------------------------
(* The heartbeat, and the kill it may meet.                                *)

(* From the console, the command line or a client: the session's document  *)
(* says so, and whoever looks finds out.                                   *)
Kill(s) ==
  /\ ~killed[s] /\ run[s] \notin Over
  /\ killed' = [killed EXCEPT ![s] = TRUE]
  /\ UNCHANGED <<docVars, run, copy, meta, left, name, beat, lost,
                 personVars, installVars, histVars>>

(* What renew_lease answers.  Mutant: a dead session's lease is renewed.   *)
RenewsAnyway(s) == TRUE
Renews(s) == ~killed[s]

(* One beat: the session's lease and, once the name is there, the          *)
(* workspace's.  A refusal of either sets the lost event, and the beats    *)
(* are over.                                                               *)
BeatRenew(s) ==
  /\ run[s] \notin Over /\ ~beat[s] /\ ~lost[s]
  /\ Renews(s) /\ run[s] = "setup_tail" => "beat_in_tail" \in Faults
  /\ beat' = [beat EXCEPT ![s] = Renews(s) /\ name[s]]
  /\ lost' = [lost EXCEPT ![s] = ~Renews(s)]
  /\ UNCHANGED <<docVars, run, copy, meta, left, killed, name, personVars, installVars, histVars>>

BeatClaim(s) ==
  /\ beat[s]
  /\ beat' = [beat EXCEPT ![s] = FALSE]
  /\ doc' = Claimed(s)
  /\ lost' = [lost EXCEPT ![s] = ~CanClaim(s)]
  /\ UNCHANGED <<blob, tagged, space, run, copy, meta, left, killed, name,
                 personVars, installVars, histVars>>

(* Whether more beats come for the workspace.                              *)
Beats(s) == name[s] /\ ~lost[s] /\ run[s] \notin Over

(* The lease runs out when nobody renews it, whatever its holder does.     *)
Lapse ==
  /\ LeaseActive
  /\ Beats(doc.holder) => "stall" \in Faults
  /\ doc' = [doc EXCEPT !.live = FALSE]
  /\ UNCHANGED <<blob, tagged, space, runVars, personVars, installVars, histVars>>

-----------------------------------------------------------------------------
(* The person in the console: every change of the directory asks first     *)
(* that no run holds the workspace.                                        *)

(* Mutant: it does not ask.                                                *)
RequireNothing == TRUE
RequireFree == ~LeaseActive

Ask(what) ==
  /\ person = <<"idle">> /\ edits < MaxEdits
  /\ RequireFree
  /\ person' = what
  /\ edits' = edits + 1
  /\ UNCHANGED <<docVars, runVars, installVars, histVars>>

AskToEdit ==
  \/ \E f \in Files, op \in {"write", "delete", "tag"} : Ask(<<op, f>>)
  \/ \E f, g \in Files : f # g /\ Ask(<<"rename", f, g>>)
  \/ Ask(<<"empty">>)

Changed(fs) ==
  since' = [s \in Sessions |-> IF run[s] \in Copied THEN since[s] \cup fs ELSE since[s]]

PersonVars(fs) ==
  /\ Changed(fs)
  /\ UNCHANGED <<doc, space, runVars, edits, installVars, lostEdit, stray>>

(* An overwritten object loses its tags: nothing carries them over here.   *)
WriteFile ==
  /\ person[1] = "write"
  /\ LET f == person[2] IN
     /\ blob' = [blob EXCEPT ![f] = "person"]
     /\ tagged' = [tagged EXCEPT ![f] = FALSE]
     /\ want' = [want EXCEPT ![f] = FALSE]
     /\ PersonVars({f})
  /\ person' = <<"idle">>

DeleteFile ==
  /\ person[1] = "delete" /\ Undisturbed
  /\ LET f == person[2] IN
     /\ blob' = [blob EXCEPT ![f] = "none"]
     /\ tagged' = [tagged EXCEPT ![f] = FALSE]
     /\ want' = [want EXCEPT ![f] = FALSE]
     /\ PersonVars({f})
  /\ person' = <<"idle">>

(* The tags travel; a missing source or a taken target is an error.        *)
RenameFile ==
  /\ person[1] = "rename" /\ Undisturbed
  /\ LET f == person[2] g == person[3] ok == blob[f] # "none" /\ blob[g] = "none" IN
     /\ IF ok
        THEN /\ blob' = [blob EXCEPT ![f] = "none", ![g] = "person"]
             /\ tagged' = [tagged EXCEPT ![f] = FALSE, ![g] = tagged[f]]
             /\ want' = [want EXCEPT ![f] = FALSE, ![g] = tagged[f]]
             /\ PersonVars({f, g})
        ELSE UNCHANGED <<blob, tagged, want>> /\ PersonVars({})
  /\ person' = <<"idle">>

SetTags ==
  /\ person[1] = "tag"
  /\ LET f == person[2] IN
     IF blob[f] # "none"
     THEN /\ tagged' = [tagged EXCEPT ![f] = ~tagged[f]]
          /\ want' = [want EXCEPT ![f] = ~tagged[f]]
     ELSE UNCHANGED <<tagged, want>>
  /\ person' = <<"idle">>
  /\ UNCHANGED <<blob>> /\ PersonVars({})

(* delete_workspace: the files under its root, then the document.          *)
EmptyWorkspace ==
  /\ person = <<"empty">> /\ Undisturbed
  /\ blob' = [f \in Files |-> "none"]
  /\ tagged' = [f \in Files |-> FALSE]
  /\ want' = [f \in Files |-> FALSE]
  /\ PersonVars(Files)
  /\ person' = <<"drop">>

DropWorkspace ==
  /\ person = <<"drop">>
  /\ doc' = Free(FALSE)
  /\ person' = <<"idle">>
  /\ UNCHANGED <<blob, tagged, space, runVars, edits, installVars, histVars>>

(* The command line does not look at the lease, and leaves the files.      *)
WriteClaudeMd ==
  /\ edits < MaxEdits /\ edits' = edits + 1
  /\ LeaseActive => "cli_edit" \in Faults
  /\ \E f \in Files :
       /\ blob' = [blob EXCEPT ![f] = "person"]
       /\ tagged' = [tagged EXCEPT ![f] = FALSE]
       /\ want' = [want EXCEPT ![f] = FALSE]
       /\ Changed({f})
  /\ UNCHANGED <<doc, space, runVars, person, installVars, lostEdit, stray>>

DropDocument ==
  /\ doc.exists
  /\ LeaseActive => "cli_drop" \in Faults
  /\ doc' = Free(FALSE)
  /\ UNCHANGED <<blob, tagged, space, runVars, personVars, installVars, histVars>>

-----------------------------------------------------------------------------
(* presets.install, as it goes for one workspace preset.                   *)

InstallGoto(i, station) == install' = [install EXCEPT ![i] = station]

(* _present: a bare directory counts.                                      *)
Present == doc.exists \/ \E f \in Files : blob[f] # "none"

(* Mutant: what is there already needs nothing.                            *)
LookedAway(i) == IF ~Present THEN "create" ELSE IF i \in Forced THEN "replace" ELSE "done"
LookedAt(i) == IF ~Present THEN "create" ELSE IF i \in Forced THEN "replace" ELSE "files"

InstallLook(i) ==
  /\ install[i] = "off"
  /\ InstallGoto(i, LookedAt(i))
  /\ UNCHANGED <<docVars, runVars, personVars, found, histVars>>

(* workspaces.create.                                                      *)
Created == IF doc.exists THEN doc ELSE Free(TRUE)

(* One that came up meanwhile makes it a skip.                             *)
InstallCreate(i) ==
  /\ install[i] = "create"
  /\ InstallGoto(i, IF doc.exists THEN "files" ELSE "own_files")
  /\ doc' = Created
  /\ UNCHANGED <<blob, tagged, space, runVars, personVars, found, histVars>>

(* workspaces.update makes the document where it is missing.               *)
InstallReplace(i) ==
  /\ install[i] = "replace"
  /\ InstallGoto(i, "own_files")
  /\ doc' = [doc EXCEPT !.exists = TRUE]
  /\ UNCHANGED <<blob, tagged, space, runVars, personVars, found, histVars>>

(* _write_files: what is there is kept, unless it is our own to replace.   *)
PendingFiles(i) ==
  IF install[i] = "own_files" /\ i \in Forced THEN Shipped
  ELSE {f \in Shipped : blob[f] = "none"}

InstallList(i) ==
  /\ install[i] \in {"files", "own_files"}
  /\ found' = [found EXCEPT ![i] = PendingFiles(i)]
  /\ InstallGoto(i, IF PendingFiles(i) = {} THEN "done" ELSE "free")
  /\ UNCHANGED <<docVars, runVars, personVars, histVars>>

(* _require_free.                                                          *)
WritesIfFree == IF LeaseActive THEN "refused" ELSE "write"

InstallAsk(i) ==
  /\ install[i] = "free"
  /\ InstallGoto(i, WritesIfFree)
  /\ UNCHANGED <<docVars, runVars, personVars, found, histVars>>

InstallWrite(i) ==
  /\ install[i] = "write"
  /\ \E f \in found[i] :
       /\ blob' = [blob EXCEPT ![f] = "shipped"]
       /\ tagged' = [tagged EXCEPT ![f] = FALSE]
       /\ want' = [want EXCEPT ![f] = FALSE]
       /\ Changed({f})
       /\ found' = [found EXCEPT ![i] = @ \ {f}]
       /\ InstallGoto(i, IF found[i] = {f} THEN "done" ELSE "write")
  /\ UNCHANGED <<doc, space, runVars, personVars, lostEdit, stray>>

InstallDies(i) ==
  /\ "install_dies" \in Faults
  /\ install[i] \notin {"off", "done", "refused", "dead"}
  /\ InstallGoto(i, "dead")
  /\ UNCHANGED <<docVars, runVars, personVars, found, histVars>>

(* The person creates it in the console.                                   *)
CreateWorkspace ==
  /\ ~Present
  /\ doc' = Created
  /\ UNCHANGED <<blob, tagged, space, runVars, personVars, installVars, histVars>>

-----------------------------------------------------------------------------
RunStep(s) ==
  \/ ClaimWorkspace(s) \/ Connect(s) \/ FailRelease(s) \/ Restore(s)
  \/ GoIdle(s) \/ CheckpointList(s) \/ Upload(s) \/ Uploaded(s)
  \/ Publish(s) \/ Detach(s) \/ Release(s) \/ End(s) \/ Fails(s) \/ Die(s)

Agent(s) == Begin(s) \/ Kill(s) \/ Work(s) \/ PublishTurn(s)

Heartbeat(s) == BeatRenew(s) \/ BeatClaim(s)

PersonActs ==
  WriteFile \/ DeleteFile \/ RenameFile \/ SetTags \/ EmptyWorkspace \/ DropWorkspace

Install(i) ==
  \/ InstallLook(i) \/ InstallCreate(i) \/ InstallReplace(i) \/ InstallList(i)
  \/ InstallAsk(i) \/ InstallWrite(i) \/ InstallDies(i)

Next ==
  \/ \E s \in Sessions : RunStep(s) \/ Agent(s) \/ Heartbeat(s)
  \/ Lapse \/ CreateWorkspace \/ DropDocument \/ WriteClaudeMd
  \/ AskToEdit \/ PersonActs
  \/ \E i \in Installers : Install(i)

Spec == Init /\ [][Next]_vars

(* The event loop gets to a beat, and time passes.  Nothing is assumed of  *)
(* a run: a tool call may hang.                                            *)
Fairness == WF_vars(Lapse) /\ \A s \in Sessions : WF_vars(Heartbeat(s))

FairSpec == Spec /\ Fairness

-----------------------------------------------------------------------------
Contents == {"none", "agent", "person", "shipped"}
InstallStations ==
  {"off", "create", "replace", "files", "own_files", "free", "write", "done", "refused", "dead"}

TypeOK ==
  /\ doc \in [exists : BOOLEAN, holder : Sessions \cup {Nobody}, live : BOOLEAN]
  /\ doc.live => doc.holder # Nobody
  /\ blob \in [Files -> Contents] /\ copy \in [Sessions -> [Files -> Contents]]
  /\ {tagged, want} \subseteq [Files -> BOOLEAN]
  /\ space \in (Sessions \ Readers) \cup {"agent"}
  /\ run \in [Sessions -> Stations]
  /\ {meta, left, since} \subseteq [Sessions -> SUBSET Files]
  /\ {lostEdit, stray} \subseteq SUBSET Files
  /\ {killed, name, beat, lost} \subseteq [Sessions -> BOOLEAN]
  /\ install \in [Installers -> InstallStations] /\ found \in [Installers -> SUBSET Shipped]
  /\ edits \in 0..MaxEdits

(* The directory belongs to one run at a time, from the claim to its last  *)
(* write.  Beside it there may only be runs that have been told to stop:   *)
(* their heartbeat has set the lost event, on a kill for example, and the  *)
(* lease lapsed before they looked.                                        *)
OneInWorkspace ==
  \A s, t \in Sessions :
    {run[s], run[t]} \subseteq InWorkspace => s = t \/ lost[s] \/ lost[t]

(* No run checkpoints over what the person or an install has changed after *)
(* the run copied the directory, unless it was told to stop before.        *)
EditsStay == lostEdit \subseteq stray

(* The tags the person gave a file are on it, however many runs rewrote    *)
(* the file since, as long as none of them was told to stop before.        *)
TagsStay ==
  \A f \in Files \ stray : blob[f] # "none" => (tagged[f] <=> want[f])

(* A run that has come to its end does not keep its siblings out; one that *)
(* lost its lease leaves it to lapse.                                      *)
DoneHoldsNothing ==
  \A s \in Sessions : run[s] = "done" /\ ~lost[s] => ~(LeaseActive /\ doc.holder = s)

(* In the end no lease is live for a session that was killed or whose run  *)
(* is over, however it came about and even if the killed run hangs.        *)
KillFrees ==
  <>[]~(LeaseActive /\ (killed[doc.holder] \/ run[doc.holder] \in {"dead", "done"}))

(* What the heartbeat says of the lost event: the run stops instead of     *)
(* writing over the new owner.                                             *)
StopsForOwner ==
  [][\A s \in Sessions : run[s] = "upload" /\ left'[s] # left[s] /\ run'[s] = "upload" =>
       ~(LeaseActive /\ doc.holder # s)]_vars

(* An install that comes to its end leaves the whole preset behind, though *)
(* the one before died between the document and the files.                 *)
InstallIsWhole ==
  [][\A i \in Installers : install[i] # "done" /\ install'[i] = "done" =>
       \A f \in Shipped : blob'[f] # "none"]_vars
=============================================================================
