-------------------------- MODULE WorkspaceFilesProofs --------------------------
(***************************************************************************)
(* Theorems about WorkspaceFiles, for any sessions, files, installs and    *)
(* number of edits, and for sessions that may be killed at any point: its  *)
(* types, that the directory belongs to one run at a time, that no edit    *)
(* and no tag is lost to a checkpoint of a run that has its lease, that    *)
(* who comes to its end holds nothing and that an install that ends is     *)
(* whole.  What they assume of the timing is said with each.               *)
(***************************************************************************)
EXTENDS WorkspaceFiles, TLAPS

RunActs(s) ==
  \/ Begin(s) \/ Kill(s) \/ ClaimWorkspace(s) \/ Connect(s) \/ FailRelease(s)
  \/ Restore(s) \/ Work(s) \/ PublishTurn(s) \/ GoIdle(s) \/ CheckpointList(s)
  \/ Upload(s) \/ Uploaded(s) \/ Publish(s) \/ Detach(s) \/ Release(s) \/ End(s)
  \/ Fails(s) \/ Die(s) \/ BeatRenew(s) \/ BeatClaim(s)

LEMMA Cases ==
  ASSUME [Next]_vars
  PROVE  \/ \E s \in Sessions : RunActs(s)
         \/ Lapse
         \/ CreateWorkspace
         \/ DropDocument
         \/ WriteClaudeMd
         \/ AskToEdit
         \/ PersonActs
         \/ \E i \in Installers : Install(i)
         \/ UNCHANGED vars
  BY DEF Next, RunStep, Agent, Heartbeat, RunActs

-----------------------------------------------------------------------------
(* The types.                                                              *)
PersonOK ==
  \/ person \in {<<"idle">>, <<"empty">>, <<"drop">>}
  \/ person[1] \in {"write", "delete", "tag"} /\ person[2] \in Files
  \/ person[1] = "rename" /\ person[2] \in Files /\ person[3] \in Files

Typed == TypeOK /\ PersonOK

LEMMA TypeInit == Init => Typed
<1> SUFFICES ASSUME Init
             PROVE  Typed
  OBVIOUS
<1>1. /\ blob \in [Files -> Contents] /\ tagged \in [Files -> BOOLEAN]
      /\ want \in [Files -> BOOLEAN]
  BY DEF Init, Contents
<1>2. doc \in [exists : BOOLEAN, holder : Sessions \cup {Nobody}, live : BOOLEAN] /\ ~doc.live
  BY DEF Init, Free
<1>3. copy \in [Sessions -> [Files -> Contents]]
  BY DEF Init, Contents
<1>4. PersonOK
  BY DEF Init, PersonOK
<1>5. /\ {meta, left, since} \subseteq [Sessions -> SUBSET Files]
      /\ {killed, name, beat, lost} \subseteq [Sessions -> BOOLEAN]
      /\ lostEdit = {} /\ stray = {}
      /\ install \in [Installers -> InstallStations] /\ found \in [Installers -> SUBSET Shipped]
      /\ run \in [Sessions -> Stations]
  BY DEF Init, Stations, Over, InstallStations
<1>6. edits \in 0..MaxEdits /\ space = "agent"
  BY BoundAssumption DEF Init
<1> QED
  BY <1>1, <1>2, <1>3, <1>4, <1>5, <1>6 DEF Typed, TypeOK

DocType == [exists : BOOLEAN, holder : Sessions \cup {Nobody}, live : BOOLEAN]

LEMMA DocTypes ==
  ASSUME Typed, NEW s \in Sessions
  PROVE  /\ Claimed(s) \in DocType /\ (Claimed(s).live => Claimed(s).holder # Nobody)
         /\ Released(s) \in DocType /\ (Released(s).live => Released(s).holder # Nobody)
         /\ \A b \in BOOLEAN : Free(b) \in DocType /\ ~Free(b).live
<1>1. doc \in DocType /\ (doc.live => doc.holder # Nobody)
  BY DEF Typed, TypeOK, DocType
<1>2. Held(s) \in DocType /\ Held(s).holder # Nobody
  BY NobodyAssumption DEF Held, DocType
<1>3. \A b \in BOOLEAN : Free(b) \in DocType /\ ~Free(b).live
  BY DEF Free, DocType
<1> QED
  BY <1>1, <1>2, <1>3 DEF Claimed, Released

LEMMA RunTypes ==
  ASSUME Typed, NEW s \in Sessions, RunActs(s)
  PROVE  Typed'
<1> USE DEF Typed, TypeOK, docVars, runVars, personVars, installVars, histVars
<1>p. person' = person
  BY DEF RunActs, Begin, Kill, ClaimWorkspace, Connect, FailRelease, Restore, Work, PublishTurn,
         PublishSpaces, GoIdle, CheckpointList, Upload, Uploaded, Publish, Detach, Release, End,
         Fails, Die, BeatRenew, BeatClaim
<1>q. PersonOK'
  BY <1>p DEF PersonOK
<1>g. \A t \in Stations : Goto(s, t) => run' \in [Sessions -> Stations]
  BY DEF Goto
<1>t. {"claim", "connect", "done", "fail", "restore", "setup_failed", "setup_tail", "fail_tail",
       "work", "list", "upload", "publish", "detach", "release", "tail", "dead"} \subseteq Stations
  BY DEF Stations, Over, InWorkspace, Copied
<1>f. Forgets(s) => /\ copy' \in [Sessions -> [Files -> Contents]]
                    /\ {meta', left', since'} \subseteq [Sessions -> SUBSET Files]
  BY DEF Forgets, Contents
<1>1. CASE Begin(s) \/ Connect(s)
  BY <1>1, <1>q, <1>g, <1>t DEF Begin, Connect
<1>17. CASE Uploaded(s)
  BY <1>17, <1>q, <1>g, <1>t DEF Uploaded
<1>k. CASE Kill(s)
  BY <1>k, <1>q DEF Kill
<1>c. CanClaim(s) \in BOOLEAN
  BY DEF CanClaim, LeaseActive
<1>2. CASE ClaimWorkspace(s)
  BY <1>2, <1>c, <1>q, <1>g, <1>t, DocTypes DEF ClaimWorkspace, DocType
<1>3. CASE FailRelease(s)
  BY <1>3, <1>q, <1>g, <1>t, DocTypes DEF FailRelease, DocType
<1>4. CASE Restore(s)
  BY <1>4, <1>q, <1>g, <1>t DEF Restore
<1>5. CASE Work(s)
  BY <1>5, <1>q DEF Work, Contents
<1>6. CASE PublishTurn(s) \/ Publish(s)
  BY <1>6, <1>q, <1>g, <1>t DEF PublishTurn, Publish, PublishSpaces, WritesSpace
<1>7. CASE GoIdle(s)
  BY <1>7, <1>q, <1>g, <1>t, <1>f DEF GoIdle
<1>8. CASE CheckpointList(s)
  BY <1>8, <1>q, <1>g, <1>t DEF CheckpointList
<1>9. CASE Upload(s)
  BY <1>9, <1>q DEF Upload, Metadata, Contents
<1>10. CASE Detach(s)
  BY <1>10, <1>q, <1>g, <1>t DEF Detach, Detached
<1>11. CASE Release(s)
  BY <1>11, <1>q, <1>g, <1>t, <1>f, DocTypes DEF Release, DocType
<1>12. CASE End(s)
  BY <1>12, <1>q, <1>g, <1>t DEF End
<1>13. CASE BeatRenew(s)
  BY <1>13, <1>q DEF BeatRenew, Renews
<1>14. CASE BeatClaim(s)
  BY <1>14, <1>q, DocTypes DEF BeatClaim, DocType
<1>15. CASE Die(s)
  BY <1>15, <1>q, <1>g, <1>t, <1>f DEF Die
<1>16. CASE Fails(s)
  <2>1. run' \in [Sessions -> Stations]
    <3>1. Goto(s, "dead") \/ Goto(s, "fail")
      BY <1>16 DEF Fails
    <3> QED
      BY <3>1, <1>g, <1>t
  <2>3. name' \in [Sessions -> BOOLEAN]
    <3>1. name' = name \/ name' = [name EXCEPT ![s] = FALSE]
      BY <1>16 DEF Fails
    <3> QED
      BY <3>1
  <2>4. beat' \in [Sessions -> BOOLEAN]
    <3>1. beat' = beat \/ beat' = [beat EXCEPT ![s] = FALSE]
      BY <1>16 DEF Fails
    <3> QED
      BY <3>1
  <2>2. /\ copy' \in [Sessions -> [Files -> Contents]]
        /\ {meta', left', since'} \subseteq [Sessions -> SUBSET Files]
    BY <1>16, <1>f DEF Fails
  <2> QED
    BY <1>16, <1>q, <2>1, <2>2, <2>3, <2>4 DEF Fails
<1> QED
  BY <1>1, <1>k, <1>2, <1>3, <1>4, <1>5, <1>6, <1>7, <1>8, <1>9, <1>10, <1>11, <1>12, <1>13,
     <1>14, <1>15, <1>16, <1>17 DEF RunActs

LEMMA PersonTypes ==
  ASSUME Typed, AskToEdit \/ PersonActs
  PROVE  Typed'
<1> USE DEF Typed, TypeOK, docVars, runVars, personVars, installVars, histVars
<1>c. \A fs \in SUBSET Files : Changed(fs) => since' \in [Sessions -> SUBSET Files]
  BY DEF Changed
<1>1. ASSUME NEW what, Ask(what), PersonOK' PROVE Typed'
  BY <1>1, BoundAssumption DEF Ask
<1>2. CASE AskToEdit
  <2>1. ASSUME NEW f \in Files, NEW op \in {"write", "delete", "tag"}, Ask(<<op, f>>)
        PROVE  Typed'
    BY <2>1, <1>1 DEF Ask, PersonOK
  <2>2. ASSUME NEW f \in Files, NEW g \in Files, Ask(<<"rename", f, g>>)
        PROVE  Typed'
    BY <2>2, <1>1 DEF Ask, PersonOK
  <2>3. CASE Ask(<<"empty">>)
    BY <2>3, <1>1 DEF Ask, PersonOK
  <2> QED
    BY <1>2, <2>1, <2>2, <2>3 DEF AskToEdit
<1>p. PersonActs => PersonOK'
  BY DEF PersonActs, PersonOK, WriteFile, DeleteFile, RenameFile, SetTags, EmptyWorkspace,
         DropWorkspace
<1>3. CASE WriteFile
  <2>1. person[2] \in Files
    BY <1>3 DEF WriteFile, PersonOK
  <2> QED
    BY <1>3, <1>p, <1>c, <2>1 DEF WriteFile, PersonVars, Contents, PersonActs
<1>4. CASE DeleteFile
  <2>1. person[2] \in Files
    BY <1>4 DEF DeleteFile, PersonOK
  <2> QED
    BY <1>4, <1>p, <1>c, <2>1 DEF DeleteFile, PersonVars, Contents, PersonActs
<1>5. CASE RenameFile
  <2>1. person[2] \in Files /\ person[3] \in Files
    BY <1>5 DEF RenameFile, PersonOK
  <2>2. {} \in SUBSET Files /\ {person[2], person[3]} \in SUBSET Files
    BY <2>1
  <2>3. /\ since' \in [Sessions -> SUBSET Files]
        /\ UNCHANGED <<doc, space, runVars, edits, installVars, lostEdit, stray>>
    BY <1>5, <1>c, <2>2 DEF RenameFile, PersonVars
  <2>4. /\ blob' \in [Files -> Contents]
        /\ tagged' \in [Files -> BOOLEAN] /\ want' \in [Files -> BOOLEAN]
    <3>1. CASE UNCHANGED <<blob, tagged, want>>
      BY <3>1
    <3>2. CASE /\ blob' = [blob EXCEPT ![person[2]] = "none", ![person[3]] = "person"]
               /\ tagged' = [tagged EXCEPT ![person[2]] = FALSE, ![person[3]] = tagged[person[2]]]
               /\ want' = [want EXCEPT ![person[2]] = FALSE, ![person[3]] = tagged[person[2]]]
      <4>1. tagged[person[2]] \in BOOLEAN
        BY <2>1
      <4> QED
        BY <3>2, <4>1, <2>1 DEF Contents
    <3> QED
      BY <1>5, <3>1, <3>2 DEF RenameFile
  <2> QED
    BY <1>5, <1>p, <2>3, <2>4 DEF PersonActs
<1>6. CASE SetTags
  <2>1. person[2] \in Files
    BY <1>6 DEF SetTags, PersonOK
  <2>2. tagged' \in [Files -> BOOLEAN] /\ want' \in [Files -> BOOLEAN]
    BY <1>6, <2>1 DEF SetTags
  <2>3. UNCHANGED <<doc, blob, space, runVars, edits, installVars, lostEdit, stray>> /\ Changed({})
    BY <1>6 DEF SetTags, PersonVars
  <2>4. since' \in [Sessions -> SUBSET Files]
    BY <2>3, <1>c
  <2> QED
    BY <1>6, <1>p, <2>2, <2>3, <2>4 DEF PersonActs
<1>7. CASE EmptyWorkspace
  BY <1>7, <1>p, <1>c DEF EmptyWorkspace, PersonVars, Contents, PersonActs
<1>8. CASE DropWorkspace
  BY <1>8, <1>p DEF DropWorkspace, PersonActs, Free
<1> QED
  BY <1>2, <1>3, <1>4, <1>5, <1>6, <1>7, <1>8 DEF PersonActs

LEMMA InstallTypes ==
  ASSUME Typed, NEW i \in Installers, Install(i)
  PROVE  Typed'
<1> USE DEF Typed, TypeOK, docVars, runVars, personVars, installVars, histVars, InstallGoto
<1>p. person' = person
  BY DEF Install, InstallLook, InstallCreate, InstallReplace, InstallList, InstallAsk,
         InstallWrite, InstallDies
<1>q. PersonOK'
  BY <1>p DEF PersonOK
<1>i. install' \in [Installers -> InstallStations]
  BY DEF Install, InstallLook, InstallCreate, InstallReplace, InstallList, InstallAsk,
         InstallWrite, InstallDies, LookedAt, WritesIfFree, InstallStations
<1>1. CASE InstallLook(i) \/ InstallAsk(i) \/ InstallDies(i)
  BY <1>1, <1>i, <1>q DEF InstallLook, InstallAsk, InstallDies
<1>2. CASE InstallCreate(i)
  BY <1>2, <1>i, <1>q DEF InstallCreate, Created, Free
<1>3. CASE InstallReplace(i)
  BY <1>3, <1>i, <1>q DEF InstallReplace
<1>4. CASE InstallList(i)
  BY <1>4, <1>i, <1>q DEF InstallList, PendingFiles
<1>5. CASE InstallWrite(i)
  <2>1. PICK f \in found[i] :
          /\ blob' = [blob EXCEPT ![f] = "shipped"]
          /\ tagged' = [tagged EXCEPT ![f] = FALSE]
          /\ want' = [want EXCEPT ![f] = FALSE]
          /\ Changed({f})
          /\ found' = [found EXCEPT ![i] = @ \ {f}]
    BY <1>5 DEF InstallWrite
  <2>2. f \in Files
    BY <2>1, SetAssumption
  <2> QED
    BY <1>5, <1>i, <1>q, <2>1, <2>2 DEF InstallWrite, Changed, Contents
<1> QED
  BY <1>1, <1>2, <1>3, <1>4, <1>5 DEF Install

LEMMA TypeStep == Typed /\ [Next]_vars => Typed'
<1> SUFFICES ASSUME Typed, [Next]_vars
             PROVE  Typed'
  OBVIOUS
<1>1. CASE Lapse
  BY <1>1 DEF Lapse, Typed, TypeOK, PersonOK, runVars, personVars, installVars, histVars
<1>2. CASE UNCHANGED vars
  BY <1>2 DEF vars, Typed, TypeOK, PersonOK
<1>3. CASE CreateWorkspace
  BY <1>3 DEF CreateWorkspace, Created, Free, Typed, TypeOK, PersonOK, runVars, personVars,
              installVars, histVars
<1>4. CASE DropDocument
  BY <1>4 DEF DropDocument, Free, Typed, TypeOK, PersonOK, runVars, personVars, installVars,
              histVars
<1>5. CASE WriteClaudeMd
  <2>1. \A fs \in SUBSET Files : Changed(fs) => since' \in [Sessions -> SUBSET Files]
    BY DEF Changed, Typed, TypeOK
  <2>2. edits' \in 0..MaxEdits /\ person' = person /\ PersonOK'
    BY <1>5, BoundAssumption DEF WriteClaudeMd, Typed, TypeOK, PersonOK
  <2>3. PICK f \in Files : /\ blob' = [blob EXCEPT ![f] = "person"]
                          /\ tagged' = [tagged EXCEPT ![f] = FALSE]
                          /\ want' = [want EXCEPT ![f] = FALSE]
                          /\ Changed({f})
    BY <1>5 DEF WriteClaudeMd
  <2> QED
    BY <1>5, <2>1, <2>2, <2>3 DEF WriteClaudeMd, Typed, TypeOK, Contents, runVars, installVars
<1> QED
  BY <1>1, <1>2, <1>3, <1>4, <1>5, Cases, RunTypes, PersonTypes, InstallTypes

(* Every state is of its type, whatever goes wrong when.                   *)
THEOREM TypeCorrect == Spec => []TypeOK
<1>1. Init => Typed
  BY TypeInit
<1>2. Typed /\ [Next]_vars => Typed'
  BY TypeStep
<1>3. Typed => TypeOK
  BY DEF Typed
<1> QED
  BY <1>1, <1>2, <1>3, PTL DEF Spec

-----------------------------------------------------------------------------
(* Who has the directory.  While an editor acts on its look at the lease   *)
(* nobody claims, nobody drops the document without such a look, and no    *)
(* lease lapses under beats: the theorems below are about those timings.   *)
(* A run whose heartbeat has given up is promised nothing.                 *)
Heeded == Faults \cap {"slow_edit", "cli_drop", "stall"} = {}

HoldsLease ==
  \A s \in Sessions :
    run[s] \in InWorkspace /\ ~lost[s] => LeaseActive /\ doc.holder = s /\ name[s]

QuietWhileLooked == Looked => \A s \in Sessions : run[s] \in InWorkspace => lost[s]

BeatOrLost == \A s \in Sessions : ~(beat[s] /\ lost[s])

LeaseInv == Typed /\ HoldsLease /\ QuietWhileLooked /\ BeatOrLost

LEMMA LeaseInit == Init => LeaseInv
  BY TypeInit DEF Init, LeaseInv, HoldsLease, QuietWhileLooked, BeatOrLost, InWorkspace, Copied

LEMMA LeaseRun ==
  ASSUME LeaseInv, Heeded, NEW s \in Sessions, RunActs(s)
  PROVE  HoldsLease' /\ QuietWhileLooked' /\ BeatOrLost'
<1> USE DEF LeaseInv, HoldsLease, QuietWhileLooked, BeatOrLost
<1>h. "slow_edit" \notin Faults
  BY DEF Heeded
<1>t. /\ run \in [Sessions -> Stations]
      /\ name \in [Sessions -> BOOLEAN] /\ beat \in [Sessions -> BOOLEAN]
      /\ lost \in [Sessions -> BOOLEAN]
  BY DEF Typed, TypeOK
<1>u. UNCHANGED <<person, install>>
  BY DEF RunActs, Begin, Kill, ClaimWorkspace, Connect, FailRelease, Restore, Work, PublishTurn,
         PublishSpaces, GoIdle, CheckpointList, Upload, Uploaded, Publish, Detach, Release, End,
         Fails, Die, BeatRenew, BeatClaim, personVars, installVars
<1>v. Looked' = Looked
  BY <1>u DEF Looked
<1>1. ASSUME UNCHANGED <<doc, lost>>,
             NEW x, run' = [run EXCEPT ![s] = x],
             x \in InWorkspace => run[s] \in InWorkspace /\ name' = name,
             \A r \in Sessions \ {s} : name'[r] = name[r] /\ beat'[r] = beat[r],
             beat'[s] => beat[s]
      PROVE  HoldsLease' /\ QuietWhileLooked' /\ BeatOrLost'
  BY <1>1, <1>t, <1>v DEF LeaseActive
<1>2. CASE Begin(s) \/ Connect(s) \/ Restore(s) \/ CheckpointList(s) \/ Uploaded(s)
  BY <1>2, <1>1 DEF Begin, Connect, Restore, CheckpointList, Uploaded, Goto, docVars, InWorkspace,
                    Copied
<1>3. CASE Publish(s) \/ GoIdle(s)
  BY <1>3, <1>1 DEF Publish, PublishSpaces, GoIdle, Goto, docVars, InWorkspace, Copied
<1>4. CASE Die(s) \/ End(s) \/ Detach(s) \/ Fails(s)
  <2>1. CASE Die(s) \/ End(s)
    BY <1>1, <2>1, <1>t DEF Die, End, Goto, docVars, InWorkspace, Copied
  <2>2. CASE Detach(s)
    BY <1>1, <2>2, <1>t DEF Detach, Detached, Goto, docVars, InWorkspace, Copied
  <2>3. CASE Fails(s)
    <3>1. PICK x \in {"dead", "fail"} : run' = [run EXCEPT ![s] = x]
      BY <2>3 DEF Fails, Goto
    <3>2. /\ UNCHANGED <<doc, lost>> /\ (beat'[s] => beat[s])
          /\ \A r \in Sessions \ {s} : name'[r] = name[r] /\ beat'[r] = beat[r]
      BY <2>3, <1>t DEF Fails, docVars
    <3> QED
      BY <3>1, <3>2, <1>1 DEF InWorkspace, Copied
  <2> QED
    BY <1>4, <2>1, <2>2, <2>3
<1>5. CASE Work(s) \/ PublishTurn(s) \/ Upload(s) \/ Kill(s)
  BY <1>5, <1>v DEF Work, PublishTurn, PublishSpaces, Upload, Kill, docVars, LeaseActive
<1>6. CASE BeatRenew(s)
  <2>1. /\ UNCHANGED <<doc, run, name>> /\ ~lost[s]
        /\ beat' = [beat EXCEPT ![s] = beat'[s]] /\ lost' = [lost EXCEPT ![s] = lost'[s]]
        /\ ~(beat'[s] /\ lost'[s])
    BY <1>6, <1>t DEF BeatRenew, Renews, docVars
  <2> QED
    BY <2>1, <1>t, <1>v DEF LeaseActive
<1>7. CASE ClaimWorkspace(s)
  <2>1. ~Looked
    BY <1>7, <1>h DEF ClaimWorkspace
  <2>2. CASE CanClaim(s)
    <3>1. /\ doc' = Held(s) /\ run' = [run EXCEPT ![s] = "connect"]
          /\ name' = [name EXCEPT ![s] = TRUE] /\ UNCHANGED <<beat, lost>> /\ run[s] = "claim"
      BY <1>7, <2>2 DEF ClaimWorkspace, Claimed, Goto
    <3>2. \A r \in Sessions \ {s} : run[r] \in InWorkspace => lost[r]
      BY <2>2, <3>1 DEF CanClaim
    <3>3. LeaseActive' /\ doc'.holder = s
      BY <3>1, NobodyAssumption DEF Held, LeaseActive
    <3> QED
      BY <3>1, <3>2, <3>3, <2>1, <1>v, <1>t
  <2>3. CASE ~CanClaim(s)
    <3>1. CanClaim(s) = FALSE
      BY <2>3 DEF CanClaim, LeaseActive
    <3>2. /\ doc' = doc /\ run' = [run EXCEPT ![s] = "tail"]
          /\ name' = [name EXCEPT ![s] = FALSE] /\ UNCHANGED <<beat, lost>> /\ run[s] = "claim"
      BY <1>7, <3>1, <1>t DEF ClaimWorkspace, Claimed, Goto
    <3> QED
      BY <3>2, <1>1, <1>t DEF InWorkspace, Copied
  <2> QED
    BY <2>2, <2>3
<1>8. CASE FailRelease(s) \/ Release(s)
  <2>1. PICK x \in {"fail_tail", "setup_tail", "tail"} : run' = [run EXCEPT ![s] = x]
    BY <1>8 DEF FailRelease, Release, Goto
  <2>2. /\ doc' = Released(s) /\ UNCHANGED <<name, beat, lost>>
        /\ run[s] \in {"fail", "setup_failed", "release"}
    BY <1>8, <1>t DEF FailRelease, Release
  <2>3. \A r \in Sessions \ {s} : run[r] \in InWorkspace /\ ~lost[r] => doc' = doc
    BY <2>2 DEF Released
  <2>4. x \notin InWorkspace
    BY <2>1 DEF InWorkspace, Copied
  <2> QED
    BY <2>1, <2>2, <2>3, <2>4, <1>v, <1>t DEF LeaseActive
<1>9. CASE BeatClaim(s)
  <2>1. /\ doc' = Claimed(s) /\ lost' = [lost EXCEPT ![s] = ~CanClaim(s)] /\ beat[s]
        /\ beat' = [beat EXCEPT ![s] = FALSE] /\ UNCHANGED <<run, name>>
    BY <1>9 DEF BeatClaim
  <2>2. ASSUME NEW r \in Sessions, run[r] \in InWorkspace, ~lost'[r]
        PROVE  ~lost[r] /\ LeaseActive' /\ doc'.holder = r /\ name'[r]
    <3>1. CASE r # s
      <4>1. ~lost[r]
        BY <2>1, <2>2, <3>1, <1>t
      <4>2. doc' = doc
        BY <2>1, <2>2, <3>1, <4>1 DEF Claimed, CanClaim
      <4> QED
        BY <2>1, <2>2, <4>1, <4>2 DEF LeaseActive
    <3>2. CASE r = s
      <4>1. ~lost[s]
        BY <2>1
      <4>2. doc' = Held(s)
        BY <2>1, <2>2, <3>2, <4>1 DEF Claimed, CanClaim
      <4> QED
        BY <2>1, <2>2, <3>2, <4>1, <4>2, NobodyAssumption DEF Held, LeaseActive
    <3> QED
      BY <3>1, <3>2
  <2> QED
    BY <2>1, <2>2, <1>v, <1>t
<1> QED
  BY <1>2, <1>3, <1>4, <1>5, <1>6, <1>7, <1>8, <1>9 DEF RunActs

LEMMA LeaseOthers ==
  ASSUME LeaseInv, Heeded,
         \/ Lapse \/ CreateWorkspace \/ DropDocument \/ WriteClaudeMd \/ AskToEdit \/ PersonActs
         \/ \E i \in Installers : Install(i)
  PROVE  HoldsLease' /\ QuietWhileLooked' /\ BeatOrLost'
<1> USE DEF LeaseInv, HoldsLease, QuietWhileLooked, BeatOrLost
<1>1. ASSUME UNCHANGED <<run, name, beat, lost>>,
             \A s \in Sessions : run[s] \in InWorkspace /\ ~lost[s] =>
               LeaseActive' /\ doc'.holder = doc.holder,
             Looked' => Looked \/ ~LeaseActive
      PROVE  HoldsLease' /\ QuietWhileLooked' /\ BeatOrLost'
  BY <1>1
<1>2. CASE Lapse
  <2>1. UNCHANGED <<run, name, beat, lost, person, install>>
    BY <1>2 DEF Lapse, runVars, personVars, installVars
  <2>2. \A s \in Sessions : ~(run[s] \in InWorkspace /\ ~lost[s])
    BY <1>2 DEF Lapse, Heeded, Beats, Over, InWorkspace, Copied
  <2> QED
    BY <2>1, <2>2, <1>1 DEF Looked
<1>3. CASE AskToEdit
  <2>1. ~LeaseActive /\ UNCHANGED <<doc, run, name, beat, lost>>
    BY <1>3 DEF AskToEdit, Ask, RequireFree, docVars, runVars
  <2> QED
    BY <2>1, <1>1
<1>4. CASE PersonActs
  <2>1. Looked
    <3>1. CASE person[1] \in {"write", "delete", "rename", "tag"}
      BY <3>1 DEF Looked
    <3>2. CASE person \in {<<"empty">>, <<"drop">>}
      BY <3>2 DEF Looked
    <3> QED
      BY <1>4, <3>1, <3>2 DEF PersonActs, WriteFile, DeleteFile, RenameFile, SetTags,
                              EmptyWorkspace, DropWorkspace
  <2>2. UNCHANGED <<run, name, beat, lost>>
    BY <1>4 DEF PersonActs, WriteFile, DeleteFile, RenameFile, SetTags, EmptyWorkspace,
                DropWorkspace, PersonVars, runVars
  <2> QED
    BY <2>1, <2>2, <1>1
<1>5. ASSUME NEW i \in Installers, Install(i)
      PROVE  HoldsLease' /\ QuietWhileLooked' /\ BeatOrLost'
  <2>1. UNCHANGED <<run, name, beat, lost, person>>
    BY <1>5 DEF Install, InstallLook, InstallCreate, InstallReplace, InstallList, InstallAsk,
                InstallWrite, InstallDies, runVars, personVars
  <2>2. LeaseActive => doc' = doc
    <3>1. LeaseActive /\ InstallReplace(i) => doc' = doc
      BY DEF InstallReplace, LeaseActive, Typed, TypeOK
    <3> QED
      BY <1>5, <3>1 DEF Install, InstallLook, InstallCreate, Created, InstallList, InstallAsk,
                        InstallWrite, InstallDies, docVars, LeaseActive
  <2>3. Looked' => Looked \/ ~LeaseActive
    <3>1. CASE InstallAsk(i)
      BY <3>1, <2>1 DEF InstallAsk, WritesIfFree, InstallGoto, Looked
    <3>2. CASE InstallWrite(i)
      BY <3>2, <2>1 DEF InstallWrite, Looked
    <3>3. CASE InstallLook(i) \/ InstallCreate(i) \/ InstallReplace(i) \/ InstallList(i)
                 \/ InstallDies(i)
      <4>1. PICK x : x # "write" /\ install' = [install EXCEPT ![i] = x]
        BY <3>3 DEF InstallLook, InstallCreate, InstallReplace, InstallList, InstallDies,
                    InstallGoto, LookedAt
      <4>2. \A j \in Installers : install'[j] = "write" => install[j] = "write"
        BY <4>1 DEF Typed, TypeOK
      <4> QED
        BY <4>2, <2>1 DEF Looked
    <3> QED
      BY <1>5, <3>1, <3>2, <3>3 DEF Install
  <2> QED
    BY <2>1, <2>2, <2>3, <1>1 DEF LeaseActive
<1>6. CASE CreateWorkspace
  <2>1. UNCHANGED <<run, name, beat, lost, person, install>>
    BY <1>6 DEF CreateWorkspace, runVars, personVars, installVars
  <2>2. LeaseActive => doc' = doc
    BY <1>6 DEF CreateWorkspace, Created, LeaseActive
  <2> QED
    BY <2>1, <2>2, <1>1 DEF LeaseActive, Looked
<1>7. CASE DropDocument
  <2>1. ~LeaseActive /\ UNCHANGED <<run, name, beat, lost, person, install>>
    BY <1>7 DEF DropDocument, Heeded, runVars, personVars, installVars
  <2> QED
    BY <2>1, <1>1 DEF Looked
<1>8. CASE WriteClaudeMd
  <2>1. UNCHANGED <<doc, run, name, beat, lost, person, install>>
    BY <1>8 DEF WriteClaudeMd, runVars, installVars
  <2> QED
    BY <2>1, <1>1 DEF Looked, LeaseActive
<1> QED
  BY <1>2, <1>3, <1>4, <1>5, <1>6, <1>7, <1>8

LEMMA LeaseStep == Heeded /\ LeaseInv /\ [Next]_vars => LeaseInv'
<1> SUFFICES ASSUME Heeded, LeaseInv, [Next]_vars
             PROVE  LeaseInv'
  OBVIOUS
<1>1. Typed'
  BY TypeStep DEF LeaseInv
<1>2. CASE UNCHANGED vars
  BY <1>2, <1>1 DEF vars, LeaseInv, HoldsLease, QuietWhileLooked, BeatOrLost, LeaseActive,
                    Looked
<1> QED
  BY <1>1, <1>2, Cases, LeaseRun, LeaseOthers DEF LeaseInv

(* One run at a time is at work in the directory, but for runs that have   *)
(* been told to stop, provided that nobody claims between an editor's look *)
(* and its write, that the command line drops no document under a live     *)
(* lease, and that beats get through within a ttl.                         *)
THEOREM OneAtATime == Heeded => (Spec => []OneInWorkspace)
<1> SUFFICES ASSUME Heeded
             PROVE  Spec => []OneInWorkspace
  OBVIOUS
<1>1. LeaseInv => OneInWorkspace
  BY DEF LeaseInv, HoldsLease, OneInWorkspace
<1>2. LeaseInv /\ [Next]_vars => LeaseInv'
  BY LeaseStep
<1> QED
  BY <1>1, <1>2, LeaseInit, PTL DEF Spec

-----------------------------------------------------------------------------
(* What the person does to a file, from the console or, where no run holds *)
(* the lease, from the command line.  Whoever changes a file has looked at *)
(* the lease, so no run that still has its own holds a copy at that moment. *)
Guarded == Heeded /\ "cli_edit" \notin Faults

LEMMA NoCopyWhileLooked ==
  ASSUME LeaseInv, Looked \/ ~LeaseActive, NEW fs, Changed(fs), NEW s \in Sessions, ~lost[s]
  PROVE  run[s] \notin Copied
  BY DEF LeaseInv, QuietWhileLooked, HoldsLease, InWorkspace

LEMMA EditorsLooked ==
  /\ PersonActs => Looked
  /\ \A i \in Installers : InstallWrite(i) => Looked
<1>1. person[1] \in {"write", "delete", "rename", "tag"} => Looked
  BY DEF Looked
<1>2. person \in {<<"empty">>, <<"drop">>} => Looked
  BY DEF Looked
<1> QED
  BY <1>1, <1>2 DEF PersonActs, WriteFile, DeleteFile, RenameFile, SetTags, EmptyWorkspace,
                    DropWorkspace, InstallWrite, Looked

(* A copy is out of date only with a run whose heartbeat has given up.     *)
EditInv ==
  /\ \A s \in Sessions : run[s] \in Copied /\ ~lost[s] => since[s] = {}
  /\ lostEdit \subseteq stray

LEMMA EditStep == Guarded /\ LeaseInv /\ EditInv /\ [Next]_vars => EditInv'
<1> SUFFICES ASSUME Guarded, LeaseInv, EditInv, [Next]_vars
             PROVE  EditInv'
  OBVIOUS
<1>t. /\ since \in [Sessions -> SUBSET Files] /\ run \in [Sessions -> Stations]
      /\ lost \in [Sessions -> BOOLEAN]
  BY DEF LeaseInv, Typed, TypeOK
<1>1. ASSUME UNCHANGED <<since, lostEdit, stray>>,
             \A s \in Sessions : run'[s] \in Copied /\ ~lost'[s] => run[s] \in Copied /\ ~lost[s]
      PROVE  EditInv'
  BY <1>1 DEF EditInv
<1>c. ASSUME UNCHANGED <<run, lost, lostEdit, stray>>, Looked \/ ~LeaseActive, NEW fs, Changed(fs)
      PROVE  EditInv'
  BY <1>c, NoCopyWhileLooked DEF EditInv
<1>2. ASSUME NEW s \in Sessions, RunActs(s)
      PROVE  EditInv'
  <2>1. CASE Restore(s)
    <3>1. /\ run' = [run EXCEPT ![s] = "work"] /\ since' = [since EXCEPT ![s] = {}]
          /\ UNCHANGED <<lost, lostEdit, stray>>
      BY <2>1 DEF Restore, Goto
    <3> QED
      BY <3>1, <1>t DEF EditInv
  <2>2. CASE Release(s) \/ Die(s) \/ Fails(s)
    <3>1. PICK x \in {"tail", "dead", "fail"} : run' = [run EXCEPT ![s] = x]
      BY <2>2 DEF Release, Die, Fails, Goto
    <3>2. since' = [since EXCEPT ![s] = {}] /\ UNCHANGED <<lost, lostEdit, stray>>
      BY <2>2 DEF Release, Die, Fails, Forgets
    <3> QED
      BY <3>1, <3>2, <1>t DEF EditInv, Copied
  <2>3. CASE GoIdle(s)
    <3>1. CASE ~lost[s]
      BY <2>3, <3>1, <1>1, <1>t DEF GoIdle, Goto, Copied
    <3>2. CASE lost[s]
      <4>1. /\ run' = [run EXCEPT ![s] = "done"] /\ since' = [since EXCEPT ![s] = {}]
            /\ UNCHANGED <<lost, lostEdit, stray>>
        BY <2>3, <3>2 DEF GoIdle, Goto, Forgets
      <4> QED
        BY <4>1, <1>t DEF EditInv, Copied
    <3> QED
      BY <3>1, <3>2
  <2>4. CASE Upload(s)
    <3>1. PICK f \in left[s] :
            /\ lostEdit' = IF f \in since[s] THEN lostEdit \cup {f} ELSE lostEdit
            /\ stray' = IF lost[s] THEN stray \cup {f} ELSE stray
      BY <2>4 DEF Upload
    <3>2. run[s] = "upload" /\ UNCHANGED <<run, lost, since>>
      BY <2>4 DEF Upload
    <3>3. f \in since[s] => lost[s]
      BY <3>2 DEF EditInv, Copied
    <3> QED
      BY <3>1, <3>2, <3>3 DEF EditInv
  <2>5. CASE BeatRenew(s) \/ BeatClaim(s)
    <3>1. /\ UNCHANGED <<run, since, lostEdit, stray>> /\ ~lost[s]
          /\ \A r \in Sessions \ {s} : lost'[r] = lost[r]
      BY <2>5, <1>t DEF BeatRenew, BeatClaim, histVars, LeaseInv, BeatOrLost
    <3> QED
      BY <3>1, <1>1
  <2>6. CASE Begin(s) \/ ClaimWorkspace(s) \/ Connect(s) \/ FailRelease(s) \/ End(s)
    BY <2>6, <1>1, <1>t DEF Begin, ClaimWorkspace, Connect, FailRelease, End, Goto, histVars, Copied
  <2>7. CASE CheckpointList(s) \/ Uploaded(s) \/ Publish(s) \/ Detach(s)
    BY <2>7, <1>1, <1>t DEF CheckpointList, Uploaded, Publish, PublishSpaces, Detach, Goto,
                            histVars, Copied
  <2>8. CASE Work(s) \/ PublishTurn(s) \/ Kill(s)
    BY <2>8, <1>1 DEF Work, PublishTurn, PublishSpaces, Kill, histVars
  <2> QED
    BY <1>2, <2>1, <2>2, <2>3, <2>4, <2>5, <2>6, <2>7, <2>8 DEF RunActs
<1>3. CASE AskToEdit
  BY <1>3, <1>1 DEF AskToEdit, Ask, runVars, histVars
<1>4. CASE PersonActs
  <2>1. Looked
    BY <1>4, EditorsLooked
  <2>2. UNCHANGED <<run, lost, lostEdit, stray>> /\ (since' = since \/ \E fs : Changed(fs))
    BY <1>4 DEF PersonActs, WriteFile, DeleteFile, RenameFile, SetTags, EmptyWorkspace,
                DropWorkspace, PersonVars, runVars, histVars
  <2> QED
    BY <2>1, <2>2, <1>1, <1>c
<1>5. ASSUME NEW i \in Installers, Install(i)
      PROVE  EditInv'
  <2>1. CASE InstallWrite(i)
    <3>1. UNCHANGED <<run, lost, lostEdit, stray>> /\ \E fs : Changed(fs)
      BY <2>1 DEF InstallWrite, runVars
    <3> QED
      BY <2>1, <3>1, <1>c, EditorsLooked
  <2> QED
    BY <1>5, <2>1, <1>1 DEF Install, InstallLook, InstallCreate, InstallReplace, InstallList,
                            InstallAsk, InstallDies, runVars, histVars
<1>6. CASE Lapse \/ CreateWorkspace \/ DropDocument \/ UNCHANGED vars
  BY <1>6, <1>1 DEF Lapse, CreateWorkspace, DropDocument, vars, runVars, histVars
<1>7. CASE WriteClaudeMd
  <2>1. ~LeaseActive /\ UNCHANGED <<run, lost, lostEdit, stray>> /\ \E fs : Changed(fs)
    BY <1>7 DEF WriteClaudeMd, Guarded, runVars
  <2> QED
    BY <2>1, <1>c
<1> QED
  BY <1>2, <1>3, <1>4, <1>5, <1>6, <1>7, Cases

(* No checkpoint of a run that has its lease writes over an edit, provided *)
(* besides that CLAUDE.md is not written from the command line under a     *)
(* live lease.                                                             *)
THEOREM EditsAreSafe == Guarded => (Spec => []EditsStay)
<1> SUFFICES ASSUME Guarded
             PROVE  Spec => []EditsStay
  OBVIOUS
<1>1. Init => EditInv
  BY DEF Init, EditInv
<1>2. LeaseInv /\ [Next]_vars => LeaseInv'
  BY LeaseStep DEF Guarded
<1>3. LeaseInv /\ EditInv /\ [Next]_vars => EditInv'
  BY EditStep
<1>4. EditInv => EditsStay
  BY DEF EditInv, EditsStay
<1> QED
  BY <1>1, <1>2, <1>3, <1>4, LeaseInit, PTL DEF Spec

-----------------------------------------------------------------------------
(* What a checkpoint has before it: files that are there.                  *)
KeepInv == \A s \in Sessions : run[s] = "upload" => \A f \in left[s] : copy[s][f] # "none"

LEMMA KeepStep ==
  ASSUME Typed, KeepInv, [Next]_vars
  PROVE  KeepInv'
<1> USE DEF Typed, TypeOK
<1>1. ASSUME \A r \in Sessions : run'[r] = "upload" =>
               run[r] = "upload" /\ left'[r] = left[r] /\ copy'[r] = copy[r]
      PROVE  KeepInv'
  BY <1>1 DEF KeepInv
<1>2. ASSUME NEW s \in Sessions, RunActs(s)
      PROVE  KeepInv'
  <2>1. CASE Begin(s) \/ ClaimWorkspace(s) \/ Connect(s) \/ FailRelease(s) \/ Uploaded(s)
    BY <2>1, <1>1 DEF Begin, ClaimWorkspace, Connect, FailRelease, Uploaded, Goto
  <2>2. CASE Publish(s) \/ Detach(s) \/ End(s)
    BY <2>2, <1>1 DEF Publish, PublishSpaces, Detach, End, Goto
  <2>3. CASE PublishTurn(s) \/ BeatRenew(s) \/ BeatClaim(s) \/ Kill(s)
    BY <2>3, <1>1 DEF PublishTurn, PublishSpaces, BeatRenew, BeatClaim, Kill
  <2>4. CASE Restore(s) \/ Work(s) \/ GoIdle(s)
    <3>1. run'[s] # "upload" /\ \A r \in Sessions \ {s} : run'[r] = run[r]
      BY <2>4 DEF Restore, Work, GoIdle, Goto
    <3>2. \A r \in Sessions \ {s} : left'[r] = left[r] /\ copy'[r] = copy[r]
      BY <2>4 DEF Restore, Work, GoIdle, Forgets
    <3> QED
      BY <3>1, <3>2, <1>1
  <2>5. CASE Release(s) \/ Die(s) \/ Fails(s)
    <3>1. run'[s] # "upload" /\ \A r \in Sessions \ {s} : run'[r] = run[r]
      BY <2>5 DEF Release, Die, Fails, Goto
    <3>2. \A r \in Sessions \ {s} : left'[r] = left[r] /\ copy'[r] = copy[r]
      BY <2>5 DEF Release, Die, Fails, Forgets
    <3> QED
      BY <3>1, <3>2, <1>1
  <2>6. CASE CheckpointList(s)
    BY <2>6 DEF CheckpointList, KeepInv, Goto
  <2>7. CASE Upload(s)
    <3>1. /\ UNCHANGED <<run, copy>>
          /\ \E f \in left[s] : left' = [left EXCEPT ![s] = @ \ {f}]
      BY <2>7 DEF Upload
    <3> QED
      BY <3>1 DEF KeepInv
  <2> QED
    BY <1>2, <2>1, <2>2, <2>3, <2>4, <2>5, <2>6, <2>7 DEF RunActs
<1>3. ASSUME UNCHANGED runVars PROVE KeepInv'
  BY <1>3, <1>1 DEF runVars
<1>4. \/ Lapse \/ CreateWorkspace \/ DropDocument \/ WriteClaudeMd \/ AskToEdit \/ PersonActs
      \/ UNCHANGED vars
      => UNCHANGED runVars
  BY DEF Lapse, CreateWorkspace, DropDocument, WriteClaudeMd, AskToEdit, Ask, PersonActs, WriteFile,
         DeleteFile, RenameFile, SetTags, EmptyWorkspace, DropWorkspace, PersonVars, vars, runVars
<1>5. ASSUME NEW i \in Installers, Install(i) PROVE UNCHANGED runVars
  BY <1>5 DEF Install, InstallLook, InstallCreate, InstallReplace, InstallList, InstallAsk,
              InstallWrite, InstallDies
<1> QED
  BY <1>2, <1>3, <1>4, <1>5, Cases

-----------------------------------------------------------------------------
(* Tags.  A checkpoint that has read the metadata puts back what is there, *)
(* but for files a run without a lease has written meanwhile.              *)
Tags(f) == (f \notin stray => tagged[f] = want[f]) /\ (blob[f] = "none" => ~tagged[f])

TagInv ==
  /\ \A f \in Files : Tags(f)
  /\ \A s \in Sessions : run[s] = "upload" /\ ~lost[s] =>
        \A f \in left[s] \ stray : f \in meta[s] <=> tagged[f]

LEMMA TagRun ==
  ASSUME LeaseInv, KeepInv, TagInv, NEW s \in Sessions, RunActs(s)
  PROVE  TagInv'
<1> USE DEF LeaseInv, Typed, TypeOK
<1>1. ASSUME UNCHANGED <<blob, tagged, want, stray>>,
             \A r \in Sessions : run'[r] = "upload" /\ ~lost'[r] =>
               run[r] = "upload" /\ ~lost[r] /\ left'[r] = left[r] /\ meta'[r] = meta[r]
      PROVE  TagInv'
  BY <1>1 DEF TagInv, Tags
<1>2. CASE Begin(s) \/ ClaimWorkspace(s) \/ Connect(s) \/ Kill(s)
  BY <1>2, <1>1 DEF Begin, ClaimWorkspace, Connect, Kill, Goto, docVars, histVars
<1>3. CASE FailRelease(s) \/ Publish(s) \/ Detach(s) \/ End(s)
  BY <1>3, <1>1 DEF FailRelease, Publish, PublishSpaces, Detach, End, Goto, docVars, histVars
<1>4. CASE PublishTurn(s)
  BY <1>4, <1>1 DEF PublishTurn, PublishSpaces, docVars, histVars
<1>b. CASE BeatRenew(s) \/ BeatClaim(s)
  <2>1. ~lost[s] /\ \A r \in Sessions \ {s} : lost'[r] = lost[r]
    BY <1>b DEF BeatRenew, BeatClaim, BeatOrLost
  <2> QED
    BY <1>b, <2>1, <1>1 DEF BeatRenew, BeatClaim, docVars, histVars
<1>5. CASE Restore(s) \/ Work(s) \/ GoIdle(s) \/ Uploaded(s)
  <2>1. run'[s] # "upload" /\ \A r \in Sessions \ {s} : run'[r] = run[r]
    BY <1>5 DEF Restore, Work, GoIdle, Uploaded, Goto
  <2>2. \A r \in Sessions \ {s} : left'[r] = left[r] /\ meta'[r] = meta[r]
    BY <1>5 DEF Restore, Work, GoIdle, Uploaded, Forgets
  <2> QED
    BY <2>1, <2>2, <1>5, <1>1 DEF Restore, Work, GoIdle, Uploaded, docVars, histVars
<1>6. CASE Release(s) \/ Die(s) \/ Fails(s)
  <2>1. run'[s] # "upload" /\ \A r \in Sessions \ {s} : run'[r] = run[r]
    BY <1>6 DEF Release, Die, Fails, Goto
  <2>2. \A r \in Sessions \ {s} : left'[r] = left[r] /\ meta'[r] = meta[r]
    BY <1>6 DEF Release, Die, Fails, Forgets
  <2> QED
    BY <2>1, <2>2, <1>6, <1>1 DEF Release, Die, Fails, docVars, histVars
<1>7. CASE CheckpointList(s)
  <2>1. /\ meta' = [meta EXCEPT ![s] = {f \in Files : blob[f] # "none" /\ tagged[f]}]
        /\ left' = [left EXCEPT ![s] = {f \in Files : copy[s][f] # "none"}]
        /\ run' = [run EXCEPT ![s] = "upload"]
        /\ UNCHANGED <<blob, tagged, want, stray, lost>>
    BY <1>7 DEF CheckpointList, Goto, docVars, histVars
  <2>2. \A f \in left'[s] : f \in meta'[s] <=> tagged[f]
    BY <2>1 DEF TagInv, Tags
  <2> QED
    BY <2>1, <2>2 DEF TagInv, Tags
<1>8. CASE Upload(s)
  <2>1. PICK f \in left[s] :
          /\ blob' = [blob EXCEPT ![f] = copy[s][f]]
          /\ tagged' = [tagged EXCEPT ![f] = Metadata(s, f)]
          /\ left' = [left EXCEPT ![s] = @ \ {f}]
          /\ stray' = IF lost[s] THEN stray \cup {f} ELSE stray
    BY <1>8 DEF Upload
  <2>2. /\ run[s] = "upload" /\ UNCHANGED <<run, meta, want, lost>> /\ f \in Files
        /\ copy[s][f] # "none"
    BY <1>8, <2>1 DEF Upload, KeepInv
  <2>3. f \notin stray' => ~lost[s] /\ f \notin stray /\ tagged'[f] = tagged[f]
    BY <2>1, <2>2 DEF TagInv, Metadata
  <2>4. \A g \in Files \ {f} : tagged'[g] = tagged[g] /\ blob'[g] = blob[g]
    BY <2>1
  <2>5. blob'[f] # "none" /\ stray \subseteq stray'
    BY <2>1, <2>2
  <2>6. \A g \in Files : Tags(g)'
    BY <2>2, <2>3, <2>4, <2>5 DEF TagInv, Tags
  <2>7. \A r \in Sessions : left'[r] \subseteq left[r]
    BY <2>1
  <2>8. \A g \in Files \ stray' : tagged'[g] = tagged[g] /\ g \notin stray
    BY <2>3, <2>4, <2>5
  <2> QED
    BY <2>2, <2>5, <2>6, <2>7, <2>8 DEF TagInv
<1> QED
  BY <1>2, <1>3, <1>4, <1>b, <1>5, <1>6, <1>7, <1>8 DEF RunActs

LEMMA TagOthers ==
  ASSUME Guarded, LeaseInv, TagInv,
         \/ Lapse \/ CreateWorkspace \/ DropDocument \/ WriteClaudeMd \/ AskToEdit \/ PersonActs
         \/ \E i \in Installers : Install(i)
  PROVE  TagInv'
<1> USE DEF LeaseInv, Typed, TypeOK
<1>1. ASSUME UNCHANGED <<blob, tagged, want, stray, run, left, meta, lost>>
      PROVE  TagInv'
  BY <1>1 DEF TagInv, Tags
<1>2. ASSUME Looked \/ ~LeaseActive, UNCHANGED <<run, lost>>, \A f \in Files : Tags(f)'
      PROVE  TagInv'
  <2>1. \A s \in Sessions : run[s] = "upload" => lost[s]
    BY <1>2 DEF QuietWhileLooked, HoldsLease, InWorkspace, Copied
  <2> QED
    BY <1>2, <2>1 DEF TagInv
<1>3. CASE Lapse \/ CreateWorkspace \/ DropDocument \/ AskToEdit
  BY <1>3, <1>1 DEF Lapse, CreateWorkspace, DropDocument, AskToEdit, Ask, docVars, runVars, histVars
<1>4. CASE PersonActs
  <2>1. Looked
    BY <1>4, EditorsLooked
  <2>2. UNCHANGED <<run, left, meta, lost, stray>>
    BY <1>4 DEF PersonActs, WriteFile, DeleteFile, RenameFile, SetTags, EmptyWorkspace,
                DropWorkspace, PersonVars, runVars, histVars
  <2>3. CASE WriteFile \/ DeleteFile
    <3>1. PICK content \in {"person", "none"} :
            /\ blob' = [blob EXCEPT ![person[2]] = content]
            /\ tagged' = [tagged EXCEPT ![person[2]] = FALSE]
            /\ want' = [want EXCEPT ![person[2]] = FALSE]
      BY <2>3 DEF WriteFile, DeleteFile
    <3>2. \A f \in Files : Tags(f)'
      BY <3>1, <2>2 DEF TagInv, Tags
    <3> QED
      BY <3>2, <2>1, <2>2, <1>2
  <2>4. CASE RenameFile
    <3>1. CASE UNCHANGED <<blob, tagged, want>>
      BY <3>1, <2>2, <1>1
    <3>2. CASE /\ blob' = [blob EXCEPT ![person[2]] = "none", ![person[3]] = "person"]
               /\ tagged' = [tagged EXCEPT ![person[2]] = FALSE, ![person[3]] = tagged[person[2]]]
               /\ want' = [want EXCEPT ![person[2]] = FALSE, ![person[3]] = tagged[person[2]]]
      <4>1. person[2] \in Files /\ person[3] \in Files
        BY <2>4 DEF RenameFile, PersonOK
      <4>2. ASSUME NEW f \in Files
            PROVE  Tags(f)'
        <5>1. CASE f = person[3]
          BY <3>2, <4>1, <5>1 DEF Tags
        <5>2. CASE f = person[2] /\ f # person[3]
          BY <3>2, <4>1, <5>2 DEF Tags
        <5>3. CASE f # person[2] /\ f # person[3]
          BY <3>2, <2>2, <4>1, <5>3 DEF TagInv, Tags
        <5> QED
          BY <5>1, <5>2, <5>3
      <4> QED
        BY <4>2, <2>1, <2>2, <1>2
    <3> QED
      BY <2>4, <3>1, <3>2 DEF RenameFile
  <2>5. CASE SetTags
    <3>1. person[2] \in Files
      BY <2>5 DEF SetTags, PersonOK
    <3>2. CASE UNCHANGED <<tagged, want>>
      BY <3>2, <2>2, <2>5, <1>1 DEF SetTags
    <3>3. CASE /\ blob[person[2]] # "none"
               /\ tagged' = [tagged EXCEPT ![person[2]] = ~tagged[person[2]]]
               /\ want' = [want EXCEPT ![person[2]] = ~tagged[person[2]]]
      <4>1. blob' = blob
        BY <2>5 DEF SetTags
      <4>2. \A f \in Files : Tags(f)'
        BY <3>1, <3>3, <4>1, <2>2 DEF TagInv, Tags
      <4> QED
        BY <4>2, <2>1, <2>2, <1>2
    <3> QED
      BY <2>5, <3>2, <3>3 DEF SetTags
  <2>6. CASE EmptyWorkspace
    BY <2>1, <2>2, <2>6, <1>2 DEF EmptyWorkspace, Tags
  <2>7. CASE DropWorkspace
    BY <2>7, <1>1 DEF DropWorkspace, runVars, histVars
  <2> QED
    BY <1>4, <2>3, <2>4, <2>5, <2>6, <2>7 DEF PersonActs
<1>5. ASSUME NEW i \in Installers, Install(i)
      PROVE  TagInv'
  <2>1. CASE InstallWrite(i)
    <3>1. PICK f \in found[i] :
            /\ blob' = [blob EXCEPT ![f] = "shipped"]
            /\ tagged' = [tagged EXCEPT ![f] = FALSE]
            /\ want' = [want EXCEPT ![f] = FALSE]
      BY <2>1 DEF InstallWrite
    <3>2. f \in Files /\ UNCHANGED <<run, lost, stray>> /\ Looked
      BY <2>1, <3>1, SetAssumption, EditorsLooked DEF InstallWrite, runVars
    <3>3. \A g \in Files : Tags(g)'
      BY <3>1, <3>2 DEF TagInv, Tags
    <3> QED
      BY <3>2, <3>3, <1>2
  <2> QED
    BY <1>5, <2>1, <1>1 DEF Install, InstallLook, InstallCreate, InstallReplace, InstallList,
                            InstallAsk, InstallDies, docVars, runVars, histVars
<1>6. CASE WriteClaudeMd
  <2>1. ~LeaseActive /\ UNCHANGED <<run, lost, stray>>
    BY <1>6 DEF WriteClaudeMd, Guarded, runVars
  <2>2. PICK f \in Files : /\ blob' = [blob EXCEPT ![f] = "person"]
                          /\ tagged' = [tagged EXCEPT ![f] = FALSE]
                          /\ want' = [want EXCEPT ![f] = FALSE]
    BY <1>6 DEF WriteClaudeMd
  <2>3. \A g \in Files : Tags(g)'
    BY <2>1, <2>2 DEF TagInv, Tags
  <2> QED
    BY <2>1, <2>3, <1>2
<1> QED
  BY <1>3, <1>4, <1>5, <1>6

LEMMA TagInit == Init => TagInv /\ KeepInv
<1>1. SUFFICES ASSUME Init PROVE TagInv /\ KeepInv
  OBVIOUS
<1>2. \A f \in Files : Tags(f)
  <2>1. PICK old \in SUBSET (Files \ Shipped) : \E marked \in SUBSET old :
          /\ blob = [f \in Files |-> IF f \in old THEN "agent" ELSE "none"]
          /\ tagged = [f \in Files |-> f \in marked]
          /\ want = tagged
    BY <1>1 DEF Init
  <2>2. PICK marked \in SUBSET old :
          /\ blob = [f \in Files |-> IF f \in old THEN "agent" ELSE "none"]
          /\ tagged = [f \in Files |-> f \in marked]
          /\ want = tagged
    BY <2>1
  <2> QED
    BY <2>2 DEF Tags
<1>3. \A s \in Sessions : run[s] # "upload"
  BY <1>1 DEF Init
<1> QED
  BY <1>2, <1>3 DEF TagInv, KeepInv

LEMMA TagStep == Guarded /\ LeaseInv /\ KeepInv /\ TagInv /\ [Next]_vars => TagInv'
<1>1. ASSUME TagInv, UNCHANGED vars PROVE TagInv'
  BY <1>1 DEF vars, TagInv, Tags
<1> QED
  BY <1>1, Cases, TagRun, TagOthers

(* Under the same assumption a file keeps the tags it was given.           *)
THEOREM TagsAreKept == Guarded => (Spec => []TagsStay)
<1> SUFFICES ASSUME Guarded
             PROVE  Spec => []TagsStay
  OBVIOUS
<1>1. LeaseInv /\ [Next]_vars => LeaseInv'
  BY LeaseStep DEF Guarded
<1>2. LeaseInv /\ KeepInv /\ [Next]_vars => KeepInv'
  BY KeepStep DEF LeaseInv
<1>3. LeaseInv /\ KeepInv /\ TagInv /\ [Next]_vars => TagInv'
  BY TagStep
<1>4. TagInv => TagsStay
  BY DEF TagInv, Tags, TagsStay
<1> QED
  BY <1>1, <1>2, <1>3, <1>4, LeaseInit, TagInit, PTL DEF Spec

-----------------------------------------------------------------------------
(* Who is done.  No beat is under way when a run lets go, and none starts  *)
(* after a failed setup.                                                   *)
PromptBeats == Faults \cap {"slow_beat", "beat_in_tail"} = {}

Gone == {"off", "claim", "tail", "setup_tail", "fail_tail", "done"}

Holds(s) == LeaseActive /\ doc.holder = s

GoneInv ==
  /\ \A s \in Sessions : run[s] \in Gone /\ ~(run[s] = "done" /\ lost[s]) => ~Holds(s)
  /\ \A s \in Sessions : beat[s] => run[s] \in InWorkspace \cup {"setup_failed", "release", "fail"}
  /\ \A s \in Sessions :
       name[s] => run[s] \in InWorkspace \cup {"setup_failed", "setup_tail", "dead", "done"}
  /\ ~doc.exists => doc.holder = Nobody
  /\ BeatOrLost

LEMMA GoneRun ==
  ASSUME PromptBeats, Typed, GoneInv, NEW s \in Sessions, RunActs(s)
  PROVE  GoneInv'
<1>t. /\ run \in [Sessions -> Stations] /\ name \in [Sessions -> BOOLEAN]
      /\ beat \in [Sessions -> BOOLEAN] /\ lost \in [Sessions -> BOOLEAN]
  BY DEF Typed, TypeOK
<1>f. "slow_beat" \notin Faults /\ "beat_in_tail" \notin Faults
  BY DEF PromptBeats
<1>a. /\ InWorkspace \cap (Gone \cup {"setup_failed", "release", "fail", "dead"}) = {}
      /\ {"connect", "restore", "detach"} \cup Copied = InWorkspace
  BY DEF Gone, InWorkspace, Copied
<1>1. ASSUME UNCHANGED <<doc, lost>>,
             NEW x, run' = [run EXCEPT ![s] = x],
             x \in Gone => run[s] \in Gone \ {"done"} \/ (x = "done" /\ lost[s]),
             beat'[s] => beat[s] /\ x \in InWorkspace \cup {"setup_failed", "release", "fail"},
             name'[s] => x \in InWorkspace \cup {"setup_failed", "setup_tail", "dead", "done"},
             \A r \in Sessions \ {s} : name'[r] = name[r] /\ beat'[r] = beat[r]
      PROVE  GoneInv'
  BY <1>1, <1>t DEF GoneInv, BeatOrLost, Holds, LeaseActive
<1>2. CASE Begin(s) \/ Connect(s) \/ Restore(s) \/ CheckpointList(s) \/ Uploaded(s)
  BY <1>2, <1>1, <1>a DEF Begin, Connect, Restore, CheckpointList, Uploaded, Goto, docVars, Gone,
                          GoneInv, Copied
<1>3. CASE Publish(s)
  BY <1>3, <1>1, <1>a DEF Publish, PublishSpaces, Goto, docVars, Gone, GoneInv, Copied
<1>4. CASE GoIdle(s)
  BY <1>4, <1>1, <1>a DEF GoIdle, Goto, docVars, Gone, GoneInv, BeatOrLost, Copied
<1>5. CASE Detach(s)
  BY <1>5, <1>1, <1>t DEF Detach, Detached, Goto, docVars, InWorkspace, Gone, GoneInv
<1>6. CASE Work(s) \/ PublishTurn(s) \/ Upload(s) \/ Kill(s)
  BY <1>6 DEF Work, PublishTurn, PublishSpaces, Upload, Kill, docVars, Holds, LeaseActive, GoneInv,
              BeatOrLost
<1>7. CASE BeatRenew(s)
  <2>1. /\ UNCHANGED <<doc, run, name>> /\ run[s] \notin Over
        /\ \A r \in Sessions \ {s} : beat'[r] = beat[r] /\ lost'[r] = lost[r]
        /\ (beat'[s] => name[s] /\ run[s] # "setup_tail") /\ ~(beat'[s] /\ lost'[s])
    BY <1>7, <1>f, <1>t DEF BeatRenew, Renews, docVars
  <2> QED
    BY <2>1, <1>t DEF GoneInv, BeatOrLost, Holds, LeaseActive, Over, Gone
<1>8. CASE Die(s) \/ End(s)
  <2>1. PICK x \in {"dead", "done"} :
          run' = [run EXCEPT ![s] = x] /\ (x = "done" => run[s] \in Gone \ {"done"})
    BY <1>8 DEF Die, End, Goto, Gone
  <2>2. UNCHANGED <<doc, name, lost>> /\ beat' = [beat EXCEPT ![s] = FALSE]
    BY <1>8 DEF Die, End, docVars
  <2> QED
    BY <2>1, <2>2, <1>1, <1>t DEF Gone
<1>9. CASE Fails(s)
  <2>1. PICK x \in {"dead", "fail"} :
          /\ run' = [run EXCEPT ![s] = x]
          /\ (beat'[s] => beat[s] /\ x = "fail") /\ (x = "fail" => ~name'[s])
    BY <1>9, <1>t DEF Fails, Goto
  <2>2. /\ UNCHANGED <<doc, lost>>
        /\ \A r \in Sessions \ {s} : name'[r] = name[r] /\ beat'[r] = beat[r]
    BY <1>9, <1>t DEF Fails, docVars
  <2> QED
    BY <2>1, <2>2, <1>1 DEF Gone
<1>10. CASE ClaimWorkspace(s)
  <2>1. CASE CanClaim(s)
    <3>1. /\ doc' = Held(s) /\ run' = [run EXCEPT ![s] = "connect"]
          /\ name' = [name EXCEPT ![s] = name'[s]] /\ UNCHANGED <<beat, lost>> /\ run[s] = "claim"
      BY <1>10, <2>1, <1>t DEF ClaimWorkspace, Claimed, Goto
    <3>2. doc'.exists /\ doc'.holder = s
      BY <3>1 DEF Held
    <3> QED
      BY <3>1, <3>2, <1>t DEF GoneInv, BeatOrLost, Holds, Gone, InWorkspace
  <2>2. CASE ~CanClaim(s)
    <3>1. CanClaim(s) = FALSE
      BY <2>2 DEF CanClaim, LeaseActive
    <3>2. /\ doc' = doc /\ run' = [run EXCEPT ![s] = "tail"] /\ UNCHANGED <<beat, lost>>
          /\ run[s] = "claim" /\ name' = [name EXCEPT ![s] = FALSE]
      BY <1>10, <3>1, <1>t DEF ClaimWorkspace, Claimed, Goto
    <3>3. ~beat[s]
      BY <3>2 DEF GoneInv, InWorkspace, Copied
    <3> QED
      BY <3>2, <3>3, <1>1, <1>t DEF Gone
  <2> QED
    BY <2>1, <2>2
<1>11. CASE FailRelease(s) \/ Release(s)
  <2>1. PICK x \in {"fail_tail", "setup_tail", "tail"} :
          run' = [run EXCEPT ![s] = x] /\ (x # "setup_tail" => run[s] \in {"release", "fail"})
    BY <1>11 DEF FailRelease, Release, Goto
  <2>2. doc' = Released(s) /\ UNCHANGED <<name, beat, lost>> /\ ~beat[s]
    BY <1>11, <1>f, <1>t DEF FailRelease, Release
  <2>3. ~Holds(s)'
    BY <2>2, NobodyAssumption DEF Released, Free, Holds, LeaseActive, GoneInv
  <2>4. \A r \in Sessions : Holds(r)' => Holds(r)
    BY <2>2, NobodyAssumption DEF Released, Free, Holds, LeaseActive
  <2>5. ~doc'.exists => doc'.holder = Nobody
    BY <2>2 DEF Released, Free, GoneInv
  <2>6. name[s] => x = "setup_tail"
    BY <2>1, <1>a DEF GoneInv
  <2> QED
    BY <2>1, <2>2, <2>3, <2>4, <2>5, <2>6, <1>t DEF GoneInv, BeatOrLost
<1>12. CASE BeatClaim(s)
  <2>1. /\ doc' = Claimed(s) /\ beat[s] /\ beat' = [beat EXCEPT ![s] = FALSE]
        /\ UNCHANGED <<run, name>> /\ \A r \in Sessions \ {s} : lost'[r] = lost[r]
    BY <1>12, <1>t DEF BeatClaim
  <2>2. run[s] \notin Gone
    BY <2>1, <1>a DEF GoneInv, Gone
  <2>3. \/ doc' = doc
        \/ doc'.exists /\ doc'.holder = s
    BY <2>1 DEF Claimed, Held
  <2> QED
    BY <2>1, <2>2, <2>3, <1>t DEF GoneInv, BeatOrLost, Holds, LeaseActive
<1> QED
  BY <1>2, <1>3, <1>4, <1>5, <1>6, <1>7, <1>8, <1>9, <1>10, <1>11, <1>12 DEF RunActs

LEMMA GoneOthers ==
  ASSUME Typed, GoneInv,
         \/ Lapse \/ CreateWorkspace \/ DropDocument \/ WriteClaudeMd \/ AskToEdit \/ PersonActs
         \/ \E i \in Installers : Install(i)
  PROVE  GoneInv'
<1>1. ASSUME UNCHANGED <<run, name, beat, lost>>,
             \A r \in Sessions : Holds(r)' => Holds(r),
             ~doc'.exists => doc'.holder = Nobody
      PROVE  GoneInv'
  BY <1>1 DEF GoneInv, BeatOrLost
<1>2. ASSUME UNCHANGED <<run, name, beat, lost, doc>>
      PROVE  GoneInv'
  BY <1>2, <1>1 DEF GoneInv, Holds, LeaseActive
<1>d. doc \in DocType
  BY DEF Typed, TypeOK, DocType
<1>3. CASE Lapse
  <2>1. doc'.exists /\ ~doc'.live /\ UNCHANGED <<run, name, beat, lost>>
    BY <1>3, <1>d DEF Lapse, LeaseActive, runVars, DocType
  <2> QED
    BY <2>1, <1>1 DEF Holds, LeaseActive
<1>4. CASE AskToEdit
  BY <1>4, <1>2 DEF AskToEdit, Ask, docVars, runVars
<1>5. CASE PersonActs
  <2>1. UNCHANGED <<run, name, beat, lost>>
    BY <1>5 DEF PersonActs, WriteFile, DeleteFile, RenameFile, SetTags, EmptyWorkspace,
                DropWorkspace, PersonVars, runVars
  <2>2. CASE DropWorkspace
    BY <2>1, <2>2, <1>1 DEF DropWorkspace, Free, Holds, LeaseActive
  <2> QED
    BY <1>5, <2>1, <2>2, <1>2 DEF PersonActs, WriteFile, DeleteFile, RenameFile, SetTags,
                                 EmptyWorkspace, PersonVars
<1>6. ASSUME NEW i \in Installers, Install(i)
      PROVE  GoneInv'
  <2>1. UNCHANGED <<run, name, beat, lost>>
    BY <1>6 DEF Install, InstallLook, InstallCreate, InstallReplace, InstallList, InstallAsk,
                InstallWrite, InstallDies, runVars
  <2>2. CASE InstallCreate(i)
    BY <2>1, <2>2, <1>1, <1>2, NobodyAssumption DEF InstallCreate, Created, Free, Holds, LeaseActive
  <2>3. CASE InstallReplace(i)
    <3>1. doc'.exists /\ doc'.holder = doc.holder /\ doc'.live = doc.live
      BY <2>3, <1>d DEF InstallReplace, DocType
    <3> QED
      BY <2>1, <3>1, <1>1, NobodyAssumption DEF Holds, LeaseActive, GoneInv
  <2> QED
    BY <1>6, <2>1, <2>2, <2>3, <1>2 DEF Install, InstallLook, InstallList, InstallAsk,
                                       InstallWrite, InstallDies, docVars
<1>7. CASE CreateWorkspace
  <2>1. UNCHANGED <<run, name, beat, lost>>
    BY <1>7 DEF CreateWorkspace, runVars
  <2> QED
    BY <1>7, <2>1, <1>1, <1>2, NobodyAssumption
       DEF CreateWorkspace, Created, Free, Holds, LeaseActive
<1>8. CASE DropDocument
  <2>1. UNCHANGED <<run, name, beat, lost>>
    BY <1>8 DEF DropDocument, runVars
  <2> QED
    BY <1>8, <2>1, <1>1 DEF DropDocument, Free, Holds, LeaseActive
<1>9. CASE WriteClaudeMd
  BY <1>9, <1>2 DEF WriteClaudeMd, runVars
<1> QED
  BY <1>3, <1>4, <1>5, <1>6, <1>7, <1>8, <1>9

LEMMA GoneStep == PromptBeats /\ Typed /\ GoneInv /\ [Next]_vars => GoneInv'
<1>1. ASSUME GoneInv, UNCHANGED vars PROVE GoneInv'
  BY <1>1 DEF vars, GoneInv, BeatOrLost, Holds, LeaseActive
<1> QED
  BY <1>1, Cases, GoneRun, GoneOthers

(* A run that has come to its end, with its lease, holds nothing.          *)
THEOREM NothingHeldAfter == PromptBeats => (Spec => []DoneHoldsNothing)
<1> SUFFICES ASSUME PromptBeats
             PROVE  Spec => []DoneHoldsNothing
  OBVIOUS
<1>1. Init => GoneInv
  BY DEF Init, GoneInv, BeatOrLost, Free, Holds, LeaseActive
<1>2. Typed /\ [Next]_vars => Typed'
  BY TypeStep
<1>3. Typed /\ GoneInv /\ [Next]_vars => GoneInv'
  BY GoneStep
<1>4. GoneInv => DoneHoldsNothing
  BY DEF GoneInv, DoneHoldsNothing, Gone, Holds
<1> QED
  BY <1>1, <1>2, <1>3, <1>4, TypeInit, PTL DEF Spec

-----------------------------------------------------------------------------
(* Installs.  No file goes between an install's look and its writes.       *)
SteadyInstall == "slow_install" \notin Faults

WholeInv ==
  \A i \in Installers : install[i] \in {"free", "write"} =>
    \A f \in Shipped \ found[i] : blob[f] # "none"

Whole(i) == install[i] # "done" /\ install'[i] = "done" => \A f \in Shipped : blob'[f] # "none"

LEMMA NoFileGoes ==
  ASSUME SteadyInstall, Typed, KeepInv, [Next]_vars,
         NEW i \in Installers, install[i] \in {"free", "write"}, NEW f \in Files, blob[f] # "none"
  PROVE  blob'[f] # "none"
<1> USE DEF Typed, TypeOK
<1>1. ~Undisturbed
  BY DEF Undisturbed, SteadyInstall
<1>2. ASSUME NEW s \in Sessions, RunActs(s) PROVE blob'[f] # "none"
  <2>1. CASE Upload(s)
    BY <2>1 DEF Upload, KeepInv
  <2> QED
    BY <1>2, <2>1
       DEF RunActs, Begin, Kill, ClaimWorkspace, Connect, FailRelease, Restore, Work, PublishTurn,
           PublishSpaces, GoIdle, CheckpointList, Uploaded, Publish, Detach, Release, End, Fails,
           Die, BeatRenew, BeatClaim, docVars
<1>3. CASE PersonActs
  BY <1>3, <1>1 DEF PersonActs, WriteFile, DeleteFile, RenameFile, SetTags, EmptyWorkspace,
                    DropWorkspace
<1>4. ASSUME NEW j \in Installers, Install(j) PROVE blob'[f] # "none"
  BY <1>4 DEF Install, InstallLook, InstallCreate, InstallReplace, InstallList, InstallAsk,
              InstallWrite, InstallDies, docVars
<1>5. CASE Lapse \/ CreateWorkspace \/ DropDocument \/ AskToEdit \/ UNCHANGED vars
  BY <1>5 DEF Lapse, CreateWorkspace, DropDocument, AskToEdit, Ask, docVars, vars
<1>6. CASE WriteClaudeMd
  BY <1>6 DEF WriteClaudeMd
<1> QED
  BY <1>2, <1>3, <1>4, <1>5, <1>6, Cases

LEMMA WholeStep ==
  ASSUME SteadyInstall, Typed, KeepInv, WholeInv, [Next]_vars
  PROVE  WholeInv' /\ \A i \in Installers : Whole(i)
<1> USE DEF Typed, TypeOK
<1>s. Shipped \subseteq Files
  BY SetAssumption
<1>1. ASSUME UNCHANGED installVars
      PROVE  WholeInv' /\ \A i \in Installers : Whole(i)
  BY <1>1, <1>s, NoFileGoes DEF WholeInv, Whole, installVars
<1>2. ASSUME NEW i \in Installers, Install(i)
      PROVE  WholeInv' /\ \A j \in Installers : Whole(j)
  <2>1. \A j \in Installers \ {i} : install'[j] = install[j] /\ found'[j] = found[j]
    BY <1>2 DEF Install, InstallLook, InstallCreate, InstallReplace, InstallList, InstallAsk,
                InstallWrite, InstallDies, InstallGoto, installVars
  <2>2. ASSUME install'[i] \in {"free", "write"} => \A f \in Shipped \ found'[i] : blob'[f] # "none",
               Whole(i)
        PROVE  WholeInv' /\ \A j \in Installers : Whole(j)
    BY <2>1, <2>2, <1>s, NoFileGoes DEF WholeInv, Whole
  <2>3. CASE InstallLook(i) \/ InstallCreate(i) \/ InstallReplace(i) \/ InstallDies(i)
    BY <2>2, <2>3 DEF InstallLook, InstallCreate, InstallReplace, InstallDies, InstallGoto,
                      LookedAt, Whole
  <2>4. CASE InstallList(i)
    <3>1. /\ found' = [found EXCEPT ![i] = PendingFiles(i)] /\ blob' = blob
          /\ install' = [install EXCEPT ![i] = IF PendingFiles(i) = {} THEN "done" ELSE "free"]
      BY <2>4 DEF InstallList, InstallGoto, docVars
    <3>2. \A f \in Shipped \ PendingFiles(i) : blob[f] # "none"
      BY DEF PendingFiles
    <3> QED
      BY <2>2, <3>1, <3>2 DEF Whole
  <2>5. CASE InstallAsk(i)
    BY <2>2, <2>5 DEF InstallAsk, WritesIfFree, InstallGoto, docVars, WholeInv, Whole
  <2>6. CASE InstallWrite(i)
    <3>1. PICK f \in found[i] :
            /\ blob' = [blob EXCEPT ![f] = "shipped"]
            /\ found' = [found EXCEPT ![i] = @ \ {f}]
            /\ install' = [install EXCEPT ![i] = IF found[i] = {f} THEN "done" ELSE "write"]
      BY <2>6 DEF InstallWrite, InstallGoto
    <3>2. \A g \in Shipped \ (found[i] \ {f}) : blob'[g] # "none"
      BY <2>6, <3>1, <1>s DEF InstallWrite, WholeInv
    <3> QED
      BY <2>2, <3>1, <3>2 DEF Whole
  <2> QED
    BY <1>2, <2>3, <2>4, <2>5, <2>6 DEF Install
<1>3. ASSUME NEW s \in Sessions, RunActs(s)
      PROVE  UNCHANGED installVars
  BY <1>3 DEF RunActs, Begin, Kill, ClaimWorkspace, Connect, FailRelease, Restore, Work,
              PublishTurn, PublishSpaces, GoIdle, CheckpointList, Upload, Uploaded, Publish,
              Detach, Release, End, Fails, Die, BeatRenew, BeatClaim
<1>4. \/ Lapse \/ CreateWorkspace \/ DropDocument \/ WriteClaudeMd \/ AskToEdit
      \/ PersonActs \/ UNCHANGED vars
      => UNCHANGED installVars
  BY DEF Lapse, CreateWorkspace, DropDocument, WriteClaudeMd, AskToEdit, Ask, PersonActs,
         WriteFile, DeleteFile, RenameFile, SetTags, EmptyWorkspace, DropWorkspace, PersonVars,
         vars, installVars
<1> QED
  BY <1>1, <1>2, <1>3, <1>4, Cases

(* An install that comes to its end has left every shipped file there.     *)
THEOREM InstalledWhole == SteadyInstall => (Spec => InstallIsWhole)
<1> SUFFICES ASSUME SteadyInstall
             PROVE  Spec => InstallIsWhole
  OBVIOUS
<1> DEFINE AllWhole == \A i \in Installers : Whole(i)
<1>1. Init => WholeInv
  BY DEF Init, WholeInv
<1>2. Typed /\ [Next]_vars => Typed'
  BY TypeStep
<1>3. Typed /\ KeepInv /\ [Next]_vars => KeepInv'
  BY KeepStep
<1>4. Typed /\ KeepInv /\ WholeInv /\ [Next]_vars => WholeInv' /\ [AllWhole]_vars
  BY WholeStep
<1>5. InstallIsWhole <=> [][AllWhole]_vars
  <2>1. (\A i \in Installers : install[i] # "done" /\ install'[i] = "done" =>
           \A f \in Shipped : blob'[f] # "none") <=> AllWhole
    BY DEF Whole
  <2> QED
    BY <2>1, PTL DEF InstallIsWhole
<1> QED
  BY <1>1, <1>2, <1>3, <1>4, <1>5, TypeInit, TagInit, PTL DEF Spec

=============================================================================
