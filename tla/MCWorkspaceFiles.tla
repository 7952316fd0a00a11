---------------------------- MODULE MCWorkspaceFiles ----------------------------
(* WorkspaceFiles with two sessions, one of which mounts the space         *)
(* read-only, and with two installs, the second one forced.                *)
EXTENDS WorkspaceFiles

CONSTANTS s1, s2, notes, shipped, i1, i2

TwoSessions == {s1, s2}
OneReader == {s2}
TwoFiles == {notes, shipped}
OneShipped == {shipped}
TwoInstallers == {i1, i2}
SecondForced == {i2}

(* Everything but the races between a look and a write, and beats that     *)
(* fail for a whole ttl.                                                   *)
HandledFaults == {"dies", "error", "setup_fail", "install_dies"}

NoInstalls == \A i \in Installers : install[i] = "off"
OneRun == run[s2] = "off"
OneFile ==
  /\ blob[shipped] = "none" /\ \A s \in Sessions : copy[s][shipped] = "none"
  /\ person \notin {<<"write", shipped>>, <<"rename", notes, shipped>>, <<"rename", shipped, notes>>}

(* All of them at once are too many: a behaviour has both runs and the     *)
(* person at one file, or one run and the person at two, or one run and    *)
(* the installs.                                                           *)
Few == \/ NoInstalls /\ OneFile
       \/ NoInstalls /\ OneRun
       \/ OneRun /\ edits = 0

MCSpec == Init /\ [][Next /\ Few']_vars /\ Fairness
=============================================================================
