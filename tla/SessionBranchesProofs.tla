------------------------- MODULE SessionBranchesProofs -------------------------
(***************************************************************************)
(* What the run of SessionBranches shows on a small tree, proved for any   *)
(* number of clients, executions, branches and failures.  The walks back   *)
(* along the parents are recursive functions: that each has exactly one    *)
(* value is an invariant of the journal, which grows record by record.     *)
(***************************************************************************)
EXTENDS SessionBranches, SequenceTheorems, TLAPS

(* The variables at the start.                                             *)
LEMMA InitTypeOK == Init => TypeOK
  <1> SUFFICES ASSUME Init PROVE TypeOK
    OBVIOUS
  <1> USE BoundAssumption DEF BranchIds, Executions, Clients, None, Main
  <1>1. doc \in [active : BranchIds, head : Nat, sdk : Nat, lease : {None} \cup Executions]
    BY DEF Init
  <1>2. base \in [BranchIds -> [seq : Nat, uuid : Nat, sdk : Nat]] /\ made \in BranchIds
    BY DEF Init
  <1>3. exec \in [Executions ->
          [pc : Stations, branch : BranchIds, seq : Nat, tip : Nat, fresh : BOOLEAN, known : Nat,
           sdk : Nat, told : Nat, context : Nat, flushed : BOOLEAN, prompt : Nat]]
    BY DEF Init, Idle, Stations
  <1>4. client \in [Clients -> [pc : {"new", "record", "attached", "stream", "done"},
                                branch : BranchIds, cursor : Nat, since : Nat]]
    BY DEF Init, Visitor
  <1>5. minted \in [Executions -> [Writers -> Records \cup {NoRecord}]]
    BY DEF Init, Writers
  <1>6. journal \in Seq(Records) /\ memory \in Seq(SUBSET Nat)
    BY DEF Init
  <1>7. QED
    BY <1>1, <1>2, <1>3, <1>4, <1>5, <1>6 DEF Init, TypeOK

LEMMA RecordTypes ==
  ASSUME TypeOK
  PROVE  /\ Len(journal) \in Nat /\ Uuids = 1..Len(journal)
         /\ \A i \in Uuids :
              /\ journal[i] \in Records
              /\ journal[i].branch \in BranchIds /\ journal[i].kind \in Kinds
              /\ journal[i].seq \in Nat /\ journal[i].parent \in Nat
              /\ journal[i].sdk \in Nat /\ journal[i].context \in Nat
  <1>1. /\ Len(journal) \in Nat /\ Uuids = 1..Len(journal)
        /\ \A i \in Uuids : journal[i] \in Records
    BY DEF TypeOK, Uuids
  <1>2. QED
    BY <1>1 DEF Records

(* A record lands behind the others, which stay where they are.            *)
LEMMA Landed ==
  ASSUME journal \in Seq(Records), NEW record \in Records, journal' = Append(journal, record)
  PROVE  /\ journal' \in Seq(Records)
         /\ Len(journal') = Len(journal) + 1 /\ Len(journal) \in Nat
         /\ Uuids = 1..Len(journal) /\ Uuids' = Uuids \cup {Len(journal) + 1}
         /\ Len(journal) + 1 \notin Uuids
         /\ \A i \in Uuids : journal'[i] = journal[i]
         /\ journal'[Len(journal) + 1] = record
         /\ \A b : On(b)' = IF record.branch = b THEN On(b) \cup {Len(journal) + 1} ELSE On(b)
  <1>1. /\ journal' \in Seq(Records)
        /\ Len(journal') = Len(journal) + 1 /\ Len(journal) \in Nat
        /\ Uuids = 1..Len(journal) /\ Uuids' = 1..(Len(journal) + 1)
        /\ \A i \in 1..Len(journal) : journal'[i] = journal[i]
        /\ journal'[Len(journal) + 1] = record
    BY DEF Uuids
  <1>2. Uuids' = Uuids \cup {Len(journal) + 1} /\ Len(journal) + 1 \notin Uuids
    BY <1>1
  <1>3. ASSUME NEW b
        PROVE  On(b)' = IF record.branch = b THEN On(b) \cup {Len(journal) + 1} ELSE On(b)
    BY <1>1, <1>2 DEF On
  <1>4. QED
    BY <1>1, <1>2, <1>3

(* recover_head gives a record of the branch that none of it is above.     *)
LEMMA HeadIsHighest ==
  ASSUME TypeOK, HeadsExist, NEW b \in BranchIds
  PROVE  /\ HeadOf(b)[1] \in Nat /\ HeadOf(b)[2] \in Nat /\ HeadOf(b)[2] <= Len(journal)
         /\ \A j \in On(b) : journal[j].seq <= HeadOf(b)[1]
         /\ IF On(b) = {} THEN HeadOf(b) = <<0, None>>
            ELSE HeadOf(b)[2] \in On(b) /\ HeadOf(b)[1] = journal[HeadOf(b)[2]].seq
  <1>1. CASE On(b) = {}
    BY <1>1 DEF HeadOf, None, TypeOK
  <1>2. CASE On(b) # {}
    <2> DEFINE h == CHOOSE i \in On(b) : \A j \in On(b) : journal[j].seq <= journal[i].seq
    <2>1. h \in On(b) /\ \A j \in On(b) : journal[j].seq <= journal[h].seq
      BY <1>2 DEF HeadsExist
    <2>2. HeadOf(b) = <<journal[h].seq, h>>
      BY <1>2 DEF HeadOf
    <2>3. HeadOf(b)[1] = journal[h].seq /\ HeadOf(b)[2] = h
      BY <2>2
    <2>4. h \in 1..Len(journal) /\ journal[h] \in Records /\ Len(journal) \in Nat
      <3>1. h \in Uuids
        BY <2>1 DEF On
      <3> HIDE DEF h
      <3>2. QED
        BY <3>1, RecordTypes
    <2>5. journal[h].seq \in Nat /\ h \in Nat /\ h <= Len(journal)
      BY <2>4 DEF Records
    <2>6. QED
      BY <1>2, <2>1, <2>3, <2>5
  <1>3. QED
    BY <1>1, <1>2

-----------------------------------------------------------------------------
(* The walk to the base of a turn, over the records of any journal j.      *)

TurnWalk(j, f, event) ==
  f = [i \in 0..event |->
         IF i = None \/ j[i].kind \in {"result", "error"} THEN i ELSE f[j[i].parent]]

TurnWalkIsOne(j, event) ==
  /\ \E f : TurnWalk(j, f, event)
  /\ \A f, g : TurnWalk(j, f, event) /\ TurnWalk(j, g, event) => f = g

(* The prefix of a walk is the walk of a shorter way.                      *)
LEMMA TurnWalkPrefix ==
  ASSUME NEW j, NEW event \in Nat, \A i \in 1..event : j[i].parent \in 0..(i - 1),
         NEW f, TurnWalk(j, f, event), NEW e \in 0..event
  PROVE  TurnWalk(j, [i \in 0..e |-> f[i]], e)
  <1> DEFINE g == [i \in 0..e |-> f[i]]
  <1>1. ASSUME NEW i \in 0..e
        PROVE  g[i] = IF i = None \/ j[i].kind \in {"result", "error"} THEN i ELSE g[j[i].parent]
    <2>1. i \in 0..event
      OBVIOUS
    <2>2. f[i] = IF i = None \/ j[i].kind \in {"result", "error"} THEN i ELSE f[j[i].parent]
      BY <2>1 DEF TurnWalk
    <2>3. i # None => j[i].parent \in 0..e
      BY DEF None
    <2>4. QED
      BY <2>2, <2>3
  <1>2. g = [i \in 0..e |->
               IF i = None \/ j[i].kind \in {"result", "error"} THEN i ELSE g[j[i].parent]]
    BY <1>1
  <1>3. QED
    BY <1>2 DEF TurnWalk

(* The walk from one record more goes on where that of its parent ends.    *)
LEMMA TurnWalkExtends ==
  ASSUME NEW j, NEW n \in Nat, \A i \in 1..(n + 1) : j[i].parent \in 0..(i - 1),
         TurnWalkIsOne(j, n)
  PROVE  TurnWalkIsOne(j, n + 1)
  <1>1. \E f : TurnWalk(j, f, n + 1)
    <2>1. PICK f : TurnWalk(j, f, n)
      BY DEF TurnWalkIsOne
    <2> DEFINE g == [i \in 0..(n + 1) |->
                       IF i = n + 1
                       THEN IF j[i].kind \in {"result", "error"} THEN i ELSE f[j[i].parent]
                       ELSE f[i]]
    <2>2. ASSUME NEW i \in 0..(n + 1)
          PROVE  g[i] = IF i = None \/ j[i].kind \in {"result", "error"} THEN i
                        ELSE g[j[i].parent]
      <3>1. i # None => j[i].parent \in 0..n
        BY DEF None
      <3>2. \A k \in 0..n : g[k] = f[k]
        OBVIOUS
      <3>3. CASE i = n + 1
        BY <3>1, <3>2, <3>3 DEF None
      <3>4. CASE i # n + 1
        <4>1. i \in 0..n
          BY <3>4
        <4>2. f[i] = IF i = None \/ j[i].kind \in {"result", "error"} THEN i
                     ELSE f[j[i].parent]
          BY <2>1, <4>1 DEF TurnWalk
        <4>3. QED
          BY <3>1, <3>2, <4>1, <4>2
      <3>5. QED
        BY <3>3, <3>4
    <2>3. g = [i \in 0..(n + 1) |->
                 IF i = None \/ j[i].kind \in {"result", "error"} THEN i ELSE g[j[i].parent]]
      BY <2>2
    <2>4. TurnWalk(j, g, n + 1)
      BY <2>3 DEF TurnWalk
    <2>5. QED
      BY <2>4
  <1>2. ASSUME NEW f, NEW g, TurnWalk(j, f, n + 1), TurnWalk(j, g, n + 1)
        PROVE  f = g
    <2>1. n + 1 \in Nat /\ n \in 0..(n + 1)
      OBVIOUS
    <2>2. TurnWalk(j, [i \in 0..n |-> f[i]], n) /\ TurnWalk(j, [i \in 0..n |-> g[i]], n)
      BY <1>2, <2>1, TurnWalkPrefix
    <2>3. [i \in 0..n |-> f[i]] = [i \in 0..n |-> g[i]]
      BY <2>2 DEF TurnWalkIsOne
    <2>4. ASSUME NEW i \in 0..n PROVE f[i] = g[i]
      <3>1. [k \in 0..n |-> f[k]][i] = f[i] /\ [k \in 0..n |-> g[k]][i] = g[i]
        OBVIOUS
      <3>2. QED
        BY <2>3, <3>1
    <2>5. f[n + 1] = g[n + 1]
      <3>1. n + 1 \in 0..(n + 1) /\ n + 1 # None /\ j[n + 1].parent \in 0..n
        BY DEF None
      <3>2. f[j[n + 1].parent] = g[j[n + 1].parent]
        BY <2>4, <3>1
      <3>3. QED
        BY <1>2, <3>1, <3>2 DEF TurnWalk
    <2>6. \A i \in 0..(n + 1) : f[i] = g[i]
      BY <2>4, <2>5
    <2>7. DOMAIN f = 0..(n + 1) /\ DOMAIN g = 0..(n + 1)
      BY <1>2 DEF TurnWalk
    <2>8. f = [i \in 0..(n + 1) |-> f[i]] /\ g = [i \in 0..(n + 1) |-> g[i]]
      BY <1>2, <2>7 DEF TurnWalk
    <2>9. QED
      BY <2>6, <2>8
  <1>3. QED
    BY <1>1, <1>2 DEF TurnWalkIsOne

(* Only the records on the way matter.                                     *)
LEMMA TurnWalkAgrees ==
  ASSUME NEW j, NEW k, NEW event \in Nat, \A i \in 1..event : j[i] = k[i]
  PROVE  \A f : TurnWalk(j, f, event) <=> TurnWalk(k, f, event)
  <1>1. ASSUME NEW f
        PROVE  [i \in 0..event |->
                  IF i = None \/ j[i].kind \in {"result", "error"} THEN i ELSE f[j[i].parent]]
             = [i \in 0..event |->
                  IF i = None \/ k[i].kind \in {"result", "error"} THEN i ELSE f[k[i].parent]]
    <2>1. \A i \in 0..event : i # None => j[i] = k[i]
      BY DEF None
    <2>2. QED
      BY <2>1
  <1>2. QED
    BY <1>1 DEF TurnWalk

(* Where the walk from a record ends.                                      *)
WalkEnd(j, event) == (CHOOSE w : TurnWalk(j, w, event))[event]

LEMMA TurnBaseIsWalkEnd ==
  ASSUME NEW event
  PROVE  TurnBase(event) = WalkEnd(journal, event) /\ TurnBase(event)' = WalkEnd(journal', event)
  BY DEF TurnBase, WalkEnd, TurnWalk, IsResult

LEMMA WalkEndIs ==
  ASSUME NEW j, NEW event \in Nat, TurnWalkIsOne(j, event), NEW f, TurnWalk(j, f, event)
  PROVE  WalkEnd(j, event) = f[event]
  <1> DEFINE w == CHOOSE w : TurnWalk(j, w, event)
  <1>1. TurnWalk(j, w, event)
    BY DEF TurnWalkIsOne
  <1>2. w = f
    BY <1>1 DEF TurnWalkIsOne
  <1>3. QED
    BY <1>2 DEF WalkEnd

(* The walk from a result ends there, any other where its parent's ends.   *)
LEMMA WalkEndUnfolds ==
  ASSUME NEW j, NEW n \in Nat, \A i \in 1..n : j[i].parent \in 0..(i - 1),
         \A e \in 0..n : TurnWalkIsOne(j, e), NEW event \in 0..n
  PROVE  WalkEnd(j, event) = IF event = None \/ j[event].kind \in {"result", "error"} THEN event
                             ELSE WalkEnd(j, j[event].parent)
  <1>1. event \in Nat /\ \A i \in 1..event : j[i].parent \in 0..(i - 1)
    OBVIOUS
  <1>2. PICK f : TurnWalk(j, f, event)
    BY DEF TurnWalkIsOne
  <1>3. ASSUME NEW e \in 0..event PROVE WalkEnd(j, e) = f[e]
    <2>1. TurnWalk(j, [i \in 0..e |-> f[i]], e)
      BY <1>1, <1>2, TurnWalkPrefix
    <2>2. e \in 0..n /\ e \in Nat
      OBVIOUS
    <2>3. WalkEnd(j, e) = [i \in 0..e |-> f[i]][e]
      BY <2>1, <2>2, WalkEndIs
    <2>4. QED
      BY <2>2, <2>3
  <1>4. f[event] = IF event = None \/ j[event].kind \in {"result", "error"} THEN event
                   ELSE f[j[event].parent]
    BY <1>1, <1>2 DEF TurnWalk
  <1>5. event # None => j[event].parent \in 0..event
    BY <1>1 DEF None
  <1>6. QED
    BY <1>3, <1>4, <1>5

(* ... at a result or nowhere.                                             *)
LEMMA WalkEndAgrees ==
  ASSUME NEW j, NEW k, NEW event \in Nat, \A i \in 1..event : j[i] = k[i]
  PROVE  /\ TurnWalkIsOne(j, event) <=> TurnWalkIsOne(k, event)
         /\ WalkEnd(j, event) = WalkEnd(k, event)
  <1>1. \A f : TurnWalk(j, f, event) <=> TurnWalk(k, f, event)
    BY TurnWalkAgrees
  <1>2. (CHOOSE w : TurnWalk(j, w, event)) = (CHOOSE w : TurnWalk(k, w, event))
    BY <1>1
  <1>3. QED
    BY <1>1, <1>2 DEF TurnWalkIsOne, WalkEnd

(* Every walk has one end, a result or None.                               *)
WalksEnd ==
  \A event \in 0..Len(journal) :
    /\ TurnWalkIsOne(journal, event)
    /\ TurnBase(event) \in 0..event
    /\ TurnBase(event) # None => IsResult(TurnBase(event))

LEMMA ParentsBefore ==
  ASSUME TypeOK, RecordsPointBack
  PROVE  \A i \in 1..Len(journal) : journal[i].parent \in 0..(i - 1)
  BY RecordTypes DEF RecordsPointBack

(* A record that lands has its walk, and the others keep theirs.           *)
LEMMA WalksEndLanded ==
  ASSUME TypeOK, RecordsPointBack, WalksEnd, NEW n \in Nat, n = Len(journal),
         NEW record \in Records, record.parent <= n, journal' = Append(journal, record)
  PROVE  /\ WalksEnd'
         /\ \A event \in 0..n : TurnBase(event)' = TurnBase(event)
         /\ TurnBase(n + 1)' =
              IF record.kind \in {"result", "error"} THEN n + 1
              ELSE TurnBase(record.parent)
  <1>1. /\ Len(journal') = n + 1 /\ journal'[n + 1] = record
        /\ \A i \in 1..n : journal'[i] = journal[i]
    BY Landed DEF TypeOK
  <1>2. record.parent \in 0..n
    BY <1>1 DEF Records
  <1>3. \A i \in 1..(n + 1) : journal'[i].parent \in 0..(i - 1)
    <2>1. \A i \in 1..n : journal[i].parent \in 0..(i - 1)
      BY ParentsBefore
    <2>2. QED
      BY <1>1, <1>2, <2>1
  <1>4. ASSUME NEW e \in 0..n
        PROVE  TurnWalkIsOne(journal', e) /\ TurnBase(e)' = TurnBase(e)
    <2>1. TurnWalkIsOne(journal, e) /\ e \in Nat /\ \A i \in 1..e : journal[i] = journal'[i]
      BY <1>1 DEF WalksEnd
    <2>2. /\ TurnWalkIsOne(journal, e) <=> TurnWalkIsOne(journal', e)
          /\ WalkEnd(journal, e) = WalkEnd(journal', e)
      BY <2>1, WalkEndAgrees
    <2>3. QED
      BY <2>1, <2>2, TurnBaseIsWalkEnd
  <1>5. TurnWalkIsOne(journal', n + 1)
    <2>1. TurnWalkIsOne(journal', n)
      BY <1>4
    <2>2. QED
      BY <1>3, <2>1, TurnWalkExtends
  <1>6. \A e \in 0..(n + 1) : TurnWalkIsOne(journal', e)
    BY <1>4, <1>5
  <1>7. TurnBase(n + 1)' =
          IF record.kind \in {"result", "error"} THEN n + 1 ELSE TurnBase(record.parent)
    <2>1. n + 1 \in 0..(n + 1) /\ n + 1 # None /\ n + 1 \in Nat
      BY DEF None
    <2>2. WalkEnd(journal', n + 1) =
            IF n + 1 = None \/ journal'[n + 1].kind \in {"result", "error"} THEN n + 1
            ELSE WalkEnd(journal', journal'[n + 1].parent)
      BY <1>3, <1>6, <2>1, WalkEndUnfolds
    <2>3. /\ TurnBase(n + 1)' = WalkEnd(journal', n + 1)
          /\ TurnBase(record.parent)' = WalkEnd(journal', record.parent)
          /\ TurnBase(record.parent)' = TurnBase(record.parent)
      BY <1>2, <1>4, TurnBaseIsWalkEnd
    <2>4. QED
      BY <1>1, <2>1, <2>2, <2>3
  <1>8. ASSUME NEW e \in 0..(n + 1)
        PROVE  TurnBase(e)' \in 0..e /\ (TurnBase(e) # None => IsResult(TurnBase(e)))'
    <2>1. \A i \in 0..n :
            TurnBase(i) \in 0..i /\ (TurnBase(i) # None => IsResult(TurnBase(i)))
      BY DEF WalksEnd
    <2>2. CASE e \in 0..n
      <3>1. TurnBase(e)' = TurnBase(e) /\ TurnBase(e) \in 0..e
        BY <1>4, <2>1, <2>2
      <3>2. TurnBase(e) # None => TurnBase(e) \in 1..n /\ IsResult(TurnBase(e))
        BY <2>1, <2>2, <3>1 DEF None
      <3>3. QED
        BY <1>1, <3>1, <3>2 DEF IsResult
    <2>3. CASE e = n + 1 /\ record.kind \in {"result", "error"}
      <3>1. TurnBase(e)' = n + 1
        BY <1>7, <2>3
      <3>2. QED
        BY <1>1, <2>3, <3>1 DEF IsResult
    <2>4. CASE e = n + 1 /\ record.kind \notin {"result", "error"}
      <3> DEFINE b == TurnBase(record.parent)
      <3>1. TurnBase(e)' = b /\ b \in 0..record.parent
        BY <1>2, <1>7, <2>1, <2>4
      <3>2. b # None => b \in 1..n /\ IsResult(b)
        BY <1>2, <2>1, <3>1 DEF None
      <3>3. b # None => journal'[b] = journal[b]
        BY <1>1, <3>2
      <3>4. QED
        BY <1>2, <2>4, <3>1, <3>2, <3>3 DEF IsResult
    <2>5. QED
      BY <2>2, <2>3, <2>4
  <1>9. WalksEnd'
    BY <1>1, <1>6, <1>8 DEF WalksEnd
  <1>10. QED
    BY <1>4, <1>7, <1>9

-----------------------------------------------------------------------------
(* The types, and what is pointed at.                                      *)

Hand ==
  [pc : Stations, branch : BranchIds, seq : Nat, tip : Nat, fresh : BOOLEAN, known : Nat,
   sdk : Nat, told : Nat, context : Nat, flushed : BOOLEAN, prompt : Nat]

TypeInv == TypeOK /\ PointersHold /\ HeadsExist /\ WalksEnd

(* What holds of the journal, of the rows that point into it, of what the  *)
(* executions have in hand and of what they have on the way.               *)
JournalInv == journal \in Seq(Records) /\ RecordsPointBack /\ HeadsExist /\ WalksEnd

BaseInv ==
  /\ base \in [BranchIds -> [seq : Nat, uuid : Nat, sdk : Nat]]
  /\ doc \in [active : BranchIds, head : Nat, sdk : Nat, lease : {None} \cup Executions]
  /\ made \in BranchIds
  /\ BasesStand

HandInv ==
  /\ exec \in [Executions -> Hand]
  /\ \A r \in Executions :
       /\ exec[r].tip <= Len(journal)
       /\ \A s \in {exec[r].known, exec[r].sdk, exec[r].told, exec[r].context} : Known(s)

MintInv ==
  /\ minted \in [Executions -> [Writers -> Records \cup {NoRecord}]]
  /\ \A r \in Executions, w \in Writers :
       minted[r][w] # NoRecord =>
         /\ minted[r][w].parent <= Len(journal)
         /\ Known(minted[r][w].sdk) /\ Known(minted[r][w].context)

RestOK ==
  /\ queue \in Nat
  /\ memory \in Seq(SUBSET Nat)
  /\ client \in [Clients -> [pc : {"new", "record", "attached", "stream", "done"},
                             branch : BranchIds, cursor : Nat, since : Nat]]
  /\ logged \subseteq BranchIds \X Nat
  /\ failures \in Nat
  /\ twice \in BOOLEAN /\ stale \in BOOLEAN

LEMMA TypeInvParts == TypeInv <=> JournalInv /\ BaseInv /\ HandInv /\ MintInv /\ RestOK
  BY DEF TypeInv, TypeOK, PointersHold, HandsHold, JournalInv, BaseInv, HandInv, MintInv,
         RestOK, Hand

LEMMA Lengths ==
  TypeInv => Len(journal) \in Nat /\ Len(memory) \in Nat /\ Uuids = 1..Len(journal)
  BY DEF TypeInv, TypeOK, Uuids

LEMMA TypeInvPartsNext ==
  TypeInv' <=> JournalInv' /\ BaseInv' /\ HandInv' /\ MintInv' /\ RestOK'
  BY DEF TypeInv, TypeOK, PointersHold, HandsHold, JournalInv, BaseInv, HandInv, MintInv,
         RestOK, Hand

(* Nothing points further when the memory grows ...                        *)
LEMMA JournalStays ==
  ASSUME JournalInv, UNCHANGED journal, Len(memory) \in Nat, Len(memory') \in Nat,
         Len(memory) <= Len(memory')
  PROVE  JournalInv'
  <1>1. RecordsPointBack'
    <2>1. ASSUME NEW i \in Uuids
          PROVE  journal[i].parent < i /\ journal[i].sdk <= Len(memory')
                 /\ journal[i].context <= Len(memory')
      <3>1. journal[i] \in Records
        BY DEF JournalInv, Uuids
      <3>2. journal[i].sdk \in Nat /\ journal[i].context \in Nat
        BY <3>1 DEF Records
      <3>3. journal[i].parent < i /\ journal[i].sdk <= Len(memory)
            /\ journal[i].context <= Len(memory)
        BY DEF JournalInv, RecordsPointBack, Known
      <3>4. QED
        BY <3>2, <3>3
    <2>2. QED
      BY <2>1 DEF RecordsPointBack, Known, Uuids
  <1>2. HeadsExist'
    BY DEF JournalInv, HeadsExist, On, Uuids
  <1>3. ASSUME NEW event \in 0..Len(journal)
        PROVE  TurnBase(event)' = TurnBase(event)
    BY TurnBaseIsWalkEnd
  <1>4. WalksEnd'
    BY <1>3 DEF JournalInv, WalksEnd, IsResult
  <1>5. QED
    BY <1>1, <1>2, <1>4 DEF JournalInv

LEMMA HeadsExistLanded ==
  ASSUME journal \in Seq(Records), HeadsExist, NEW record \in Records,
         journal' = Append(journal, record)
  PROVE  HeadsExist'
  <1> SUFFICES ASSUME NEW b \in BranchIds, On(b)' # {}
               PROVE  \E i \in On(b)' : \A j \in On(b)' : journal'[j].seq <= journal'[i].seq
    BY DEF HeadsExist
  <1> DEFINE n == Len(journal) + 1
  <1>1. /\ \A i \in Uuids : journal'[i] = journal[i] /\ journal[i].seq \in Nat
        /\ journal'[n] = record /\ record.seq \in Nat /\ On(b) \subseteq Uuids
        /\ On(b)' = IF record.branch = b THEN On(b) \cup {n} ELSE On(b)
    <2>1. \A i \in Uuids : journal[i] \in Records
      BY DEF Uuids
    <2>2. QED
      BY <2>1, Landed DEF Records, On
  <1>2. record.seq \in Nat /\ journal'[n].seq = record.seq
    BY <1>1
  <1>3. CASE On(b) = {}
    BY <1>1, <1>2, <1>3
  <1>4. CASE On(b) # {}
    <2>1. PICK i \in On(b) : \A j \in On(b) : journal[j].seq <= journal[i].seq
      BY <1>4 DEF HeadsExist
    <2>2. journal'[i].seq = journal[i].seq /\ journal[i].seq \in Nat
      BY <1>1
    <2>3. \A j \in On(b) : journal'[j].seq <= journal'[i].seq
      BY <1>1, <2>1, <2>2
    <2>4. CASE record.branch = b /\ journal[i].seq < record.seq
      <3>1. \A j \in On(b) : journal'[j].seq <= journal'[n].seq
        <4> SUFFICES ASSUME NEW j \in On(b) PROVE journal'[j].seq <= journal'[n].seq
          OBVIOUS
        <4>1. journal[j].seq <= journal[i].seq /\ journal[j].seq \in Nat
          BY <1>1, <2>1
        <4>2. journal[j].seq <= record.seq
          BY <1>2, <2>2, <2>4, <4>1
        <4>3. QED
          BY <1>1, <1>2, <4>2
      <3>2. On(b)' = On(b) \cup {n} /\ journal'[n].seq <= journal'[n].seq
        BY <1>1, <2>4
      <3>3. QED
        BY <3>1, <3>2
    <2>5. CASE record.branch = b /\ record.seq <= journal[i].seq
      <3>1. On(b)' = On(b) \cup {n} /\ journal'[n].seq <= journal'[i].seq
        BY <1>1, <2>2, <2>5
      <3>2. QED
        BY <2>3, <3>1
    <2>6. CASE record.branch # b
      BY <1>1, <2>3, <2>6
    <2>7. QED
      <3>1. record.seq <= journal[i].seq \/ journal[i].seq < record.seq
        BY <1>2, <2>2
      <3>2. QED
        BY <2>4, <2>5, <2>6, <3>1
  <1>5. QED
    BY <1>3, <1>4

(* ... nor when a record lands that points to what there is.               *)
LEMMA JournalGrows ==
  ASSUME TypeInv, NEW record \in Records, journal' = Append(journal, record),
         record.parent <= Len(journal), Known(record.sdk), Known(record.context),
         Len(memory') \in Nat, Len(memory) <= Len(memory')
  PROVE  JournalInv' /\ Len(journal') = Len(journal) + 1
  <1>1. /\ Len(journal') = Len(journal) + 1 /\ Len(journal) \in Nat /\ Len(memory) \in Nat
        /\ Uuids = 1..Len(journal) /\ Uuids' = Uuids \cup {Len(journal) + 1}
        /\ \A i \in Uuids : journal'[i] = journal[i] /\ journal[i] \in Records
        /\ journal'[Len(journal) + 1] = record /\ journal' \in Seq(Records)
    <2>1. TypeOK /\ journal \in Seq(Records)
      BY DEF TypeInv, TypeOK
    <2>2. Len(memory) \in Nat
      BY Lengths
    <2>3. \A i \in Uuids : journal[i] \in Records
      BY <2>1, RecordTypes
    <2>4. QED
      BY <2>1, <2>2, <2>3, Landed
  <1>2. RecordsPointBack'
    <2>1. ASSUME NEW i \in Uuids
          PROVE  journal'[i].parent < i /\ journal'[i].sdk <= Len(memory')
                 /\ journal'[i].context <= Len(memory')
      <3>1. journal[i].sdk \in Nat /\ journal[i].context \in Nat
        BY <1>1 DEF Records
      <3>2. journal[i].parent < i /\ journal[i].sdk <= Len(memory)
            /\ journal[i].context <= Len(memory)
        BY DEF TypeInv, PointersHold, RecordsPointBack, Known
      <3>3. QED
        BY <1>1, <3>1, <3>2
    <2>2. record.parent < Len(journal) + 1 /\ record.sdk <= Len(memory')
          /\ record.context <= Len(memory')
      BY <1>1 DEF Known, Records
    <2>3. QED
      BY <1>1, <2>1, <2>2 DEF RecordsPointBack, Known
  <1>3. HeadsExist'
    BY HeadsExistLanded DEF TypeInv, TypeOK
  <1>4. WalksEnd'
    BY <1>1, WalksEndLanded DEF TypeInv, PointersHold
  <1>5. QED
    BY <1>1, <1>2, <1>3, <1>4 DEF JournalInv

(* The branches stand on what they stood on.                               *)
LEMMA BasesStay ==
  ASSUME TypeInv, UNCHANGED <<base, doc, made>>, Len(memory') \in Nat,
         Len(memory) <= Len(memory'),
         Uuids \subseteq Uuids', \A i \in Uuids : journal'[i] = journal[i]
  PROVE  BaseInv'
  <1>1. BaseInv /\ Len(memory) \in Nat
    BY TypeInvParts, Lengths
  <1>2. doc.sdk \in Nat /\ \A b \in BranchIds : base[b].sdk \in Nat
    BY <1>1 DEF BaseInv
  <1>3. BasesStand'
    <2>1. ASSUME NEW b \in BranchIds
          PROVE  /\ Known(base[b].sdk)'
                 /\ IF base[b].uuid = None THEN base[b].seq = 0
                    ELSE base[b].uuid \in Uuids' /\ base[b].seq = journal'[base[b].uuid].seq
      <3>1. Known(base[b].sdk)'
        BY <1>1, <1>2 DEF BaseInv, BasesStand, Known
      <3>2. QED
        BY <1>1, <3>1 DEF BaseInv, BasesStand
    <2>2. Known(doc.sdk)'
      BY <1>1, <1>2 DEF BaseInv, BasesStand, Known
    <2>3. QED
      BY <1>1, <2>1, <2>2 DEF BaseInv, BasesStand, Known
  <1>4. QED
    BY <1>1, <1>3 DEF BaseInv

(* One execution takes something else in hand, and nothing vanishes.       *)
LEMMA HandChanges ==
  ASSUME TypeInv, NEW r \in Executions, exec' = [exec EXCEPT ![r] = exec'[r]], exec'[r] \in Hand,
         Len(journal') \in Nat, Len(memory') \in Nat,
         Len(journal) <= Len(journal'), Len(memory) <= Len(memory'),
         exec'[r].tip <= Len(journal'),
         exec'[r].known <= Len(memory'), exec'[r].sdk <= Len(memory'),
         exec'[r].told <= Len(memory'), exec'[r].context <= Len(memory')
  PROVE  HandInv'
  <1>1. HandInv /\ Len(journal) \in Nat /\ Len(memory) \in Nat
    BY TypeInvParts, Lengths
  <1>2. exec' \in [Executions -> Hand]
    BY <1>1 DEF HandInv
  <1>3. ASSUME NEW q \in Executions
        PROVE  /\ exec'[q].tip <= Len(journal')
               /\ exec'[q].known <= Len(memory') /\ exec'[q].sdk <= Len(memory')
               /\ exec'[q].told <= Len(memory') /\ exec'[q].context <= Len(memory')
    <2>1. CASE q = r
      BY <2>1
    <2>2. CASE q # r
      <3>1. exec'[q] = exec[q] /\ exec[q] \in Hand
        BY <1>1, <2>2 DEF HandInv
      <3>2. exec[q].tip <= Len(journal) /\ exec[q].tip \in Nat
        BY <1>1, <3>1 DEF HandInv, Hand
      <3>3. \A s \in {exec[q].known, exec[q].sdk, exec[q].told, exec[q].context} :
              s \in Nat /\ s <= Len(memory)
        BY <1>1, <3>1 DEF HandInv, Hand, Known
      <3>4. QED
        BY SMTT(30), <1>1, <3>1, <3>2, <3>3
    <2>3. QED
      BY <2>1, <2>2
  <1>4. QED
    BY <1>2, <1>3 DEF HandInv, Known

LEMMA HandsStay ==
  ASSUME TypeInv, UNCHANGED exec, Len(journal') \in Nat, Len(memory') \in Nat,
         Len(journal) <= Len(journal'), Len(memory) <= Len(memory')
  PROVE  HandInv'
  <1>1. HandInv /\ Len(journal) \in Nat /\ Len(memory) \in Nat
    BY TypeInvParts, Lengths
  <1>2. ASSUME NEW q \in Executions
        PROVE  /\ exec[q].tip <= Len(journal')
               /\ \A s \in {exec[q].known, exec[q].sdk, exec[q].told, exec[q].context} :
                    s <= Len(memory')
    <2>1. exec[q].tip <= Len(journal) /\ exec[q].tip \in Nat
      BY <1>1 DEF HandInv, Hand
    <2>2. \A s \in {exec[q].known, exec[q].sdk, exec[q].told, exec[q].context} :
            s \in Nat /\ s <= Len(memory)
      <3>1. exec[q] \in Hand
        BY <1>1 DEF HandInv
      <3>2. QED
        BY <1>1, <3>1 DEF HandInv, Hand, Known
    <2>3. exec[q].tip <= Len(journal')
      BY <1>1, <2>1
    <2>4. QED
      BY <1>1, <2>2, <2>3
  <1>3. QED
    BY <1>1, <1>2 DEF HandInv, Known

(* What is on the way still points to what there is.                       *)
LEMMA MintedStays ==
  ASSUME TypeInv,
         \A q \in Executions, w \in Writers : minted'[q][w] \in {minted[q][w], NoRecord},
         minted' \in [Executions -> [Writers -> Records \cup {NoRecord}]],
         Len(journal') \in Nat, Len(memory') \in Nat,
         Len(journal) <= Len(journal'), Len(memory) <= Len(memory')
  PROVE  MintInv'
  <1>1. MintInv /\ Len(journal) \in Nat /\ Len(memory) \in Nat
    BY TypeInvParts, Lengths
  <1>2. ASSUME NEW q \in Executions, NEW w \in Writers, minted'[q][w] # NoRecord
        PROVE  /\ minted'[q][w].parent <= Len(journal')
               /\ minted'[q][w].sdk <= Len(memory') /\ minted'[q][w].context <= Len(memory')
    <2>1. minted'[q][w] = minted[q][w] /\ minted[q][w] \in Records
      BY <1>1, <1>2 DEF MintInv
    <2>2. /\ minted[q][w].parent <= Len(journal) /\ minted[q][w].parent \in Nat
          /\ minted[q][w].sdk <= Len(memory) /\ minted[q][w].sdk \in Nat
          /\ minted[q][w].context <= Len(memory) /\ minted[q][w].context \in Nat
      BY <1>1, <1>2, <2>1 DEF MintInv, Known, Records
    <2>3. QED
      BY <1>1, <2>1, <2>2
  <1>3. QED
    BY <1>2 DEF MintInv, Known

LEMMA HandTypes ==
  ASSUME TypeInv, NEW r \in Executions
  PROVE  /\ exec[r] \in Hand
         /\ exec[r].pc \in Stations /\ exec[r].branch \in BranchIds /\ exec[r].seq \in Nat
         /\ exec[r].tip \in Nat /\ exec[r].fresh \in BOOLEAN /\ exec[r].known \in Nat
         /\ exec[r].sdk \in Nat /\ exec[r].told \in Nat /\ exec[r].context \in Nat
         /\ exec[r].flushed \in BOOLEAN /\ exec[r].prompt \in Nat
         /\ exec[r].tip <= Len(journal)
         /\ exec[r].known <= Len(memory) /\ exec[r].sdk <= Len(memory)
         /\ exec[r].told <= Len(memory) /\ exec[r].context <= Len(memory)
  <1>1. HandInv
    BY TypeInvParts
  <1>2. exec[r] \in Hand
    BY <1>1 DEF HandInv
  <1>3. QED
    BY <1>1, <1>2 DEF HandInv, Hand, Known

LEMMA BaseTypes ==
  ASSUME TypeInv, NEW b \in BranchIds
  PROVE  /\ base[b].seq \in Nat /\ base[b].uuid \in Nat /\ base[b].sdk \in Nat
         /\ base[b].sdk <= Len(memory) /\ base[b].uuid <= Len(journal)
         /\ base[b].uuid = None => base[b].seq = 0
         /\ base[b].uuid # None => /\ base[b].uuid \in Uuids
                                   /\ base[b].seq = journal[base[b].uuid].seq
         /\ doc.active \in BranchIds /\ doc.head \in Nat /\ doc.sdk \in Nat
         /\ doc.lease \in {None} \cup Executions /\ doc.sdk <= Len(memory)
         /\ doc.active <= made /\ made \in 0..MaxBranches
  <1>1. BaseInv
    BY TypeInvParts
  <1>2. base[b].seq \in Nat /\ base[b].uuid \in Nat /\ base[b].sdk \in Nat
    BY <1>1 DEF BaseInv
  <1>3. /\ doc.active \in BranchIds /\ doc.head \in Nat /\ doc.sdk \in Nat
        /\ doc.lease \in {None} \cup Executions /\ made \in 0..MaxBranches
    BY <1>1 DEF BaseInv, BranchIds
  <1>4. /\ base[b].sdk <= Len(memory) /\ doc.sdk <= Len(memory) /\ doc.active <= made
        /\ base[b].uuid = None => base[b].seq = 0
        /\ base[b].uuid # None => /\ base[b].uuid \in Uuids
                                  /\ base[b].seq = journal[base[b].uuid].seq
    BY <1>1 DEF BaseInv, BasesStand, Known
  <1>5. base[b].uuid <= Len(journal)
    BY <1>4, Lengths DEF None
  <1>6. QED
    BY <1>2, <1>3, <1>4, <1>5

LEMMA GoneIsHand ==
  /\ Gone \in Hand
  /\ Gone.pc = "done" /\ Gone.tip = None /\ Gone.known = None /\ Gone.sdk = None
  /\ Gone.told = None /\ Gone.context = None
  <1>1. Main \in BranchIds /\ None \in Nat
    BY BoundAssumption DEF Main, BranchIds, None
  <1>2. "off" \in Stations /\ "done" \in Stations /\ 0 \in Nat /\ FALSE \in BOOLEAN
    BY DEF Stations
  <1>3. Idle \in Hand
    BY <1>1, <1>2 DEF Idle, Hand
  <1>4. /\ Idle.tip = None /\ Idle.known = None /\ Idle.sdk = None
        /\ Idle.told = None /\ Idle.context = None
    BY DEF Idle
  <1>5. QED
    BY <1>2, <1>3, <1>4 DEF Gone, Hand

LEMMA RecoveredTypes ==
  ASSUME TypeInv, NEW b \in BranchIds
  PROVE  Recovered(b)[1] \in Nat /\ Recovered(b)[2] \in Nat /\ Recovered(b)[2] <= Len(journal)
  <1>1. HeadOf(b)[1] \in Nat /\ HeadOf(b)[2] \in Nat /\ HeadOf(b)[2] <= Len(journal)
    BY HeadIsHighest DEF TypeInv
  <1>2. QED
    BY <1>1, BaseTypes DEF Recovered

(* What a step does not touch.                                             *)
LEMMA Untouched ==
  ASSUME TypeInv
  PROVE  /\ UNCHANGED <<journal, memory>> =>
              /\ JournalInv'
              /\ UNCHANGED <<base, doc, made>> => BaseInv'
              /\ UNCHANGED exec => HandInv'
              /\ UNCHANGED minted => MintInv'
         /\ (UNCHANGED <<queue, memory, client, logged, failures, twice, stale>>) => RestOK'
  <1>1. ASSUME UNCHANGED <<journal, memory>>
        PROVE  /\ JournalInv'
               /\ UNCHANGED <<base, doc, made>> => BaseInv'
               /\ UNCHANGED exec => HandInv'
               /\ UNCHANGED minted => MintInv'
    <2>1. /\ Len(journal) \in Nat /\ Len(memory) \in Nat
          /\ Len(journal') = Len(journal) /\ Len(memory') = Len(memory)
          /\ Uuids' = Uuids /\ \A i \in Uuids : journal'[i] = journal[i]
      BY <1>1, Lengths DEF Uuids
    <2>2. JournalInv'
      BY <1>1, <2>1, TypeInvParts, JournalStays
    <2>3. UNCHANGED <<base, doc, made>> => BaseInv'
      BY <2>1, BasesStay
    <2>4. UNCHANGED exec => HandInv'
      BY <2>1, HandsStay
    <2>5. ASSUME UNCHANGED minted PROVE MintInv'
      <3>1. minted \in [Executions -> [Writers -> Records \cup {NoRecord}]]
        BY TypeInvParts DEF MintInv
      <3>2. QED
        BY <2>1, <2>5, <3>1, MintedStays
    <2>6. QED
      BY <2>2, <2>3, <2>4, <2>5
  <1>2. ASSUME UNCHANGED <<queue, memory, client, logged, failures, twice, stale>>
        PROVE  RestOK'
    BY <1>2, TypeInvParts DEF RestOK
  <1>3. QED
    BY <1>1, <1>2

(* The steps of the clients.                                               *)
LEMMA AttachTypes ==
  ASSUME TypeInv, NEW c \in Clients, Attach(c) PROVE TypeInv'
  <1>1. JournalInv' /\ BaseInv' /\ HandInv' /\ MintInv'
    BY Untouched DEF Attach, execVars
  <1>2. doc.active \in BranchIds /\ CursorOf(doc.active) \in Nat
    BY HeadIsHighest DEF TypeInv, TypeOK, CursorOf
  <1>3. RestOK'
    <2>1. RestOK /\ Len(journal) \in Nat
      BY Lengths, TypeInvParts
    <2>2. /\ client' = [client EXCEPT ![c].pc = "attached", ![c].branch = doc.active,
                                      ![c].cursor = CursorOf(doc.active),
                                      ![c].since = Len(journal)]
          /\ UNCHANGED <<queue, memory, logged, failures, twice, stale>>
      BY DEF Attach, logVars, execVars
    <2>3. client' \in [Clients -> [pc : {"new", "record", "attached", "stream", "done"},
                                   branch : BranchIds, cursor : Nat, since : Nat]]
      BY ZenonT(60), <1>2, <2>1, <2>2 DEF RestOK
    <2>4. QED
      BY <2>1, <2>2, <2>3 DEF RestOK
  <1>4. QED
    BY <1>1, <1>3, TypeInvPartsNext

LEMMA RewindTypes ==
  ASSUME TypeInv, NEW c \in Clients, Rewind(c) PROVE TypeInv'
  <1>1. JournalInv' /\ HandInv' /\ MintInv'
    BY Untouched DEF Rewind, execVars
  <1>2. made \in 0..MaxBranches /\ made < MaxBranches /\ MaxBranches \in Nat
        /\ made + 1 \in BranchIds /\ made + 1 # Main
    <2>1. made \in BranchIds /\ made < MaxBranches
      BY TypeInvParts DEF BaseInv, Rewind
    <2>2. QED
      BY <2>1, BoundAssumption DEF BranchIds, Main
  <1>3. PICK i \in RewindPoints :
          /\ base' = [base EXCEPT ![made + 1] =
               [seq |-> IF i = None THEN 0 ELSE journal[i].seq, uuid |-> i,
                sdk |-> IF i = None THEN None ELSE ConversationAt(i)]]
          /\ doc' = [doc EXCEPT !.active = made + 1,
                                !.head = IF i = None THEN 0 ELSE journal[i].seq]
    BY DEF Rewind
  <1> DEFINE from == IF i = None THEN 0 ELSE journal[i].seq
             sdk == IF i = None THEN None ELSE ConversationAt(i)
  <1>4. i \in Nat /\ (i # None => i \in Uuids)
    <2>1. PICK e \in Uuids : i = TurnBase(e)
      BY DEF RewindPoints
    <2>2. e \in 0..Len(journal) /\ e \in Nat
      BY Lengths
    <2>3. TurnBase(e) \in 0..e
      BY <2>2 DEF TypeInv, WalksEnd
    <2>4. QED
      BY <2>1, <2>2, <2>3, Lengths DEF None
  <1>5. from \in Nat /\ sdk \in Nat /\ sdk <= Len(memory)
    <2>1. CASE i = None
      BY <2>1, Lengths DEF None
    <2>2. CASE i # None
      <3>1. /\ journal[i].seq \in Nat /\ journal[i].sdk \in Nat /\ journal[i].context \in Nat
            /\ journal[i].sdk <= Len(memory) /\ journal[i].context <= Len(memory)
        BY <1>4, <2>2, RecordTypes DEF TypeInv, PointersHold, RecordsPointBack, Known
      <3>2. QED
        BY <2>2, <3>1 DEF ConversationAt
    <2>3. QED
      BY <2>1, <2>2
  <1>6. BaseInv
    BY TypeInvParts
  <1>7. /\ base' \in [BranchIds -> [seq : Nat, uuid : Nat, sdk : Nat]]
        /\ doc' \in [active : BranchIds, head : Nat, sdk : Nat, lease : {None} \cup Executions]
        /\ made' \in BranchIds
    BY <1>2, <1>3, <1>4, <1>5, <1>6 DEF BaseInv, Rewind
  <1>8. BasesStand'
    <2>1. ASSUME NEW b \in BranchIds
          PROVE  /\ base'[b].sdk <= Len(memory)
                 /\ IF base'[b].uuid = None THEN base'[b].seq = 0
                    ELSE base'[b].uuid \in Uuids /\ base'[b].seq = journal[base'[b].uuid].seq
      <3>1. CASE b = made + 1
        <4>1. base'[b] = [seq |-> from, uuid |-> i, sdk |-> sdk]
          BY <1>3, <1>6, <3>1 DEF BaseInv
        <4>2. QED
          BY <1>4, <1>5, <4>1
      <3>2. CASE b # made + 1
        <4>1. base'[b] = base[b]
          BY <1>3, <1>6, <3>2 DEF BaseInv
        <4>2. QED
          BY <4>1, BaseTypes
      <3>3. QED
        BY <3>1, <3>2
    <2>2. base'[Main] = base[Main] /\ base[Main].uuid = None
      BY <1>2, <1>3, <1>6 DEF BaseInv, BasesStand
    <2>3. doc'.active <= made' /\ doc'.sdk <= Len(memory)
      BY <1>2, <1>3, <1>6, BaseTypes DEF BaseInv, BasesStand, Known, Rewind
    <2>4. UNCHANGED <<journal, memory>>
      BY DEF Rewind, execVars
    <2>5. QED
      BY <2>1, <2>2, <2>3, <2>4 DEF BasesStand, Known, Uuids
  <1>9. BaseInv'
    BY <1>7, <1>8 DEF BaseInv
  <1>10. RestOK'
    <2>1. RestOK
      BY TypeInvParts
    <2>2. /\ client' = [client EXCEPT ![c].pc = "record", ![c].branch = made + 1]
          /\ UNCHANGED <<queue, memory, logged, failures, twice, stale>>
      BY DEF Rewind, logVars, execVars
    <2>3. QED
      BY <1>2, <2>1, <2>2 DEF RestOK
  <1>11. QED
    BY <1>1, <1>9, <1>10, TypeInvPartsNext

LEMMA RecordBranchTypes ==
  ASSUME TypeInv, NEW c \in Clients, RecordBranch(c) PROVE TypeInv'
  <1> DEFINE b == client[c].branch
             record == [branch |-> b, seq |-> base[b].seq + 1, parent |-> base[b].uuid,
                        kind |-> "branch_created", sdk |-> None, context |-> None]
  <1>1. b \in BranchIds
    BY DEF TypeInv, TypeOK
  <1>2. /\ record \in Records /\ record.parent <= Len(journal)
        /\ Known(record.sdk) /\ Known(record.context)
    BY <1>1, BaseTypes, Lengths DEF Records, Kinds, Known, None
  <1>3. journal' = Append(journal, record)
        /\ UNCHANGED <<doc, base, made, queue, exec, minted, memory, logged, failures, twice, stale>>
    BY DEF RecordBranch, execVars, logVars
  <1> HIDE DEF record
  <1>4. JournalInv' /\ Len(journal') = Len(journal) + 1
    BY <1>2, <1>3, JournalGrows, Lengths
  <1>5. Uuids \subseteq Uuids' /\ \A i \in Uuids : journal'[i] = journal[i]
    BY <1>2, <1>3, Landed DEF TypeInv, TypeOK
  <1>6. Len(journal') \in Nat /\ Len(journal) <= Len(journal') /\ Len(memory') = Len(memory)
        /\ Len(memory) \in Nat /\ Len(memory') \in Nat /\ Len(memory) <= Len(memory')
    BY <1>3, <1>4, Lengths
  <1>7. BaseInv' /\ HandInv' /\ MintInv'
    <2>1. BaseInv' /\ HandInv'
      BY <1>3, <1>5, <1>6, BasesStay, HandsStay
    <2>2. minted \in [Executions -> [Writers -> Records \cup {NoRecord}]]
      BY TypeInvParts DEF MintInv
    <2>3. MintInv'
      BY <1>3, <1>6, <2>2, MintedStays
    <2>4. QED
      BY <2>1, <2>3
  <1>8. RestOK'
    <2>1. RestOK /\ base[b].seq + 1 \in Nat /\ Len(journal) \in Nat
      BY <1>1, BaseTypes, Lengths, TypeInvParts
    <2>2. client' = [client EXCEPT ![c].pc = "attached", ![c].cursor = base[b].seq + 1,
                                   ![c].since = Len(journal)]
      BY DEF RecordBranch
    <2>3. client' \in [Clients -> [pc : {"new", "record", "attached", "stream", "done"},
                                   branch : BranchIds, cursor : Nat, since : Nat]]
      BY ZenonT(60), <2>1, <2>2 DEF RestOK
    <2>4. QED
      BY <1>3, <2>1, <2>3 DEF RestOK
  <1>9. QED
    BY <1>4, <1>7, <1>8, TypeInvPartsNext

LEMMA SendTypes ==
  ASSUME TypeInv, NEW c \in Clients, Send(c) PROVE TypeInv'
  <1>1. JournalInv' /\ BaseInv' /\ MintInv'
    BY Untouched DEF Send
  <1>2. HandInv'
    <2>1. CASE UNCHANGED exec
      BY <2>1, Untouched DEF Send
    <2>2. CASE \E r \in Executions : exec' = [exec EXCEPT ![r].pc = "boot"]
      <3>1. PICK r \in Executions : exec' = [exec EXCEPT ![r].pc = "boot"]
        BY <2>2
      <3>2. exec \in [Executions -> Hand] /\ "boot" \in Stations
        BY TypeInvParts DEF HandInv, Stations
      <3>3. /\ exec'[r] = [exec[r] EXCEPT !.pc = "boot"]
            /\ exec' = [exec EXCEPT ![r] = exec'[r]] /\ exec'[r] \in Hand
        BY <3>1, <3>2 DEF Hand
      <3>4. /\ exec'[r].tip = exec[r].tip /\ exec'[r].known = exec[r].known
            /\ exec'[r].sdk = exec[r].sdk /\ exec'[r].told = exec[r].told
            /\ exec'[r].context = exec[r].context
        BY <3>2, <3>3 DEF Hand
      <3>5. UNCHANGED <<journal, memory>>
        BY DEF Send
      <3>6. QED
        <4>1. /\ Len(journal') = Len(journal) /\ Len(memory') = Len(memory)
              /\ Len(journal') \in Nat /\ Len(memory') \in Nat
              /\ Len(journal) <= Len(journal') /\ Len(memory) <= Len(memory')
          BY <3>5, Lengths
        <4>2. /\ exec'[r].tip <= Len(journal') /\ exec'[r].known <= Len(memory')
              /\ exec'[r].sdk <= Len(memory') /\ exec'[r].told <= Len(memory')
              /\ exec'[r].context <= Len(memory')
          BY <3>4, <4>1, HandTypes
        <4>3. QED
          BY <3>3, <4>1, <4>2, HandChanges
    <2>3. QED
      BY <2>1, <2>2 DEF Send
  <1>3. RestOK'
    <2>1. RestOK
      BY TypeInvParts
    <2>2. /\ queue' = queue + 1 /\ client' = [client EXCEPT ![c].pc = "stream"]
          /\ UNCHANGED <<memory, logged, failures, twice, stale>>
      BY DEF Send, logVars
    <2>3. client' \in [Clients -> [pc : {"new", "record", "attached", "stream", "done"},
                                   branch : BranchIds, cursor : Nat, since : Nat]]
      BY <2>1, <2>2 DEF RestOK
    <2>4. queue' \in Nat
      BY <2>1, <2>2 DEF RestOK
    <2>5. QED
      BY <2>1, <2>2, <2>3, <2>4 DEF RestOK
  <1>4. QED
    BY <1>1, <1>2, <1>3, TypeInvPartsNext

LEMMA StreamTypes ==
  ASSUME TypeInv, NEW c \in Clients, Stream(c) PROVE TypeInv'
  <1>1. JournalInv' /\ BaseInv' /\ HandInv' /\ MintInv'
    BY Untouched DEF Stream, execVars
  <1>2. Main \in BranchIds
    BY BoundAssumption DEF BranchIds, Main
  <1>3. RestOK'
    BY <1>2, TypeInvParts DEF Stream, RestOK, execVars, Visitor, Uuids
  <1>4. QED
    BY <1>1, <1>3, TypeInvPartsNext

(* The steps of the executions: one that only takes something in hand ...  *)
LEMMA OnlyHand ==
  ASSUME TypeInv, NEW r \in Executions, UNCHANGED <<journal, doc, base, made, minted, memory>>,
         exec' = [exec EXCEPT ![r] = exec'[r]], exec'[r] \in Hand,
         exec'[r].tip <= Len(journal), exec'[r].known <= Len(memory),
         exec'[r].sdk <= Len(memory), exec'[r].told <= Len(memory),
         exec'[r].context <= Len(memory)
  PROVE  JournalInv' /\ BaseInv' /\ HandInv' /\ MintInv'
  <1>1. JournalInv' /\ BaseInv' /\ MintInv'
    BY Untouched
  <1>2. /\ Len(journal') = Len(journal) /\ Len(memory') = Len(memory)
        /\ Len(journal') \in Nat /\ Len(memory') \in Nat
        /\ Len(journal) <= Len(journal') /\ Len(memory) <= Len(memory')
    BY Lengths
  <1>3. HandInv'
    BY <1>2, HandChanges
  <1>4. QED
    BY <1>1, <1>3

(* ... and one that appends.                                               *)
LEMMA Appends ==
  ASSUME TypeInv, NEW r \in Executions, NEW record \in Records,
         journal' = Append(journal, record), record.parent <= Len(journal),
         Known(record.sdk), Known(record.context), UNCHANGED <<doc, base, made>>,
         Len(memory') = Len(memory),
         exec' = [exec EXCEPT ![r] = exec'[r]], exec'[r] \in Hand,
         exec'[r].tip = Len(journal) + 1, exec'[r].known <= Len(memory),
         exec'[r].sdk <= Len(memory), exec'[r].told <= Len(memory),
         exec'[r].context <= Len(memory),
         minted' \in [Executions -> [Writers -> Records \cup {NoRecord}]],
         \A q \in Executions, w \in Writers : minted'[q][w] \in {minted[q][w], NoRecord}
  PROVE  JournalInv' /\ BaseInv' /\ HandInv' /\ MintInv'
  <1>1. Len(memory') \in Nat /\ Len(memory) <= Len(memory')
    BY Lengths
  <1>2. JournalInv' /\ Len(journal') = Len(journal) + 1
    BY <1>1, JournalGrows
  <1>3. /\ Len(journal') \in Nat /\ Len(journal) <= Len(journal')
        /\ Len(journal) + 1 <= Len(journal')
    BY <1>2, Lengths
  <1>4. Uuids \subseteq Uuids' /\ \A i \in Uuids : journal'[i] = journal[i]
    BY Landed DEF TypeInv, TypeOK
  <1>5. BaseInv'
    BY <1>1, <1>4, BasesStay
  <1>6. HandInv'
    BY <1>1, <1>3, HandChanges
  <1>7. MintInv'
    BY <1>1, <1>3, MintedStays
  <1>8. QED
    BY <1>2, <1>5, <1>6, <1>7

LEMMA RecordIs ==
  ASSUME TypeInv, NEW r \in Executions, NEW kind \in Kinds, NEW sdk \in Nat, sdk <= Len(memory)
  PROVE  /\ Record(r, kind, sdk) \in Records
         /\ Record(r, kind, sdk).branch = exec[r].branch
         /\ Record(r, kind, sdk).seq = exec[r].seq + 1
         /\ Record(r, kind, sdk).parent = exec[r].tip
         /\ Record(r, kind, sdk).kind = kind /\ Record(r, kind, sdk).sdk = sdk
         /\ Record(r, kind, sdk).parent <= Len(journal)
         /\ Known(Record(r, kind, sdk).sdk) /\ Known(Record(r, kind, sdk).context)
  BY HandTypes DEF Record, Records, Known

LEMMA AppendAloneTypes ==
  ASSUME TypeInv, NEW r \in Executions, NEW from, NEW kind \in Kinds, NEW to \in Stations,
         AppendAlone(r, from, kind, None, to)
  PROVE  JournalInv' /\ BaseInv' /\ HandInv' /\ MintInv'
  <1>1. None \in Nat /\ None <= Len(memory)
    BY Lengths DEF None
  <1> DEFINE record == Record(r, kind, None)
  <1>2. /\ record \in Records /\ record.parent <= Len(journal) /\ Known(record.sdk)
        /\ Known(record.context) /\ record.seq \in Nat
    BY <1>1, RecordIs, HandTypes
  <1>3. /\ journal' = Append(journal, record)
        /\ exec' = [exec EXCEPT ![r].seq = record.seq, ![r].tip = Len(journal) + 1, ![r].pc = to]
        /\ UNCHANGED <<doc, base, made, minted, memory>>
    BY DEF AppendAlone, Land, Advanced
  <1> HIDE DEF record
  <1>4. exec \in [Executions -> Hand] /\ exec[r] \in Hand
    BY TypeInvParts DEF HandInv
  <1>5. /\ exec'[r] = [exec[r] EXCEPT !.seq = record.seq, !.tip = Len(journal) + 1, !.pc = to]
        /\ exec' = [exec EXCEPT ![r] = exec'[r]]
    BY <1>3, <1>4
  <1>6. /\ exec'[r] \in Hand /\ exec'[r].tip = Len(journal) + 1
        /\ exec'[r].known = exec[r].known /\ exec'[r].sdk = exec[r].sdk
        /\ exec'[r].told = exec[r].told /\ exec'[r].context = exec[r].context
    <2>1. record.seq \in Nat /\ Len(journal) + 1 \in Nat
      BY <1>2, Lengths
    <2>2. QED
      BY <1>4, <1>5, <2>1 DEF Hand
  <1>7. minted \in [Executions -> [Writers -> Records \cup {NoRecord}]]
    BY TypeInvParts DEF MintInv
  <1>8. /\ exec'[r].known <= Len(memory) /\ exec'[r].sdk <= Len(memory)
        /\ exec'[r].told <= Len(memory) /\ exec'[r].context <= Len(memory)
    BY <1>6, HandTypes
  <1>9. QED
    BY <1>2, <1>3, <1>5, <1>6, <1>7, <1>8, Appends

LEMMA ClaimTypes ==
  ASSUME TypeInv, NEW r \in Executions, Claim(r) PROVE TypeInv'
  <1>1. exec \in [Executions -> Hand] /\ exec[r] \in Hand
    BY TypeInvParts DEF HandInv
  <1>2. RestOK'
    BY Untouched DEF Claim, logVars
  <1>3. CASE doc.lease # None
    <2>1. exec' = [exec EXCEPT ![r] = Gone] /\ UNCHANGED <<journal, doc, base, made, minted, memory>>
      BY <1>3 DEF Claim
    <2>2. exec'[r] = Gone /\ exec' = [exec EXCEPT ![r] = exec'[r]]
      BY <1>1, <2>1
    <2>3. None <= Len(journal) /\ None <= Len(memory)
      BY Lengths DEF None
    <2>4. /\ exec'[r] \in Hand /\ exec'[r].tip = None /\ exec'[r].known = None
          /\ exec'[r].sdk = None /\ exec'[r].told = None /\ exec'[r].context = None
      BY <2>2, GoneIsHand
    <2>5. JournalInv' /\ BaseInv' /\ HandInv' /\ MintInv'
      BY <2>1, <2>2, <2>3, <2>4, OnlyHand
    <2>6. QED
      BY <1>2, <2>5, TypeInvPartsNext
  <1>4. CASE doc.lease = None
    <2>1. /\ doc' = [doc EXCEPT !.lease = r]
          /\ exec' = [exec EXCEPT ![r].pc = "recover", ![r].branch = doc.active,
                                  ![r].known = doc.sdk, ![r].context = doc.sdk]
          /\ UNCHANGED <<journal, base, made, minted, memory>>
      BY <1>4 DEF Claim
    <2>2. doc.active \in BranchIds /\ doc.sdk \in Nat /\ doc.sdk <= Len(memory) /\ BaseInv
          /\ "recover" \in Stations
      BY TypeInvParts DEF BaseInv, BasesStand, Known, Stations
    <2>3. /\ exec'[r] = [exec[r] EXCEPT !.pc = "recover", !.branch = doc.active,
                                        !.known = doc.sdk, !.context = doc.sdk]
          /\ exec' = [exec EXCEPT ![r] = exec'[r]]
      BY <1>1, <2>1
    <2>4. /\ exec'[r] \in Hand /\ exec'[r].tip = exec[r].tip
          /\ exec'[r].known = doc.sdk /\ exec'[r].sdk = exec[r].sdk
          /\ exec'[r].told = exec[r].told /\ exec'[r].context = doc.sdk
      BY ZenonT(60), <1>1, <2>2, <2>3 DEF Hand
    <2>5. /\ Len(journal') = Len(journal) /\ Len(memory') = Len(memory)
          /\ Len(journal') \in Nat /\ Len(memory') \in Nat
          /\ Len(journal) <= Len(journal') /\ Len(memory) <= Len(memory')
      BY <2>1, Lengths
    <2>6. /\ exec'[r].tip <= Len(journal') /\ exec'[r].known <= Len(memory')
          /\ exec'[r].sdk <= Len(memory') /\ exec'[r].told <= Len(memory')
          /\ exec'[r].context <= Len(memory')
      BY <2>2, <2>4, <2>5, HandTypes
    <2>7. HandInv'
      BY <2>3, <2>4, <2>5, <2>6, HandChanges
    <2>8. BaseInv'
      BY <2>1, <2>2 DEF BaseInv, BasesStand, Known, Uuids
    <2>9. JournalInv' /\ MintInv'
      BY <2>1, Untouched
    <2>10. QED
      BY <1>2, <2>7, <2>8, <2>9, TypeInvPartsNext
  <1>5. QED
    BY <1>3, <1>4

LEMMA RecoverTypes ==
  ASSUME TypeInv, NEW r \in Executions, Recover(r) PROVE TypeInv'
  <1> DEFINE at == Recovered(exec[r].branch)
             fresh == IsFresh(exec[r].branch, at[1])
  <1>1. exec \in [Executions -> Hand] /\ exec[r] \in Hand
    BY TypeInvParts DEF HandInv
  <1>2. at[1] \in Nat /\ at[2] \in Nat /\ at[2] <= Len(journal) /\ fresh \in BOOLEAN
        /\ "hello" \in Stations
    BY HandTypes, RecoveredTypes DEF IsFresh, Stations
  <1>3. exec' = [exec EXCEPT ![r].pc = "hello", ![r].seq = at[1], ![r].tip = at[2], ![r].fresh = fresh]
        /\ UNCHANGED <<journal, doc, base, made, minted, memory>>
    BY DEF Recover
  <1> HIDE DEF at, fresh
  <1>4. /\ exec'[r] = [exec[r] EXCEPT !.pc = "hello", !.seq = at[1], !.tip = at[2], !.fresh = fresh]
        /\ exec' = [exec EXCEPT ![r] = exec'[r]]
    BY <1>1, <1>3
  <1>5. /\ exec'[r] \in Hand /\ exec'[r].tip = at[2]
        /\ exec'[r].known = exec[r].known /\ exec'[r].sdk = exec[r].sdk
        /\ exec'[r].told = exec[r].told /\ exec'[r].context = exec[r].context
    BY ZenonT(60), <1>1, <1>2, <1>4 DEF Hand
  <1>6. JournalInv' /\ BaseInv' /\ HandInv' /\ MintInv'
    BY <1>2, <1>3, <1>4, <1>5, HandTypes, OnlyHand
  <1>7. RestOK'
    BY Untouched DEF Recover, logVars
  <1>8. QED
    BY <1>6, <1>7, TypeInvPartsNext

LEMMA HelloTypes ==
  ASSUME TypeInv, NEW r \in Executions, Hello(r) PROVE TypeInv'
  <1>1. "claimed" \in Kinds /\ "setup" \in Stations
    BY DEF Kinds, Stations
  <1>2. JournalInv' /\ BaseInv' /\ HandInv' /\ MintInv'
    BY <1>1, AppendAloneTypes DEF Hello
  <1>3. RestOK'
    BY Untouched DEF Hello, AppendAlone, logVars
  <1>4. QED
    BY <1>2, <1>3, TypeInvPartsNext

LEMMA PromptTypes ==
  ASSUME TypeInv, NEW r \in Executions, Prompt(r) PROVE TypeInv'
  <1>1. "prompt" \in Kinds /\ "turn" \in Stations
    BY DEF Kinds, Stations
  <1>2. JournalInv' /\ BaseInv' /\ HandInv' /\ MintInv'
    BY <1>1, AppendAloneTypes DEF Prompt
  <1>3. RestOK'
    <2>1. RestOK
      BY TypeInvParts
    <2>2. queue > 0 /\ queue' = queue - 1
          /\ UNCHANGED <<memory, client, logged, failures, twice, stale>>
      BY DEF Prompt, AppendAlone, logVars
    <2>3. QED
      BY <2>1, <2>2 DEF RestOK
  <1>4. QED
    BY <1>2, <1>3, TypeInvPartsNext

LEMMA ByeTypes ==
  ASSUME TypeInv, NEW r \in Executions, Bye(r) PROVE TypeInv'
  <1>1. "released" \in Kinds /\ "release" \in Stations
    BY DEF Kinds, Stations
  <1>2. JournalInv' /\ BaseInv' /\ HandInv' /\ MintInv'
    BY <1>1, AppendAloneTypes DEF Bye
  <1>3. RestOK'
    BY Untouched DEF Bye, AppendAlone, logVars
  <1>4. QED
    BY <1>2, <1>3, TypeInvPartsNext

LEMMA SetupTypes ==
  ASSUME TypeInv, NEW r \in Executions, Setup(r) PROVE TypeInv'
  <1> DEFINE resumed == IF base[exec[r].branch].sdk # None THEN base[exec[r].branch].sdk
                        ELSE exec[r].known
             forks == exec[r].fresh /\ base[exec[r].branch].sdk # None
             opens == IF resumed = None \/ forks THEN Len(memory) + 1 ELSE resumed
             copied == IF resumed = None THEN {} ELSE memory[resumed]
  <1>1. /\ exec' = [exec EXCEPT ![r].pc = "loop", ![r].told = resumed, ![r].sdk = opens]
        /\ memory' = IF opens \in DOMAIN memory THEN memory ELSE Append(memory, copied)
        /\ UNCHANGED <<journal, doc, base, made, queue, minted, client, logged, failures, twice, stale>>
    BY DEF Setup, logVars
  <1>2. resumed \in Nat /\ resumed <= Len(memory)
    BY HandTypes, BaseTypes
  <1>3. opens \in Nat /\ opens <= Len(memory) + 1 /\ opens # None
    BY <1>2, Lengths DEF None
  <1>4. memory \in Seq(SUBSET Nat) /\ copied \in SUBSET Nat
    BY <1>2, TypeInvParts DEF RestOK, None
  <1> HIDE DEF resumed, opens, copied
  <1>5. /\ memory' \in Seq(SUBSET Nat) /\ Len(memory') \in Nat /\ Len(memory) <= Len(memory')
        /\ opens <= Len(memory')
    <2>1. Len(memory) \in Nat /\ DOMAIN memory = 1..Len(memory)
      BY <1>4
    <2>2. CASE opens \in DOMAIN memory
      BY <1>1, <1>4, <2>1, <2>2
    <2>3. CASE opens \notin DOMAIN memory
      <3>1. memory' = Append(memory, copied)
        BY <1>1, <2>3
      <3>2. memory' \in Seq(SUBSET Nat) /\ Len(memory') = Len(memory) + 1
        BY <1>4, <3>1
      <3>3. QED
        BY <1>3, <2>1, <3>2
    <2>4. QED
      BY <2>2, <2>3
  <1>6. exec \in [Executions -> Hand] /\ exec[r] \in Hand /\ "loop" \in Stations
    BY TypeInvParts DEF HandInv, Stations
  <1>7. /\ exec'[r] = [exec[r] EXCEPT !.pc = "loop", !.told = resumed, !.sdk = opens]
        /\ exec' = [exec EXCEPT ![r] = exec'[r]]
    BY <1>1, <1>6
  <1>8. /\ exec'[r] \in Hand /\ exec'[r].tip = exec[r].tip
        /\ exec'[r].known = exec[r].known /\ exec'[r].sdk = opens
        /\ exec'[r].told = resumed /\ exec'[r].context = exec[r].context
    BY <1>2, <1>3, <1>6, <1>7 DEF Hand
  <1>9. /\ exec[r].known <= Len(memory') /\ exec[r].context <= Len(memory')
        /\ resumed <= Len(memory')
    BY <1>2, <1>5, HandTypes, Lengths
  <1>10. /\ Len(journal') = Len(journal) /\ Len(journal') \in Nat
         /\ Len(journal) <= Len(journal')
    BY <1>1, Lengths
  <1>11. HandInv'
    BY <1>5, <1>7, <1>8, <1>9, <1>10, HandTypes, HandChanges
  <1>12. JournalInv' /\ BaseInv'
    BY <1>1, <1>5, JournalStays, BasesStay, Lengths, TypeInvParts DEF Uuids
  <1>13. MintInv'
    <2>1. minted \in [Executions -> [Writers -> Records \cup {NoRecord}]]
      BY TypeInvParts DEF MintInv
    <2>2. QED
      BY <1>1, <1>5, <1>10, <2>1, MintedStays
  <1>14. RestOK'
    BY <1>1, <1>5, TypeInvParts DEF RestOK
  <1>15. QED
    BY <1>11, <1>12, <1>13, <1>14, TypeInvPartsNext

(* A record is on the way.                                                 *)
LEMMA MintTypes ==
  ASSUME TypeInv, NEW r \in Executions, NEW w \in Writers, NEW kind \in Kinds,
         Mint(r, w, kind, None),
         exec' = [exec EXCEPT ![r] = exec'[r]], exec'[r] \in Hand,
         exec'[r].tip = exec[r].tip, exec'[r].known = exec[r].known,
         exec'[r].sdk = exec[r].sdk, exec'[r].told = exec[r].told,
         exec'[r].context = exec[r].context
  PROVE  TypeInv'
  <1>1. None \in Nat /\ None <= Len(memory)
    BY Lengths DEF None
  <1> DEFINE record == Record(r, kind, None)
  <1>2. /\ record \in Records /\ record.parent <= Len(journal) /\ Known(record.sdk)
        /\ Known(record.context)
    BY <1>1, RecordIs
  <1>3. /\ minted' = [minted EXCEPT ![r][w] = record]
        /\ UNCHANGED <<journal, doc, base, made, queue, memory, client, logged, failures, twice, stale>>
    BY DEF Mint, logVars
  <1> HIDE DEF record
  <1>4. JournalInv' /\ BaseInv' /\ RestOK'
    BY <1>3, Untouched
  <1>5. HandInv'
    <2>1. /\ Len(journal') = Len(journal) /\ Len(memory') = Len(memory)
          /\ Len(journal') \in Nat /\ Len(memory') \in Nat
          /\ Len(journal) <= Len(journal') /\ Len(memory) <= Len(memory')
      BY <1>3, Lengths
    <2>2. /\ exec'[r].tip <= Len(journal') /\ exec'[r].known <= Len(memory')
          /\ exec'[r].sdk <= Len(memory') /\ exec'[r].told <= Len(memory')
          /\ exec'[r].context <= Len(memory')
      BY <2>1, HandTypes
    <2>3. QED
      BY <2>1, <2>2, HandChanges
  <1>6. MintInv'
    <2>1. MintInv
      BY TypeInvParts
    <2>2. minted' \in [Executions -> [Writers -> Records \cup {NoRecord}]]
      BY <1>2, <1>3, <2>1 DEF MintInv
    <2>3. ASSUME NEW q \in Executions, NEW v \in Writers
          PROVE  minted'[q][v] = IF q = r /\ v = w THEN record ELSE minted[q][v]
      BY <1>3, <2>1 DEF MintInv
    <2>4. UNCHANGED <<journal, memory>>
      BY <1>3
    <2>5. QED
      BY <1>2, <2>1, <2>2, <2>3, <2>4 DEF MintInv, Known
  <1>7. QED
    BY <1>4, <1>5, <1>6, TypeInvPartsNext

LEMMA MessageTypes ==
  ASSUME TypeInv, NEW r \in Executions, Message(r) PROVE TypeInv'
  <1>1. /\ exec \in [Executions -> Hand] /\ exec[r] \in Hand /\ "spoken" \in Stations
        /\ "message" \in Kinds /\ "loop" \in Writers /\ exec[r].tip \in Nat
    BY HandTypes, TypeInvParts DEF HandInv, Stations, Kinds, Writers
  <1>2. exec' = [exec EXCEPT ![r].pc = "spoken", ![r].prompt = exec[r].tip]
    BY DEF Message
  <1>3. /\ exec'[r] = [exec[r] EXCEPT !.pc = "spoken", !.prompt = exec[r].tip]
        /\ exec' = [exec EXCEPT ![r] = exec'[r]]
    BY <1>1, <1>2
  <1>4. /\ exec'[r] \in Hand /\ exec'[r].tip = exec[r].tip
        /\ exec'[r].known = exec[r].known /\ exec'[r].sdk = exec[r].sdk
        /\ exec'[r].told = exec[r].told /\ exec'[r].context = exec[r].context
    BY <1>1, <1>3 DEF Hand
  <1>5. QED
    BY <1>1, <1>3, <1>4, MintTypes DEF Message

LEMMA ToolCallTypes ==
  ASSUME TypeInv, NEW r \in Executions, ToolCall(r) PROVE TypeInv'
  <1>1. /\ exec \in [Executions -> Hand] /\ exec[r] \in Hand /\ "called" \in Stations
        /\ "tool_call" \in Kinds /\ "hook" \in Writers
    BY TypeInvParts DEF HandInv, Stations, Kinds, Writers
  <1>2. exec' = [exec EXCEPT ![r].pc = "called"]
    BY DEF ToolCall
  <1>3. /\ exec'[r] = [exec[r] EXCEPT !.pc = "called"]
        /\ exec' = [exec EXCEPT ![r] = exec'[r]]
    BY <1>1, <1>2
  <1>4. /\ exec'[r] \in Hand /\ exec'[r].tip = exec[r].tip
        /\ exec'[r].known = exec[r].known /\ exec'[r].sdk = exec[r].sdk
        /\ exec'[r].told = exec[r].told /\ exec'[r].context = exec[r].context
    BY <1>1, <1>3 DEF Hand
  <1>5. QED
    BY <1>1, <1>3, <1>4, MintTypes DEF ToolCall

LEMMA ResultTypes ==
  ASSUME TypeInv, NEW r \in Executions, Result(r) PROVE TypeInv'
  <1> DEFINE record == Record(r, "result", exec[r].sdk)
  <1>1. /\ record \in Records /\ record.parent <= Len(journal) /\ Known(record.sdk)
        /\ Known(record.context) /\ record.seq \in Nat /\ "flush" \in Stations
    BY RecordIs, HandTypes DEF Kinds, Stations
  <1>2. /\ journal' = Append(journal, record)
        /\ memory' = [memory EXCEPT ![exec[r].sdk] = @ \cup {exec[r].prompt}]
        /\ exec' = [exec EXCEPT ![r].seq = record.seq, ![r].tip = Len(journal) + 1,
                                ![r].pc = "flush", ![r].told = exec[r].sdk]
        /\ UNCHANGED <<doc, base, made, queue, minted, client, logged, failures, twice, stale>>
    BY DEF Result, Land, Advanced, logVars
  <1> HIDE DEF record
  <1>3. exec \in [Executions -> Hand] /\ exec[r] \in Hand
    BY TypeInvParts DEF HandInv
  <1>4. /\ exec'[r] = [exec[r] EXCEPT !.seq = record.seq, !.tip = Len(journal) + 1,
                                      !.pc = "flush", !.told = exec[r].sdk]
        /\ exec' = [exec EXCEPT ![r] = exec'[r]]
    BY <1>2, <1>3
  <1>5. /\ exec'[r] \in Hand /\ exec'[r].tip = Len(journal) + 1
        /\ exec'[r].known = exec[r].known /\ exec'[r].sdk = exec[r].sdk
        /\ exec'[r].told = exec[r].sdk /\ exec'[r].context = exec[r].context
    <2>1. record.seq \in Nat /\ Len(journal) + 1 \in Nat /\ exec[r].sdk \in Nat
      BY <1>1, HandTypes, Lengths
    <2>2. exec'[r] \in Hand
      BY <1>1, <1>3, <1>4, <2>1 DEF Hand
    <2>3. /\ exec'[r].tip = Len(journal) + 1 /\ exec'[r].told = exec[r].sdk
          /\ exec'[r].known = exec[r].known /\ exec'[r].sdk = exec[r].sdk
          /\ exec'[r].context = exec[r].context
      BY <1>3, <1>4 DEF Hand
    <2>4. QED
      BY <2>2, <2>3
  <1>6. memory' \in Seq(SUBSET Nat) /\ Len(memory') = Len(memory)
    <2>1. memory \in Seq(SUBSET Nat) /\ DOMAIN memory = 1..Len(memory)
      BY TypeInvParts DEF RestOK
    <2>2. CASE exec[r].sdk \in 1..Len(memory)
      <3>1. memory[exec[r].sdk] \cup {exec[r].prompt} \in SUBSET Nat
        BY <2>1, <2>2, HandTypes
      <3>2. QED
        BY <1>2, <2>1, <2>2, <3>1, ExceptSeq
    <2>3. CASE exec[r].sdk \notin 1..Len(memory)
      <3>1. memory' = memory
        BY <1>2, <2>1, <2>3
      <3>2. QED
        BY <2>1, <3>1
    <2>4. QED
      BY <2>2, <2>3
  <1>7. minted \in [Executions -> [Writers -> Records \cup {NoRecord}]]
    BY TypeInvParts DEF MintInv
  <1>8. /\ exec'[r].known <= Len(memory) /\ exec'[r].sdk <= Len(memory)
        /\ exec'[r].told <= Len(memory) /\ exec'[r].context <= Len(memory)
    BY <1>5, HandTypes
  <1>9. JournalInv' /\ BaseInv' /\ HandInv' /\ MintInv'
    BY <1>1, <1>2, <1>4, <1>5, <1>6, <1>7, <1>8, Appends
  <1>10. RestOK'
    BY <1>2, <1>6, TypeInvParts DEF RestOK
  <1>11. QED
    BY <1>9, <1>10, TypeInvPartsNext

LEMMA WrittenTypes ==
  ASSUME TypeInv, NEW r \in Executions, NEW w \in Writers, Written(r, w) PROVE TypeInv'
  <1> DEFINE record == minted[r][w]
  <1>1. MintInv
    BY TypeInvParts
  <1>2. record \in Records /\ record.parent <= Len(journal) /\ Known(record.sdk)
        /\ Known(record.context)
    BY <1>1 DEF MintInv, Written
  <1>3. record.seq \in Nat
    BY <1>2 DEF Records
  <1>4. /\ journal' = Append(journal, record)
        /\ exec' = [exec EXCEPT ![r].seq = record.seq, ![r].tip = Len(journal) + 1]
        /\ minted' = [minted EXCEPT ![r][w] = NoRecord]
        /\ UNCHANGED <<doc, base, made, queue, memory, client, logged, failures, twice, stale>>
    BY DEF Written, Land, Advanced, logVars
  <1> HIDE DEF record
  <1>5. exec \in [Executions -> Hand] /\ exec[r] \in Hand
    BY TypeInvParts DEF HandInv
  <1>6. /\ exec'[r] = [exec[r] EXCEPT !.seq = record.seq, !.tip = Len(journal) + 1]
        /\ exec' = [exec EXCEPT ![r] = exec'[r]]
    BY <1>4, <1>5
  <1>7. /\ exec'[r] \in Hand /\ exec'[r].tip = Len(journal) + 1
        /\ exec'[r].known = exec[r].known /\ exec'[r].sdk = exec[r].sdk
        /\ exec'[r].told = exec[r].told /\ exec'[r].context = exec[r].context
    <2>1. record.seq \in Nat /\ Len(journal) + 1 \in Nat
      BY <1>3, Lengths
    <2>2. QED
      BY <1>5, <1>6, <2>1 DEF Hand
  <1>8. /\ minted' \in [Executions -> [Writers -> Records \cup {NoRecord}]]
        /\ \A q \in Executions, v \in Writers : minted'[q][v] \in {minted[q][v], NoRecord}
    BY <1>1, <1>4 DEF MintInv
  <1>9. /\ exec'[r].known <= Len(memory) /\ exec'[r].sdk <= Len(memory)
        /\ exec'[r].told <= Len(memory) /\ exec'[r].context <= Len(memory)
    BY <1>7, HandTypes
  <1>10. JournalInv' /\ BaseInv' /\ HandInv' /\ MintInv'
    BY <1>2, <1>4, <1>6, <1>7, <1>8, <1>9, Appends
  <1>11. RestOK'
    BY <1>4, Untouched
  <1>12. QED
    BY <1>10, <1>11, TypeInvPartsNext

LEMMA NotWrittenTypes ==
  ASSUME TypeInv, NEW r \in Executions, NotWritten(r) PROVE TypeInv'
  <1>1. /\ failures' = failures + 1
        /\ minted' = [minted EXCEPT ![r]["hook"] = NoRecord]
        /\ UNCHANGED <<journal, doc, base, made, queue, exec, memory, client, logged, twice, stale>>
    BY DEF NotWritten
  <1>2. JournalInv' /\ BaseInv' /\ HandInv'
    BY <1>1, Untouched
  <1>3. MintInv'
    <2>1. minted \in [Executions -> [Writers -> Records \cup {NoRecord}]] /\ "hook" \in Writers
      BY TypeInvParts DEF MintInv, Writers
    <2>2. /\ minted' \in [Executions -> [Writers -> Records \cup {NoRecord}]]
          /\ \A q \in Executions, v \in Writers : minted'[q][v] \in {minted[q][v], NoRecord}
      BY <1>1, <2>1
    <2>3. /\ Len(journal') \in Nat /\ Len(memory') \in Nat
          /\ Len(journal) <= Len(journal') /\ Len(memory) <= Len(memory')
      BY <1>1, Lengths
    <2>4. QED
      BY <2>2, <2>3, MintedStays
  <1>4. RestOK'
    BY <1>1, TypeInvParts DEF RestOK
  <1>5. QED
    BY <1>2, <1>3, <1>4, TypeInvPartsNext

LEMMA FlushTypes ==
  ASSUME TypeInv, NEW r \in Executions, Flush(r) PROVE TypeInv'
  <1>1. /\ doc' = [doc EXCEPT !.head = exec[r].seq, !.sdk = exec[r].told]
        /\ base' = [base EXCEPT ![exec[r].branch].sdk = exec[r].told]
        /\ exec' = [exec EXCEPT ![r].pc = "loop", ![r].flushed = TRUE,
                                ![r].context = exec[r].told]
        /\ UNCHANGED <<journal, made, queue, minted, memory, client, logged, failures, twice, stale>>
    BY DEF Flush, logVars
  <1>2. /\ exec \in [Executions -> Hand] /\ exec[r] \in Hand /\ "loop" \in Stations
        /\ exec[r].told \in Nat
    BY HandTypes, TypeInvParts DEF HandInv, Stations
  <1>3. /\ exec'[r] = [exec[r] EXCEPT !.pc = "loop", !.flushed = TRUE, !.context = exec[r].told]
        /\ exec' = [exec EXCEPT ![r] = exec'[r]]
    BY <1>1, <1>2
  <1>4. /\ exec'[r] \in Hand /\ exec'[r].tip = exec[r].tip
        /\ exec'[r].known = exec[r].known /\ exec'[r].sdk = exec[r].sdk
        /\ exec'[r].told = exec[r].told /\ exec'[r].context = exec[r].told
    BY <1>2, <1>3 DEF Hand
  <1>5. HandInv'
    <2>1. /\ Len(journal') = Len(journal) /\ Len(memory') = Len(memory)
          /\ Len(journal') \in Nat /\ Len(memory') \in Nat
          /\ Len(journal) <= Len(journal') /\ Len(memory) <= Len(memory')
      BY <1>1, Lengths
    <2>2. /\ exec'[r].tip <= Len(journal') /\ exec'[r].known <= Len(memory')
          /\ exec'[r].sdk <= Len(memory') /\ exec'[r].told <= Len(memory')
          /\ exec'[r].context <= Len(memory')
      BY <1>4, <2>1, HandTypes
    <2>3. QED
      BY <1>3, <1>4, <2>1, <2>2, HandChanges
  <1>6. BaseInv'
    <2>1. BaseInv /\ exec[r].branch \in BranchIds /\ exec[r].seq \in Nat
          /\ exec[r].told <= Len(memory)
      BY HandTypes, TypeInvParts
    <2>2. /\ base' \in [BranchIds -> [seq : Nat, uuid : Nat, sdk : Nat]]
          /\ doc' \in [active : BranchIds, head : Nat, sdk : Nat, lease : {None} \cup Executions]
          /\ doc'.active = doc.active /\ doc'.sdk = exec[r].told
      BY <1>1, <1>2, <2>1 DEF BaseInv
    <2>3. ASSUME NEW b \in BranchIds
          PROVE  base'[b].seq = base[b].seq /\ base'[b].uuid = base[b].uuid
                 /\ base'[b].sdk \in {base[b].sdk, exec[r].told}
      <3>1. CASE b = exec[r].branch
        <4>1. base'[b] = [base[b] EXCEPT !.sdk = exec[r].told]
              /\ base[b] \in [seq : Nat, uuid : Nat, sdk : Nat]
          BY <1>1, <2>1, <3>1 DEF BaseInv
        <4>2. QED
          BY <4>1
      <3>2. CASE b # exec[r].branch
        BY <1>1, <2>1, <3>2 DEF BaseInv
      <3>3. QED
        BY <3>1, <3>2
    <2>4. BasesStand'
      <3>1. Main \in BranchIds
        BY BoundAssumption DEF BranchIds, Main
      <3>2. UNCHANGED <<journal, made, memory>>
        BY <1>1
      <3>3. ASSUME NEW b \in BranchIds
            PROVE  /\ base'[b].sdk <= Len(memory)
                   /\ IF base'[b].uuid = None THEN base'[b].seq = 0
                      ELSE base'[b].uuid \in Uuids /\ base'[b].seq = journal[base'[b].uuid].seq
        BY <2>1, <2>3 DEF BaseInv, BasesStand, Known
      <3>4. base'[Main].uuid = None /\ doc'.active <= made' /\ doc'.sdk <= Len(memory)
        BY <2>1, <2>2, <2>3, <3>1, <3>2 DEF BaseInv, BasesStand, Known
      <3>5. QED
        BY <3>2, <3>3, <3>4 DEF BasesStand, Known, Uuids
    <2>5. made' \in BranchIds
      BY <1>1, <2>1 DEF BaseInv
    <2>6. QED
      BY <2>2, <2>4, <2>5 DEF BaseInv
  <1>7. JournalInv' /\ MintInv' /\ RestOK'
    BY <1>1, Untouched
  <1>8. QED
    BY <1>5, <1>6, <1>7, TypeInvPartsNext

(* A release, the document told of what the run said last or not, and the  *)
(* row of the run log.                                                     *)
LEMMA ReleaseTypes ==
  ASSUME TypeInv, NEW r \in Executions, Release(r) \/ FailRelease(r) PROVE TypeInv'
  <1>1. /\ \/ doc' = [doc EXCEPT !.lease = None, !.head = exec[r].seq, !.sdk = exec[r].told]
           \/ doc' = [doc EXCEPT !.lease = None, !.head = exec[r].seq]
        /\ exec' = [exec EXCEPT ![r] = Gone]
        /\ UNCHANGED <<journal, base, made, queue, minted, memory, client, failures, stale>>
        /\ logged' = logged \cup {<<exec[r].branch, exec[r].seq>>}
        /\ twice' = (twice \/ <<exec[r].branch, exec[r].seq>> \in logged)
    BY DEF Release, FailRelease, RunLog, AppendRow, InsertId
  <1>2. /\ exec[r].branch \in BranchIds /\ exec[r].seq \in Nat /\ exec[r].told \in Nat
        /\ exec[r].told <= Len(memory) /\ exec \in [Executions -> Hand]
    BY HandTypes, TypeInvParts DEF HandInv
  <1>3. BaseInv'
    <2>1. BaseInv
      BY TypeInvParts
    <2>2. /\ doc' \in [active : BranchIds, head : Nat, sdk : Nat, lease : {None} \cup Executions]
          /\ doc'.active = doc.active /\ doc'.sdk \in {doc.sdk, exec[r].told}
      BY <1>1, <1>2, <2>1 DEF BaseInv
    <2>3. UNCHANGED <<base, journal, made, memory>>
      BY <1>1
    <2>4. QED
      BY <1>2, <2>1, <2>2, <2>3 DEF BaseInv, BasesStand, Known, Uuids
  <1>4. HandInv'
    <2>1. exec'[r] = Gone /\ exec' = [exec EXCEPT ![r] = exec'[r]]
      BY <1>1, <1>2
    <2>2. /\ Len(journal') \in Nat /\ Len(memory') \in Nat
          /\ Len(journal) <= Len(journal') /\ Len(memory) <= Len(memory')
          /\ None <= Len(journal') /\ None <= Len(memory')
      BY <1>1, Lengths DEF None
    <2>3. QED
      BY <2>1, <2>2, GoneIsHand, HandChanges
  <1>5. JournalInv' /\ MintInv'
    BY <1>1, Untouched
  <1>6. RestOK'
    <2>1. RestOK
      BY TypeInvParts
    <2>2. logged' \subseteq BranchIds \X Nat /\ twice' \in BOOLEAN
      BY <1>1, <1>2, <2>1 DEF RestOK
    <2>3. QED
      BY <1>1, <2>1, <2>2 DEF RestOK
  <1>7. QED
    BY <1>3, <1>4, <1>5, <1>6, TypeInvPartsNext

LEMMA FailTypes ==
  ASSUME TypeInv, NEW r \in Executions, Fail(r) PROVE TypeInv'
  <1> DEFINE record == Record(r, "error", exec[r].known)
  <1>1. /\ record \in Records /\ record.parent <= Len(journal) /\ Known(record.sdk)
        /\ Known(record.context) /\ record.seq \in Nat /\ "fail_release" \in Stations
    BY RecordIs, HandTypes DEF Kinds, Stations
  <1>2. /\ journal' = Append(journal, record)
        /\ exec' = [exec EXCEPT ![r].seq = record.seq, ![r].tip = Len(journal) + 1,
                                ![r].pc = "fail_release"]
        /\ failures' = failures + 1
        /\ UNCHANGED <<doc, base, made, queue, minted, memory, client, logged, twice, stale>>
    BY DEF Fail, Trouble, Land, Advanced
  <1> HIDE DEF record
  <1>3. exec \in [Executions -> Hand] /\ exec[r] \in Hand
    BY TypeInvParts DEF HandInv
  <1>4. /\ exec'[r] = [exec[r] EXCEPT !.seq = record.seq, !.tip = Len(journal) + 1,
                                      !.pc = "fail_release"]
        /\ exec' = [exec EXCEPT ![r] = exec'[r]]
    BY <1>2, <1>3
  <1>5. /\ exec'[r] \in Hand /\ exec'[r].tip = Len(journal) + 1
        /\ exec'[r].known = exec[r].known /\ exec'[r].sdk = exec[r].sdk
        /\ exec'[r].told = exec[r].told /\ exec'[r].context = exec[r].context
    <2>1. record.seq \in Nat /\ Len(journal) + 1 \in Nat
      BY <1>1, Lengths
    <2>2. QED
      BY <1>1, <1>3, <1>4, <2>1 DEF Hand
  <1>6. minted \in [Executions -> [Writers -> Records \cup {NoRecord}]]
    BY TypeInvParts DEF MintInv
  <1>7. /\ exec'[r].known <= Len(memory) /\ exec'[r].sdk <= Len(memory)
        /\ exec'[r].told <= Len(memory) /\ exec'[r].context <= Len(memory)
    BY <1>5, HandTypes
  <1>8. JournalInv' /\ BaseInv' /\ HandInv' /\ MintInv'
    BY <1>1, <1>2, <1>4, <1>5, <1>6, <1>7, Appends
  <1>9. RestOK'
    BY <1>2, TypeInvParts DEF RestOK
  <1>10. QED
    BY <1>8, <1>9, TypeInvPartsNext

LEMMA DieTypes ==
  ASSUME TypeInv, NEW r \in Executions, Die(r) PROVE TypeInv'
  <1>1. /\ exec' = [exec EXCEPT ![r] = Gone]
        /\ minted' = [minted EXCEPT ![r] = [w \in {"loop", "hook"} |-> NoRecord]]
        /\ failures' = failures + 1
        /\ UNCHANGED <<journal, doc, base, made, queue, memory, client, logged, twice, stale>>
    BY DEF Die, Trouble
  <1>2. /\ Len(journal') \in Nat /\ Len(memory') \in Nat
        /\ Len(journal) <= Len(journal') /\ Len(memory) <= Len(memory')
        /\ None <= Len(journal') /\ None <= Len(memory')
    BY <1>1, Lengths DEF None
  <1>3. HandInv'
    <2>1. exec \in [Executions -> Hand]
      BY TypeInvParts DEF HandInv
    <2>2. exec'[r] = Gone /\ exec' = [exec EXCEPT ![r] = exec'[r]]
      BY <1>1, <2>1
    <2>3. QED
      BY <1>2, <2>2, GoneIsHand, HandChanges
  <1>4. MintInv'
    <2>1. minted \in [Executions -> [Writers -> Records \cup {NoRecord}]]
      BY TypeInvParts DEF MintInv
    <2>2. /\ minted' \in [Executions -> [Writers -> Records \cup {NoRecord}]]
          /\ \A q \in Executions, v \in Writers : minted'[q][v] \in {minted[q][v], NoRecord}
      BY <1>1, <2>1 DEF Writers
    <2>3. QED
      BY <1>2, <2>2, MintedStays
  <1>5. JournalInv' /\ BaseInv'
    BY <1>1, Untouched
  <1>6. RestOK'
    BY <1>1, TypeInvParts DEF RestOK
  <1>7. QED
    BY <1>3, <1>4, <1>5, <1>6, TypeInvPartsNext

LEMMA LapseTypes ==
  ASSUME TypeInv, Lapse PROVE TypeInv'
  <1>1. /\ doc' = [doc EXCEPT !.lease = None]
        /\ UNCHANGED <<journal, base, made, queue, exec, minted, memory, client, logged, failures, twice, stale>>
    BY DEF Lapse, execVars, logVars
  <1>2. BaseInv'
    <2>1. BaseInv
      BY TypeInvParts
    <2>2. QED
      BY <1>1, <2>1 DEF BaseInv, BasesStand, Known, Uuids
  <1>3. JournalInv' /\ HandInv' /\ MintInv' /\ RestOK'
    BY <1>1, Untouched
  <1>4. QED
    BY <1>2, <1>3, TypeInvPartsNext

LEMMA InitWalksEnd == Init => WalksEnd
  <1> SUFFICES ASSUME Init PROVE WalksEnd
    OBVIOUS
  <1> DEFINE f == [i \in 0..0 |-> 0]
  <1>1. TurnWalk(journal, f, 0)
    BY DEF TurnWalk, None
  <1>2. \A g : TurnWalk(journal, g, 0) => g = f
    <2> SUFFICES ASSUME NEW g, TurnWalk(journal, g, 0) PROVE g = f
      OBVIOUS
    <2>1. g = [i \in 0..0 |-> IF i = None \/ journal[i].kind \in {"result", "error"} THEN i
                              ELSE g[journal[i].parent]]
      BY DEF TurnWalk
    <2>2. \A i \in 0..0 : i = None /\ i = 0
      BY DEF None
    <2>3. QED
      BY <2>1, <2>2
  <1>3. TurnWalkIsOne(journal, 0)
    BY <1>1, <1>2 DEF TurnWalkIsOne
  <1>4. WalkEnd(journal, 0) = f[0]
    BY <1>1, <1>3, WalkEndIs
  <1>5. TurnBase(0) = 0
    BY <1>4, TurnBaseIsWalkEnd
  <1>6. \A event \in 0..Len(journal) : event = 0
    BY DEF Init
  <1>7. QED
    BY <1>3, <1>5, <1>6 DEF WalksEnd, None

LEMMA InitTypeInv == Init => TypeInv
  <1> SUFFICES ASSUME Init PROVE TypeInv
    OBVIOUS
  <1>1. TypeOK /\ WalksEnd
    BY InitTypeOK, InitWalksEnd
  <1>2. Uuids = {} /\ Len(journal) = 0 /\ Len(memory) = 0
    BY DEF Init, Uuids
  <1>3. RecordsPointBack /\ HeadsExist
    BY <1>2 DEF RecordsPointBack, HeadsExist, On
  <1>4. BasesStand
    BY <1>2, BoundAssumption DEF Init, BasesStand, Known, None, Main, BranchIds
  <1>5. HandsHold
    <2>1. \A r \in Executions : exec[r] = Idle
      BY DEF Init
    <2>2. Idle.tip = 0 /\ Idle.known = 0 /\ Idle.sdk = 0 /\ Idle.told = 0 /\ Idle.context = 0
      BY DEF Idle, None
    <2>3. \A r \in Executions, w \in Writers : minted[r][w] = NoRecord
      BY DEF Init, Writers
    <2>4. QED
      BY <1>2, <2>1, <2>2, <2>3 DEF HandsHold, Known
  <1>6. QED
    BY <1>1, <1>3, <1>4, <1>5 DEF TypeInv, PointersHold

LEMMA NextTypeInv ==
  ASSUME TypeInv, [Next]_vars PROVE TypeInv'
  <1>1. CASE UNCHANGED vars
    BY <1>1, Untouched, TypeInvPartsNext DEF vars
  <1>2. ASSUME NEW c \in Clients, ClientStep(c) PROVE TypeInv'
    BY <1>2, AttachTypes, RewindTypes, RecordBranchTypes, SendTypes, StreamTypes
       DEF ClientStep
  <1>3. ASSUME NEW r \in Executions, Run(r) PROVE TypeInv'
    <2>1. "loop" \in Writers /\ "hook" \in Writers
      BY DEF Writers
    <2>2. QED
      BY <1>3, <2>1, ClaimTypes, RecoverTypes, HelloTypes, SetupTypes, PromptTypes,
         MessageTypes, ToolCallTypes, ResultTypes, FlushTypes, ByeTypes, ReleaseTypes,
         WrittenTypes, NotWrittenTypes, FailTypes, DieTypes
         DEF Run
  <1>4. CASE Lapse
    BY <1>4, LapseTypes
  <1>5. QED
    BY <1>1, <1>2, <1>3, <1>4 DEF Next

LEMMA TypeInvHolds == Spec => []TypeInv
  <1>1. Init => TypeInv
    BY InitTypeInv
  <1>2. TypeInv /\ [Next]_vars => TypeInv'
    BY NextTypeInv
  <1>3. QED
    BY <1>1, <1>2, PTL DEF Spec

(* Type correctness of the session tree, whatever goes wrong: records,     *)
(* branches and conversations are only ever pointed at once they exist,    *)
(* and _turn_base always ends at a result or before the first record.      *)
THEOREM TypeCorrect == Spec => []TypeOK
  <1>1. TypeInv => TypeOK
    BY DEF TypeInv
  <1>2. QED
    BY <1>1, TypeInvHolds, PTL

-----------------------------------------------------------------------------
(* The tree.                                                               *)

LEMMA OneAtWork ==
  ASSUME LeaseIsHeld, NEW r \in Executions, NEW q \in Executions, Live(r), Live(q)
  PROVE  q = r
  BY DEF LeaseIsHeld

LEMMA LeaseIsSomebodys ==
  ASSUME LeaseIsHeld, NEW r \in Executions, Live(r)
  PROVE  doc.lease # None
  BY BoundAssumption DEF LeaseIsHeld, Executions, None

(* Whoever is at work after a step that only r took was before.            *)
LEMMA OthersStay ==
  ASSUME NEW r \in Executions, exec' = [exec EXCEPT ![r] = exec'[r]], TypeInv,
         NEW q \in Executions, q # r
  PROVE  exec'[q] = exec[q] /\ (Live(q)' <=> Live(q))
  <1>1. exec \in [Executions -> Hand]
    BY TypeInvParts DEF HandInv
  <1>2. exec'[q] = exec[q]
    BY <1>1
  <1>3. QED
    BY <1>2 DEF Live

(* A branch stays as recorded as it was.                                   *)
LEMMA BranchesStay ==
  ASSUME TypeInv, BranchesAreRecorded,
         UNCHANGED <<journal, made, client>>, \A b \in BranchIds : base'[b].seq = base[b].seq
  PROVE  BranchesAreRecorded'
  <1>1. \A b \in 1..made : b \in BranchIds
    BY BoundAssumption DEF TypeInv, TypeOK, BranchIds
  <1>2. \A b : On(b)' = On(b)
    BY DEF On, Uuids
  <1>3. \A c \in Clients : Recording(c)' <=> Recording(c)
    BY DEF Recording
  <1>4. (\A b \in BranchIds : b > made => On(b) = {})'
    BY <1>2 DEF BranchesAreRecorded
  <1>5. (\A b \in 1..made :
           \/ \E c \in Clients : Recording(c) /\ client[c].branch = b
           \/ \E j \in On(b) : journal[j].seq > base[b].seq)'
    BY <1>1, <1>2, <1>3 DEF BranchesAreRecorded
  <1>6. (\A c \in Clients :
           Recording(c) =>
             /\ client[c].branch \in 1..made
             /\ On(client[c].branch) = {}
             /\ \A d \in Clients : Recording(d) /\ client[d].branch = client[c].branch => d = c)'
    BY <1>2, <1>3 DEF BranchesAreRecorded
  <1>7. QED
    BY <1>4, <1>5, <1>6 DEF BranchesAreRecorded

LEMMA SoundStays ==
  ASSUME TreeIsSound, UNCHANGED journal
  PROVE  TreeIsSound'
  <1>1. \A b : On(b)' = On(b)
    BY DEF On, Uuids
  <1>2. QED
    BY <1>1 DEF TreeIsSound

(* What WriterAtHead says of a run.                                        *)
AtHead(r) ==
  /\ \A j \in Uuids : journal[j].branch = exec[r].branch => journal[j].seq <= exec[r].seq
  /\ IF exec[r].tip = None THEN exec[r].seq = 0
     ELSE /\ exec[r].tip \in Uuids
          /\ journal[exec[r].tip].seq = exec[r].seq
          /\ journal[exec[r].tip].branch = exec[r].branch

LEMMA WriterAtHeadIs ==
  /\ WriterAtHead <=> \A r \in Executions : Live(r) /\ exec[r].pc # "recover" => AtHead(r)
  /\ WriterAtHead' <=> \A r \in Executions : (Live(r) /\ exec[r].pc # "recover" => AtHead(r))'
  BY DEF WriterAtHead, AtHead, On

(* A step of the run at work that leaves it where it stands.               *)
LEMMA WorksOn ==
  ASSUME TypeInv, TreeInv, NEW r \in Executions, Live(r), exec[r].pc # "recover", Live(r)',
         exec' = [exec EXCEPT ![r] = exec'[r]],
         exec'[r].branch = exec[r].branch, exec'[r].seq = exec[r].seq, exec'[r].tip = exec[r].tip,
         doc'.lease = doc.lease, doc'.active = doc.active, UNCHANGED <<journal, made, client>>,
         \A b \in BranchIds : base'[b].seq = base[b].seq
  PROVE  LeaseIsHeld' /\ WriterAtHead' /\ BranchesAreRecorded' /\ TreeIsSound'
  <1>1. LeaseIsHeld'
    <2> SUFFICES ASSUME NEW q \in Executions, Live(q)'
                 PROVE  /\ doc'.lease = q /\ exec'[q].branch = doc'.active
                        /\ \A c \in Clients : ~Recording(c)'
      BY DEF LeaseIsHeld
    <2>1. Live(q) /\ exec'[q].branch = exec[q].branch
      BY OthersStay
    <2>2. QED
      BY <2>1 DEF TreeInv, LeaseIsHeld, Recording
  <1>2. WriterAtHead'
    <2> SUFFICES ASSUME NEW q \in Executions, Live(q)' PROVE AtHead(q)'
      BY WriterAtHeadIs
    <2>1. q = r
      BY OthersStay, OneAtWork DEF TreeInv
    <2>2. AtHead(r)
      BY WriterAtHeadIs DEF TreeInv
    <2>3. QED
      BY <2>1, <2>2 DEF AtHead, Uuids
  <1>3. QED
    BY <1>1, <1>2, BranchesStay, SoundStays DEF TreeInv

(* A step of the run at work that appends the next record of its branch.   *)
LEMMA WorkLands ==
  ASSUME TypeInv, TreeInv, NEW r \in Executions, Live(r), exec[r].pc # "recover", Live(r)',
         NEW record \in Records, journal' = Append(journal, record),
         record.branch = exec[r].branch, record.seq = exec[r].seq + 1,
         record.parent = exec[r].tip,
         exec' = [exec EXCEPT ![r] = exec'[r]], exec'[r].branch = exec[r].branch,
         exec'[r].seq = record.seq, exec'[r].tip = Len(journal) + 1,
         UNCHANGED <<doc, base, made, client>>
  PROVE  LeaseIsHeld' /\ WriterAtHead' /\ BranchesAreRecorded' /\ TreeIsSound'
  <1> DEFINE n == Len(journal) + 1
             b == exec[r].branch
  <1>1. /\ Len(journal') = n /\ n \in Nat /\ n > 0 /\ n # None
        /\ Uuids' = Uuids \cup {n} /\ n \notin Uuids
        /\ \A i \in Uuids : journal'[i] = journal[i]
        /\ journal'[n] = record
        /\ \A d : On(d)' = IF b = d THEN On(d) \cup {n} ELSE On(d)
    <2>1. journal \in Seq(Records)
      BY DEF TypeInv, TypeOK
    <2>2. Len(journal) + 1 \in Nat /\ Len(journal) + 1 > 0 /\ Len(journal) + 1 # 0
      BY <2>1
    <2>3. QED
      BY <2>1, <2>2, Landed DEF None
  <1>2. /\ \A j \in Uuids : journal[j].branch = b => journal[j].seq <= exec[r].seq
        /\ IF exec[r].tip = None THEN exec[r].seq = 0
           ELSE /\ exec[r].tip \in Uuids
                /\ journal[exec[r].tip].seq = exec[r].seq
                /\ journal[exec[r].tip].branch = b
    <2>1. AtHead(r)
      BY WriterAtHeadIs DEF TreeInv
    <2>2. QED
      BY <2>1 DEF AtHead
  <1>3. exec[r].seq \in Nat /\ b \in BranchIds /\ \A j \in Uuids : journal[j].seq \in Nat
    BY HandTypes, RecordTypes DEF TypeInv
  <1>4. ASSUME NEW j \in Uuids, journal[j].branch = b
        PROVE  journal'[j].seq < record.seq /\ journal'[j].seq <= record.seq
    <2>1. journal[j].seq <= exec[r].seq /\ journal[j].seq \in Nat /\ exec[r].seq \in Nat
      BY <1>2, <1>3, <1>4
    <2>2. journal[j].seq < exec[r].seq + 1 /\ journal[j].seq <= exec[r].seq + 1
      BY <2>1
    <2>3. QED
      BY <1>1, <2>2
  <1>5. LeaseIsHeld'
    <2> SUFFICES ASSUME NEW q \in Executions, Live(q)'
                 PROVE  /\ doc'.lease = q /\ exec'[q].branch = doc'.active
                        /\ \A c \in Clients : ~Recording(c)'
      BY DEF LeaseIsHeld
    <2>1. Live(q) /\ exec'[q].branch = exec[q].branch
      BY OthersStay
    <2>2. QED
      BY <2>1 DEF TreeInv, LeaseIsHeld, Recording
  <1>6. WriterAtHead'
    <2> SUFFICES ASSUME NEW q \in Executions, Live(q)' PROVE AtHead(q)'
      BY WriterAtHeadIs
    <2>1. q = r
      BY OthersStay, OneAtWork DEF TreeInv
    <2>2. exec'[q].branch = b /\ exec'[q].seq = record.seq /\ exec'[q].tip = n
      BY <2>1
    <2>3. ASSUME NEW j \in Uuids', journal'[j].branch = b PROVE journal'[j].seq <= record.seq
      <3>1. CASE j \in Uuids
        BY <1>1, <1>4, <2>3, <3>1
      <3>2. CASE j = n
        <4>1. exec[r].seq + 1 <= exec[r].seq + 1
          BY <1>3
        <4>2. QED
          BY <1>1, <3>2, <4>1
      <3>3. QED
        BY <1>1, <3>1, <3>2
    <2>4. QED
      BY <1>1, <2>2, <2>3 DEF AtHead
  <1>7. BranchesAreRecorded'
    <2>1. BranchesAreRecorded /\ b = doc.active /\ \A c \in Clients : ~Recording(c)
      BY DEF TreeInv, LeaseIsHeld
    <2>2. b <= made /\ made \in 0..MaxBranches
      BY <2>1, BoundAssumption DEF TypeInv, PointersHold, BasesStand, TypeOK, BranchIds
    <2>3. ASSUME NEW d \in BranchIds, d > made PROVE On(d)' = {}
      BY <1>1, <1>3, <2>1, <2>2, <2>3 DEF BranchesAreRecorded, BranchIds
    <2>4. ASSUME NEW d \in 1..made PROVE \E j \in On(d)' : journal'[j].seq > base[d].seq
      <3>1. PICK j \in On(d) : journal[j].seq > base[d].seq
        BY <2>1 DEF BranchesAreRecorded
      <3>2. j \in On(d)' /\ j \in Uuids
        BY <1>1, <3>1 DEF On
      <3>3. QED
        BY <1>1, <3>1, <3>2
    <2>5. \A c \in Clients : ~Recording(c)'
      BY <2>1 DEF Recording
    <2>6. QED
      BY <2>3, <2>4, <2>5 DEF BranchesAreRecorded
  <1>8. TreeIsSound'
    <2>1. journal'[n].branch = b /\ journal'[n].seq = exec[r].seq + 1
          /\ journal'[n].parent = exec[r].tip
      BY <1>1
    <2>2. ASSUME NEW j \in Uuids', journal'[j].branch = b, j # n
          PROVE  journal'[j].seq < journal'[n].seq
      BY <1>1, <1>4, <2>2
    <2>3. journal'[n].seq = 1 + IF journal'[n].parent = None THEN 0
                                ELSE journal'[journal'[n].parent].seq
      <3>1. CASE exec[r].tip = None
        BY <1>2, <2>1, <3>1
      <3>2. CASE exec[r].tip # None
        <4>1. journal'[exec[r].tip].seq = exec[r].seq
          BY <1>1, <1>2, <3>2
        <4>2. exec[r].seq + 1 = 1 + exec[r].seq
          BY <1>3
        <4>3. QED
          BY <2>1, <3>2, <4>1, <4>2
      <3>3. QED
        BY <3>1, <3>2
    <2>4. journal'[n].parent # None => journal'[journal'[n].parent].branch = journal'[n].branch
      <3>1. exec[r].tip # None => journal'[exec[r].tip].branch = b
        BY <1>1, <1>2
      <3>2. QED
        BY <2>1, <3>1
    <2>5. Len(journal') = n
      BY <1>1
    <2> HIDE DEF n
    <2>6. QED
      BY <2>1, <2>2, <2>3, <2>4, <2>5 DEF TreeIsSound, On
  <1>9. QED
    BY <1>5, <1>6, <1>7, <1>8

(* A step after which r is not at work: it leaves, or only wakes.          *)
LEMMA NotAtWork ==
  ASSUME TypeInv, TreeInv, NEW r \in Executions, ~Live(r)',
         exec' = [exec EXCEPT ![r] = exec'[r]], doc'.active = doc.active,
         Live(r) \/ doc'.lease = doc.lease,
         UNCHANGED <<journal, base, made, client>>
  PROVE  LeaseIsHeld' /\ WriterAtHead' /\ BranchesAreRecorded' /\ TreeIsSound'
  <1>1. ASSUME NEW q \in Executions, Live(q)'
        PROVE  q # r /\ Live(q) /\ exec'[q] = exec[q] /\ doc'.lease = doc.lease
    <2>1. q # r
      BY <1>1
    <2>2. Live(q) /\ exec'[q] = exec[q]
      BY <1>1, <2>1, OthersStay
    <2>3. ~Live(r)
      BY <2>1, <2>2, OneAtWork DEF TreeInv
    <2>4. QED
      BY <2>1, <2>2, <2>3
  <1>2. LeaseIsHeld'
    BY <1>1 DEF TreeInv, LeaseIsHeld, Recording
  <1>3. \A b : On(b)' = On(b)
    BY DEF On, Uuids
  <1>4. WriterAtHead'
    BY <1>1, <1>3 DEF TreeInv, WriterAtHead, Uuids
  <1>5. QED
    BY <1>2, <1>4, BranchesStay, SoundStays DEF TreeInv

(* What is on the way stays when nobody at work with something on the way  *)
(* moves.                                                                  *)
LEMMA MintedKept ==
  ASSUME TypeInv, MintedIsNext, NEW r \in Executions,
         exec' = [exec EXCEPT ![r] = exec'[r]], UNCHANGED minted,
         exec[r].pc \notin {"spoken", "called"} \/ LockFree(r)
  PROVE  MintedIsNext'
  <1> SUFFICES ASSUME NEW q \in Executions, NEW w \in Writers, minted'[q][w] # NoRecord
               PROVE  q # r /\ exec'[q] = exec[q]
    BY DEF MintedIsNext
  <1>1. minted[q][w] # NoRecord /\ exec[q].pc \in {"spoken", "called"} /\ ~LockFree(q)
    BY DEF MintedIsNext, LockFree, Writers
  <1>2. QED
    BY <1>1, OthersStay

(* Clients that come, prompt and stream.                                   *)
LEMMA ClientTurns ==
  ASSUME TypeInv, TreeInv, NEW c \in Clients, client' = [client EXCEPT ![c] = client'[c]],
         client[c].pc # "record", client'[c].pc # "record",
         UNCHANGED <<journal, doc, base, made, minted>>,
         \A q \in Executions : exec'[q] = exec[q] \/ (~Live(q) /\ ~Live(q)')
  PROVE  TreeInv'
  <1>1. client \in [Clients -> [pc : {"new", "record", "attached", "stream", "done"},
                               branch : BranchIds, cursor : Nat, since : Nat]]
    BY DEF TypeInv, TypeOK
  <1>2. ASSUME NEW d \in Clients
        PROVE  /\ Recording(d)' <=> Recording(d)
               /\ Recording(d) => client'[d].branch = client[d].branch
    <2>1. CASE d = c
      BY <2>1 DEF Recording
    <2>2. CASE d # c
      BY <1>1, <2>2 DEF Recording
    <2>3. QED
      BY <2>1, <2>2
  <1>3. ASSUME NEW q \in Executions, Live(q)' PROVE Live(q) /\ exec'[q] = exec[q]
    BY <1>3 DEF Live
  <1>4. LeaseIsHeld'
    BY <1>2, <1>3 DEF TreeInv, LeaseIsHeld
  <1>5. WriterAtHead'
    <2> SUFFICES ASSUME NEW q \in Executions, Live(q)', exec'[q].pc # "recover" PROVE AtHead(q)'
      BY WriterAtHeadIs
    <2>1. AtHead(q) /\ exec'[q] = exec[q]
      BY <1>3, WriterAtHeadIs DEF TreeInv
    <2>2. QED
      BY <2>1 DEF AtHead, Uuids
  <1>6. MintedIsNext'
    <2>1. ASSUME NEW q \in Executions, NEW w \in Writers, minted[q][w] # NoRecord
          PROVE  exec'[q] = exec[q]
      BY <2>1 DEF TreeInv, MintedIsNext, Live
    <2>2. QED
      BY <2>1 DEF TreeInv, MintedIsNext
  <1>7. BranchesAreRecorded'
    <2>1. \A b : On(b)' = On(b)
      BY DEF On, Uuids
    <2>2. BranchesAreRecorded
      BY DEF TreeInv
    <2>3. (\A b \in 1..made :
             \/ \E d \in Clients : Recording(d) /\ client[d].branch = b
             \/ \E j \in On(b) : journal[j].seq > base[b].seq)'
      BY <1>2, <2>1, <2>2 DEF BranchesAreRecorded
    <2>4. (\A d \in Clients :
             Recording(d) =>
               /\ client[d].branch \in 1..made
               /\ On(client[d].branch) = {}
               /\ \A e \in Clients : Recording(e) /\ client[e].branch = client[d].branch => e = d)'
      BY <1>2, <2>1, <2>2 DEF BranchesAreRecorded
    <2>5. (\A b \in BranchIds : b > made => On(b) = {})'
      BY <2>1, <2>2 DEF BranchesAreRecorded
    <2>6. QED
      BY <2>3, <2>4, <2>5 DEF BranchesAreRecorded
  <1>8. QED
    BY <1>4, <1>5, <1>6, <1>7, SoundStays DEF TreeInv

LEMMA ClientIs ==
  ASSUME TypeInv, NEW c \in Clients
  PROVE  /\ client \in [Clients -> [pc : {"new", "record", "attached", "stream", "done"},
                                   branch : BranchIds, cursor : Nat, since : Nat]]
         /\ client[c] \in [pc : {"new", "record", "attached", "stream", "done"},
                           branch : BranchIds, cursor : Nat, since : Nat]
  BY DEF TypeInv, TypeOK

LEMMA AttachTree ==
  ASSUME TypeInv, TreeInv, NEW c \in Clients, Attach(c) PROVE TreeInv'
  <1>1. /\ client' = [client EXCEPT ![c].pc = "attached", ![c].branch = doc.active,
                                    ![c].cursor = CursorOf(doc.active),
                                    ![c].since = Len(journal)]
        /\ UNCHANGED <<journal, doc, base, made, exec, minted>>
        /\ client[c].pc = "new"
    BY DEF Attach, Comes, execVars
  <1>2. client' = [client EXCEPT ![c] = client'[c]] /\ client'[c].pc = "attached"
    BY <1>1, ClientIs
  <1>3. QED
    BY <1>1, <1>2, ClientTurns

LEMMA SendTree ==
  ASSUME TypeInv, TreeInv, NEW c \in Clients, Send(c) PROVE TreeInv'
  <1>1. /\ client' = [client EXCEPT ![c].pc = "stream"] /\ client[c].pc = "attached"
        /\ UNCHANGED <<journal, doc, base, made, minted>>
    BY DEF Send
  <1>2. client' = [client EXCEPT ![c] = client'[c]] /\ client'[c].pc = "stream"
    BY <1>1, ClientIs
  <1>3. \A q \in Executions : exec'[q] = exec[q] \/ (~Live(q) /\ ~Live(q)')
    <2>1. CASE UNCHANGED exec
      BY <2>1
    <2>2. CASE \E r \in Executions : exec[r].pc = "off" /\ exec' = [exec EXCEPT ![r].pc = "boot"]
      <3>1. PICK r \in Executions : exec[r].pc = "off" /\ exec' = [exec EXCEPT ![r].pc = "boot"]
        BY <2>2
      <3>2. exec \in [Executions -> Hand] /\ exec[r] \in Hand
        BY TypeInvParts DEF HandInv
      <3>3. exec'[r].pc = "boot"
        BY <3>1, <3>2 DEF Hand
      <3>4. \A q \in Executions : q # r => exec'[q] = exec[q]
        BY <3>1, <3>2
      <3>5. QED
        BY <3>1, <3>3, <3>4 DEF Live
    <2>3. QED
      BY <2>1, <2>2 DEF Send
  <1>4. QED
    BY <1>1, <1>2, <1>3, ClientTurns

LEMMA StreamTree ==
  ASSUME TypeInv, TreeInv, NEW c \in Clients, Stream(c) PROVE TreeInv'
  <1>1. /\ client' = [client EXCEPT ![c] = [Visitor EXCEPT !.pc = "done"]]
        /\ client[c].pc = "stream" /\ UNCHANGED <<journal, doc, base, made, exec, minted>>
    BY DEF Stream, execVars
  <1>2. client' = [client EXCEPT ![c] = client'[c]] /\ client'[c].pc = "done"
    BY <1>1, ClientIs DEF Visitor
  <1>3. QED
    BY <1>1, <1>2, ClientTurns

(* A new branch is empty and its client is to record it.                   *)
LEMMA RewindTree ==
  ASSUME TypeInv, TreeInv, NEW c \in Clients, Rewind(c) PROVE TreeInv'
  <1>1. /\ doc.lease = None /\ made' = made + 1 /\ client[c].pc = "new"
        /\ client' = [client EXCEPT ![c].pc = "record", ![c].branch = made + 1]
        /\ UNCHANGED <<journal, exec, minted>>
        /\ \E new : base' = [base EXCEPT ![made + 1] = new]
    BY DEF Rewind, Comes, execVars
  <1>2. made \in 0..MaxBranches /\ made < MaxBranches /\ made + 1 \in BranchIds
        /\ made \in Nat /\ BranchIds = 0..MaxBranches /\ MaxBranches \in Nat
    <2>1. made \in BranchIds /\ made < MaxBranches
      BY TypeInvParts DEF BaseInv, Rewind
    <2>2. QED
      BY <2>1, BoundAssumption DEF BranchIds
  <1>3. \A q \in Executions : ~Live(q) /\ ~Live(q)'
    BY <1>1, LeaseIsSomebodys DEF TreeInv, Live
  <1>4. /\ \A d \in Clients : d # c => client'[d] = client[d]
        /\ client'[c].pc = "record" /\ client'[c].branch = made + 1
    BY <1>1, <1>2, ClientIs
  <1>5. \A b \in BranchIds : b # made + 1 => base'[b] = base[b]
    BY <1>1, <1>2, TypeInvParts DEF BaseInv
  <1>6. \A b : On(b)' = On(b)
    BY <1>1 DEF On, Uuids
  <1>7. BranchesAreRecorded /\ On(made + 1) = {}
    <2>1. BranchesAreRecorded
      BY DEF TreeInv
    <2>2. made + 1 \in BranchIds /\ made + 1 > made
      BY <1>2
    <2>3. QED
      BY <2>1, <2>2 DEF BranchesAreRecorded
  <1>8. BranchesAreRecorded'
    <2>1. ASSUME NEW b \in BranchIds, b > made + 1 PROVE On(b)' = {}
      BY <1>2, <1>6, <1>7, <2>1 DEF BranchesAreRecorded
    <2>2. ASSUME NEW b \in 1..(made + 1)
          PROVE  \/ \E d \in Clients : Recording(d)' /\ client'[d].branch = b
                 \/ \E j \in On(b)' : journal'[j].seq > base'[b].seq
      <3>1. CASE b = made + 1
        BY <1>4, <3>1 DEF Recording
      <3>2. CASE b # made + 1
        <4>1. b \in 1..made /\ b \in BranchIds /\ base'[b] = base[b]
          BY <1>2, <1>5, <3>2
        <4>2. \/ \E d \in Clients : Recording(d) /\ client[d].branch = b
              \/ \E j \in On(b) : journal[j].seq > base[b].seq
          BY <1>7, <4>1 DEF BranchesAreRecorded
        <4>3. \A d \in Clients : Recording(d) => d # c
          BY <1>1 DEF Recording
        <4>4. QED
          BY <1>1, <1>4, <1>6, <4>1, <4>2, <4>3 DEF Recording
      <3>3. QED
        BY <3>1, <3>2
    <2>3. ASSUME NEW d \in Clients, Recording(d)'
          PROVE  /\ client'[d].branch \in 1..(made + 1)
                 /\ (On(client[d].branch))' = {}
                 /\ \A e \in Clients :
                      Recording(e)' /\ client'[e].branch = client'[d].branch => e = d
      <3>1. \A e \in Clients : e # c /\ Recording(e)' => /\ Recording(e)
                                                         /\ client'[e].branch = client[e].branch
                                                         /\ client[e].branch \in 1..made
                                                         /\ On(client[e].branch) = {}
        BY <1>4, <1>7 DEF Recording, BranchesAreRecorded
      <3>2. \A e \in Clients : e # c /\ Recording(e)' => client'[e].branch # made + 1
        BY <1>2, <3>1
      <3>3. CASE d = c
        BY <1>2, <1>4, <1>6, <1>7, <2>3, <3>2, <3>3
      <3>4. CASE d # c
        <4>1. Recording(d) /\ client'[d].branch = client[d].branch /\ client[d].branch \in 1..made
              /\ On(client[d].branch) = {} /\ client[d].branch # made + 1
          BY <2>3, <3>1, <3>2, <3>4
        <4>2. ASSUME NEW e \in Clients, Recording(e)', client'[e].branch = client'[d].branch
              PROVE  e = d
          <5>1. e # c
            BY <1>4, <4>1, <4>2
          <5>2. Recording(e) /\ client[e].branch = client[d].branch
            BY <3>1, <4>1, <4>2, <5>1
          <5>3. QED
            BY <1>7, <4>1, <5>2 DEF BranchesAreRecorded
        <4>3. client'[d].branch \in 1..(made + 1)
          BY <1>2, <4>1
        <4>4. QED
          BY <1>6, <4>1, <4>2, <4>3
      <3>5. QED
        BY <3>3, <3>4
    <2>4. QED
      BY <1>1, <2>1, <2>2, <2>3 DEF BranchesAreRecorded
  <1>9. LeaseIsHeld' /\ WriterAtHead'
    BY <1>3 DEF LeaseIsHeld, WriterAtHead
  <1>10. MintedIsNext'
    BY <1>1 DEF TreeInv, MintedIsNext
  <1>11. QED
    BY <1>1, <1>8, <1>9, <1>10, SoundStays DEF TreeInv

(* Its first record continues the base.                                    *)
LEMMA RecordBranchTree ==
  ASSUME TypeInv, TreeInv, NEW c \in Clients, RecordBranch(c) PROVE TreeInv'
  <1> DEFINE b == client[c].branch
             n == Len(journal) + 1
             record == [branch |-> b, seq |-> base[b].seq + 1, parent |-> base[b].uuid,
                        kind |-> "branch_created", sdk |-> None, context |-> None]
  <1>1. /\ Recording(c) /\ journal' = Append(journal, record)
        /\ client' = [client EXCEPT ![c].pc = "attached", ![c].cursor = base[b].seq + 1,
                                    ![c].since = Len(journal)]
        /\ UNCHANGED <<doc, base, made, exec, minted>>
    BY DEF RecordBranch, execVars, Recording
  <1>2. /\ b \in 1..made /\ On(b) = {} /\ BranchesAreRecorded
        /\ \A d \in Clients : Recording(d) /\ client[d].branch = b => d = c
    BY <1>1 DEF TreeInv, BranchesAreRecorded
  <1>3. /\ b \in BranchIds /\ base[b].seq \in Nat /\ base[b].uuid \in Nat
        /\ base[b].uuid = None => base[b].seq = 0
        /\ base[b].uuid # None => /\ base[b].uuid \in Uuids
                                  /\ base[b].seq = journal[base[b].uuid].seq
    BY ClientIs, BaseTypes
  <1>4. record \in Records
    BY <1>3 DEF Records, Kinds, None
  <1>5. /\ Len(journal) \in Nat /\ n \in Nat /\ n > 0 /\ n # None
    BY Lengths DEF None
  <1>6. /\ Len(journal') = n
        /\ Uuids' = Uuids \cup {n} /\ n \notin Uuids
        /\ \A i \in Uuids : journal'[i] = journal[i]
        /\ journal'[n] = record
        /\ \A d : On(d)' = IF b = d THEN On(d) \cup {n} ELSE On(d)
    <2>1. journal \in Seq(Records)
      BY DEF TypeInv, TypeOK
    <2>2. QED
      BY <1>1, <1>4, <2>1, Landed
  <1>7. /\ \A d \in Clients : d # c => client'[d] = client[d]
        /\ client'[c].pc = "attached"
    BY <1>1, ClientIs
  <1>8. \A q \in Executions : ~Live(q) /\ ~Live(q)'
    BY <1>1 DEF TreeInv, LeaseIsHeld, Live
  <1>9. LeaseIsHeld' /\ WriterAtHead'
    BY <1>8 DEF LeaseIsHeld, WriterAtHead
  <1>10. MintedIsNext'
    BY <1>1 DEF TreeInv, MintedIsNext
  <1>11. BranchesAreRecorded'
    <2>1. made \in Nat
      BY BoundAssumption DEF TypeInv, TypeOK, BranchIds
    <2>2. ASSUME NEW d \in BranchIds, d > made PROVE On(d)' = {}
      <3>1. d # b /\ On(d) = {}
        BY <1>2, <2>1, <2>2 DEF BranchesAreRecorded
      <3>2. QED
        BY <1>6, <3>1
    <2>3. ASSUME NEW d \in 1..made
          PROVE  \/ \E e \in Clients : Recording(e)' /\ client'[e].branch = d
                 \/ \E j \in On(d)' : journal'[j].seq > base[d].seq
      <3>1. CASE d = b
        <4>1. n \in On(d)' /\ journal'[n].seq = base[d].seq + 1
          BY <1>6, <3>1
        <4>2. base[d].seq + 1 > base[d].seq
          BY <1>3, <3>1
        <4>3. QED
          BY <4>1, <4>2
      <3>2. CASE d # b
        <4>1. CASE \E e \in Clients : Recording(e) /\ client[e].branch = d
          BY <1>7, <3>2, <4>1 DEF Recording
        <4>2. CASE \E j \in On(d) : journal[j].seq > base[d].seq
          <5>1. PICK j \in On(d) : journal[j].seq > base[d].seq
            BY <4>2
          <5>2. j \in On(d)' /\ j \in Uuids
            BY <1>6, <3>2, <5>1 DEF On
          <5>3. QED
            BY <1>6, <5>1, <5>2
        <4>3. QED
          BY <1>2, <4>1, <4>2 DEF BranchesAreRecorded
      <3>3. QED
        BY <3>1, <3>2
    <2>4. ASSUME NEW d \in Clients, Recording(d)'
          PROVE  /\ client'[d].branch \in 1..made
                 /\ (On(client[d].branch))' = {}
                 /\ \A e \in Clients :
                      Recording(e)' /\ client'[e].branch = client'[d].branch => e = d
      <3>1. \A e \in Clients :
              Recording(e)' => e # c /\ Recording(e) /\ client'[e].branch = client[e].branch
        BY <1>7 DEF Recording
      <3>2. d # c /\ Recording(d) /\ client'[d].branch = client[d].branch
        BY <2>4, <3>1
      <3>3. client[d].branch # b /\ client[d].branch \in 1..made /\ On(client[d].branch) = {}
        BY <1>2, <3>2 DEF BranchesAreRecorded
      <3>4. On(client'[d].branch) = {} /\ client'[d].branch # b
        BY <3>2, <3>3
      <3>5. QED
        BY <1>2, <1>6, <3>1, <3>2, <3>3 DEF BranchesAreRecorded
    <2>5. QED
      BY <1>1, <2>2, <2>3, <2>4 DEF BranchesAreRecorded
  <1>12. TreeIsSound'
    <2>1. journal'[n].branch = b /\ journal'[n].seq = base[b].seq + 1
          /\ journal'[n].parent = base[b].uuid /\ journal'[n].kind = "branch_created"
      BY <1>6
    <2>2. journal'[n].seq = 1 + IF journal'[n].parent = None THEN 0
                                ELSE journal'[journal'[n].parent].seq
      <3>1. CASE base[b].uuid = None
        BY <1>3, <2>1, <3>1
      <3>2. CASE base[b].uuid # None
        <4>1. journal'[base[b].uuid].seq = base[b].seq
          BY <1>3, <1>6, <3>2
        <4>2. base[b].seq + 1 = 1 + base[b].seq
          BY <1>3
        <4>3. QED
          BY <2>1, <3>2, <4>1, <4>2
      <3>3. QED
        BY <3>1, <3>2
    <2>3. Len(journal') = n
      BY <1>6
    <2>4. ASSUME NEW j \in Uuids', journal'[j].branch = journal'[n].branch, j # n PROVE FALSE
      <3>1. j \in Uuids /\ journal[j].branch = b
        BY <1>6, <2>1, <2>4
      <3>2. QED
        BY <1>2, <3>1 DEF On
    <2> HIDE DEF n
    <2>5. QED
      BY <2>1, <2>2, <2>3, <2>4 DEF TreeIsSound, On
  <1>13. QED
    BY <1>9, <1>10, <1>11, <1>12 DEF TreeInv

(* The run claims the branch it then works on, whose client is done with   *)
(* its first record.                                                       *)
LEMMA ClaimTree ==
  ASSUME TypeInv, TreeInv, NoEarlyClaim, NEW r \in Executions, Claim(r) PROVE TreeInv'
  <1>1. exec \in [Executions -> Hand] /\ exec[r] \in Hand
    BY TypeInvParts DEF HandInv
  <1>2. /\ exec[r].pc = "boot" /\ \A c \in Clients : ~Recording(c) /\ ~Recording(c)'
        /\ UNCHANGED <<journal, base, made, minted, client>>
    BY DEF Claim, NoEarlyClaim, Recording
  <1>3. CASE doc.lease # None
    <2>1. exec' = [exec EXCEPT ![r] = Gone] /\ UNCHANGED doc
      BY <1>3 DEF Claim
    <2>2. exec'[r] = Gone /\ exec' = [exec EXCEPT ![r] = exec'[r]]
      BY <1>1, <2>1
    <2>3. ~Live(r)'
      BY <2>2, GoneIsHand DEF Live
    <2>4. MintedIsNext'
      BY <1>2, <2>2, MintedKept DEF TreeInv
    <2>5. QED
      BY <1>2, <2>1, <2>2, <2>3, <2>4, NotAtWork DEF TreeInv
  <1>4. CASE doc.lease = None
    <2>1. /\ doc' = [doc EXCEPT !.lease = r]
          /\ exec' = [exec EXCEPT ![r].pc = "recover", ![r].branch = doc.active,
                                  ![r].known = doc.sdk, ![r].context = doc.sdk]
      BY <1>4 DEF Claim
    <2>2. /\ exec'[r] = [exec[r] EXCEPT !.pc = "recover", !.branch = doc.active,
                                        !.known = doc.sdk, !.context = doc.sdk]
          /\ exec' = [exec EXCEPT ![r] = exec'[r]]
      BY <1>1, <2>1
    <2>3. exec'[r].pc = "recover" /\ exec'[r].branch = doc.active
      BY <1>1, <2>2 DEF Hand
    <2>4. doc'.lease = r /\ doc'.active = doc.active
      BY <2>1, TypeInvParts DEF BaseInv
    <2>5. \A q \in Executions : Live(q)' => q = r
      <3>1. \A q \in Executions : ~Live(q)
        BY <1>4, LeaseIsSomebodys DEF TreeInv
      <3>2. QED
        BY <2>2, <3>1, OthersStay
    <2>6. LeaseIsHeld' /\ WriterAtHead'
      BY <1>2, <2>3, <2>4, <2>5 DEF LeaseIsHeld, WriterAtHead
    <2>7. MintedIsNext'
      BY <1>2, <2>2, MintedKept DEF TreeInv
    <2>8. BranchesAreRecorded' /\ TreeIsSound'
      BY <1>2, BranchesStay, SoundStays DEF TreeInv
    <2>9. QED
      BY <2>6, <2>7, <2>8 DEF TreeInv
  <1>5. QED
    BY <1>3, <1>4

(* A recorded branch has gone past its base.                               *)
LEMMA RecoveredIsHead ==
  ASSUME TypeInv, BranchesAreRecorded, NEW b \in BranchIds, b <= made,
         \A c \in Clients : ~Recording(c)
  PROVE  Recovered(b) = HeadOf(b)
  <1>1. /\ HeadOf(b)[1] \in Nat /\ \A j \in On(b) : journal[j].seq <= HeadOf(b)[1]
    BY HeadIsHighest DEF TypeInv
  <1>2. base[b].seq \in Nat /\ made \in Nat
    BY BaseTypes
  <1>3. CASE b = Main
    <2>1. base[b].seq = 0
      BY <1>3, BaseTypes DEF TypeInv, PointersHold, BasesStand
    <2>2. QED
      BY <1>1, <2>1 DEF Recovered
  <1>4. CASE b # Main
    <2>1. b \in 1..made
      BY <1>2, <1>4, BoundAssumption DEF BranchIds, Main
    <2>2. PICK j \in On(b) : journal[j].seq > base[b].seq
      BY <2>1 DEF BranchesAreRecorded
    <2>3. journal[j].seq \in Nat /\ journal[j].seq <= HeadOf(b)[1]
      BY <1>1, <2>2, RecordTypes DEF On, TypeInv
    <2>4. ~(HeadOf(b)[1] < base[b].seq)
      BY <1>1, <1>2, <2>2, <2>3
    <2>5. QED
      BY <2>4 DEF Recovered
  <1>5. QED
    BY <1>3, <1>4

LEMMA RecoverTree ==
  ASSUME TypeInv, TreeInv, NEW r \in Executions, Recover(r) PROVE TreeInv'
  <1> DEFINE b == exec[r].branch
             fresh == IsFresh(b, Recovered(b)[1])
  <1>1. /\ exec[r].pc = "recover"
        /\ exec' = [exec EXCEPT ![r].pc = "hello", ![r].seq = Recovered(b)[1],
                                ![r].tip = Recovered(b)[2], ![r].fresh = fresh]
        /\ UNCHANGED <<journal, doc, base, made, minted, client>>
    BY DEF Recover
  <1>2. Live(r)
    BY <1>1 DEF Live
  <1>3. /\ exec \in [Executions -> Hand] /\ exec[r] \in Hand /\ b \in BranchIds
    BY HandTypes, TypeInvParts DEF HandInv
  <1>4. /\ b = doc.active /\ b <= made /\ \A c \in Clients : ~Recording(c) /\ ~Recording(c)'
    BY <1>1, <1>2 DEF TreeInv, LeaseIsHeld, TypeInv, PointersHold, BasesStand, Recording
  <1>5. Recovered(b) = HeadOf(b)
    BY <1>3, <1>4, RecoveredIsHead DEF TreeInv
  <1> HIDE DEF b, fresh
  <1>6. /\ exec'[r] = [exec[r] EXCEPT !.pc = "hello", !.seq = HeadOf(b)[1],
                                      !.tip = HeadOf(b)[2], !.fresh = fresh]
        /\ exec' = [exec EXCEPT ![r] = exec'[r]]
    BY <1>1, <1>3, <1>5
  <1>7. /\ exec'[r].pc = "hello" /\ exec'[r].seq = HeadOf(b)[1] /\ exec'[r].tip = HeadOf(b)[2]
        /\ exec'[r].branch = b
    BY <1>3, <1>6 DEF Hand, b
  <1>8. ASSUME NEW q \in Executions, Live(q)' PROVE q = r
    BY <1>2, <1>6, <1>8, OthersStay, OneAtWork DEF TreeInv
  <1>9. LeaseIsHeld'
    <2>1. doc.lease = r
      BY <1>2 DEF TreeInv, LeaseIsHeld
    <2>2. QED
      BY <1>1, <1>4, <1>7, <1>8, <2>1 DEF LeaseIsHeld
  <1>10. AtHead(r)'
    <2>1. /\ \A j \in On(b) : journal[j].seq <= HeadOf(b)[1]
          /\ IF On(b) = {} THEN HeadOf(b) = <<0, None>>
             ELSE HeadOf(b)[2] \in On(b) /\ HeadOf(b)[1] = journal[HeadOf(b)[2]].seq
      BY <1>3, HeadIsHighest DEF TypeInv
    <2>2. \A j \in Uuids : journal[j].branch = b => j \in On(b)
      BY DEF On
    <2>3. IF HeadOf(b)[2] = None THEN HeadOf(b)[1] = 0
          ELSE /\ HeadOf(b)[2] \in Uuids /\ journal[HeadOf(b)[2]].seq = HeadOf(b)[1]
               /\ journal[HeadOf(b)[2]].branch = b
      <3>1. CASE On(b) = {}
        BY <2>1, <3>1
      <3>2. CASE On(b) # {}
        <4>1. HeadOf(b)[2] \in Uuids /\ journal[HeadOf(b)[2]].branch = b
          BY <2>1, <3>2 DEF On
        <4>2. HeadOf(b)[2] # None
          BY <4>1, Lengths DEF None
        <4>3. QED
          BY <2>1, <3>2, <4>1, <4>2
      <3>3. QED
        BY <3>1, <3>2
    <2>4. UNCHANGED Uuids
      BY <1>1 DEF Uuids
    <2>5. QED
      BY <1>1, <1>7, <2>1, <2>2, <2>3, <2>4 DEF AtHead
  <1>11. WriterAtHead'
    BY <1>8, <1>10, WriterAtHeadIs
  <1>12. MintedIsNext'
    BY <1>1, <1>6, MintedKept DEF TreeInv
  <1>13. BranchesAreRecorded' /\ TreeIsSound'
    BY <1>1, BranchesStay, SoundStays DEF TreeInv
  <1>14. QED
    BY <1>9, <1>11, <1>12, <1>13 DEF TreeInv

LEMMA AppendAloneTree ==
  ASSUME TypeInv, TreeInv, NEW r \in Executions, NEW from \in Stations, NEW kind \in Kinds,
         NEW to \in Stations, AppendAlone(r, from, kind, None, to),
         from \notin {"off", "boot", "recover", "spoken", "called", "done"},
         to \notin {"off", "boot", "done"}
  PROVE  TreeInv'
  <1>1. None \in Nat /\ None <= Len(memory)
    BY Lengths DEF None
  <1> DEFINE record == Record(r, kind, None)
  <1>2. /\ record \in Records /\ record.branch = exec[r].branch
        /\ record.seq = exec[r].seq + 1 /\ record.parent = exec[r].tip
    BY <1>1, RecordIs
  <1>3. /\ exec[r].pc = from /\ journal' = Append(journal, record)
        /\ exec' = [exec EXCEPT ![r].seq = record.seq, ![r].tip = Len(journal) + 1, ![r].pc = to]
        /\ UNCHANGED <<doc, base, made, minted, client>>
    BY DEF AppendAlone, Land, Advanced
  <1> HIDE DEF record
  <1>4. exec \in [Executions -> Hand] /\ exec[r] \in Hand
    BY TypeInvParts DEF HandInv
  <1>5. /\ exec'[r] = [exec[r] EXCEPT !.seq = record.seq, !.tip = Len(journal) + 1, !.pc = to]
        /\ exec' = [exec EXCEPT ![r] = exec'[r]]
    BY <1>3, <1>4
  <1>6. /\ exec'[r].branch = exec[r].branch /\ exec'[r].pc = to
        /\ exec'[r].seq = record.seq /\ exec'[r].tip = Len(journal) + 1
    BY <1>4, <1>5 DEF Hand
  <1>7. Live(r) /\ Live(r)' /\ exec[r].pc # "recover" /\ exec[r].pc \notin {"spoken", "called"}
    BY <1>3, <1>6 DEF Live
  <1>8. LeaseIsHeld' /\ WriterAtHead' /\ BranchesAreRecorded' /\ TreeIsSound'
    BY <1>2, <1>3, <1>5, <1>6, <1>7, WorkLands
  <1>9. MintedIsNext'
    BY <1>3, <1>5, <1>7, MintedKept DEF TreeInv
  <1>10. QED
    BY <1>8, <1>9 DEF TreeInv

LEMMA SetupTree ==
  ASSUME TypeInv, TreeInv, NEW r \in Executions, Setup(r) PROVE TreeInv'
  <1>1. /\ exec[r].pc = "setup" /\ UNCHANGED <<journal, doc, base, made, minted, client>>
        /\ \E told, sdk : exec' = [exec EXCEPT ![r].pc = "loop", ![r].told = told, ![r].sdk = sdk]
    BY DEF Setup
  <1>2. PICK told, sdk : exec' = [exec EXCEPT ![r].pc = "loop", ![r].told = told, ![r].sdk = sdk]
    BY <1>1
  <1>3. exec \in [Executions -> Hand] /\ exec[r] \in Hand
    BY TypeInvParts DEF HandInv
  <1>4. /\ exec'[r] = [exec[r] EXCEPT !.pc = "loop", !.told = told, !.sdk = sdk]
        /\ exec' = [exec EXCEPT ![r] = exec'[r]]
    BY <1>2, <1>3
  <1>5. /\ exec'[r].pc = "loop" /\ exec'[r].branch = exec[r].branch
        /\ exec'[r].seq = exec[r].seq /\ exec'[r].tip = exec[r].tip
    BY <1>3, <1>4 DEF Hand
  <1>6. Live(r) /\ Live(r)' /\ exec[r].pc # "recover" /\ exec[r].pc \notin {"spoken", "called"}
    BY <1>1, <1>5 DEF Live
  <1>7. QED
    BY <1>1, <1>4, <1>5, <1>6, WorksOn, MintedKept DEF TreeInv

LEMMA FlushTree ==
  ASSUME TypeInv, TreeInv, NEW r \in Executions, Flush(r) PROVE TreeInv'
  <1>1. /\ exec[r].pc = "flush" /\ UNCHANGED <<journal, made, minted, client>>
        /\ doc' = [doc EXCEPT !.head = exec[r].seq, !.sdk = exec[r].told]
        /\ base' = [base EXCEPT ![exec[r].branch].sdk = exec[r].told]
        /\ exec' = [exec EXCEPT ![r].pc = "loop", ![r].flushed = TRUE,
                                ![r].context = exec[r].told]
    BY DEF Flush
  <1>2. exec \in [Executions -> Hand] /\ exec[r] \in Hand
    BY TypeInvParts DEF HandInv
  <1>3. /\ exec'[r] = [exec[r] EXCEPT !.pc = "loop", !.flushed = TRUE, !.context = exec[r].told]
        /\ exec' = [exec EXCEPT ![r] = exec'[r]]
    BY <1>1, <1>2
  <1>4. /\ exec'[r].pc = "loop" /\ exec'[r].branch = exec[r].branch
        /\ exec'[r].seq = exec[r].seq /\ exec'[r].tip = exec[r].tip
    BY <1>2, <1>3 DEF Hand
  <1>5. Live(r) /\ Live(r)' /\ exec[r].pc # "recover" /\ exec[r].pc \notin {"spoken", "called"}
    BY <1>1, <1>4 DEF Live
  <1>6. doc'.lease = doc.lease /\ doc'.active = doc.active
    BY <1>1, TypeInvParts DEF BaseInv
  <1>7. \A b \in BranchIds : base'[b].seq = base[b].seq
    <2>1. base \in [BranchIds -> [seq : Nat, uuid : Nat, sdk : Nat]]
      BY TypeInvParts DEF BaseInv
    <2>2. QED
      BY <1>1, <2>1
  <1>8. QED
    BY <1>1, <1>3, <1>4, <1>5, <1>6, <1>7, WorksOn, MintedKept DEF TreeInv

(* The one record on the way is the next of the branch.                    *)
LEMMA MintTree ==
  ASSUME TypeInv, TreeInv, NEW r \in Executions, NEW w \in Writers,
         NEW kind \in {"message", "tool_call"}, Mint(r, w, kind, None),
         exec[r].pc \in {"turn", "spoken"},
         exec' = [exec EXCEPT ![r] = exec'[r]], exec'[r].pc \in {"spoken", "called"},
         exec'[r].branch = exec[r].branch, exec'[r].seq = exec[r].seq,
         exec'[r].tip = exec[r].tip, exec'[r].context = exec[r].context
  PROVE  TreeInv'
  <1> DEFINE record == Record(r, kind, None)
  <1>1. /\ minted' = [minted EXCEPT ![r][w] = record] /\ LockFree(r)
        /\ UNCHANGED <<journal, doc, base, made, client>>
    BY DEF Mint
  <1>2. Live(r) /\ Live(r)' /\ exec[r].pc # "recover"
    BY DEF Live
  <1>3. LeaseIsHeld' /\ WriterAtHead' /\ BranchesAreRecorded' /\ TreeIsSound'
    BY <1>1, <1>2, WorksOn
  <1>4. MintedIsNext'
    <2> SUFFICES ASSUME NEW q \in Executions, NEW v \in Writers, minted'[q][v] # NoRecord
                 PROVE  /\ exec'[q].pc \in {"spoken", "called"}
                        /\ minted'[q][v] = [branch |-> exec'[q].branch, seq |-> exec'[q].seq + 1,
                                            parent |-> exec'[q].tip, kind |-> minted'[q][v].kind,
                                            sdk |-> None, context |-> exec'[q].context]
                        /\ minted'[q][v].kind \in {"message", "tool_call"}
                        /\ \A u \in Writers : u # v => minted'[q][u] = NoRecord
      BY DEF MintedIsNext
    <2>1. minted \in [Executions -> [Writers -> Records \cup {NoRecord}]]
      BY TypeInvParts DEF MintInv
    <2>2. CASE q = r
      <3>1. \A u \in Writers : minted'[r][u] = IF u = w THEN record ELSE minted[r][u]
        BY <1>1, <2>1
      <3>2. \A u \in Writers : minted[r][u] = NoRecord
        BY <1>1 DEF LockFree, Writers
      <3>3. v = w /\ minted'[q][v] = record
        BY <2>2, <3>1, <3>2
      <3>4. record = [branch |-> exec'[r].branch, seq |-> exec'[r].seq + 1,
                      parent |-> exec'[r].tip, kind |-> kind, sdk |-> None,
                      context |-> exec'[r].context]
        BY DEF Record
      <3>5. QED
        BY <2>2, <3>1, <3>2, <3>3, <3>4
    <2>3. CASE q # r
      <3>1. minted'[q] = minted[q] /\ exec'[q] = exec[q]
        BY <1>1, <2>1, <2>3, OthersStay
      <3>2. QED
        BY <3>1 DEF TreeInv, MintedIsNext
    <2>4. QED
      BY <2>2, <2>3
  <1>5. QED
    BY <1>3, <1>4 DEF TreeInv

LEMMA MessageTree ==
  ASSUME TypeInv, TreeInv, NEW r \in Executions, Message(r) PROVE TreeInv'
  <1>1. /\ exec \in [Executions -> Hand] /\ exec[r] \in Hand /\ "loop" \in Writers
    BY TypeInvParts DEF HandInv, Writers
  <1>2. /\ exec' = [exec EXCEPT ![r].pc = "spoken", ![r].prompt = exec[r].tip]
        /\ exec[r].pc = "turn" /\ Mint(r, "loop", "message", None)
    BY DEF Message
  <1>3. /\ exec'[r] = [exec[r] EXCEPT !.pc = "spoken", !.prompt = exec[r].tip]
        /\ exec' = [exec EXCEPT ![r] = exec'[r]]
    BY <1>1, <1>2
  <1>4. /\ exec'[r].pc = "spoken" /\ exec'[r].branch = exec[r].branch
        /\ exec'[r].seq = exec[r].seq /\ exec'[r].tip = exec[r].tip
        /\ exec'[r].context = exec[r].context
    BY <1>1, <1>3 DEF Hand
  <1>5. QED
    BY <1>1, <1>2, <1>3, <1>4, MintTree

LEMMA ToolCallTree ==
  ASSUME TypeInv, TreeInv, NEW r \in Executions, ToolCall(r) PROVE TreeInv'
  <1>1. /\ exec \in [Executions -> Hand] /\ exec[r] \in Hand /\ "hook" \in Writers
    BY TypeInvParts DEF HandInv, Writers
  <1>2. /\ exec' = [exec EXCEPT ![r].pc = "called"]
        /\ exec[r].pc = "spoken" /\ Mint(r, "hook", "tool_call", None)
    BY DEF ToolCall
  <1>3. exec'[r] = [exec[r] EXCEPT !.pc = "called"] /\ exec' = [exec EXCEPT ![r] = exec'[r]]
    BY <1>1, <1>2
  <1>4. /\ exec'[r].pc = "called" /\ exec'[r].branch = exec[r].branch
        /\ exec'[r].seq = exec[r].seq /\ exec'[r].tip = exec[r].tip
        /\ exec'[r].context = exec[r].context
    BY <1>1, <1>3 DEF Hand
  <1>5. QED
    BY <1>1, <1>2, <1>3, <1>4, MintTree

LEMMA ResultTree ==
  ASSUME TypeInv, TreeInv, NEW r \in Executions, Result(r) PROVE TreeInv'
  <1> DEFINE record == Record(r, "result", exec[r].sdk)
  <1>1. /\ record \in Records /\ record.branch = exec[r].branch
        /\ record.seq = exec[r].seq + 1 /\ record.parent = exec[r].tip
    BY RecordIs, HandTypes DEF Kinds
  <1>2. /\ journal' = Append(journal, record) /\ exec[r].pc \in {"spoken", "called"}
        /\ exec' = [exec EXCEPT ![r].seq = record.seq, ![r].tip = Len(journal) + 1,
                                ![r].pc = "flush", ![r].told = exec[r].sdk]
        /\ UNCHANGED <<doc, base, made, minted, client>> /\ LockFree(r)
    BY DEF Result, Land, Advanced, LockFree
  <1> HIDE DEF record
  <1>3. exec \in [Executions -> Hand] /\ exec[r] \in Hand
    BY TypeInvParts DEF HandInv
  <1>4. /\ exec'[r] = [exec[r] EXCEPT !.seq = record.seq, !.tip = Len(journal) + 1,
                                      !.pc = "flush", !.told = exec[r].sdk]
        /\ exec' = [exec EXCEPT ![r] = exec'[r]]
    BY <1>2, <1>3
  <1>5. /\ exec'[r].branch = exec[r].branch /\ exec'[r].pc = "flush"
        /\ exec'[r].seq = record.seq /\ exec'[r].tip = Len(journal) + 1
    BY <1>3, <1>4 DEF Hand
  <1>6. Live(r) /\ Live(r)' /\ exec[r].pc # "recover"
    BY <1>2, <1>5 DEF Live
  <1>7. LeaseIsHeld' /\ WriterAtHead' /\ BranchesAreRecorded' /\ TreeIsSound'
    BY <1>1, <1>2, <1>4, <1>5, <1>6, WorkLands
  <1>8. MintedIsNext'
    BY <1>2, <1>4, MintedKept DEF TreeInv
  <1>9. QED
    BY <1>7, <1>8 DEF TreeInv

LEMMA WrittenTree ==
  ASSUME TypeInv, TreeInv, NEW r \in Executions, NEW w \in Writers, Written(r, w)
  PROVE  TreeInv'
  <1> DEFINE record == minted[r][w]
  <1>1. /\ record # NoRecord /\ journal' = Append(journal, record)
        /\ exec' = [exec EXCEPT ![r].seq = record.seq, ![r].tip = Len(journal) + 1]
        /\ minted' = [minted EXCEPT ![r][w] = NoRecord]
        /\ UNCHANGED <<doc, base, made, client>>
    BY DEF Written, Land, Advanced
  <1>2. minted \in [Executions -> [Writers -> Records \cup {NoRecord}]]
    BY TypeInvParts DEF MintInv
  <1>3. record \in Records
    BY <1>1, <1>2
  <1>4. /\ record.branch = exec[r].branch /\ record.seq = exec[r].seq + 1
        /\ record.parent = exec[r].tip /\ exec[r].pc \in {"spoken", "called"}
        /\ \A v \in Writers : v # w => minted[r][v] = NoRecord
    <2>1. /\ exec[r].pc \in {"spoken", "called"}
          /\ record = [branch |-> exec[r].branch, seq |-> exec[r].seq + 1,
                       parent |-> exec[r].tip, kind |-> record.kind,
                       sdk |-> None, context |-> exec[r].context]
          /\ \A v \in Writers : v # w => minted[r][v] = NoRecord
      BY <1>1 DEF TreeInv, MintedIsNext
    <2> HIDE DEF record
    <2>2. /\ record.branch = exec[r].branch /\ record.seq = exec[r].seq + 1
          /\ record.parent = exec[r].tip
      BY <2>1
    <2>3. QED
      BY <2>1, <2>2
  <1> HIDE DEF record
  <1>5. exec \in [Executions -> Hand] /\ exec[r] \in Hand
    BY TypeInvParts DEF HandInv
  <1>6. /\ exec'[r] = [exec[r] EXCEPT !.seq = record.seq, !.tip = Len(journal) + 1]
        /\ exec' = [exec EXCEPT ![r] = exec'[r]]
    BY <1>1, <1>5
  <1>7. /\ exec'[r].branch = exec[r].branch /\ exec'[r].pc = exec[r].pc
        /\ exec'[r].seq = record.seq /\ exec'[r].tip = Len(journal) + 1
    BY <1>5, <1>6 DEF Hand
  <1>8. Live(r) /\ Live(r)' /\ exec[r].pc # "recover"
    BY <1>4, <1>7 DEF Live
  <1>9. LeaseIsHeld' /\ WriterAtHead' /\ BranchesAreRecorded' /\ TreeIsSound'
    BY <1>1, <1>3, <1>4, <1>6, <1>7, <1>8, WorkLands
  <1>10. MintedIsNext'
    <2>1. ASSUME NEW q \in Executions, NEW v \in Writers, minted'[q][v] # NoRecord
          PROVE  q # r /\ minted'[q] = minted[q] /\ exec'[q] = exec[q]
      <3>1. q # r
        BY <1>1, <1>2, <1>4, <2>1
      <3>2. QED
        BY <1>1, <1>2, <1>6, <3>1, OthersStay
    <2>2. QED
      BY <2>1 DEF TreeInv, MintedIsNext
  <1>11. QED
    BY <1>9, <1>10 DEF TreeInv

(* A record that is not written leaves the run where it stood.             *)
LEMMA NotWrittenTree ==
  ASSUME TypeInv, TreeInv, NEW r \in Executions, NotWritten(r) PROVE TreeInv'
  <1>1. /\ minted[r]["hook"] # NoRecord /\ minted' = [minted EXCEPT ![r]["hook"] = NoRecord]
        /\ UNCHANGED <<journal, doc, base, made, exec, client>>
    BY DEF NotWritten
  <1>2. /\ minted \in [Executions -> [Writers -> Records \cup {NoRecord}]] /\ "hook" \in Writers
        /\ exec \in [Executions -> Hand]
    BY TypeInvParts DEF MintInv, Writers, HandInv
  <1>3. exec[r].pc \in {"spoken", "called"}
    BY <1>1, <1>2 DEF TreeInv, MintedIsNext
  <1>4. Live(r) /\ Live(r)' /\ exec[r].pc # "recover" /\ exec' = [exec EXCEPT ![r] = exec'[r]]
    BY <1>1, <1>2, <1>3 DEF Live
  <1>5. LeaseIsHeld' /\ WriterAtHead' /\ BranchesAreRecorded' /\ TreeIsSound'
    BY <1>1, <1>4, WorksOn
  <1>6. \A q \in Executions, v \in Writers : minted'[q][v] \in {minted[q][v], NoRecord}
    BY <1>1, <1>2
  <1>7. MintedIsNext'
    BY <1>1, <1>6 DEF TreeInv, MintedIsNext
  <1>8. QED
    BY <1>5, <1>7 DEF TreeInv

LEMMA FailTree ==
  ASSUME TypeInv, TreeInv, NEW r \in Executions, Fail(r) PROVE TreeInv'
  <1> DEFINE record == Record(r, "error", exec[r].known)
  <1>1. /\ record \in Records /\ record.branch = exec[r].branch
        /\ record.seq = exec[r].seq + 1 /\ record.parent = exec[r].tip
    BY RecordIs, HandTypes DEF Kinds
  <1>2. /\ journal' = Append(journal, record)
        /\ exec[r].pc \in {"setup", "loop", "turn", "spoken", "called", "flush"}
        /\ exec' = [exec EXCEPT ![r].seq = record.seq, ![r].tip = Len(journal) + 1,
                                ![r].pc = "fail_release"]
        /\ UNCHANGED <<doc, base, made, minted, client>> /\ LockFree(r)
    BY DEF Fail, Land, Advanced
  <1> HIDE DEF record
  <1>3. exec \in [Executions -> Hand] /\ exec[r] \in Hand
    BY TypeInvParts DEF HandInv
  <1>4. /\ exec'[r] = [exec[r] EXCEPT !.seq = record.seq, !.tip = Len(journal) + 1,
                                      !.pc = "fail_release"]
        /\ exec' = [exec EXCEPT ![r] = exec'[r]]
    BY <1>2, <1>3
  <1>5. /\ exec'[r].branch = exec[r].branch /\ exec'[r].pc = "fail_release"
        /\ exec'[r].seq = record.seq /\ exec'[r].tip = Len(journal) + 1
    BY <1>3, <1>4 DEF Hand
  <1>6. Live(r) /\ Live(r)' /\ exec[r].pc # "recover"
    BY <1>2, <1>5 DEF Live
  <1>7. LeaseIsHeld' /\ WriterAtHead' /\ BranchesAreRecorded' /\ TreeIsSound'
    BY <1>1, <1>2, <1>4, <1>5, <1>6, WorkLands
  <1>8. MintedIsNext'
    BY <1>2, <1>4, MintedKept DEF TreeInv
  <1>9. QED
    BY <1>7, <1>8 DEF TreeInv

LEMMA ReleaseTree ==
  ASSUME TypeInv, TreeInv, NEW r \in Executions, Release(r) \/ FailRelease(r) PROVE TreeInv'
  <1>1. /\ \/ doc' = [doc EXCEPT !.lease = None, !.head = exec[r].seq, !.sdk = exec[r].told]
           \/ doc' = [doc EXCEPT !.lease = None, !.head = exec[r].seq]
        /\ exec' = [exec EXCEPT ![r] = Gone] /\ exec[r].pc \in {"release", "fail_release"}
        /\ UNCHANGED <<journal, base, made, minted, client>>
    BY DEF Release, FailRelease
  <1>2. exec \in [Executions -> Hand]
    BY TypeInvParts DEF HandInv
  <1>3. exec'[r] = Gone /\ exec' = [exec EXCEPT ![r] = exec'[r]]
    BY <1>1, <1>2
  <1>4. Live(r) /\ ~Live(r)'
    BY <1>1, <1>3, GoneIsHand DEF Live
  <1>5. doc'.active = doc.active
    BY <1>1, TypeInvParts DEF BaseInv
  <1>6. QED
    BY <1>1, <1>3, <1>4, <1>5, NotAtWork, MintedKept DEF TreeInv

LEMMA DieTree ==
  ASSUME TypeInv, TreeInv, NEW r \in Executions, Die(r) PROVE TreeInv'
  <1>1. /\ exec' = [exec EXCEPT ![r] = Gone]
        /\ minted' = [minted EXCEPT ![r] = [w \in {"loop", "hook"} |-> NoRecord]]
        /\ UNCHANGED <<journal, doc, base, made, client>>
    BY DEF Die
  <1>2. /\ exec \in [Executions -> Hand]
        /\ minted \in [Executions -> [Writers -> Records \cup {NoRecord}]]
    BY TypeInvParts DEF HandInv, MintInv
  <1>3. exec'[r] = Gone /\ exec' = [exec EXCEPT ![r] = exec'[r]]
    BY <1>1, <1>2
  <1>4. ~Live(r)'
    BY <1>3, GoneIsHand DEF Live
  <1>5. LeaseIsHeld' /\ WriterAtHead' /\ BranchesAreRecorded' /\ TreeIsSound'
    BY <1>1, <1>3, <1>4, NotAtWork
  <1>6. MintedIsNext'
    <2>1. ASSUME NEW q \in Executions, NEW v \in Writers, minted'[q][v] # NoRecord
          PROVE  q # r /\ minted'[q] = minted[q] /\ exec'[q] = exec[q]
      <3>1. q # r
        BY <1>1, <1>2, <2>1 DEF Writers
      <3>2. QED
        BY <1>1, <1>2, <1>3, <3>1, OthersStay
    <2>2. QED
      BY <2>1 DEF TreeInv, MintedIsNext
  <1>7. QED
    BY <1>5, <1>6 DEF TreeInv

LEMMA LapseTree ==
  ASSUME TypeInv, TreeInv, Lapse PROVE TreeInv'
  <1>1. /\ doc.lease # None /\ exec[doc.lease] = Gone
        /\ UNCHANGED <<journal, base, made, exec, minted, client>>
    BY DEF Lapse, execVars
  <1>2. \A q \in Executions : ~Live(q) /\ ~Live(q)'
    BY <1>1, GoneIsHand DEF TreeInv, LeaseIsHeld, Live
  <1>3. LeaseIsHeld' /\ WriterAtHead'
    BY <1>2 DEF LeaseIsHeld, WriterAtHead
  <1>4. MintedIsNext'
    BY <1>1 DEF TreeInv, MintedIsNext
  <1>5. BranchesAreRecorded' /\ TreeIsSound'
    BY <1>1, BranchesStay, SoundStays DEF TreeInv
  <1>6. QED
    BY <1>3, <1>4, <1>5 DEF TreeInv

LEMMA InitTreeInv == Init => TreeInv
  <1> SUFFICES ASSUME Init PROVE TreeInv
    OBVIOUS
  <1>1. \A r \in Executions : ~Live(r)
    BY DEF Init, Idle, Live
  <1>2. \A c \in Clients : ~Recording(c)
    BY DEF Init, Visitor, Recording
  <1>3. Uuids = {} /\ Len(journal) = 0
    BY DEF Init, Uuids
  <1>4. LeaseIsHeld /\ WriterAtHead
    BY <1>1 DEF LeaseIsHeld, WriterAtHead
  <1>5. MintedIsNext
    BY DEF Init, MintedIsNext, Writers
  <1>6. BranchesAreRecorded
    BY <1>2, <1>3 DEF Init, BranchesAreRecorded, On
  <1>7. TreeIsSound
    BY <1>3 DEF TreeIsSound
  <1>8. QED
    BY <1>4, <1>5, <1>6, <1>7 DEF TreeInv

LEMMA NextTreeInv ==
  ASSUME TypeInv, TreeInv, NoEarlyClaim, [Next]_vars PROVE TreeInv'
  <1>1. CASE UNCHANGED vars
    <2>1. UNCHANGED <<journal, doc, base, made, exec, minted, client>>
      BY <1>1 DEF vars
    <2>2. LeaseIsHeld'
      BY <2>1 DEF TreeInv, LeaseIsHeld, Live, Recording
    <2>3. WriterAtHead'
      BY <2>1, WriterAtHeadIs DEF TreeInv, Live, AtHead, Uuids
    <2>4. MintedIsNext'
      BY <2>1 DEF TreeInv, MintedIsNext
    <2>5. QED
      BY <2>1, <2>2, <2>3, <2>4, BranchesStay, SoundStays DEF TreeInv
  <1>2. ASSUME NEW c \in Clients, ClientStep(c) PROVE TreeInv'
    BY <1>2, AttachTree, RewindTree, RecordBranchTree, SendTree, StreamTree DEF ClientStep
  <1>3. ASSUME NEW r \in Executions, Run(r) PROVE TreeInv'
    <2>1. /\ "loop" \in Writers /\ "hook" \in Writers
          /\ {"hello", "setup", "loop", "turn", "release"} \subseteq Stations
          /\ {"claimed", "prompt", "released"} \subseteq Kinds
      BY DEF Writers, Stations, Kinds
    <2>2. CASE Hello(r) \/ Prompt(r) \/ Bye(r)
      BY <2>1, <2>2, AppendAloneTree DEF Hello, Prompt, Bye
    <2>3. CASE ~(Hello(r) \/ Prompt(r) \/ Bye(r))
      BY <1>3, <2>1, <2>3, ClaimTree, RecoverTree, SetupTree, MessageTree, ToolCallTree,
         ResultTree, FlushTree, ReleaseTree, WrittenTree, NotWrittenTree, FailTree, DieTree
         DEF Run
    <2>4. QED
      BY <2>2, <2>3
  <1>4. CASE Lapse
    BY <1>4, LapseTree
  <1>5. QED
    BY <1>1, <1>2, <1>3, <1>4 DEF Next

LEMMA TreeInvHolds == NoEarlyClaim /\ Spec => [](TypeInv /\ TreeInv)
  <1> SUFFICES ASSUME NoEarlyClaim PROVE Spec => [](TypeInv /\ TreeInv)
    OBVIOUS
  <1>1. Init => TypeInv /\ TreeInv
    BY InitTypeInv, InitTreeInv
  <1>2. TypeInv /\ TreeInv /\ [Next]_vars => (TypeInv /\ TreeInv)'
    BY NextTypeInv, NextTreeInv
  <1>3. QED
    BY <1>1, <1>2, PTL DEF Spec

(* The transcript stays a tree however the loop, the hook, failed writes,  *)
(* deaths and rewinds interleave: a record's seq is its own on its branch  *)
(* and one more than its parent's, and a branch leaves another one only    *)
(* with its first record.  Runs that claim a branch ahead of that record   *)
(* are left out: the code does not exclude them.                           *)
THEOREM TreeSound == ASSUME NoEarlyClaim PROVE Spec => []TreeIsSound
  <1>1. TypeInv /\ TreeInv => TreeIsSound
    BY DEF TreeInv
  <1>2. QED
    BY <1>1, TreeInvHolds, PTL

-----------------------------------------------------------------------------
(* Answers and rows of the log.                                            *)

(* The journal only grows.                                                 *)
Extends ==
  /\ Len(journal') \in Nat /\ Len(journal) <= Len(journal')
  /\ Uuids' = 1..Len(journal')
  /\ Uuids \subseteq Uuids' /\ \A i \in Uuids : journal'[i] = journal[i]

LEMMA AppendExtends ==
  ASSUME TypeInv, NEW record, journal' = Append(journal, record)
  PROVE  Extends /\ \A i \in Uuids' : i \in Uuids \/ i = Len(journal) + 1
  <1>1. journal \in Seq(Records \cup {record})
    BY DEF TypeInv, TypeOK
  <1>2. /\ Len(journal') = Len(journal) + 1 /\ Len(journal) \in Nat
        /\ Uuids = 1..Len(journal) /\ Uuids' = 1..(Len(journal) + 1)
        /\ \A i \in 1..Len(journal) : journal'[i] = journal[i]
    BY <1>1 DEF Uuids
  <1>3. Uuids' = Uuids \cup {Len(journal) + 1}
    BY <1>2
  <1>4. /\ Len(journal') \in Nat /\ Len(journal) <= Len(journal')
        /\ Uuids' = 1..Len(journal')
    BY <1>2
  <1>5. QED
    BY <1>2, <1>3, <1>4 DEF Extends

LEMMA StaysExtends ==
  ASSUME TypeInv, UNCHANGED journal PROVE Extends
  BY Lengths DEF Extends, Uuids

LEMMA RunExtends ==
  ASSUME TypeInv, NEW r \in Executions, Run(r)
  PROVE  Extends /\ UNCHANGED <<client, stale>>
  <1>1. UNCHANGED journal \/ \E record : journal' = Append(journal, record)
    BY DEF Run, Claim, Recover, Hello, Setup, Prompt, Message, ToolCall, Mint, Result, Flush, Bye,
           Release, Written, NotWritten, Fail, FailRelease, Die, AppendAlone, Land
  <1>2. UNCHANGED <<client, stale>>
    BY DEF Run, Claim, Recover, Hello, Setup, Prompt, Message, ToolCall, Mint, Result, Flush, Bye,
           Release, Written, NotWritten, Fail, FailRelease, Die, AppendAlone, RunLog, logVars
  <1>3. QED
    BY <1>1, <1>2, AppendExtends, StaysExtends

FreshInv == CursorCoversPast /\ ~stale

(* The cursors of the clients cover the same past as the journal grows.    *)
Covers(c) ==
  client[c].pc \in {"attached", "stream"} =>
    /\ client[c].since <= Len(journal)
    /\ \A j \in Uuids : journal[j].branch = client[c].branch /\ j <= client[c].since
                          => journal[j].seq <= client[c].cursor

LEMMA CoversIs ==
  /\ CursorCoversPast <=> \A c \in Clients : Covers(c)
  /\ CursorCoversPast' <=> \A c \in Clients : Covers(c)'
  BY DEF CursorCoversPast, Covers, On

LEMMA CursorsStay ==
  ASSUME TypeInv, NEW c \in Clients, Covers(c), Extends,
         client'[c] = client[c] \/
         /\ client'[c].pc \in {"attached", "stream"} => client[c].pc \in {"attached", "stream"}
         /\ client'[c].branch = client[c].branch
         /\ client'[c].cursor = client[c].cursor /\ client'[c].since = client[c].since
  PROVE  Covers(c)'
  <1> SUFFICES ASSUME client'[c].pc \in {"attached", "stream"}
               PROVE  /\ client[c].since <= Len(journal')
                      /\ \A j \in Uuids' :
                           journal'[j].branch = client[c].branch /\ j <= client[c].since
                             => journal'[j].seq <= client[c].cursor
    BY DEF Covers
  <1>1. /\ client[c].since \in Nat /\ client[c].since <= Len(journal)
        /\ \A j \in Uuids : journal[j].branch = client[c].branch /\ j <= client[c].since
                              => journal[j].seq <= client[c].cursor
    BY ClientIs DEF Covers
  <1>2. /\ Len(journal) \in Nat /\ Len(journal') \in Nat /\ Len(journal) <= Len(journal')
        /\ Uuids = 1..Len(journal) /\ \A i \in Uuids : journal'[i] = journal[i]
    BY Lengths DEF Extends
  <1>3. client[c].since <= Len(journal')
    BY <1>1, <1>2
  <1>4. ASSUME NEW j \in Uuids', j <= client[c].since PROVE j \in Uuids
    <2>1. j \in Nat /\ j > 0
      BY <1>2 DEF Extends
    <2>2. QED
      BY <1>1, <1>2, <1>4, <2>1
  <1>5. QED
    BY <1>1, <1>2, <1>3, <1>4

LEMMA AttachFresh ==
  ASSUME TypeInv, FreshInv, NEW c \in Clients, Attach(c) PROVE FreshInv'
  <1>1. /\ client' = [client EXCEPT ![c].pc = "attached", ![c].branch = doc.active,
                                    ![c].cursor = HeadOf(doc.active)[1],
                                    ![c].since = Len(journal)]
        /\ UNCHANGED <<journal, stale>>
    BY DEF Attach, logVars, CursorOf
  <1>2. /\ client'[c].branch = doc.active /\ client'[c].cursor = HeadOf(doc.active)[1]
        /\ client'[c].since = Len(journal)
        /\ \A d \in Clients : d # c => client'[d] = client[d]
    BY <1>1, ClientIs
  <1>3. doc.active \in BranchIds
    BY DEF TypeInv, TypeOK
  <1>4. \A j \in Uuids : journal[j].branch = doc.active => journal[j].seq <= HeadOf(doc.active)[1]
    BY <1>3, HeadIsHighest DEF TypeInv, On
  <1>5. Covers(c)'
    <2>1. UNCHANGED Uuids /\ Len(journal) <= Len(journal)
      BY <1>1, Lengths DEF Uuids
    <2>2. QED
      BY <1>1, <1>2, <1>4, <2>1 DEF Covers
  <1>6. \A d \in Clients : Covers(d)'
    <2> SUFFICES ASSUME NEW d \in Clients, d # c PROVE Covers(d)'
      BY <1>5
    <2>1. Covers(d)
      BY CoversIs DEF FreshInv
    <2>2. QED
      BY <1>1, <1>2, <2>1, StaysExtends, CursorsStay
  <1>7. QED
    BY <1>1, <1>6, CoversIs DEF FreshInv

LEMMA RewindFresh ==
  ASSUME TypeInv, FreshInv, NEW c \in Clients, Rewind(c) PROVE FreshInv'
  <1>1. /\ client' = [client EXCEPT ![c].pc = "record", ![c].branch = made + 1]
        /\ UNCHANGED <<journal, stale>>
    BY DEF Rewind, logVars
  <1>2. client'[c].pc = "record" /\ \A d \in Clients : d # c => client'[d] = client[d]
    BY <1>1, ClientIs
  <1>3. \A d \in Clients : Covers(d)'
    <2> SUFFICES ASSUME NEW d \in Clients, d # c PROVE Covers(d)'
      BY <1>2 DEF Covers
    <2>1. Covers(d)
      BY CoversIs DEF FreshInv
    <2>2. QED
      BY <1>1, <1>2, <2>1, StaysExtends, CursorsStay
  <1>4. QED
    BY <1>1, <1>3, CoversIs DEF FreshInv

(* Nobody else writes on a branch before its client has recorded it.       *)
LEMMA RecordBranchFresh ==
  ASSUME TypeInv, TreeInv, FreshInv, NEW c \in Clients, RecordBranch(c) PROVE FreshInv'
  <1> DEFINE b == client[c].branch
  <1>1. /\ client' = [client EXCEPT ![c].pc = "attached", ![c].cursor = base[b].seq + 1,
                                    ![c].since = Len(journal)]
        /\ UNCHANGED stale /\ Recording(c)
        /\ \E record : journal' = Append(journal, record)
    BY DEF RecordBranch, logVars, Recording
  <1>2. Extends
    BY <1>1, AppendExtends
  <1>3. /\ client'[c].branch = b /\ client'[c].since = Len(journal)
        /\ \A d \in Clients : d # c => client'[d] = client[d]
    BY <1>1, ClientIs
  <1>4. \A j \in Uuids : journal[j].branch # b
    BY <1>1 DEF TreeInv, BranchesAreRecorded, On
  <1>5. \A j \in Uuids' : j <= Len(journal) => j \in Uuids
    BY <1>2, Lengths DEF Extends
  <1>6. Covers(c)'
    BY <1>2, <1>3, <1>4, <1>5, Lengths DEF Covers, Extends
  <1>7. \A d \in Clients : Covers(d)'
    <2> SUFFICES ASSUME NEW d \in Clients, d # c PROVE Covers(d)'
      BY <1>6
    <2>1. Covers(d)
      BY CoversIs DEF FreshInv
    <2>2. QED
      BY <1>2, <1>3, <2>1, CursorsStay
  <1>8. QED
    BY <1>1, <1>7, CoversIs DEF FreshInv

LEMMA SendFresh ==
  ASSUME TypeInv, FreshInv, NEW c \in Clients, Send(c) PROVE FreshInv'
  <1>1. /\ client' = [client EXCEPT ![c].pc = "stream"] /\ client[c].pc = "attached"
        /\ UNCHANGED <<journal, stale>>
    BY DEF Send, logVars
  <1>2. /\ client'[c].branch = client[c].branch /\ client'[c].cursor = client[c].cursor
        /\ client'[c].since = client[c].since
        /\ \A d \in Clients : d # c => client'[d] = client[d]
    BY <1>1, ClientIs
  <1>3. \A d \in Clients : Covers(d)'
    <2> SUFFICES ASSUME NEW d \in Clients PROVE Covers(d)'
      OBVIOUS
    <2>1. Covers(d)
      BY CoversIs DEF FreshInv
    <2>2. QED
      BY <1>1, <1>2, <2>1, StaysExtends, CursorsStay
  <1>4. QED
    BY <1>1, <1>3, CoversIs DEF FreshInv

(* The result a stream ends with is past the cursor, and so past what      *)
(* there was.                                                              *)
LEMMA StreamFresh ==
  ASSUME TypeInv, FreshInv, NEW c \in Clients, Stream(c) PROVE FreshInv'
  <1>1. /\ client' = [client EXCEPT ![c] = [Visitor EXCEPT !.pc = "done"]]
        /\ client[c].pc = "stream" /\ UNCHANGED journal
    BY DEF Stream
  <1>2. /\ client'[c].pc = "done" /\ \A d \in Clients : d # c => client'[d] = client[d]
    BY <1>1, ClientIs DEF Visitor
  <1>3. PICK i \in Uuids : /\ journal[i].branch = client[c].branch
                           /\ journal[i].seq > client[c].cursor
                           /\ stale' = (stale \/ i <= client[c].since)
    BY DEF Stream, On
  <1>4. Covers(c)
    BY CoversIs DEF FreshInv
  <1>5. ~(i <= client[c].since)
    <2>1. journal[i].seq \in Nat /\ client[c].cursor \in Nat
      BY ClientIs, RecordTypes DEF TypeInv
    <2>2. i <= client[c].since => journal[i].seq <= client[c].cursor
      BY <1>1, <1>3, <1>4 DEF Covers
    <2>3. QED
      BY <1>3, <2>1, <2>2
  <1>6. \A d \in Clients : Covers(d)'
    <2> SUFFICES ASSUME NEW d \in Clients, d # c PROVE Covers(d)'
      BY <1>2 DEF Covers
    <2>1. Covers(d)
      BY CoversIs DEF FreshInv
    <2>2. QED
      BY <1>1, <1>2, <2>1, StaysExtends, CursorsStay
  <1>7. QED
    BY <1>3, <1>5, <1>6, CoversIs DEF FreshInv

LEMMA NextFresh ==
  ASSUME TypeInv, TreeInv, FreshInv, [Next]_vars PROVE FreshInv'
  <1>1. ASSUME Extends, UNCHANGED <<client, stale>> PROVE FreshInv'
    BY <1>1, CoversIs, CursorsStay DEF FreshInv
  <1>2. CASE UNCHANGED vars
    BY <1>1, <1>2, StaysExtends DEF vars
  <1>3. ASSUME NEW c \in Clients, ClientStep(c) PROVE FreshInv'
    BY <1>3, AttachFresh, RewindFresh, RecordBranchFresh, SendFresh, StreamFresh DEF ClientStep
  <1>4. ASSUME NEW r \in Executions, Run(r) PROVE FreshInv'
    BY <1>1, <1>4, RunExtends
  <1>5. CASE Lapse
    BY <1>1, <1>5, StaysExtends DEF Lapse, logVars
  <1>6. QED
    BY <1>2, <1>3, <1>4, <1>5 DEF Next

(* A client is never answered with what an earlier run left in the         *)
(* journal: stream_response's cursor starts at or past all there was on    *)
(* its branch, a rewound branch's own first record included.               *)
THEOREM AnswersAreFresh == ASSUME NoEarlyClaim PROVE Spec => []AnswerIsFresh
  <1>1. Init => FreshInv
    BY DEF Init, Visitor, FreshInv, CursorCoversPast
  <1>2. TypeInv /\ TreeInv /\ FreshInv /\ [Next]_vars => FreshInv'
    BY NextFresh
  <1>3. FreshInv => AnswerIsFresh
    BY DEF FreshInv, AnswerIsFresh
  <1>4. QED
    BY <1>1, <1>2, <1>3, TreeInvHolds, PTL DEF Spec

(* How far a run at work stands after a step of its own.                   *)
LEMMA RunGoesOn ==
  ASSUME TypeInv, NEW r \in Executions, Run(r)
  PROVE  /\ exec' = [exec EXCEPT ![r] = exec'[r]]
         /\ \/ ~Live(r)'
            \/ exec'[r].pc \in {"recover", "hello"}
            \/ /\ Live(r) /\ exec[r].pc # "recover"
               /\ exec'[r].branch = exec[r].branch
               /\ \/ exec[r].pc # "hello" /\ exec'[r].tip = exec[r].tip /\ exec'[r].seq = exec[r].seq
                  \/ exec'[r].tip = Len(journal) + 1 /\ exec'[r].seq = exec[r].seq + 1
                  \/ /\ exec'[r].tip = Len(journal) + 1
                     /\ \E w \in Writers : minted[r][w] # NoRecord /\ exec'[r].seq = minted[r][w].seq
  <1>1. exec \in [Executions -> Hand] /\ exec[r] \in Hand
    BY TypeInvParts DEF HandInv
  <1>2. ASSUME exec' = [exec EXCEPT ![r] = Gone]
        PROVE  exec' = [exec EXCEPT ![r] = exec'[r]] /\ ~Live(r)'
    <2>1. exec'[r] = Gone
      BY <1>1, <1>2
    <2>2. QED
      BY <1>1, <1>2, <2>1, GoneIsHand DEF Live
  <1>3. CASE Release(r) \/ FailRelease(r) \/ Die(r)
    BY <1>2, <1>3 DEF Release, FailRelease, Die
  <1>4. CASE Claim(r)
    <2>1. CASE exec' = [exec EXCEPT ![r].pc = "recover", ![r].branch = doc.active,
                                    ![r].known = doc.sdk, ![r].context = doc.sdk]
      BY <1>1, <2>1 DEF Hand
    <2>2. QED
      BY <1>2, <1>4, <2>1 DEF Claim
  <1>5. CASE Recover(r)
    <2>1. PICK seq, tip, fresh : exec' = [exec EXCEPT ![r].pc = "hello", ![r].seq = seq,
                                                      ![r].tip = tip, ![r].fresh = fresh]
      BY <1>5 DEF Recover
    <2>2. QED
      BY <1>1, <2>1 DEF Hand
  <1>6. ASSUME NEW kind, NEW sdk, NEW to,
               exec' = [Advanced(r, Record(r, kind, sdk)) EXCEPT ![r].pc = to]
        PROVE  /\ exec' = [exec EXCEPT ![r] = exec'[r]]
               /\ exec'[r].branch = exec[r].branch /\ exec'[r].pc = to
               /\ exec'[r].tip = Len(journal) + 1 /\ exec'[r].seq = exec[r].seq + 1
    <2>1. exec' = [exec EXCEPT ![r].seq = exec[r].seq + 1, ![r].tip = Len(journal) + 1,
                               ![r].pc = to]
      BY <1>6 DEF Advanced, Record
    <2>2. QED
      BY <1>1, <2>1 DEF Hand
  <1>7. CASE Hello(r) \/ Prompt(r) \/ Bye(r) \/ Fail(r)
    <2>1. Live(r) /\ exec[r].pc # "recover"
      BY <1>7 DEF Hello, Prompt, Bye, Fail, AppendAlone, Live
    <2>2. PICK kind, sdk, to : exec' = [Advanced(r, Record(r, kind, sdk)) EXCEPT ![r].pc = to]
      BY <1>7 DEF Hello, Prompt, Bye, Fail, AppendAlone
    <2>3. QED
      BY <1>6, <2>1, <2>2
  <1>8. CASE Result(r)
    <2>1. /\ exec' = [exec EXCEPT ![r].seq = exec[r].seq + 1, ![r].tip = Len(journal) + 1,
                                  ![r].pc = "flush", ![r].told = exec[r].sdk]
          /\ exec[r].pc \in {"spoken", "called"}
      BY <1>8 DEF Result, Advanced, Record
    <2>2. QED
      BY <1>1, <2>1 DEF Hand, Live
  <1>9. CASE Setup(r)
    <2>1. PICK told, sdk : exec' = [exec EXCEPT ![r].pc = "loop", ![r].told = told, ![r].sdk = sdk]
      BY <1>9 DEF Setup
    <2>2. exec[r].pc = "setup"
      BY <1>9 DEF Setup
    <2>3. QED
      BY <1>1, <2>1, <2>2 DEF Hand, Live
  <1>10. CASE Message(r) \/ ToolCall(r)
    <2>1. /\ exec[r].pc \in {"turn", "spoken"}
          /\ \/ exec' = [exec EXCEPT ![r].pc = "spoken", ![r].prompt = exec[r].tip]
             \/ exec' = [exec EXCEPT ![r].pc = "called"]
      BY <1>10 DEF Message, ToolCall
    <2>2. QED
      BY <1>1, <2>1 DEF Hand, Live
  <1>11. CASE Flush(r)
    <2>1. exec' = [exec EXCEPT ![r].pc = "loop", ![r].flushed = TRUE, ![r].context = exec[r].told]
          /\ exec[r].pc = "flush"
      BY <1>11 DEF Flush
    <2>2. QED
      BY <1>1, <2>1 DEF Hand, Live
  <1>12. CASE NotWritten(r)
    <2>1. UNCHANGED exec
      BY <1>12 DEF NotWritten
    <2>2. exec' = [exec EXCEPT ![r] = exec'[r]]
      BY <1>1, <2>1
    <2>3. Live(r)' <=> Live(r)
      BY <2>1 DEF Live
    <2>4. QED
      BY <2>1, <2>2, <2>3
  <1>13. ASSUME NEW w \in Writers, Written(r, w)
         PROVE  /\ exec' = [exec EXCEPT ![r] = exec'[r]]
                /\ exec'[r].pc = exec[r].pc /\ exec'[r].branch = exec[r].branch
                /\ exec'[r].tip = Len(journal) + 1
                /\ minted[r][w] # NoRecord /\ exec'[r].seq = minted[r][w].seq
    <2> DEFINE seq == minted[r][w].seq
    <2>1. exec' = [exec EXCEPT ![r].seq = seq, ![r].tip = Len(journal) + 1]
          /\ minted[r][w] # NoRecord
      BY <1>13 DEF Written, Advanced
    <2> HIDE DEF seq
    <2>2. /\ exec' = [exec EXCEPT ![r] = exec'[r]]
          /\ exec'[r].pc = exec[r].pc /\ exec'[r].branch = exec[r].branch
          /\ exec'[r].tip = Len(journal) + 1 /\ exec'[r].seq = seq
      BY <1>1, <2>1 DEF Hand
    <2>3. QED
      BY <2>1, <2>2 DEF seq
  <1>14. CASE Written(r, "loop") \/ Written(r, "hook")
    <2>1. PICK w \in Writers : Written(r, w)
      BY <1>14 DEF Writers
    <2>2. Live(r)' <=> Live(r)
      BY <1>13, <2>1 DEF Live
    <2>3. QED
      BY <1>13, <2>1, <2>2
  <1>15. QED
    BY <1>3, <1>4, <1>5, <1>7, <1>8, <1>9, <1>10, <1>11, <1>12, <1>14 DEF Run

(* The two halves of LoggedIsPast.                                         *)
RowsStand ==
  \A id \in logged : \E j \in Uuids : journal[j].branch = id[1] /\ journal[j].seq >= id[2]

PastRows(r) ==
  Live(r) /\ exec[r].pc \notin {"recover", "hello"} =>
    /\ exec[r].tip # None
    /\ \A id \in logged : id[1] = exec[r].branch => id[2] < exec[r].seq

LoggedInv == LoggedIsPast /\ ~twice

LEMMA LoggedInvIs ==
  /\ LoggedInv <=> RowsStand /\ (\A r \in Executions : PastRows(r)) /\ ~twice
  /\ LoggedInv' <=> RowsStand' /\ (\A r \in Executions : PastRows(r)') /\ ~twice'
  BY DEF LoggedInv, LoggedIsPast, RowsStand, PastRows, On

LEMMA RowsStay ==
  ASSUME RowsStand, Extends, UNCHANGED logged
  PROVE  RowsStand'
  <1> SUFFICES ASSUME NEW id \in logged
               PROVE  \E j \in Uuids' : journal'[j].branch = id[1] /\ journal'[j].seq >= id[2]
    BY DEF RowsStand
  <1>1. PICK j \in Uuids : journal[j].branch = id[1] /\ journal[j].seq >= id[2]
    BY DEF RowsStand
  <1>2. j \in Uuids' /\ journal'[j] = journal[j]
    BY DEF Extends
  <1>3. QED
    BY <1>1, <1>2

(* Every row of the branch is below its head, where the run at work stands.*)
LEMMA RowsBelow ==
  ASSUME TypeInv, TreeInv, RowsStand, NEW r \in Executions, Live(r), exec[r].pc # "recover",
         NEW id \in logged, id[1] = exec[r].branch
  PROVE  id[2] \in Nat /\ id[2] <= exec[r].seq
  <1>1. PICK j \in Uuids : journal[j].branch = id[1] /\ journal[j].seq >= id[2]
    BY DEF RowsStand
  <1>2. AtHead(r)
    BY WriterAtHeadIs DEF TreeInv
  <1>3. journal[j].seq <= exec[r].seq
    BY <1>1, <1>2 DEF AtHead
  <1>4. journal[j].seq \in Nat /\ exec[r].seq \in Nat /\ id[2] \in Nat
    <2>1. id \in BranchIds \X Nat
      BY DEF TypeInv, TypeOK
    <2>2. QED
      BY <2>1, RecordTypes, HandTypes DEF TypeInv
  <1>5. QED
    BY <1>1, <1>3, <1>4

LEMMA RunLogged ==
  ASSUME TypeInv, TreeInv, LoggedInv, NEW r \in Executions, Run(r), UNCHANGED <<logged, twice>>
  PROVE  LoggedInv'
  <1>1. RowsStand /\ RowsStand' /\ PastRows(r)
    BY LoggedInvIs, RunExtends, RowsStay
  <1>2. exec' = [exec EXCEPT ![r] = exec'[r]]
    BY RunGoesOn
  <1>3. ASSUME NEW q \in Executions, q # r PROVE PastRows(q)'
    BY <1>2, <1>3, LoggedInvIs, OthersStay DEF PastRows
  <1>4. PastRows(r)'
    <2> SUFFICES ASSUME Live(r)', exec'[r].pc \notin {"recover", "hello"}
                 PROVE  /\ exec'[r].tip # None
                        /\ \A id \in logged : id[1] = exec'[r].branch => id[2] < exec'[r].seq
      BY DEF PastRows
    <2>1. /\ Live(r) /\ exec[r].pc # "recover" /\ exec'[r].branch = exec[r].branch
          /\ \/ exec[r].pc # "hello" /\ exec'[r].tip = exec[r].tip /\ exec'[r].seq = exec[r].seq
             \/ exec'[r].tip = Len(journal) + 1 /\ exec'[r].seq = exec[r].seq + 1
             \/ /\ exec'[r].tip = Len(journal) + 1
                /\ \E w \in Writers : minted[r][w] # NoRecord /\ exec'[r].seq = minted[r][w].seq
      BY RunGoesOn
    <2>2. \A w \in Writers : minted[r][w] # NoRecord => minted[r][w].seq = exec[r].seq + 1
      <3> SUFFICES ASSUME NEW w \in Writers, minted[r][w] # NoRecord
                   PROVE  minted[r][w].seq = exec[r].seq + 1
        OBVIOUS
      <3> DEFINE record == minted[r][w]
      <3>1. record = [branch |-> exec[r].branch, seq |-> exec[r].seq + 1,
                      parent |-> exec[r].tip, kind |-> record.kind,
                      sdk |-> None, context |-> exec[r].context]
        BY DEF TreeInv, MintedIsNext
      <3> HIDE DEF record
      <3>2. record.seq = exec[r].seq + 1
        BY <3>1
      <3>3. QED
        BY <3>2 DEF record
    <2>3. CASE exec[r].pc # "hello" /\ exec'[r].tip = exec[r].tip /\ exec'[r].seq = exec[r].seq
      BY <1>1, <2>1, <2>3 DEF PastRows
    <2>4. CASE exec'[r].tip = Len(journal) + 1 /\ exec'[r].seq = exec[r].seq + 1
      <3>1. exec'[r].tip # None
        BY <2>4, Lengths DEF None
      <3>2. ASSUME NEW id \in logged, id[1] = exec[r].branch PROVE id[2] < exec[r].seq + 1
        BY <1>1, <2>1, <3>2, RowsBelow, HandTypes
      <3>3. QED
        BY <2>1, <2>4, <3>1, <3>2
    <2>5. QED
      BY <2>1, <2>2, <2>3, <2>4
  <1>5. QED
    BY <1>1, <1>3, <1>4, LoggedInvIs

LEMMA ReleaseLogged ==
  ASSUME TypeInv, TreeInv, LoggedInv, NEW r \in Executions, Release(r) \/ FailRelease(r)
  PROVE  LoggedInv'
  <1> DEFINE new == <<exec[r].branch, exec[r].seq>>
  <1>1. /\ logged' = logged \cup {new} /\ twice' = (twice \/ new \in logged)
        /\ exec[r].pc \in {"release", "fail_release"} /\ UNCHANGED journal
        /\ exec' = [exec EXCEPT ![r] = Gone]
    BY DEF Release, FailRelease, RunLog, AppendRow, InsertId
  <1>2. Live(r) /\ exec[r].tip # None /\ AtHead(r) /\ RowsStand /\ ~twice
        /\ \A id \in logged : id[1] = exec[r].branch => id[2] < exec[r].seq
    BY <1>1, LoggedInvIs, WriterAtHeadIs DEF TreeInv, PastRows, Live
  <1>3. /\ exec[r].tip \in Uuids /\ journal[exec[r].tip].branch = exec[r].branch
        /\ journal[exec[r].tip].seq = exec[r].seq /\ exec[r].seq \in Nat
    BY <1>2, HandTypes DEF AtHead
  <1>4. ~twice'
    <2>1. new[1] = exec[r].branch /\ new[2] = exec[r].seq
      OBVIOUS
    <2>2. new \in logged => exec[r].seq < exec[r].seq
      BY <1>2, <2>1
    <2>3. ~(exec[r].seq < exec[r].seq)
      BY <1>3
    <2>4. QED
      BY <1>1, <1>2, <2>2, <2>3
  <1>5. RowsStand'
    <2>1. UNCHANGED Uuids
      BY <1>1 DEF Uuids
    <2>2. \E j \in Uuids : journal[j].branch = new[1] /\ journal[j].seq >= new[2]
      BY <1>3
    <2>3. QED
      BY <1>1, <1>2, <2>1, <2>2 DEF RowsStand
  <1>6. \A q \in Executions : ~Live(q)'
    <2>1. exec \in [Executions -> Hand]
      BY TypeInvParts DEF HandInv
    <2>2. exec'[r] = Gone /\ exec' = [exec EXCEPT ![r] = exec'[r]]
      BY <1>1, <2>1
    <2>3. ~Live(r)'
      BY <2>2, GoneIsHand DEF Live
    <2>4. \A q \in Executions : Live(q)' => q = r
      BY <1>2, <2>2, OthersStay, OneAtWork DEF TreeInv
    <2>5. QED
      BY <2>3, <2>4
  <1>7. QED
    BY <1>4, <1>5, <1>6, LoggedInvIs DEF PastRows

LEMMA NextLogged ==
  ASSUME TypeInv, TreeInv, LoggedInv, [Next]_vars PROVE LoggedInv'
  <1>1. ASSUME Extends, UNCHANGED <<logged, twice>>,
               \A q \in Executions : exec'[q] = exec[q] \/ ~Live(q)'
        PROVE  LoggedInv'
    <2>1. RowsStand'
      BY <1>1, LoggedInvIs, RowsStay
    <2>2. ASSUME NEW q \in Executions PROVE PastRows(q)'
      <3>1. CASE exec'[q] = exec[q]
        BY <1>1, <3>1, LoggedInvIs DEF PastRows, Live
      <3>2. CASE ~Live(q)'
        BY <3>2 DEF PastRows
      <3>3. QED
        BY <1>1, <3>1, <3>2
    <2>3. QED
      BY <1>1, <2>1, <2>2, LoggedInvIs
  <1>2. CASE UNCHANGED vars
    BY <1>1, <1>2, StaysExtends DEF vars
  <1>3. ASSUME NEW c \in Clients, ClientStep(c) PROVE LoggedInv'
    <2>1. Extends
      <3>1. UNCHANGED journal \/ \E record : journal' = Append(journal, record)
        BY <1>3 DEF ClientStep, Attach, Rewind, RecordBranch, Send, Stream
      <3>2. QED
        BY <3>1, AppendExtends, StaysExtends
    <2>2. UNCHANGED <<logged, twice>>
      BY <1>3 DEF ClientStep, Attach, Rewind, RecordBranch, Send, Stream, logVars
    <2>3. UNCHANGED exec \/ \E r \in Executions : exec' = [exec EXCEPT ![r].pc = "boot"]
      BY <1>3 DEF ClientStep, Attach, Rewind, RecordBranch, Send, Stream, execVars
    <2>4. \A q \in Executions : exec'[q] = exec[q] \/ ~Live(q)'
      <3>1. CASE UNCHANGED exec
        BY <3>1
      <3>2. CASE \E r \in Executions : exec' = [exec EXCEPT ![r].pc = "boot"]
        <4>1. PICK r \in Executions : exec' = [exec EXCEPT ![r].pc = "boot"]
          BY <3>2
        <4>2. exec \in [Executions -> Hand] /\ exec[r] \in Hand
          BY TypeInvParts DEF HandInv
        <4>3. exec'[r].pc = "boot" /\ \A q \in Executions : q # r => exec'[q] = exec[q]
          BY <4>1, <4>2 DEF Hand
        <4>4. QED
          BY <4>3 DEF Live
      <3>3. QED
        BY <2>3, <3>1, <3>2
    <2>5. QED
      BY <1>1, <2>1, <2>2, <2>4
  <1>4. ASSUME NEW r \in Executions, Run(r) PROVE LoggedInv'
    <2>1. CASE Release(r) \/ FailRelease(r)
      BY <2>1, ReleaseLogged
    <2>2. CASE ~(Release(r) \/ FailRelease(r))
      <3>1. UNCHANGED <<logged, twice>>
        BY <1>4, <2>2 DEF Run, Claim, Recover, Hello, Setup, Prompt, Message, ToolCall, Mint, Result,
           Flush, Bye, Written, NotWritten, Fail, Die, AppendAlone, logVars
      <3>2. QED
        BY <1>4, <3>1, RunLogged
    <2>3. QED
      BY <2>1, <2>2
  <1>5. CASE Lapse
    BY <1>1, <1>5, StaysExtends DEF Lapse, execVars, logVars
  <1>6. QED
    BY <1>2, <1>3, <1>4, <1>5 DEF Next

(* No row of the run log replaces another: append_run_log's insert ids,    *)
(* made of branch and seq, differ between any two released runs, although  *)
(* a rewind gives out the same seqs again.                                 *)
THEOREM RowsDistinct == ASSUME NoEarlyClaim PROVE Spec => []RunLogIdsDistinct
  <1>1. Init => LoggedInv
    BY DEF Init, Idle, LoggedInv, LoggedIsPast, Live
  <1>2. TypeInv /\ TreeInv /\ LoggedInv /\ [Next]_vars => LoggedInv'
    BY NextLogged
  <1>3. LoggedInv => RunLogIdsDistinct
    BY DEF LoggedInv, RunLogIdsDistinct
  <1>4. QED
    BY <1>1, <1>2, <1>3, TreeInvHolds, PTL DEF Spec

-----------------------------------------------------------------------------
(* Every branch has conversations of its own.                              *)

(* OwnInv, in parts: of the turns, of the rows, and of each execution.     *)
Busy(b) == \E q \in Executions : Live(q) /\ Untried(q) /\ exec[q].branch = b

TurnsKnown == \A i \in Turns : journal[i].sdk # None

RowsKnown ==
  /\ \A b \in 1..made : base[b].sdk # None
  /\ doc.active = Main => doc.sdk = base[Main].sdk

OnBranch(r, b) ==
  /\ exec[r].fresh => b # Main
  /\ exec[r].pc \notin {"recover", "hello"} /\ b # Main => HasRun(b)
  /\ exec[r].pc # "recover" /\ ~Untried(r) => Settled(b)
  /\ b = Main =>
       /\ exec[r].pc \in {"recover", "hello", "setup"} => exec[r].known = base[Main].sdk
       /\ exec[r].pc \in {"loop", "turn", "spoken", "called", "release"} =>
            exec[r].told = base[Main].sdk

HandOwn(r) ==
  /\ ~Live(r) \/ exec[r].pc = "recover" => ~exec[r].fresh /\ ~exec[r].flushed
  /\ exec[r].pc \in {"release", "fail_release"} => ~Untried(r)
  /\ Opened(r) => exec[r].sdk # None
  /\ exec[r].pc = "flush" => exec[r].told = exec[r].sdk
  /\ \A b \in BranchIds : Live(r) /\ exec[r].branch = b => OnBranch(r, b)

LEMMA OwnInvIs ==
  ASSUME TypeInv
  PROVE  OwnInv <=> /\ ConversationsApart /\ TurnsKnown /\ RowsKnown
                    /\ \A r \in Executions : HandOwn(r)
  <1>1. \A r \in Executions : exec[r].branch \in BranchIds
    BY HandTypes
  <1>2. \A r \in Executions : exec[r].branch = Main \/ exec[r].branch # Main
    OBVIOUS
  <1>3. QED
    BY <1>1, Zenon DEF OwnInv, ConversationsKnown, FreshOnce, MainIsSessions, TurnsKnown, RowsKnown,
       HandOwn, OnBranch

LEMMA OwnInvIsNext ==
  ASSUME TypeInv'
  PROVE  OwnInv' <=> /\ ConversationsApart' /\ TurnsKnown' /\ RowsKnown'
                     /\ \A r \in Executions : HandOwn(r)'
  <1>1. \A r \in Executions : exec'[r].branch \in BranchIds
    BY DEF TypeInv, TypeOK
  <1>2. QED
    BY <1>1 DEF OwnInv, ConversationsKnown, FreshOnce, MainIsSessions, TurnsKnown, RowsKnown,
       HandOwn, OnBranch

(* The records a branch has it keeps.                                      *)
LEMMA RanStays ==
  ASSUME Extends, NEW b \in BranchIds, base'[b].seq = base[b].seq, HasRun(b)
  PROVE  HasRun(b)'
  BY DEF HasRun, On, Extends

(* A branch nothing lands on is settled if it was.                         *)
LEMMA SettledSame ==
  ASSUME Extends, NEW b \in BranchIds, base'[b].seq = base[b].seq, Busy(b)' <=> Busy(b),
         \A i \in Uuids' : i \in Uuids \/ journal'[i].branch # b
  PROVE  Settled(b)' <=> Settled(b)
  <1>1. HasRun(b)' <=> HasRun(b)
    BY DEF HasRun, On, Extends
  <1>2. /\ Settled(b) <=> b = Main \/ (HasRun(b) /\ ~Busy(b))
        /\ Settled(b)' <=> b = Main \/ (HasRun(b)' /\ ~Busy(b)')
    BY DEF Settled, Busy
  <1>3. QED
    BY <1>1, <1>2

LEMMA SettledStays ==
  ASSUME Extends, NEW b \in BranchIds, base'[b].seq = base[b].seq, Busy(b)' => Busy(b),
         Settled(b)
  PROVE  Settled(b)'
  <1>1. HasRun(b) => HasRun(b)'
    BY RanStays
  <1>2. /\ Settled(b) <=> b = Main \/ (HasRun(b) /\ ~Busy(b))
        /\ Settled(b)' <=> b = Main \/ (HasRun(b)' /\ ~Busy(b)')
    BY DEF Settled, Busy
  <1>3. QED
    BY <1>1, <1>2

(* A branch talks in what it talked in: a new turn is of a conversation    *)
(* its branch was in, and so is a run past its setup.                      *)
LEMMA TalkStays ==
  ASSUME Extends, NEW b \in BranchIds, NEW s, TalksIn(b, s)',
         \A i \in Uuids' : i \in Uuids \/ journal'[i].kind # "result" \/ TalksIn(b, s)
                           \/ journal'[i].branch # b \/ journal'[i].sdk # s,
         \A q \in Executions :
           (Opened(q) /\ exec[q].branch = b /\ exec[q].sdk = s)' => TalksIn(b, s),
         (Settled(b) /\ base[b].sdk = s)' => TalksIn(b, s)
  PROVE  TalksIn(b, s)
  <1>1. CASE \E i \in Turns' : journal'[i].branch = b /\ journal'[i].sdk = s
    <2>1. PICK i \in Uuids' :
            journal'[i].branch = b /\ journal'[i].sdk = s /\ journal'[i].kind = "result"
      BY <1>1 DEF Turns
    <2>2. CASE i \in Uuids
      <3>1. journal'[i] = journal[i]
        BY <2>2 DEF Extends
      <3>2. i \in Turns /\ journal[i].branch = b /\ journal[i].sdk = s
        BY <2>1, <2>2, <3>1 DEF Turns
      <3>3. QED
        BY <3>2 DEF TalksIn
    <2>3. QED
      BY <2>1, <2>2
  <1>2. CASE \E q \in Executions : (Opened(q) /\ exec[q].branch = b /\ exec[q].sdk = s)'
    BY <1>2
  <1>3. CASE (Settled(b) /\ base[b].sdk = s)'
    BY <1>3
  <1>4. QED
    BY <1>1, <1>2, <1>3 DEF TalksIn

LEMMA ApartStays ==
  ASSUME ConversationsApart, Len(memory') = Len(memory),
         \A b \in BranchIds, s \in 1..Len(memory) : TalksIn(b, s)' => TalksIn(b, s)
  PROVE  ConversationsApart'
  BY DEF ConversationsApart

LEMMA TurnsStay ==
  ASSUME TurnsKnown, Extends,
         \A i \in Uuids' : i \in Uuids \/ journal'[i].kind # "result" \/ journal'[i].sdk # None
  PROVE  TurnsKnown'
  BY DEF TurnsKnown, Turns, Extends

(* Whoever is not at work has nothing to show.                             *)
LEMMA IdleOwns ==
  ASSUME NEW q \in Executions, HandOwn(q), ~Live(q),
         exec'[q] = exec[q] \/ (~Live(q)' /\ ~exec'[q].fresh /\ ~exec'[q].flushed)
  PROVE  HandOwn(q)'
  <1>1. ~exec[q].fresh /\ ~exec[q].flushed
    BY DEF HandOwn
  <1>2. ~Live(q)' /\ ~exec'[q].fresh /\ ~exec'[q].flushed
    BY <1>1 DEF Live
  <1>3. QED
    BY <1>2, Zenon DEF HandOwn, Live, Opened, Untried

(* A step nobody at work takes, and that writes nothing.                   *)
LEMMA AsideOwns ==
  ASSUME TypeInv, TypeInv', OwnInv, UNCHANGED <<journal, base, made, memory>>,
         doc'.active = doc.active, doc'.sdk = doc.sdk,
         \A q \in Executions :
           exec'[q] = exec[q] \/ (~Live(q) /\ ~Live(q)' /\ ~exec'[q].fresh /\ ~exec'[q].flushed)
  PROVE  OwnInv'
  <1>1. ConversationsApart /\ TurnsKnown /\ RowsKnown /\ (\A r \in Executions : HandOwn(r))
    BY OwnInvIs
  <1>2. Extends
    BY StaysExtends
  <1>3. \A b \in BranchIds : Busy(b)' <=> Busy(b)
    BY DEF Busy, Live, Untried
  <1>4. UNCHANGED Uuids
    BY DEF Uuids
  <1>5. \A b \in BranchIds : Settled(b)' <=> Settled(b)
    BY <1>2, <1>3, <1>4, SettledSame
  <1>6. ASSUME NEW b \in BranchIds, NEW s, TalksIn(b, s)' PROVE TalksIn(b, s)
    <2>1. ASSUME NEW q \in Executions, (Opened(q) /\ exec[q].branch = b /\ exec[q].sdk = s)'
          PROVE  TalksIn(b, s)
      <3>1. Live(q)'
        BY <2>1 DEF Opened, Live
      <3>2. exec'[q] = exec[q]
        BY <3>1
      <3>3. Opened(q) /\ exec[q].branch = b /\ exec[q].sdk = s
        BY <2>1, <3>2 DEF Opened
      <3>4. QED
        BY <3>3 DEF TalksIn
    <2>2. (Settled(b) /\ base[b].sdk = s)' => TalksIn(b, s)
      BY <1>5 DEF TalksIn
    <2>3. QED
      BY <1>2, <1>4, <1>6, <2>1, <2>2, TalkStays
  <1>7. ConversationsApart' /\ TurnsKnown' /\ RowsKnown'
    <2>1. ConversationsApart'
      BY <1>1, <1>6, ApartStays
    <2>2. TurnsKnown'
      BY <1>1, <1>2, <1>4, TurnsStay
    <2>3. RowsKnown'
      BY <1>1 DEF RowsKnown
    <2>4. QED
      BY <2>1, <2>2, <2>3
  <1>8. ASSUME NEW q \in Executions PROVE HandOwn(q)'
    <2>1. CASE ~Live(q)
      BY <1>1, <2>1, IdleOwns
    <2>2. CASE exec'[q] = exec[q] /\ Live(q)
      <3>1. \A b \in BranchIds : HasRun(b) => HasRun(b)'
        BY <1>2, RanStays
      <3>2. QED
        BY <1>1, <1>5, <2>2, <3>1 DEF HandOwn, OnBranch, Live, Opened, Untried
    <2>3. QED
      BY <2>1, <2>2
  <1>9. QED
    BY <1>7, <1>8, OwnInvIsNext

(* A step while nobody is at work.                                         *)
LEMMA QuietOwns ==
  ASSUME TypeInv, TypeInv', OwnInv, \A q \in Executions : ~Live(q), Extends,
         UNCHANGED <<exec, memory>>, RowsKnown',
         \A i \in Uuids' : i \in Uuids \/ journal'[i].kind # "result",
         \A b \in BranchIds : Settled(b)' => Settled(b) /\ base'[b].sdk = base[b].sdk
  PROVE  OwnInv'
  <1>1. ConversationsApart /\ TurnsKnown /\ (\A r \in Executions : HandOwn(r))
    BY OwnInvIs
  <1>2. \A q \in Executions : ~Live(q)'
    BY DEF Live
  <1>3. ASSUME NEW b \in BranchIds, NEW s, TalksIn(b, s)' PROVE TalksIn(b, s)
    <2>1. (Settled(b) /\ base[b].sdk = s)' => TalksIn(b, s)
      BY DEF TalksIn
    <2>2. \A q \in Executions : ~(Opened(q) /\ exec[q].branch = b /\ exec[q].sdk = s)'
      BY <1>2 DEF Opened, Live
    <2>3. QED
      BY <1>3, <2>1, <2>2, TalkStays
  <1>4. ConversationsApart' /\ TurnsKnown'
    BY <1>1, <1>3, ApartStays, TurnsStay
  <1>5. \A q \in Executions : HandOwn(q)'
    BY <1>1, IdleOwns
  <1>6. QED
    BY <1>4, <1>5, OwnInvIsNext

LEMMA AttachOwns ==
  ASSUME TypeInv, TypeInv', OwnInv, NEW c \in Clients, Attach(c) \/ Stream(c) PROVE OwnInv'
  BY AsideOwns DEF Attach, Stream, execVars

LEMMA SendOwns ==
  ASSUME TypeInv, TypeInv', OwnInv, NEW c \in Clients, Send(c) PROVE OwnInv'
  <1>1. UNCHANGED <<journal, base, made, memory, doc>>
    BY DEF Send
  <1>2. CASE UNCHANGED exec
    BY <1>1, <1>2, AsideOwns
  <1>3. CASE ~UNCHANGED exec
    <2>1. PICK r \in Executions : exec[r].pc = "off" /\ exec' = [exec EXCEPT ![r].pc = "boot"]
      BY <1>3 DEF Send
    <2>2. exec \in [Executions -> Hand] /\ exec[r] \in Hand
      BY TypeInvParts DEF HandInv
    <2>3. exec'[r].pc = "boot" /\ exec'[r].fresh = exec[r].fresh /\ exec'[r].flushed = exec[r].flushed
          /\ \A q \in Executions : q # r => exec'[q] = exec[q]
      BY <2>1, <2>2 DEF Hand
    <2>4. HandOwn(r) /\ ~Live(r) /\ ~Live(r)'
      BY <2>1, <2>3, OwnInvIs DEF Live
    <2>5. ~exec[r].fresh /\ ~exec[r].flushed
      BY <2>4 DEF HandOwn
    <2>6. \A q \in Executions :
            exec'[q] = exec[q] \/ (~Live(q) /\ ~Live(q)' /\ ~exec'[q].fresh /\ ~exec'[q].flushed)
      BY <2>3, <2>4, <2>5
    <2>7. QED
      BY <1>1, <2>6, AsideOwns
  <1>4. QED
    BY <1>2, <1>3

LEMMA LapseOwns ==
  ASSUME TypeInv, TypeInv', OwnInv, Lapse PROVE OwnInv'
  <1>1. UNCHANGED <<journal, base, made, memory, exec>>
    BY DEF Lapse, execVars
  <1>2. doc'.active = doc.active /\ doc'.sdk = doc.sdk
    BY TypeInvParts DEF Lapse, BaseInv
  <1>3. QED
    BY <1>1, <1>2, AsideOwns

(* The first record of a branch is no turn, and no run's.                  *)
LEMMA RecordBranchOwns ==
  ASSUME TypeInv, TypeInv', TreeInv, OwnInv, NEW c \in Clients, RecordBranch(c) PROVE OwnInv'
  <1> DEFINE d == client[c].branch
             record == [branch |-> d, seq |-> base[d].seq + 1, parent |-> base[d].uuid,
                        kind |-> "branch_created", sdk |-> None, context |-> None]
  <1>1. journal' = Append(journal, record) /\ Recording(c)
        /\ UNCHANGED <<doc, base, made, exec, memory>>
    BY DEF RecordBranch, Recording, execVars
  <1>2. d \in BranchIds /\ On(d) = {} /\ \A q \in Executions : ~Live(q)
    BY <1>1, ClientIs DEF TreeInv, BranchesAreRecorded, LeaseIsHeld
  <1>3. Extends /\ (\A i \in Uuids' : i \in Uuids \/ i = Len(journal) + 1)
        /\ journal'[Len(journal) + 1] = record
    <2>1. record \in Records
      BY <1>2, BaseTypes DEF Records, Kinds, None
    <2>2. journal'[Len(journal) + 1] = record
      BY <1>1, <2>1, Landed DEF TypeInv, TypeOK
    <2>3. QED
      BY <1>1, <2>2, AppendExtends
  <1> HIDE DEF record
  <1>4. record.branch = d /\ record.seq = base[d].seq + 1 /\ record.kind = "branch_created"
    BY DEF record
  <1>5. \A b \in BranchIds : Busy(b)' <=> Busy(b)
    BY <1>1 DEF Busy, Live, Untried
  <1>6. ASSUME NEW b \in BranchIds, Settled(b)' PROVE Settled(b)
    <2>1. CASE b = d
      <3>1. ~HasRun(b)'
        <4> SUFFICES ASSUME NEW j \in On(b)', journal'[j].seq > base'[b].seq + 1 PROVE FALSE
          BY DEF HasRun
        <4>1. j \in Uuids' /\ journal'[j].branch = b
          BY DEF On
        <4>2. CASE j \in Uuids
          <5>1. j \in On(b)
            BY <1>3, <4>1, <4>2 DEF On, Extends
          <5>2. QED
            BY <1>2, <2>1, <5>1
        <4>3. CASE j = Len(journal) + 1
          <5>1. journal'[j].seq = base[b].seq + 1 /\ base'[b].seq = base[b].seq
            BY <1>1, <1>3, <1>4, <2>1, <4>3
          <5>2. base[b].seq \in Nat
            BY BaseTypes
          <5>3. QED
            BY <5>1, <5>2
        <4>4. QED
          BY <1>3, <4>1, <4>2, <4>3
      <3>2. b = Main
        BY <1>6, <3>1 DEF Settled
      <3>3. QED
        BY <3>2 DEF Settled
    <2>2. CASE b # d
      <3>1. \A i \in Uuids' : i \in Uuids \/ journal'[i].branch # b
        BY <1>3, <1>4, <2>2
      <3>2. QED
        BY <1>1, <1>3, <1>5, <1>6, <3>1, SettledSame
    <2>3. QED
      BY <2>1, <2>2
  <1>7. RowsKnown' /\ \A i \in Uuids' : i \in Uuids \/ journal'[i].kind # "result"
    <2>1. RowsKnown
      BY OwnInvIs
    <2>2. QED
      BY <1>1, <1>3, <1>4, <2>1 DEF RowsKnown
  <1>8. QED
    BY <1>1, <1>2, <1>3, <1>6, <1>7, QuietOwns

(* Whoever rewinds to a turn takes over the conversation it was in; the    *)
(* new branch has not run, so its row is nobody's yet.                     *)
LEMMA RewindOwns ==
  ASSUME TypeInv, TypeInv', TreeInv, OwnInv, OrderlyRewinds, NEW c \in Clients, Rewind(c)
  PROVE  OwnInv'
  <1>1. /\ doc.lease = None /\ made' = made + 1 /\ UNCHANGED <<journal, exec, memory>>
    BY DEF Rewind, execVars
  <1>2. PICK i \in RewindPoints :
          /\ base' = [base EXCEPT ![made + 1] =
               [seq |-> IF i = None THEN 0 ELSE journal[i].seq, uuid |-> i,
                sdk |-> IF i = None THEN None ELSE ConversationAt(i)]]
          /\ doc' = [doc EXCEPT !.active = made + 1, !.head = IF i = None THEN 0 ELSE journal[i].seq]
    BY DEF Rewind
  <1>3. made + 1 \in BranchIds /\ made + 1 # Main /\ made + 1 > made /\ made \in Nat
        /\ 1..made \subseteq BranchIds
    <2>1. made \in BranchIds /\ made < MaxBranches
      BY TypeInvParts DEF BaseInv, Rewind
    <2>2. QED
      BY <2>1, BoundAssumption DEF BranchIds, Main
  <1>4. i \in Turns
    <2>1. PICK e \in Uuids : i = TurnBase(e)
      BY <1>2 DEF RewindPoints
    <2>2. e \in 0..Len(journal)
      BY <2>1, Lengths
    <2>3. TurnBase(e) \in 0..e /\ (TurnBase(e) # None => IsResult(TurnBase(e)))
      BY <2>2 DEF TypeInv, WalksEnd
    <2>4. i # None /\ journal[i].kind # "error"
      BY <1>2 DEF RewindPoints, OrderlyRewinds
    <2>5. i \in Uuids /\ journal[i].kind = "result"
      BY <2>1, <2>2, <2>3, <2>4, Lengths DEF IsResult, None
    <2>6. QED
      BY <2>5 DEF Turns
  <1>5. TurnsKnown /\ RowsKnown
    BY OwnInvIs
  <1>6. i # None /\ ConversationAt(i) # None
    <2>1. journal[i].sdk # None /\ i \in Uuids
      BY <1>4, <1>5 DEF TurnsKnown, Turns
    <2>2. QED
      BY <2>1, Lengths DEF ConversationAt, None
  <1>7. base'[made + 1].sdk # None /\ \A b \in BranchIds : b # made + 1 => base'[b] = base[b]
    <2>1. base \in [BranchIds -> [seq : Nat, uuid : Nat, sdk : Nat]]
      BY TypeInvParts DEF BaseInv
    <2>2. QED
      BY <1>2, <1>3, <1>6, <2>1
  <1>8. doc'.active = made + 1
    BY <1>2, TypeInvParts DEF BaseInv
  <1>9. RowsKnown'
    <2>1. ASSUME NEW b \in 1..(made + 1) PROVE base'[b].sdk # None
      <3>1. CASE b = made + 1
        BY <1>7, <3>1
      <3>2. CASE b # made + 1
        <4>1. b \in 1..made
          BY <1>3, <3>2
        <4>2. QED
          BY <1>3, <1>5, <1>7, <3>2, <4>1 DEF RowsKnown
      <3>3. QED
        BY <3>1, <3>2
    <2>2. QED
      BY <1>1, <1>3, <1>8, <2>1 DEF RowsKnown
  <1>10. \A q \in Executions : ~Live(q)
    BY <1>1, LeaseIsSomebodys DEF TreeInv
  <1>11. Extends /\ UNCHANGED Uuids
    BY <1>1, StaysExtends DEF Uuids
  <1>12. \A b \in BranchIds : Busy(b)' <=> Busy(b)
    BY <1>1 DEF Busy, Live, Untried
  <1>13. ASSUME NEW b \in BranchIds, Settled(b)'
         PROVE  Settled(b) /\ base'[b].sdk = base[b].sdk
    <2>1. b # made + 1
      <3>1. SUFFICES ASSUME b = made + 1 PROVE FALSE
        OBVIOUS
      <3>2. On(b) = {}
        BY <1>3, <3>1 DEF TreeInv, BranchesAreRecorded
      <3>3. On(b)' = {}
        BY <1>1, <3>2 DEF On, Uuids
      <3>4. QED
        BY <1>3, <1>13, <3>1, <3>3 DEF Settled, HasRun
    <2>2. base'[b] = base[b]
      BY <1>7, <2>1
    <2>3. QED
      BY <1>11, <1>12, <1>13, <2>2, SettledSame
  <1>14. QED
    BY <1>1, <1>9, <1>10, <1>11, <1>13, QuietOwns

(* While a run is at work there is no other.                               *)
LEMMA AloneAtWork ==
  ASSUME TypeInv, TreeInv, OwnInv, NEW r \in Executions, Live(r),
         exec' = [exec EXCEPT ![r] = exec'[r]]
  PROVE  /\ \A b \in BranchIds : Busy(b) <=> Untried(r) /\ exec[r].branch = b
         /\ \A b \in BranchIds : Busy(b)' <=> (Live(r) /\ Untried(r) /\ exec[r].branch = b)'
         /\ \A q \in Executions : q # r => HandOwn(q)' /\ ~Live(q) /\ ~Live(q)'
         /\ HandOwn(r) /\ exec[r].branch \in BranchIds /\ exec[r].branch = doc.active
         /\ ConversationsApart /\ TurnsKnown /\ RowsKnown
  <1>1. ASSUME NEW q \in Executions, q # r PROVE HandOwn(q)' /\ ~Live(q) /\ ~Live(q)'
    <2>1. ~Live(q) /\ exec'[q] = exec[q] /\ (Live(q)' <=> Live(q))
      BY <1>1, OthersStay, OneAtWork DEF TreeInv
    <2>2. HandOwn(q)
      BY OwnInvIs
    <2>3. QED
      BY <2>1, <2>2, IdleOwns
  <1>2. HandOwn(r) /\ ConversationsApart /\ TurnsKnown /\ RowsKnown
    BY OwnInvIs
  <1>3. exec[r].branch \in BranchIds /\ exec[r].branch = doc.active
    BY HandTypes DEF TreeInv, LeaseIsHeld
  <1>4. QED
    BY <1>1, <1>2, <1>3 DEF Busy

(* Between its hello and its release a run goes on in its conversation.    *)
LEMMA RunOwns ==
  ASSUME TypeInv, TypeInv', TreeInv, OwnInv, NEW r \in Executions, Live(r), Live(r)',
         exec[r].pc # "recover", exec'[r].pc \notin {"recover", "hello"},
         exec' = [exec EXCEPT ![r] = exec'[r]],
         exec'[r].branch = exec[r].branch, exec'[r].fresh = exec[r].fresh,
         exec'[r].flushed = exec[r].flushed, exec'[r].sdk = exec[r].sdk,
         exec'[r].known = exec[r].known,
         Opened(r)' => Opened(r),
         exec'[r].pc = "flush" => exec'[r].told = exec[r].sdk,
         exec'[r].pc \in {"release", "fail_release"} => ~Untried(r),
         exec'[r].pc = "setup" => exec[r].pc = "hello",
         exec'[r].pc \in {"loop", "turn", "spoken", "called", "release"} =>
           /\ exec[r].pc \in {"loop", "turn", "spoken", "called", "release"}
           /\ exec'[r].told = exec[r].told,
         \A b \in BranchIds :
           exec[r].pc = "hello" /\ exec[r].branch = b /\ b # Main => HasRun(b)',
         UNCHANGED <<base, made, doc>>, Len(memory') = Len(memory), Extends,
         \A i \in Uuids' :
           \/ i \in Uuids
           \/ /\ journal'[i].branch = exec[r].branch
              /\ journal'[i].kind = "result" => Opened(r) /\ journal'[i].sdk = exec[r].sdk
  PROVE  OwnInv'
  <1> DEFINE own == exec[r].branch
  <1>1. /\ \A b \in BranchIds : Busy(b) <=> Untried(r) /\ own = b
        /\ \A b \in BranchIds : Busy(b)' <=> (Live(r) /\ Untried(r) /\ exec[r].branch = b)'
        /\ \A q \in Executions : q # r => HandOwn(q)' /\ ~Live(q) /\ ~Live(q)'
        /\ HandOwn(r) /\ own \in BranchIds
        /\ ConversationsApart /\ TurnsKnown /\ RowsKnown
    BY AloneAtWork
  <1>2. \A b \in BranchIds : Busy(b)' <=> Busy(b)
    BY <1>1 DEF Untried
  <1>3. \A b \in BranchIds : Settled(b) => Settled(b)'
    BY <1>2, SettledStays
  <1>4. \A b \in BranchIds : Settled(b)' => Settled(b)
    <2>1. SUFFICES ASSUME NEW b \in BranchIds, Settled(b)' PROVE Settled(b)
      OBVIOUS
    <2>2. CASE b # own
      BY <1>2, <2>1, <2>2, SettledSame
    <2>3. CASE b = own /\ Untried(r)
      BY <1>1, <1>2, <2>1, <2>3 DEF Settled, Busy
    <2>4. CASE b = own /\ ~Untried(r)
      BY <1>1, <2>4 DEF HandOwn, OnBranch
    <2>5. QED
      BY <2>2, <2>3, <2>4
  <1>5. ASSUME NEW b \in BranchIds, NEW s, TalksIn(b, s)' PROVE TalksIn(b, s)
    <2>1. (Settled(b) /\ base[b].sdk = s)' => TalksIn(b, s)
      BY <1>4 DEF TalksIn
    <2>2. ASSUME NEW q \in Executions, (Opened(q) /\ exec[q].branch = b /\ exec[q].sdk = s)'
          PROVE  TalksIn(b, s)
      <3>1. q = r
        BY <1>1, <2>2 DEF Opened, Live
      <3>2. QED
        BY <2>2, <3>1 DEF TalksIn
    <2>3. ASSUME NEW i \in Uuids', i \notin Uuids, journal'[i].kind = "result",
                 journal'[i].branch = b, journal'[i].sdk = s
          PROVE  TalksIn(b, s)
      BY <2>3 DEF TalksIn
    <2>4. QED
      BY <1>5, <2>1, <2>2, <2>3, TalkStays
  <1>6. ConversationsApart' /\ TurnsKnown' /\ RowsKnown'
    <2>1. ConversationsApart'
      BY <1>1, <1>5, ApartStays
    <2>2. Opened(r) => exec[r].sdk # None
      BY <1>1 DEF HandOwn
    <2>3. TurnsKnown'
      BY <1>1, <2>2, TurnsStay
    <2>4. RowsKnown'
      BY <1>1 DEF RowsKnown
    <2>5. QED
      BY <2>1, <2>3, <2>4
  <1>7. HandOwn(r)'
    <2>1. OnBranch(r, own)
      BY <1>1 DEF HandOwn
    <2>2. \A b \in BranchIds : own = b /\ b # Main => HasRun(b)'
      <3>1. exec[r].pc # "hello" /\ own # Main => HasRun(own)
        BY <2>1 DEF OnBranch
      <3>2. \A b \in BranchIds : HasRun(b) => HasRun(b)'
        BY RanStays
      <3>3. QED
        BY <1>1, <3>1, <3>2
    <2>3. ASSUME NEW b \in BranchIds, own = b PROVE OnBranch(r, b)'
      <3>1. Untried(r)' <=> Untried(r)
        BY DEF Untried
      <3>2. ~Untried(r)' => Settled(b)'
        BY <1>3, <2>1, <2>3, <3>1 DEF OnBranch
      <3>3. b # Main => HasRun(b)'
        BY <2>2, <2>3
      <3>4. exec'[r].fresh => b # Main
        BY <2>1, <2>3 DEF OnBranch
      <3>5. b = Main =>
              /\ exec'[r].pc \in {"recover", "hello", "setup"} => exec'[r].known = base'[Main].sdk
              /\ exec'[r].pc \in {"loop", "turn", "spoken", "called", "release"} =>
                   exec'[r].told = base'[Main].sdk
        BY <2>1, <2>3 DEF OnBranch
      <3>6. QED
        BY <3>2, <3>3, <3>4, <3>5, Zenon DEF OnBranch
    <2>4. Opened(r)' => exec'[r].sdk # None
      BY <1>1 DEF HandOwn
    <2>5. QED
      BY <2>3, <2>4 DEF HandOwn, Untried
  <1>8. QED
    BY <1>1, <1>6, <1>7, OwnInvIsNext

(* A run that leaves after its first flush leaves its branch settled.      *)
LEMMA LeaveOwns ==
  ASSUME TypeInv, TypeInv', TreeInv, OwnInv, NEW r \in Executions, Live(r),
         exec[r].pc = "recover" \/ ~Untried(r),
         exec' = [exec EXCEPT ![r] = Gone],
         UNCHANGED <<journal, base, made, memory>>, doc'.active = doc.active,
         doc'.sdk = doc.sdk \/ (exec[r].pc = "release" /\ doc'.sdk = exec[r].told)
  PROVE  OwnInv'
  <1>1. exec'[r] = Gone /\ exec' = [exec EXCEPT ![r] = exec'[r]]
    BY TypeInvParts DEF HandInv
  <1>2. ~Live(r)' /\ ~exec'[r].fresh /\ ~exec'[r].flushed
    BY <1>1 DEF Gone, Idle, Live
  <1>3. /\ \A b \in BranchIds : Busy(b) <=> Untried(r) /\ exec[r].branch = b
        /\ \A b \in BranchIds : Busy(b)' <=> (Live(r) /\ Untried(r) /\ exec[r].branch = b)'
        /\ \A q \in Executions : q # r => HandOwn(q)' /\ ~Live(q) /\ ~Live(q)'
        /\ HandOwn(r) /\ exec[r].branch \in BranchIds /\ exec[r].branch = doc.active
        /\ ConversationsApart /\ TurnsKnown /\ RowsKnown
    BY <1>1, AloneAtWork
  <1>4. ~Untried(r)
    BY <1>3 DEF HandOwn, Untried
  <1>5. \A b \in BranchIds : Busy(b)' <=> Busy(b)
    BY <1>2, <1>3, <1>4
  <1>6. Extends /\ UNCHANGED Uuids
    BY StaysExtends DEF Uuids
  <1>7. \A b \in BranchIds : Settled(b)' <=> Settled(b)
    BY <1>5, <1>6, SettledSame
  <1>8. \A q \in Executions : ~Opened(q)'
    BY <1>2, <1>3 DEF Opened, Live
  <1>9. ASSUME NEW b \in BranchIds, NEW s, TalksIn(b, s)' PROVE TalksIn(b, s)
    <2>1. (Settled(b) /\ base[b].sdk = s)' => TalksIn(b, s)
      BY <1>7 DEF TalksIn
    <2>2. \A q \in Executions : ~(Opened(q) /\ exec[q].branch = b /\ exec[q].sdk = s)'
      BY <1>8
    <2>3. QED
      BY <1>6, <1>9, <2>1, <2>2, TalkStays
  <1>10. ConversationsApart' /\ TurnsKnown'
    BY <1>3, <1>6, <1>9, ApartStays, TurnsStay
  <1>11. RowsKnown'
    <2>1. doc.active = Main /\ exec[r].pc = "release" => exec[r].told = base[Main].sdk
      BY <1>3 DEF HandOwn, OnBranch
    <2>2. QED
      BY <1>3, <2>1 DEF RowsKnown
  <1>12. HandOwn(r)'
    <2>1. ~Opened(r)' /\ exec'[r].pc \notin {"flush", "release", "fail_release"}
      BY <1>2, <1>8 DEF Live
    <2>2. QED
      BY <1>2, <2>1, Zenon DEF HandOwn
  <1>13. QED
    BY <1>3, <1>10, <1>11, <1>12, OwnInvIsNext

(* A run that has claimed knows the conversation the session was in.       *)
LEMMA ClaimOwns ==
  ASSUME TypeInv, TypeInv', TreeInv, OwnInv, NEW r \in Executions, Claim(r) PROVE OwnInv'
  <1>1. exec[r].pc = "boot" /\ ~Live(r) /\ UNCHANGED <<journal, base, made, memory>>
    BY DEF Claim, Live
  <1>2. exec \in [Executions -> Hand] /\ exec[r] \in Hand
    BY TypeInvParts DEF HandInv
  <1>3. ConversationsApart /\ TurnsKnown /\ RowsKnown /\ \A q \in Executions : HandOwn(q)
    BY OwnInvIs
  <1>4. CASE doc.lease # None
    <2>1. exec' = [exec EXCEPT ![r] = Gone] /\ UNCHANGED doc
      BY <1>4 DEF Claim
    <2>2. exec'[r] = Gone /\ \A q \in Executions : q # r => exec'[q] = exec[q]
      BY <1>2, <2>1
    <2>3. ~Live(r)' /\ ~exec'[r].fresh /\ ~exec'[r].flushed
      BY <2>2 DEF Gone, Idle, Live
    <2>4. QED
      BY <1>1, <2>1, <2>2, <2>3, AsideOwns
  <1>5. CASE doc.lease = None
    <2>1. /\ doc' = [doc EXCEPT !.lease = r]
          /\ exec' = [exec EXCEPT ![r].pc = "recover", ![r].branch = doc.active,
                                  ![r].known = doc.sdk, ![r].context = doc.sdk]
      BY <1>5 DEF Claim
    <2>2. doc'.active = doc.active /\ doc'.sdk = doc.sdk
      BY <2>1, TypeInvParts DEF BaseInv
    <2>3. /\ exec'[r].pc = "recover" /\ exec'[r].branch = doc.active /\ exec'[r].known = doc.sdk
          /\ exec'[r].fresh = exec[r].fresh /\ exec'[r].flushed = exec[r].flushed
          /\ \A q \in Executions : q # r => exec'[q] = exec[q]
      BY <1>2, <2>1 DEF Hand
    <2>4. \A q \in Executions : ~Live(q)
      BY <1>5, LeaseIsSomebodys DEF TreeInv
    <2>5. \A q \in Executions : q # r => ~Live(q)' /\ HandOwn(q)'
      BY <1>3, <2>3, <2>4, IdleOwns DEF Live
    <2>6. ~exec'[r].fresh /\ ~exec'[r].flushed /\ ~Opened(r)'
      BY <1>1, <1>3, <2>3 DEF HandOwn, Opened
    <2>7. \A b \in BranchIds : ~Busy(b) /\ ~Busy(b)'
      BY <2>4, <2>5, <2>6 DEF Busy, Untried
    <2>8. Extends /\ UNCHANGED Uuids
      BY <1>1, StaysExtends DEF Uuids
    <2>9. \A b \in BranchIds : Settled(b)' <=> Settled(b)
      BY <1>1, <2>7, <2>8, SettledSame
    <2>10. ASSUME NEW b \in BranchIds, NEW s, TalksIn(b, s)' PROVE TalksIn(b, s)
      <3>1. (Settled(b) /\ base[b].sdk = s)' => TalksIn(b, s)
        BY <1>1, <2>9 DEF TalksIn
      <3>2. \A q \in Executions : ~(Opened(q) /\ exec[q].branch = b /\ exec[q].sdk = s)'
        BY <2>5, <2>6 DEF Opened, Live
      <3>3. QED
        BY <2>8, <2>10, <3>1, <3>2, TalkStays
    <2>11. ConversationsApart' /\ TurnsKnown' /\ RowsKnown'
      <3>1. ConversationsApart' /\ TurnsKnown'
        BY <1>1, <1>3, <2>8, <2>10, ApartStays, TurnsStay
      <3>2. RowsKnown'
        BY <1>1, <1>3, <2>2 DEF RowsKnown
      <3>3. QED
        BY <3>1, <3>2
    <2>12. HandOwn(r)'
      <3>1. ASSUME NEW b \in BranchIds, exec'[r].branch = b PROVE OnBranch(r, b)'
        BY <1>1, <1>3, <2>3, <2>6, <3>1 DEF OnBranch, RowsKnown
      <3>2. QED
        BY <2>3, <2>6, <3>1 DEF HandOwn
    <2>13. QED
      BY <2>5, <2>11, <2>12, OwnInvIsNext
  <1>6. QED
    BY <1>4, <1>5

(* It is fresh on a branch that nobody has run on.                         *)
LEMMA RecoverOwns ==
  ASSUME TypeInv, TypeInv', TreeInv, OwnInv, NEW r \in Executions, Recover(r) PROVE OwnInv'
  <1> DEFINE own == exec[r].branch
             at == Recovered(own)
  <1>1. /\ exec[r].pc = "recover" /\ UNCHANGED <<journal, doc, base, made, memory>>
        /\ exec' = [exec EXCEPT ![r].pc = "hello", ![r].seq = at[1], ![r].tip = at[2],
                                ![r].fresh = IsFresh(own, at[1])]
    BY DEF Recover
  <1>2. exec \in [Executions -> Hand] /\ exec[r] \in Hand
    BY TypeInvParts DEF HandInv
  <1> DEFINE fresh == IsFresh(own, at[1])
  <1>3. /\ exec'[r].pc = "hello" /\ exec'[r].fresh = fresh /\ exec'[r].flushed = exec[r].flushed
        /\ exec'[r].branch = own /\ exec'[r].known = exec[r].known
        /\ exec' = [exec EXCEPT ![r] = exec'[r]]
    <2> HIDE DEF fresh, at
    <2>1. exec' = [exec EXCEPT ![r].pc = "hello", ![r].seq = at[1], ![r].tip = at[2],
                               ![r].fresh = fresh]
      BY <1>1 DEF fresh
    <2>2. QED
      BY <1>2, <2>1 DEF Hand
  <1>4. Live(r) /\ Live(r)' /\ ~Opened(r)'
    BY <1>1, <1>3 DEF Live, Opened
  <1>5. /\ \A b \in BranchIds : Busy(b) <=> Untried(r) /\ own = b
        /\ \A b \in BranchIds : Busy(b)' <=> (Live(r) /\ Untried(r) /\ exec[r].branch = b)'
        /\ \A q \in Executions : q # r => HandOwn(q)' /\ ~Live(q) /\ ~Live(q)'
        /\ HandOwn(r) /\ own \in BranchIds /\ own = doc.active
        /\ ConversationsApart /\ TurnsKnown /\ RowsKnown
    BY <1>3, <1>4, AloneAtWork
  <1>6. ~exec[r].fresh /\ ~exec[r].flushed /\ ~Untried(r)
    BY <1>1, <1>5 DEF HandOwn, Untried
  <1>7. Extends /\ UNCHANGED Uuids
    BY <1>1, StaysExtends DEF Uuids
  <1>8. \A b \in BranchIds : HasRun(b)' <=> HasRun(b)
    BY <1>1 DEF HasRun, On, Uuids
  <1>9. \A b \in BranchIds : Settled(b)' => Settled(b)
    BY <1>5, <1>6, <1>8 DEF Settled, Busy
  <1>10. ASSUME NEW b \in BranchIds, NEW s, TalksIn(b, s)' PROVE TalksIn(b, s)
    <2>1. (Settled(b) /\ base[b].sdk = s)' => TalksIn(b, s)
      BY <1>1, <1>9 DEF TalksIn
    <2>2. \A q \in Executions : ~(Opened(q) /\ exec[q].branch = b /\ exec[q].sdk = s)'
      BY <1>4, <1>5 DEF Opened, Live
    <2>3. QED
      BY <1>7, <1>10, <2>1, <2>2, TalkStays
  <1>11. ConversationsApart' /\ TurnsKnown' /\ RowsKnown'
    <2>1. ConversationsApart' /\ TurnsKnown'
      BY <1>1, <1>5, <1>7, <1>10, ApartStays, TurnsStay
    <2>2. QED
      BY <1>1, <1>5, <2>1 DEF RowsKnown
  <1>12. ~fresh /\ own # Main => HasRun(own)
    <2>1. SUFFICES ASSUME ~fresh, own # Main PROVE HasRun(own)
      OBVIOUS
    <2>2. at = HeadOf(own)
      <3>1. own <= made /\ \A c \in Clients : ~Recording(c)
        BY <1>4, <1>5, BaseTypes DEF TreeInv, LeaseIsHeld
      <3>2. QED
        BY <1>5, <3>1, RecoveredIsHead DEF TreeInv
    <2>3. /\ HeadOf(own)[1] \in Nat
          /\ IF On(own) = {} THEN HeadOf(own) = <<0, None>>
             ELSE HeadOf(own)[2] \in On(own) /\ HeadOf(own)[1] = journal[HeadOf(own)[2]].seq
      BY <1>5, HeadIsHighest DEF TypeInv
    <2>4. ~(at[1] <= base[own].seq + 1) /\ base[own].seq \in Nat
      BY <1>5, <2>1, BaseTypes DEF IsFresh
    <2>5. HeadOf(own)[1] > base[own].seq + 1 /\ HeadOf(own)[1] # 0
      BY <2>2, <2>3, <2>4
    <2>6. On(own) # {}
      BY <2>3, <2>5
    <2>7. QED
      BY <2>3, <2>5, <2>6 DEF HasRun
  <1>13. HandOwn(r)'
    <2>1. fresh => own # Main
      BY DEF IsFresh
    <2>2. ~fresh => Settled(own)'
      BY <1>3, <1>5, <1>8, <1>12 DEF Settled, Busy, Untried
    <2>3. ASSUME NEW b \in BranchIds, own = b PROVE OnBranch(r, b)'
      <3>1. ~Untried(r)' => ~fresh
        BY <1>3, <1>6 DEF Untried
      <3>2. own = Main => exec[r].known = base[Main].sdk
        BY <1>1, <1>4, <1>5 DEF HandOwn, OnBranch
      <3>3. QED
        BY <1>1, <1>3, <2>1, <2>2, <2>3, <3>1, <3>2 DEF OnBranch
    <2>4. QED
      BY <1>3, <1>4, <2>3, Zenon DEF HandOwn
  <1>14. QED
    BY <1>5, <1>11, <1>13, OwnInvIsNext

(* A fresh run opens a conversation nobody has been in, any other goes on  *)
(* in its branch's own.                                                    *)
LEMMA SetupOwns ==
  ASSUME TypeInv, TypeInv', TreeInv, OwnInv, NEW r \in Executions, Setup(r) PROVE OwnInv'
  <1> DEFINE own == exec[r].branch
             resumed == IF base[own].sdk # None THEN base[own].sdk ELSE exec[r].known
             forks == exec[r].fresh /\ base[own].sdk # None
             opens == IF resumed = None \/ forks THEN Len(memory) + 1 ELSE resumed
  <1>1. /\ exec[r].pc = "setup" /\ UNCHANGED <<journal, doc, base, made>>
        /\ exec' = [exec EXCEPT ![r].pc = "loop", ![r].told = resumed, ![r].sdk = opens]
        /\ memory' = IF opens \in DOMAIN memory THEN memory
                     ELSE Append(memory, IF resumed = None THEN {} ELSE memory[resumed])
    BY DEF Setup
  <1>2. exec \in [Executions -> Hand] /\ exec[r] \in Hand
    BY TypeInvParts DEF HandInv
  <1>3. /\ exec'[r].pc = "loop" /\ exec'[r].told = resumed /\ exec'[r].sdk = opens
        /\ exec'[r].branch = own /\ exec'[r].fresh = exec[r].fresh
        /\ exec'[r].flushed = exec[r].flushed
        /\ exec' = [exec EXCEPT ![r] = exec'[r]]
    <2> HIDE DEF resumed, opens
    <2>1. exec' = [exec EXCEPT ![r].pc = "loop", ![r].told = resumed, ![r].sdk = opens]
      BY <1>1
    <2>2. QED
      BY <1>2, <2>1 DEF Hand
  <1>4. Live(r) /\ Live(r)' /\ ~Opened(r)
    BY <1>1, <1>3 DEF Live, Opened
  <1>5. /\ \A b \in BranchIds : Busy(b) <=> Untried(r) /\ own = b
        /\ \A b \in BranchIds : Busy(b)' <=> (Live(r) /\ Untried(r) /\ exec[r].branch = b)'
        /\ \A q \in Executions : q # r => HandOwn(q)' /\ ~Live(q) /\ ~Live(q)'
        /\ HandOwn(r) /\ own \in BranchIds /\ own = doc.active
        /\ ConversationsApart /\ TurnsKnown /\ RowsKnown
    BY <1>3, <1>4, AloneAtWork
  <1>6. OnBranch(r, own)
    BY <1>4, <1>5 DEF HandOwn
  <1>7. Extends /\ UNCHANGED Uuids
    BY <1>1, StaysExtends DEF Uuids
  <1>8. \A b \in BranchIds : Busy(b)' <=> Busy(b)
    BY <1>3, <1>4, <1>5 DEF Untried
  <1>9. \A b \in BranchIds : Settled(b)' <=> Settled(b)
    BY <1>1, <1>7, <1>8, SettledSame
  <1>10. /\ resumed \in Nat /\ resumed <= Len(memory) /\ Len(memory) \in Nat
         /\ DOMAIN memory = 1..Len(memory)
    <2>1. memory \in Seq(SUBSET Nat)
      BY DEF TypeInv, TypeOK
    <2>2. QED
      BY <1>5, <2>1, BaseTypes, HandTypes, Lengths
  <1>11. opens # None /\ (own = Main => resumed = base[Main].sdk)
    <2>1. own = Main => exec[r].known = base[Main].sdk
      BY <1>1, <1>6 DEF OnBranch
    <2>2. QED
      BY <1>10, <2>1 DEF None
  <1>12. (resumed = None \/ forks) \/ TalksIn(own, opens)
    <2>1. SUFFICES ASSUME resumed # None, ~forks PROVE TalksIn(own, opens)
      OBVIOUS
    <2>2. CASE own = Main
      BY <1>11, <2>1, <2>2 DEF TalksIn, Settled
    <2>3. CASE own # Main
      <3>1. own \in 1..made
        BY <1>5, <2>3, BaseTypes, BoundAssumption DEF BranchIds, Main
      <3>2. base[own].sdk # None
        BY <1>5, <3>1 DEF RowsKnown
      <3>3. Settled(own)
        BY <1>1, <1>6, <2>1, <3>2 DEF OnBranch, Untried
      <3>4. QED
        BY <2>1, <3>2, <3>3 DEF TalksIn
    <2>4. QED
      BY <2>2, <2>3
  <1>13. ASSUME NEW b \in BranchIds, NEW s, TalksIn(b, s)'
         PROVE  TalksIn(b, s) \/ (b = own /\ s = opens)
    <2>1. SUFFICES ASSUME ~(b = own /\ s = opens) PROVE TalksIn(b, s)
      OBVIOUS
    <2>2. (Settled(b) /\ base[b].sdk = s)' => TalksIn(b, s)
      BY <1>1, <1>9 DEF TalksIn
    <2>3. \A q \in Executions : ~(Opened(q) /\ exec[q].branch = b /\ exec[q].sdk = s)'
      BY <1>3, <1>5, <2>1 DEF Opened, Live
    <2>4. QED
      BY <1>7, <1>13, <2>2, <2>3, TalkStays
  <1> HIDE DEF opens, resumed, forks
  <1>14. ConversationsApart'
    <2>1. CASE resumed = None \/ forks
      <3> DEFINE n == Len(memory) + 1
      <3>1. opens = n /\ n \in Nat /\ Len(memory') = n
        <4>1. opens = n /\ n \notin DOMAIN memory
          BY <1>10, <2>1 DEF opens
        <4>2. memory' = Append(memory, IF resumed = None THEN {} ELSE memory[resumed])
          BY <1>1, <4>1 DEF opens, resumed
        <4>3. PICK m : memory' = Append(memory, m)
          BY <4>2
        <4>4. memory \in Seq(SUBSET Nat) /\ memory' \in Seq(SUBSET Nat)
          BY DEF TypeInv, TypeOK
        <4>5. Len(memory') = n
          BY <4>3, <4>4
        <4>6. QED
          BY <1>10, <4>1, <4>5
      <3>2. ASSUME NEW b \in BranchIds, TalksIn(b, n) PROVE FALSE
        <4>1. \A i \in Turns : journal[i].sdk <= Len(memory)
          BY DEF Turns, TypeInv, PointersHold, RecordsPointBack, Known
        <4>2. \A q \in Executions : exec[q].sdk <= Len(memory)
          BY HandTypes
        <4>3. base[b].sdk <= Len(memory)
          BY BaseTypes
        <4>4. ~(n <= Len(memory))
          BY <1>10
        <4>5. QED
          BY <3>2, <4>1, <4>2, <4>3, <4>4 DEF TalksIn
      <3>3. ASSUME NEW b \in BranchIds, NEW d \in BranchIds, NEW s \in 1..n,
                   TalksIn(b, s)', TalksIn(d, s)'
            PROVE  b = d
        <4>1. CASE s = n
          <5>1. ~TalksIn(b, s) /\ ~TalksIn(d, s)
            BY <3>2, <4>1
          <5>2. QED
            BY <1>13, <3>3, <5>1
        <4>2. CASE s # n
          <5>1. s \in 1..Len(memory)
            BY <1>10, <4>2
          <5>2. TalksIn(b, s) /\ TalksIn(d, s)
            BY <1>13, <3>1, <3>3, <4>2
          <5>3. QED
            BY <1>5, <5>1, <5>2 DEF ConversationsApart
        <4>3. QED
          BY <4>1, <4>2
      <3>4. QED
        BY <3>1, <3>3 DEF ConversationsApart
    <2>2. CASE ~(resumed = None \/ forks)
      <3>1. opens = resumed /\ opens \in DOMAIN memory
        BY <1>10, <2>2 DEF opens, None
      <3>2. UNCHANGED memory
        BY <1>1, <3>1 DEF opens, resumed, forks
      <3>3. \A b \in BranchIds, s \in 1..Len(memory) : TalksIn(b, s)' => TalksIn(b, s)
        BY <1>12, <1>13, <2>2
      <3>4. QED
        BY <1>5, <3>2, <3>3, ApartStays
    <2>3. QED
      BY <2>1, <2>2
  <1>15. TurnsKnown' /\ RowsKnown'
    BY <1>1, <1>5, <1>7, TurnsStay DEF RowsKnown
  <1>16. HandOwn(r)'
    <2>1. ASSUME NEW b \in BranchIds, own = b PROVE OnBranch(r, b)'
      <3>1. b # Main => HasRun(b)'
        BY <1>1, <1>5, <1>6, <1>7, <2>1, RanStays DEF OnBranch
      <3>2. ~Untried(r)' => Settled(b)'
        BY <1>1, <1>3, <1>6, <1>9, <2>1 DEF OnBranch, Untried
      <3>3. exec'[r].fresh => b # Main
        BY <1>3, <1>6, <2>1 DEF OnBranch
      <3>4. b = Main => exec'[r].told = base'[Main].sdk
        BY <1>1, <1>3, <1>11, <2>1
      <3>5. QED
        BY <1>3, <3>1, <3>2, <3>3, <3>4 DEF OnBranch
    <2>2. exec'[r].sdk # None
      BY <1>3, <1>11
    <2>3. QED
      BY <1>3, <1>4, <2>1, <2>2 DEF HandOwn
  <1>17. QED
    BY <1>5, <1>14, <1>15, <1>16, OwnInvIsNext

(* The first flush makes the row of the branch its own.                    *)
LEMMA FlushOwns ==
  ASSUME TypeInv, TypeInv', TreeInv, OwnInv, NEW r \in Executions, Flush(r) PROVE OwnInv'
  <1> DEFINE own == exec[r].branch
             told == exec[r].told
  <1>1. /\ exec[r].pc = "flush" /\ UNCHANGED <<journal, made, memory>>
        /\ doc' = [doc EXCEPT !.head = exec[r].seq, !.sdk = told]
        /\ base' = [base EXCEPT ![own].sdk = told]
        /\ exec' = [exec EXCEPT ![r].pc = "loop", ![r].flushed = TRUE, ![r].context = told]
    BY DEF Flush
  <1>2. exec \in [Executions -> Hand] /\ exec[r] \in Hand
    BY TypeInvParts DEF HandInv
  <1>3. /\ exec'[r].pc = "loop" /\ exec'[r].told = told /\ exec'[r].sdk = exec[r].sdk
        /\ exec'[r].branch = own /\ exec'[r].fresh = exec[r].fresh /\ exec'[r].flushed
        /\ exec' = [exec EXCEPT ![r] = exec'[r]]
    BY <1>1, <1>2 DEF Hand
  <1>4. Live(r) /\ Live(r)' /\ Opened(r)
    BY <1>1, <1>3 DEF Live, Opened
  <1>5. /\ \A b \in BranchIds : Busy(b) <=> Untried(r) /\ own = b
        /\ \A b \in BranchIds : Busy(b)' <=> (Live(r) /\ Untried(r) /\ exec[r].branch = b)'
        /\ \A q \in Executions : q # r => HandOwn(q)' /\ ~Live(q) /\ ~Live(q)'
        /\ HandOwn(r) /\ own \in BranchIds /\ own = doc.active
        /\ ConversationsApart /\ TurnsKnown /\ RowsKnown
    BY <1>3, <1>4, AloneAtWork
  <1>6. OnBranch(r, own) /\ told = exec[r].sdk /\ told # None
    BY <1>1, <1>4, <1>5 DEF HandOwn
  <1>7. /\ doc'.active = own /\ doc'.sdk = told
        /\ base'[own].sdk = told /\ base'[own].seq = base[own].seq
        /\ \A b \in BranchIds : b # own => base'[b] = base[b]
    BY <1>1, <1>5, TypeInvParts DEF BaseInv
  <1>8. \A b \in BranchIds : base'[b].seq = base[b].seq
    BY <1>7
  <1>9. Extends /\ UNCHANGED Uuids
    BY <1>1, StaysExtends DEF Uuids
  <1>10. \A b \in BranchIds : ~Busy(b)'
    BY <1>3, <1>5 DEF Untried
  <1>11. \A b \in BranchIds : b # own => (Settled(b)' <=> Settled(b))
    BY <1>5, <1>8, <1>9, <1>10, SettledSame
  <1>12. ASSUME NEW b \in BranchIds, NEW s, TalksIn(b, s)' PROVE TalksIn(b, s)
    <2>1. (Settled(b) /\ base[b].sdk = s)' => TalksIn(b, s)
      <3>1. CASE b = own
        BY <1>4, <1>6, <1>7, <3>1 DEF TalksIn
      <3>2. CASE b # own
        BY <1>7, <1>11, <3>2 DEF TalksIn
      <3>3. QED
        BY <3>1, <3>2
    <2>2. ASSUME NEW q \in Executions, (Opened(q) /\ exec[q].branch = b /\ exec[q].sdk = s)'
          PROVE  TalksIn(b, s)
      <3>1. q = r
        BY <1>5, <2>2 DEF Opened, Live
      <3>2. QED
        BY <1>3, <1>4, <2>2, <3>1 DEF TalksIn
    <2>3. QED
      BY <1>9, <1>12, <2>1, <2>2, TalkStays
  <1>13. ConversationsApart' /\ TurnsKnown'
    BY <1>1, <1>5, <1>9, <1>12, ApartStays, TurnsStay
  <1>14. RowsKnown'
    <2>1. ASSUME NEW b \in 1..made PROVE base'[b].sdk # None
      <3>1. b \in BranchIds
        BY TypeInvParts, BoundAssumption DEF BaseInv, BranchIds
      <3>2. CASE b = own
        BY <1>6, <1>7, <3>2
      <3>3. CASE b # own
        BY <1>5, <1>7, <3>1, <3>3 DEF RowsKnown
      <3>4. QED
        BY <3>2, <3>3
    <2>2. QED
      BY <1>1, <1>7, <2>1 DEF RowsKnown
  <1>15. HandOwn(r)'
    <2>1. ASSUME NEW b \in BranchIds, own = b PROVE OnBranch(r, b)'
      <3>1. b # Main => HasRun(b)'
        BY <1>1, <1>5, <1>6, <1>8, <1>9, <2>1, RanStays DEF OnBranch
      <3>2. Settled(b)'
        BY <1>10, <3>1 DEF Settled, Busy
      <3>3. exec'[r].fresh => b # Main
        BY <1>3, <1>6, <2>1 DEF OnBranch
      <3>4. b = Main => exec'[r].told = base'[Main].sdk
        BY <1>3, <1>7, <2>1
      <3>5. QED
        BY <1>3, <3>1, <3>2, <3>3, <3>4 DEF OnBranch
    <2>2. QED
      BY <1>3, <1>4, <1>6, <2>1 DEF HandOwn
  <1>16. QED
    BY <1>5, <1>13, <1>14, <1>15, OwnInvIsNext

LEMMA OneLands ==
  ASSUME TypeInv, NEW record \in Records, journal' = Append(journal, record)
  PROVE  /\ Extends /\ \A i \in Uuids' : i \in Uuids \/ journal'[i] = record
         /\ Len(journal) + 1 \in Uuids' /\ journal'[Len(journal) + 1] = record
  <1>1. Extends /\ \A i \in Uuids' : i \in Uuids \/ i = Len(journal) + 1
    BY AppendExtends
  <1>2. Uuids' = Uuids \cup {Len(journal) + 1} /\ journal'[Len(journal) + 1] = record
    BY Landed DEF TypeInv, TypeOK
  <1>3. QED
    BY <1>1, <1>2

(* Its first record makes a branch one that has run.                       *)
LEMMA HelloRuns ==
  ASSUME TypeInv, TreeInv, NEW r \in Executions, Live(r), exec[r].pc # "recover",
         NEW b \in BranchIds, b = exec[r].branch, b # Main,
         NEW record \in Records, journal' = Append(journal, record),
         record.branch = b, record.seq = exec[r].seq + 1, UNCHANGED base
  PROVE  HasRun(b)'
  <1>1. b \in 1..made /\ \A c \in Clients : ~Recording(c)
    BY BaseTypes, BoundAssumption DEF TreeInv, LeaseIsHeld, BranchIds, Main
  <1>2. PICK j \in On(b) : journal[j].seq > base[b].seq
    BY <1>1 DEF TreeInv, BranchesAreRecorded
  <1>3. journal[j].seq <= exec[r].seq /\ j \in Uuids
    BY <1>2, WriterAtHeadIs DEF TreeInv, AtHead, On
  <1>4. record.seq > base[b].seq + 1
    <2>1. journal[j].seq \in Nat
      BY <1>3, RecordTypes DEF TypeInv
    <2>2. exec[r].seq \in Nat /\ base[b].seq \in Nat
      BY HandTypes, BaseTypes
    <2>3. QED
      BY <1>2, <1>3, <2>1, <2>2
  <1>5. Len(journal) + 1 \in Uuids' /\ journal'[Len(journal) + 1] = record
    BY OneLands
  <1>6. QED
    BY <1>4, <1>5 DEF HasRun, On

LEMMA AppendAloneOwns ==
  ASSUME TypeInv, TypeInv', TreeInv, OwnInv, NEW r \in Executions, NEW from, NEW kind \in Kinds,
         NEW to, AppendAlone(r, from, kind, None, to), kind # "result",
         \/ from = "hello" /\ to = "setup"
         \/ from = "loop" /\ to = "turn"
         \/ from = "loop" /\ to = "release" /\ ~Untried(r)
  PROVE  OwnInv'
  <1> DEFINE record == Record(r, kind, None)
  <1>1. /\ record \in Records /\ record.branch = exec[r].branch
        /\ record.seq = exec[r].seq + 1 /\ record.kind = kind
    BY RecordIs, Lengths DEF None
  <1>2. /\ exec[r].pc = from /\ journal' = Append(journal, record)
        /\ exec' = [exec EXCEPT ![r].seq = record.seq, ![r].tip = Len(journal) + 1, ![r].pc = to]
        /\ UNCHANGED <<doc, base, made, memory>>
    BY DEF AppendAlone, Land, Advanced
  <1> HIDE DEF record
  <1>3. exec \in [Executions -> Hand] /\ exec[r] \in Hand
    BY TypeInvParts DEF HandInv
  <1>4. /\ exec' = [exec EXCEPT ![r] = exec'[r]] /\ exec'[r].pc = to
        /\ exec'[r].branch = exec[r].branch /\ exec'[r].fresh = exec[r].fresh
        /\ exec'[r].flushed = exec[r].flushed /\ exec'[r].sdk = exec[r].sdk
        /\ exec'[r].known = exec[r].known /\ exec'[r].told = exec[r].told
    BY <1>2, <1>3 DEF Hand
  <1>5. Live(r) /\ Live(r)' /\ (Opened(r)' => Opened(r))
    BY <1>2, <1>4 DEF Live, Opened
  <1>6. Extends /\ \A i \in Uuids' : i \in Uuids \/ journal'[i] = record
    BY <1>1, <1>2, OneLands
  <1>7. \A b \in BranchIds :
          exec[r].pc = "hello" /\ exec[r].branch = b /\ b # Main => HasRun(b)'
    BY <1>1, <1>2, <1>5, HelloRuns
  <1>8. QED
    BY <1>1, <1>2, <1>4, <1>5, <1>6, <1>7, RunOwns

LEMMA StepOwns ==
  ASSUME TypeInv, TypeInv', TreeInv, OwnInv, OrderlyRewinds, NEW r \in Executions,
         Hello(r) \/ Prompt(r) \/ Bye(r)
  PROVE  OwnInv'
  <1>1. CASE Hello(r)
    BY <1>1, AppendAloneOwns DEF Hello, Kinds
  <1>2. CASE Prompt(r)
    BY <1>2, AppendAloneOwns DEF Prompt, Kinds
  <1>3. CASE Bye(r)
    <2>1. ~Untried(r)
      BY <1>3 DEF Bye, OrderlyRewinds
    <2>2. QED
      BY <1>3, <2>1, AppendAloneOwns DEF Bye, Kinds
  <1>4. QED
    BY <1>1, <1>2, <1>3

(* What a run has on its way is no turn.                                   *)
LEMMA MintOwns ==
  ASSUME TypeInv, TypeInv', TreeInv, OwnInv, NEW r \in Executions, Message(r) \/ ToolCall(r)
  PROVE  OwnInv'
  <1>1. /\ UNCHANGED <<journal, doc, base, made, memory>>
        /\ \/ exec[r].pc = "turn" /\ exec' = [exec EXCEPT ![r].pc = "spoken", ![r].prompt = exec[r].tip]
           \/ exec[r].pc = "spoken" /\ exec' = [exec EXCEPT ![r].pc = "called"]
    BY DEF Message, ToolCall, Mint
  <1>2. exec \in [Executions -> Hand] /\ exec[r] \in Hand
    BY TypeInvParts DEF HandInv
  <1>3. /\ exec' = [exec EXCEPT ![r] = exec'[r]]
        /\ exec[r].pc \in {"turn", "spoken"} /\ exec'[r].pc \in {"spoken", "called"}
        /\ exec'[r].branch = exec[r].branch /\ exec'[r].fresh = exec[r].fresh
        /\ exec'[r].flushed = exec[r].flushed /\ exec'[r].sdk = exec[r].sdk
        /\ exec'[r].known = exec[r].known /\ exec'[r].told = exec[r].told
    BY <1>1, <1>2 DEF Hand
  <1>4. Live(r) /\ Live(r)' /\ (Opened(r)' => Opened(r))
    BY <1>3 DEF Live, Opened
  <1>5. Extends /\ UNCHANGED Uuids
    BY <1>1, StaysExtends DEF Uuids
  <1>6. QED
    BY <1>1, <1>3, <1>4, <1>5, RunOwns

(* A result is of the conversation the run is in.                          *)
LEMMA ResultOwns ==
  ASSUME TypeInv, TypeInv', TreeInv, OwnInv, NEW r \in Executions, Result(r) PROVE OwnInv'
  <1> DEFINE record == Record(r, "result", exec[r].sdk)
  <1>1. record \in Records /\ record.branch = exec[r].branch /\ record.sdk = exec[r].sdk
    BY RecordIs, HandTypes DEF Kinds
  <1>2. /\ journal' = Append(journal, record) /\ exec[r].pc \in {"spoken", "called"}
        /\ exec' = [exec EXCEPT ![r].seq = record.seq, ![r].tip = Len(journal) + 1,
                                ![r].pc = "flush", ![r].told = exec[r].sdk]
        /\ UNCHANGED <<doc, base, made>>
        /\ memory' = [memory EXCEPT ![exec[r].sdk] = @ \cup {exec[r].prompt}]
    BY DEF Result, Land, Advanced
  <1> HIDE DEF record
  <1>3. exec \in [Executions -> Hand] /\ exec[r] \in Hand
    BY TypeInvParts DEF HandInv
  <1>4. /\ exec' = [exec EXCEPT ![r] = exec'[r]]
        /\ exec'[r].pc = "flush" /\ exec'[r].told = exec[r].sdk
        /\ exec'[r].branch = exec[r].branch /\ exec'[r].fresh = exec[r].fresh
        /\ exec'[r].flushed = exec[r].flushed /\ exec'[r].sdk = exec[r].sdk
        /\ exec'[r].known = exec[r].known
    BY <1>2, <1>3 DEF Hand
  <1>5. Live(r) /\ Live(r)' /\ Opened(r)
    BY <1>2, <1>4 DEF Live, Opened
  <1>6. Extends /\ \A i \in Uuids' : i \in Uuids \/ journal'[i] = record
    BY <1>1, <1>2, OneLands
  <1>7. Len(memory') = Len(memory)
    <2>1. memory \in Seq(SUBSET Nat)
      BY TypeInvParts DEF RestOK
    <2>2. QED
      BY <1>2, <2>1
  <1>8. QED
    BY <1>1, <1>2, <1>4, <1>5, <1>6, <1>7, RunOwns

LEMMA WrittenOwns ==
  ASSUME TypeInv, TypeInv', TreeInv, OwnInv, NEW r \in Executions, NEW w \in Writers,
         Written(r, w)
  PROVE  OwnInv'
  <1> DEFINE record == minted[r][w]
  <1>1. /\ record # NoRecord /\ journal' = Append(journal, record)
        /\ exec' = [exec EXCEPT ![r].seq = record.seq, ![r].tip = Len(journal) + 1]
        /\ UNCHANGED <<doc, base, made, memory>>
    BY DEF Written, Land, Advanced
  <1>2. record \in Records
    BY <1>1, TypeInvParts DEF MintInv
  <1>3. /\ record.branch = exec[r].branch /\ record.kind # "result"
        /\ exec[r].pc \in {"spoken", "called"}
    <2>1. /\ exec[r].pc \in {"spoken", "called"} /\ record.kind \in {"message", "tool_call"}
          /\ record = [branch |-> exec[r].branch, seq |-> exec[r].seq + 1,
                       parent |-> exec[r].tip, kind |-> record.kind,
                       sdk |-> None, context |-> exec[r].context]
      BY <1>1 DEF TreeInv, MintedIsNext
    <2> HIDE DEF record
    <2>2. record.branch = exec[r].branch
      BY <2>1
    <2>3. QED
      BY <2>1, <2>2
  <1> HIDE DEF record
  <1>4. exec \in [Executions -> Hand] /\ exec[r] \in Hand
    BY TypeInvParts DEF HandInv
  <1>5. /\ exec' = [exec EXCEPT ![r] = exec'[r]] /\ exec'[r].pc = exec[r].pc
        /\ exec'[r].branch = exec[r].branch /\ exec'[r].fresh = exec[r].fresh
        /\ exec'[r].flushed = exec[r].flushed /\ exec'[r].sdk = exec[r].sdk
        /\ exec'[r].known = exec[r].known /\ exec'[r].told = exec[r].told
    BY <1>1, <1>4 DEF Hand
  <1>6. Live(r) /\ Live(r)' /\ Opened(r)
    BY <1>3, <1>5 DEF Live, Opened
  <1>7. Extends /\ \A i \in Uuids' : i \in Uuids \/ journal'[i] = record
    BY <1>1, <1>2, OneLands
  <1>8. QED
    BY <1>1, <1>3, <1>5, <1>6, <1>7, RunOwns

LEMMA NotWrittenOwns ==
  ASSUME TypeInv, TypeInv', OwnInv, NEW r \in Executions, NotWritten(r) PROVE OwnInv'
  BY AsideOwns DEF NotWritten

(* A run that fails has flushed, or is not the first of its branch.        *)
LEMMA FailOwns ==
  ASSUME TypeInv, TypeInv', TreeInv, OwnInv, OrderlyRewinds, NEW r \in Executions, Fail(r)
  PROVE  OwnInv'
  <1> DEFINE record == Record(r, "error", exec[r].known)
  <1>1. record \in Records /\ record.branch = exec[r].branch /\ record.kind = "error"
    BY RecordIs, HandTypes DEF Kinds
  <1>2. /\ journal' = Append(journal, record)
        /\ exec[r].pc \in {"setup", "loop", "turn", "spoken", "called", "flush"}
        /\ exec' = [exec EXCEPT ![r].seq = record.seq, ![r].tip = Len(journal) + 1,
                                ![r].pc = "fail_release"]
        /\ UNCHANGED <<doc, base, made, memory>> /\ ~Untried(r)
    BY DEF Fail, Land, Advanced, Trouble, OrderlyRewinds
  <1> HIDE DEF record
  <1>3. exec \in [Executions -> Hand] /\ exec[r] \in Hand
    BY TypeInvParts DEF HandInv
  <1>4. /\ exec' = [exec EXCEPT ![r] = exec'[r]] /\ exec'[r].pc = "fail_release"
        /\ exec'[r].branch = exec[r].branch /\ exec'[r].fresh = exec[r].fresh
        /\ exec'[r].flushed = exec[r].flushed /\ exec'[r].sdk = exec[r].sdk
        /\ exec'[r].known = exec[r].known
    BY <1>2, <1>3 DEF Hand
  <1>5. Live(r) /\ Live(r)' /\ ~Opened(r)'
    BY <1>2, <1>4 DEF Live, Opened
  <1>6. Extends /\ \A i \in Uuids' : i \in Uuids \/ journal'[i] = record
    BY <1>1, <1>2, OneLands
  <1>7. QED
    BY <1>1, <1>2, <1>4, <1>5, <1>6, RunOwns

LEMMA ReleaseOwns ==
  ASSUME TypeInv, TypeInv', TreeInv, OwnInv, NEW r \in Executions, Release(r) \/ FailRelease(r)
  PROVE  OwnInv'
  <1>1. /\ \/ /\ exec[r].pc = "release"
              /\ doc' = [doc EXCEPT !.lease = None, !.head = exec[r].seq, !.sdk = exec[r].told]
           \/ /\ exec[r].pc = "fail_release"
              /\ doc' = [doc EXCEPT !.lease = None, !.head = exec[r].seq]
        /\ exec' = [exec EXCEPT ![r] = Gone]
        /\ UNCHANGED <<journal, base, made, memory>>
    BY DEF Release, FailRelease
  <1>2. Live(r) /\ ~Untried(r)
    BY <1>1, OwnInvIs DEF Live, HandOwn
  <1>3. doc'.active = doc.active
        /\ (doc'.sdk = doc.sdk \/ (exec[r].pc = "release" /\ doc'.sdk = exec[r].told))
    BY <1>1, TypeInvParts DEF BaseInv
  <1>4. QED
    BY <1>1, <1>2, <1>3, LeaveOwns

LEMMA DieOwns ==
  ASSUME TypeInv, TypeInv', TreeInv, OwnInv, OrderlyRewinds, NEW r \in Executions, Die(r)
  PROVE  OwnInv'
  <1>1. /\ exec' = [exec EXCEPT ![r] = Gone] /\ ~Untried(r)
        /\ UNCHANGED <<journal, doc, base, made, memory>>
    BY DEF Die, Trouble, OrderlyRewinds
  <1>2. CASE Live(r)
    BY <1>1, <1>2, LeaveOwns
  <1>3. CASE ~Live(r)
    <2>1. exec'[r] = Gone /\ \A q \in Executions : q # r => exec'[q] = exec[q]
      BY <1>1, TypeInvParts DEF HandInv
    <2>2. ~Live(r)' /\ ~exec'[r].fresh /\ ~exec'[r].flushed
      BY <2>1 DEF Gone, Idle, Live
    <2>3. QED
      BY <1>1, <1>3, <2>1, <2>2, AsideOwns
  <1>4. QED
    BY <1>2, <1>3

LEMMA NextOwnInv ==
  ASSUME TypeInv, TypeInv', TreeInv, OwnInv, OrderlyRewinds, [Next]_vars PROVE OwnInv'
  <1>1. CASE UNCHANGED vars
    BY <1>1, AsideOwns DEF vars
  <1>2. ASSUME NEW c \in Clients, ClientStep(c) PROVE OwnInv'
    BY <1>2, AttachOwns, RewindOwns, RecordBranchOwns, SendOwns DEF ClientStep
  <1>3. ASSUME NEW r \in Executions, Run(r) PROVE OwnInv'
    <2>1. CASE Claim(r) \/ Recover(r) \/ Setup(r) \/ Flush(r)
      BY <2>1, ClaimOwns, RecoverOwns, SetupOwns, FlushOwns
    <2>2. CASE Hello(r) \/ Prompt(r) \/ Bye(r)
      BY <2>2, StepOwns
    <2>3. CASE Message(r) \/ ToolCall(r) \/ Result(r)
      BY <2>3, MintOwns, ResultOwns
    <2>4. CASE Written(r, "loop") \/ Written(r, "hook") \/ NotWritten(r)
      BY <2>4, WrittenOwns, NotWrittenOwns DEF Writers
    <2>5. CASE Fail(r) \/ Release(r) \/ FailRelease(r) \/ Die(r)
      BY <2>5, FailOwns, ReleaseOwns, DieOwns
    <2>6. QED
      BY <1>3, <2>1, <2>2, <2>3, <2>4, <2>5 DEF Run
  <1>4. CASE Lapse
    BY <1>4, LapseOwns
  <1>5. QED
    BY <1>1, <1>2, <1>3, <1>4 DEF Next

LEMMA InitOwnInv == Init => OwnInv
  <1> SUFFICES ASSUME Init PROVE OwnInv
    OBVIOUS
  <1>1. /\ journal = <<>> /\ memory = <<>> /\ made = 0
        /\ doc = [active |-> Main, head |-> 0, sdk |-> None, lease |-> None]
        /\ \A r \in Executions : exec[r] = Idle
        /\ \A b \in BranchIds : base[b].sdk = None
    BY DEF Init
  <1>2. \A r \in Executions :
          ~Live(r) /\ ~Opened(r) /\ ~exec[r].fresh /\ ~exec[r].flushed /\ exec[r].pc = "off"
    BY <1>1 DEF Idle, Live, Opened
  <1>3. ConversationsApart
    BY <1>1 DEF ConversationsApart
  <1>4. ConversationsKnown
    BY <1>1, <1>2 DEF ConversationsKnown, Turns, Uuids
  <1>5. FreshOnce
    BY <1>2 DEF FreshOnce, Untried
  <1>6. MainIsSessions
    BY <1>1, <1>2, BoundAssumption DEF MainIsSessions, BranchIds, Main
  <1>7. QED
    BY <1>3, <1>4, <1>5, <1>6 DEF OwnInv

LEMMA OwnInvHolds == OrderlyRewinds /\ Spec => [](TypeInv /\ TreeInv /\ OwnInv)
  <1> SUFFICES ASSUME OrderlyRewinds PROVE Spec => [](TypeInv /\ TreeInv /\ OwnInv)
    OBVIOUS
  <1>1. Init => OwnInv
    BY InitOwnInv
  <1>2. NoEarlyClaim
    BY DEF OrderlyRewinds, NoEarlyClaim
  <1>3. TypeInv /\ TypeInv' /\ TreeInv /\ OwnInv /\ [Next]_vars => OwnInv'
    BY NextOwnInv
  <1>4. QED
    BY <1>1, <1>2, <1>3, TreeInvHolds, PTL DEF Spec

(* A rewound branch never talks in the conversation of another: claude's   *)
(* sessions fork where branches do (build_sdk_options's fork_session), as  *)
(* long as the first run of a branch gets to its first flush and nobody    *)
(* rewinds to the start or to a failed run's result.                       *)
THEOREM ConversationsOwned == ASSUME OrderlyRewinds PROVE Spec => []OwnConversation
  <1>1. TypeInv /\ OwnInv => OwnConversation
    <2> SUFFICES ASSUME TypeInv, OwnInv, NEW i \in Turns, NEW j \in Turns,
                        journal[i].sdk = journal[j].sdk
                 PROVE  journal[i].branch = journal[j].branch
      BY DEF OwnConversation
    <2>1. /\ i \in Uuids /\ j \in Uuids
          /\ journal[i].branch \in BranchIds /\ journal[j].branch \in BranchIds
          /\ journal[i].sdk \in Nat /\ journal[i].sdk <= Len(memory) /\ Len(memory) \in Nat
      BY RecordTypes, Lengths DEF Turns, TypeInv, PointersHold, RecordsPointBack, Known
    <2>2. journal[i].sdk \in 1..Len(memory)
      BY <2>1 DEF OwnInv, ConversationsKnown, None
    <2>3. TalksIn(journal[i].branch, journal[i].sdk) /\ TalksIn(journal[j].branch, journal[i].sdk)
      BY DEF TalksIn
    <2>4. QED
      BY <2>1, <2>2, <2>3 DEF OwnInv, ConversationsApart
  <1>2. QED
    BY <1>1, OwnInvHolds, PTL

-----------------------------------------------------------------------------
(* Whoever answers remembers the lineage.                                  *)

(* The walk that gathers a lineage, over the records of any journal j.     *)

LineWalk(j, f, event) ==
  f = [i \in 0..event |-> IF i = None THEN {} ELSE {i} \cup f[j[i].parent]]

LineWalkIsOne(j, event) ==
  /\ \E f : LineWalk(j, f, event)
  /\ \A f, g : LineWalk(j, f, event) /\ LineWalk(j, g, event) => f = g

LEMMA LineWalkAt ==
  ASSUME NEW j, NEW event, NEW f, LineWalk(j, f, event), NEW i \in 0..event
  PROVE  /\ i = None => f[i] = {}
         /\ i # None => f[i] = {i} \cup f[j[i].parent]
  BY DEF LineWalk

LEMMA LineWalkPrefix ==
  ASSUME NEW j, NEW event \in Nat, \A i \in 1..event : j[i].parent \in 0..(i - 1),
         NEW f, LineWalk(j, f, event), NEW e \in 0..event
  PROVE  LineWalk(j, [i \in 0..e |-> f[i]], e)
  <1> DEFINE g == [i \in 0..e |-> f[i]]
  <1>1. ASSUME NEW i \in 0..e
        PROVE  g[i] = IF i = None THEN {} ELSE {i} \cup g[j[i].parent]
    <2>1. i \in 0..event
      OBVIOUS
    <2>2. f[i] = IF i = None THEN {} ELSE {i} \cup f[j[i].parent]
      BY <2>1 DEF LineWalk
    <2>3. i # None => j[i].parent \in 0..e
      BY DEF None
    <2>4. QED
      BY <2>2, <2>3
  <1>2. g = [i \in 0..e |-> IF i = None THEN {} ELSE {i} \cup g[j[i].parent]]
    BY <1>1
  <1>3. QED
    BY <1>2 DEF LineWalk

LEMMA LineWalkExtends ==
  ASSUME NEW j, NEW n \in Nat, \A i \in 1..(n + 1) : j[i].parent \in 0..(i - 1),
         LineWalkIsOne(j, n)
  PROVE  LineWalkIsOne(j, n + 1)
  <1>1. \E f : LineWalk(j, f, n + 1)
    <2>1. PICK f : LineWalk(j, f, n)
      BY DEF LineWalkIsOne
    <2> DEFINE g == [i \in 0..(n + 1) |->
                       IF i = n + 1 THEN {i} \cup f[j[i].parent] ELSE f[i]]
    <2>2. ASSUME NEW i \in 0..(n + 1)
          PROVE  g[i] = IF i = None THEN {} ELSE {i} \cup g[j[i].parent]
      <3>1. i # None => j[i].parent \in 0..n
        BY DEF None
      <3>2. \A k \in 0..n : g[k] = f[k]
        OBVIOUS
      <3>3. CASE i = n + 1
        BY <3>1, <3>2, <3>3 DEF None
      <3>4. CASE i # n + 1
        <4>1. i \in 0..n
          BY <3>4
        <4>2. f[i] = IF i = None THEN {} ELSE {i} \cup f[j[i].parent]
          BY <2>1, <4>1 DEF LineWalk
        <4>3. QED
          BY <3>1, <3>2, <4>1, <4>2
      <3>5. QED
        BY <3>3, <3>4
    <2>3. g = [i \in 0..(n + 1) |-> IF i = None THEN {} ELSE {i} \cup g[j[i].parent]]
      BY <2>2
    <2>4. LineWalk(j, g, n + 1)
      BY <2>3 DEF LineWalk
    <2>5. QED
      BY <2>4
  <1>2. ASSUME NEW f, NEW g, LineWalk(j, f, n + 1), LineWalk(j, g, n + 1)
        PROVE  f = g
    <2>1. n + 1 \in Nat /\ n \in 0..(n + 1)
      OBVIOUS
    <2>2. LineWalk(j, [i \in 0..n |-> f[i]], n) /\ LineWalk(j, [i \in 0..n |-> g[i]], n)
      BY <1>2, <2>1, LineWalkPrefix
    <2>3. [i \in 0..n |-> f[i]] = [i \in 0..n |-> g[i]]
      BY <2>2 DEF LineWalkIsOne
    <2>4. ASSUME NEW i \in 0..n PROVE f[i] = g[i]
      <3>1. [k \in 0..n |-> f[k]][i] = f[i] /\ [k \in 0..n |-> g[k]][i] = g[i]
        OBVIOUS
      <3>2. QED
        BY <2>3, <3>1
    <2>5. f[n + 1] = g[n + 1]
      <3>1. n + 1 \in 0..(n + 1) /\ n + 1 # None /\ j[n + 1].parent \in 0..n
        BY DEF None
      <3>2. f[j[n + 1].parent] = g[j[n + 1].parent]
        BY <2>4, <3>1
      <3>3. /\ f[n + 1] = {n + 1} \cup f[j[n + 1].parent]
            /\ g[n + 1] = {n + 1} \cup g[j[n + 1].parent]
        BY <1>2, <3>1, LineWalkAt
      <3>4. QED
        BY <3>1, <3>2, <3>3
    <2>6. \A i \in 0..(n + 1) : f[i] = g[i]
      BY <2>4, <2>5
    <2>7. DOMAIN f = 0..(n + 1) /\ DOMAIN g = 0..(n + 1)
      BY <1>2 DEF LineWalk
    <2>8. f = [i \in 0..(n + 1) |-> f[i]] /\ g = [i \in 0..(n + 1) |-> g[i]]
      BY <1>2, <2>7 DEF LineWalk
    <2>9. QED
      BY <2>6, <2>8
  <1>3. QED
    BY <1>1, <1>2 DEF LineWalkIsOne

(* What the walk from a record gathers.                                    *)
Gathered(j, event) == (CHOOSE w : LineWalk(j, w, event))[event]

LEMMA LineageIsGathered ==
  ASSUME NEW event
  PROVE  Lineage(event) = Gathered(journal, event) /\ Lineage(event)' = Gathered(journal', event)
  BY DEF Lineage, Gathered, LineWalk

LEMMA GatheredIs ==
  ASSUME NEW j, NEW event \in Nat, LineWalkIsOne(j, event), NEW f, LineWalk(j, f, event)
  PROVE  Gathered(j, event) = f[event]
  <1> DEFINE w == CHOOSE w : LineWalk(j, w, event)
  <1>1. LineWalk(j, w, event)
    BY DEF LineWalkIsOne
  <1>2. w = f
    BY <1>1 DEF LineWalkIsOne
  <1>3. QED
    BY <1>2 DEF Gathered

LEMMA GatheredUnfolds ==
  ASSUME NEW j, NEW n \in Nat, \A i \in 1..n : j[i].parent \in 0..(i - 1),
         \A e \in 0..n : LineWalkIsOne(j, e), NEW event \in 0..n
  PROVE  Gathered(j, event) = IF event = None THEN {} ELSE {event} \cup Gathered(j, j[event].parent)
  <1>1. event \in Nat /\ \A i \in 1..event : j[i].parent \in 0..(i - 1)
    OBVIOUS
  <1>2. PICK f : LineWalk(j, f, event)
    BY DEF LineWalkIsOne
  <1>3. ASSUME NEW e \in 0..event PROVE Gathered(j, e) = f[e]
    <2>1. LineWalk(j, [i \in 0..e |-> f[i]], e)
      BY <1>1, <1>2, LineWalkPrefix
    <2>2. e \in 0..n /\ e \in Nat
      OBVIOUS
    <2>3. Gathered(j, e) = [i \in 0..e |-> f[i]][e]
      BY <2>1, <2>2, GatheredIs
    <2>4. QED
      BY <2>2, <2>3
  <1>4. /\ event = None => f[event] = {}
        /\ event # None => f[event] = {event} \cup f[j[event].parent]
    <2>1. event \in 0..event
      BY <1>1
    <2>2. QED
      BY <1>2, <2>1, LineWalkAt
  <1>5. event # None => j[event].parent \in 0..event
    BY <1>1 DEF None
  <1>6. QED
    BY <1>3, <1>4, <1>5

LEMMA GatheredAgrees ==
  ASSUME NEW j, NEW k, NEW event \in Nat, \A i \in 1..event : j[i] = k[i]
  PROVE  /\ LineWalkIsOne(j, event) <=> LineWalkIsOne(k, event)
         /\ Gathered(j, event) = Gathered(k, event)
  <1>1. \A f : LineWalk(j, f, event) <=> LineWalk(k, f, event)
    <2>1. ASSUME NEW f
          PROVE  [i \in 0..event |-> IF i = None THEN {} ELSE {i} \cup f[j[i].parent]]
               = [i \in 0..event |-> IF i = None THEN {} ELSE {i} \cup f[k[i].parent]]
      <3>1. \A i \in 0..event : i # None => j[i] = k[i]
        BY DEF None
      <3>2. QED
        BY <3>1
    <2>2. QED
      BY <2>1 DEF LineWalk
  <1>2. (CHOOSE w : LineWalk(j, w, event)) = (CHOOSE w : LineWalk(k, w, event))
    BY <1>1
  <1>3. QED
    BY <1>1, <1>2 DEF LineWalkIsOne, Gathered

(* Every record has one lineage, of records up to itself.                  *)
LineagesEnd ==
  \A event \in 0..Len(journal) :
    LineWalkIsOne(journal, event) /\ Lineage(event) \subseteq 1..event

LEMMA LineageOf ==
  ASSUME TypeInv, LineagesEnd, NEW event \in 0..Len(journal)
  PROVE  Lineage(event) = IF event = None THEN {} ELSE {event} \cup Lineage(journal[event].parent)
  <1>1. Len(journal) \in Nat /\ \A i \in 1..Len(journal) : journal[i].parent \in 0..(i - 1)
    BY Lengths, ParentsBefore DEF TypeInv, PointersHold
  <1>2. \A e \in 0..Len(journal) : LineWalkIsOne(journal, e)
    BY DEF LineagesEnd
  <1>3. Gathered(journal, event) =
          IF event = None THEN {} ELSE {event} \cup Gathered(journal, journal[event].parent)
    BY <1>1, <1>2, GatheredUnfolds
  <1>4. QED
    BY <1>3, LineageIsGathered

(* The records that are there keep theirs as others land.                  *)
LEMMA LineagesKept ==
  ASSUME TypeInv, LineagesEnd, Extends, NEW event \in 0..Len(journal)
  PROVE  Lineage(event)' = Lineage(event) /\ LineWalkIsOne(journal', event)
  <1>1. event \in Nat /\ \A i \in 1..event : journal[i] = journal'[i]
    BY Lengths DEF Extends
  <1>2. /\ LineWalkIsOne(journal, event) <=> LineWalkIsOne(journal', event)
        /\ Gathered(journal, event) = Gathered(journal', event)
    BY <1>1, GatheredAgrees
  <1>3. LineWalkIsOne(journal, event)
    BY DEF LineagesEnd
  <1>4. QED
    BY <1>2, <1>3, LineageIsGathered

LEMMA LineageLanded ==
  ASSUME TypeInv, TypeInv', LineagesEnd, NEW n \in Nat, n = Len(journal),
         NEW record \in Records, record.parent <= n, journal' = Append(journal, record)
  PROVE  LineagesEnd' /\ Lineage(n + 1)' = {n + 1} \cup Lineage(record.parent)
  <1>1. Extends /\ Len(journal') = n + 1 /\ journal'[n + 1] = record /\ record.parent \in 0..n
    <2>1. record.parent \in Nat
      BY DEF Records
    <2>2. Extends
      BY AppendExtends
    <2>3. Len(journal') = n + 1 /\ journal'[n + 1] = record
      BY Landed DEF TypeInv, TypeOK
    <2>4. QED
      BY <2>1, <2>2, <2>3
  <1>2. \A e \in 0..n : Lineage(e)' = Lineage(e) /\ LineWalkIsOne(journal', e)
    BY <1>1, LineagesKept
  <1>3. \A i \in 1..(n + 1) : journal'[i].parent \in 0..(i - 1)
    <2>1. \A i \in 1..n : journal[i].parent \in 0..(i - 1)
      BY ParentsBefore DEF TypeInv, PointersHold
    <2>2. \A i \in 1..n : journal'[i] = journal[i]
      BY <1>1, Lengths DEF Extends
    <2>3. QED
      BY <1>1, <2>1, <2>2
  <1>4. LineWalkIsOne(journal', n + 1)
    <2>1. LineWalkIsOne(journal', n)
      BY <1>2
    <2>2. QED
      BY <1>3, <2>1, LineWalkExtends
  <1>5. \A e \in 0..(n + 1) : LineWalkIsOne(journal', e)
    BY <1>2, <1>4
  <1>6. Lineage(n + 1)' = {n + 1} \cup Lineage(record.parent)
    <2>1. n + 1 \in 0..(n + 1) /\ n + 1 # None /\ n + 1 \in Nat
      BY DEF None
    <2>2. Gathered(journal', n + 1) =
            IF n + 1 = None THEN {} ELSE {n + 1} \cup Gathered(journal', journal'[n + 1].parent)
      <3>1. n + 1 \in Nat /\ \A e \in 0..(n + 1) : LineWalkIsOne(journal', e)
        BY <1>5, <2>1
      <3>2. QED
        BY ZenonT(60), <1>3, <2>1, <3>1, GatheredUnfolds
    <2>3. /\ Lineage(n + 1)' = Gathered(journal', n + 1)
          /\ Lineage(record.parent)' = Gathered(journal', record.parent)
          /\ Lineage(record.parent)' = Lineage(record.parent)
      BY <1>1, <1>2, LineageIsGathered
    <2>4. QED
      BY <1>1, <2>1, <2>2, <2>3
  <1>7. ASSUME NEW e \in 0..(n + 1) PROVE Lineage(e)' \subseteq 1..e
    <2>1. \A i \in 0..n : Lineage(i) \subseteq 1..i
      BY DEF LineagesEnd
    <2>2. CASE e \in 0..n
      BY <1>2, <2>1, <2>2
    <2>3. CASE e = n + 1
      <3>1. Lineage(record.parent) \subseteq 1..record.parent
        BY <1>1, <2>1
      <3>2. QED
        BY <1>1, <1>6, <2>3, <3>1
    <2>4. QED
      BY <2>2, <2>3
  <1>8. LineagesEnd'
    BY <1>1, <1>5, <1>7 DEF LineagesEnd
  <1>9. QED
    BY <1>6, <1>8

-----------------------------------------------------------------------------
(* RecallInv over the records j and the conversations m.                   *)

TurnsIn(j) == {i \in DOMAIN j : j[i].kind = "result"}

TurnsOf(j, p) ==
  {i \in TurnsIn(j) : p \in Gathered(j, i) /\ WalkEnd(j, p) = WalkEnd(j, j[i].parent)}

RecallsOf(j, m, s, i) ==
  Gathered(j, i) \cap TurnsIn(j) \subseteq
    IF s = None THEN {} ELSE UNION {TurnsOf(j, p) : p \in m[s]}

TurnsHold == \A i \in TurnsIn(journal) : RecallsOf(journal, memory, journal[i].sdk, i)

RowHolds(b) ==
  (\A r \in Executions : exec[r].pc = "flush" => exec[r].branch # b) =>
    /\ (\A i \in Uuids : journal[i].branch # b) =>
         RecallsOf(journal, memory, base[b].sdk, base[b].uuid)
    /\ \A i \in Uuids : journal[i].branch = b => RecallsOf(journal, memory, base[b].sdk, i)

RunHolds(r) ==
  /\ Opened(r) => \A i \in Uuids :
       journal[i].branch = exec[r].branch => RecallsOf(journal, memory, exec[r].sdk, i)
  /\ exec[r].pc = "turn" => exec[r].tip # None
  /\ exec[r].pc \in {"spoken", "called"} =>
       /\ exec[r].prompt \in Gathered(journal, exec[r].tip)
       /\ WalkEnd(journal, exec[r].prompt) = WalkEnd(journal, exec[r].tip)

HoldsInv == TurnsHold /\ (\A b \in BranchIds : RowHolds(b)) /\ (\A r \in Executions : RunHolds(r))

LEMMA RecallInvIs == RecallInv <=> HoldsInv
  <1>1. ASSUME NEW i PROVE Lineage(i) = Gathered(journal, i) /\ TurnBase(i) = WalkEnd(journal, i)
    BY LineageIsGathered, TurnBaseIsWalkEnd
  <1>2. Turns = TurnsIn(journal)
    BY DEF Turns, TurnsIn, Uuids
  <1>3. ASSUME NEW p PROVE TurnOf(p) = TurnsOf(journal, p)
    <2>1. ASSUME NEW i \in Turns
          PROVE  (p \in Lineage(i) /\ TurnBase(p) = TurnBase(journal[i].parent))
                 <=> (p \in Gathered(journal, i) /\ WalkEnd(journal, p) = WalkEnd(journal, journal[i].parent))
      BY <1>1
    <2>2. QED
      BY <1>2, <2>1 DEF TurnOf, TurnsOf
  <1>4. ASSUME NEW s, NEW i PROVE Recalls(s, i) <=> RecallsOf(journal, memory, s, i)
    BY <1>1, <1>2, <1>3, Zenon DEF Recalls, Recalled, RecallsOf
  <1>5. TurnsRecalled <=> TurnsHold
    BY <1>2, <1>4 DEF TurnsRecalled, TurnsHold
  <1>6. RowsRecall <=> \A b \in BranchIds : RowHolds(b)
    BY <1>4 DEF RowsRecall, RowHolds, On
  <1>7. RunsRecall <=> \A r \in Executions : RunHolds(r)
    BY <1>1, <1>4 DEF RunsRecall, RunHolds, On
  <1>8. QED
    BY <1>5, <1>6, <1>7 DEF RecallInv, HoldsInv

(* What the records that are there tell does not change.                   *)
LEMMA PastStays ==
  ASSUME TypeInv, LineagesEnd, Extends, NEW e \in 0..Len(journal)
  PROVE  /\ Gathered(journal', e) = Gathered(journal, e) /\ Gathered(journal, e) \subseteq 1..e
         /\ WalkEnd(journal', e) = WalkEnd(journal, e)
  <1>1. e \in Nat /\ \A i \in 1..e : journal[i] = journal'[i]
    BY Lengths DEF Extends
  <1>2. Lineage(e) \subseteq 1..e
    BY DEF LineagesEnd
  <1>3. QED
    BY <1>1, <1>2, GatheredAgrees, WalkEndAgrees, LineageIsGathered

(* A prompt keeps its turns.                                               *)
LEMMA TurnsOfStay ==
  ASSUME TypeInv, LineagesEnd, Extends, NEW p
  PROVE  TurnsOf(journal, p) \subseteq TurnsOf(journal', p)
  <1> SUFFICES ASSUME NEW i \in TurnsOf(journal, p) PROVE i \in TurnsOf(journal', p)
    OBVIOUS
  <1>1. /\ i \in Uuids /\ journal[i].kind = "result" /\ p \in Gathered(journal, i)
        /\ WalkEnd(journal, p) = WalkEnd(journal, journal[i].parent)
    BY DEF TurnsOf, TurnsIn, Uuids
  <1>2. i \in 1..Len(journal) /\ journal[i].parent \in 0..(i - 1) /\ Len(journal) \in Nat
    BY <1>1, Lengths, ParentsBefore DEF TypeInv, PointersHold
  <1>3. i \in 0..Len(journal) /\ journal[i].parent \in 0..Len(journal)
    BY <1>2
  <1>4. p \in 1..i
    BY <1>1, <1>3, PastStays
  <1>5. p \in 0..Len(journal)
    BY <1>2, <1>4
  <1>6. /\ Gathered(journal', i) = Gathered(journal, i)
        /\ WalkEnd(journal', p) = WalkEnd(journal, p)
        /\ WalkEnd(journal', journal[i].parent) = WalkEnd(journal, journal[i].parent)
    BY <1>3, <1>5, PastStays
  <1>7. i \in DOMAIN journal' /\ journal'[i] = journal[i]
    BY <1>1 DEF Extends, Uuids
  <1>8. QED
    BY <1>1, <1>6, <1>7 DEF TurnsOf, TurnsIn

LEMMA OldTurns ==
  ASSUME TypeInv, Extends, NEW i \in Uuids
  PROVE  i \in TurnsIn(journal') <=> i \in TurnsIn(journal)
  BY DEF TurnsIn, Extends, Uuids

(* A conversation that holds what another held recalls what it recalled.   *)
LEMMA RecallStays ==
  ASSUME TypeInv, LineagesEnd, Extends, NEW s, NEW t,
         s # None => t # None /\ memory[s] \subseteq memory'[t],
         NEW i \in 0..Len(journal), RecallsOf(journal, memory, s, i)
  PROVE  RecallsOf(journal', memory', t, i)
  <1> SUFFICES ASSUME NEW k \in Gathered(journal', i), k \in TurnsIn(journal')
               PROVE  t # None /\ \E p \in memory'[t] : k \in TurnsOf(journal', p)
    BY DEF RecallsOf
  <1>1. k \in Gathered(journal, i) /\ k \in 1..i
    BY PastStays
  <1>2. k \in Uuids
    BY <1>1, Lengths
  <1>3. k \in TurnsIn(journal)
    BY <1>2, OldTurns
  <1>4. s # None /\ \E p \in memory[s] : k \in TurnsOf(journal, p)
    BY <1>1, <1>3 DEF RecallsOf
  <1>5. QED
    BY <1>4, TurnsOfStay

(* ... and the record that lands behind, unless it is a turn.              *)
LEMMA RecallLands ==
  ASSUME TypeInv, TypeInv', LineagesEnd, NEW n \in Nat, n = Len(journal),
         NEW record \in Records, record.parent <= n, journal' = Append(journal, record),
         record.kind # "result", NEW s, NEW t,
         s # None => t # None /\ memory[s] \subseteq memory'[t],
         RecallsOf(journal, memory, s, record.parent)
  PROVE  RecallsOf(journal', memory', t, n + 1)
  <1>1. record.parent \in 0..Len(journal)
    BY Lengths DEF Records
  <1>2. RecallsOf(journal', memory', t, record.parent)
    BY <1>1, RecallStays, AppendExtends
  <1>3. Gathered(journal', n + 1) = {n + 1} \cup Gathered(journal', record.parent)
    <2>1. Lineage(n + 1)' = {n + 1} \cup Lineage(record.parent)
      BY LineageLanded
    <2>2. Gathered(journal', record.parent) = Gathered(journal, record.parent)
      BY <1>1, PastStays, AppendExtends
    <2>3. Lineage(n + 1)' = Gathered(journal', n + 1)
      BY LineageIsGathered
    <2>4. Lineage(record.parent) = Gathered(journal, record.parent)
      BY LineageIsGathered
    <2>5. QED
      BY <2>1, <2>2, <2>3, <2>4
  <1>4. n + 1 \notin TurnsIn(journal')
    BY OneLands DEF TurnsIn
  <1>5. QED
    BY <1>2, <1>3, <1>4 DEF RecallsOf

-----------------------------------------------------------------------------
(* The steps.                                                              *)

(* A step that writes nothing and flushes nothing.                         *)
LEMMA HoldsAside ==
  ASSUME HoldsInv, UNCHANGED <<journal, base, memory>>,
         \A q \in Executions :
           exec'[q] = exec[q] \/ (~Opened(q)' /\ exec[q].pc # "flush")
  PROVE  HoldsInv'
  <1>1. UNCHANGED Uuids
    BY DEF Uuids
  <1>2. TurnsHold'
    BY DEF HoldsInv, TurnsHold
  <1>3. ASSUME NEW b \in BranchIds PROVE RowHolds(b)'
    <2>1. RowHolds(b)
      BY DEF HoldsInv
    <2>2. \A q \in Executions : exec[q].pc = "flush" => exec'[q] = exec[q]
      OBVIOUS
    <2>3. QED
      BY <1>1, <2>1, <2>2 DEF RowHolds
  <1>4. ASSUME NEW q \in Executions PROVE RunHolds(q)'
    <2>1. RunHolds(q)
      BY DEF HoldsInv
    <2>2. CASE exec'[q] = exec[q]
      BY <1>1, <2>1, <2>2 DEF RunHolds, Opened
    <2>3. CASE ~Opened(q)'
      BY <2>3 DEF RunHolds, Opened
    <2>4. QED
      BY <2>2, <2>3
  <1>5. QED
    BY <1>2, <1>3, <1>4 DEF HoldsInv

LEMMA ClientHolds ==
  ASSUME TypeInv, HoldsInv, NEW c \in Clients, Attach(c) \/ Send(c) \/ Stream(c)
  PROVE  HoldsInv'
  <1>1. UNCHANGED <<journal, base, memory>>
    BY DEF Attach, Send, Stream, execVars
  <1>2. UNCHANGED exec
          \/ \E r \in Executions : exec[r].pc = "off" /\ exec' = [exec EXCEPT ![r].pc = "boot"]
    BY DEF Attach, Send, Stream, execVars
  <1>3. CASE UNCHANGED exec
    BY <1>1, <1>3, HoldsAside
  <1>4. CASE \E r \in Executions : exec[r].pc = "off" /\ exec' = [exec EXCEPT ![r].pc = "boot"]
    <2>1. PICK r \in Executions : exec[r].pc = "off" /\ exec' = [exec EXCEPT ![r].pc = "boot"]
      BY <1>4
    <2>2. exec \in [Executions -> Hand] /\ exec[r] \in Hand
      BY TypeInvParts DEF HandInv
    <2>3. exec'[r].pc = "boot" /\ \A q \in Executions : q # r => exec'[q] = exec[q]
      BY <2>1, <2>2 DEF Hand
    <2>4. QED
      BY <1>1, <2>1, <2>3, HoldsAside DEF Opened
  <1>5. QED
    BY <1>2, <1>3, <1>4

(* The runs that are not in a conversation, or leave it flushed.           *)
LEMMA AsideHolds ==
  ASSUME TypeInv, HoldsInv, FlushedTurns, NEW r \in Executions,
         Claim(r) \/ Recover(r) \/ NotWritten(r) \/ Release(r) \/ FailRelease(r) \/ Die(r)
  PROVE  HoldsInv'
  <1>1. UNCHANGED <<journal, base, memory>>
    BY DEF Claim, Recover, NotWritten, Release, FailRelease, Die
  <1>2. exec \in [Executions -> Hand] /\ exec[r] \in Hand
    BY TypeInvParts DEF HandInv
  <1>3. CASE NotWritten(r)
    BY <1>1, <1>3, HoldsAside DEF NotWritten
  <1>4. CASE Release(r) \/ FailRelease(r) \/ Die(r)
    <2>1. exec' = [exec EXCEPT ![r] = Gone] /\ exec[r].pc # "flush"
      BY <1>4 DEF Release, FailRelease, Die, Trouble, FlushedTurns, OrderlyRewinds
    <2>2. exec'[r] = Gone /\ \A q \in Executions : q # r => exec'[q] = exec[q]
      BY <1>2, <2>1
    <2>3. ~Opened(r)'
      BY <2>2, GoneIsHand DEF Opened
    <2>4. QED
      BY <1>1, <2>1, <2>2, <2>3, HoldsAside
  <1>5. CASE Recover(r)
    <2> DEFINE at == Recovered(exec[r].branch)
               fresh == IsFresh(exec[r].branch, at[1])
    <2>1. /\ exec[r].pc = "recover"
          /\ exec' = [exec EXCEPT ![r].pc = "hello", ![r].seq = at[1], ![r].tip = at[2],
                                  ![r].fresh = fresh]
      BY <1>5 DEF Recover
    <2> HIDE DEF at, fresh
    <2>2. exec'[r].pc = "hello" /\ \A q \in Executions : q # r => exec'[q] = exec[q]
      BY <1>2, <2>1 DEF Hand
    <2>3. QED
      BY <1>1, <2>1, <2>2, HoldsAside DEF Opened
  <1>6. CASE Claim(r)
    <2>1. exec[r].pc = "boot"
          /\ \/ exec' = [exec EXCEPT ![r] = Gone]
             \/ exec' = [exec EXCEPT ![r].pc = "recover", ![r].branch = doc.active,
                                     ![r].known = doc.sdk, ![r].context = doc.sdk]
      BY <1>6 DEF Claim
    <2>2. exec'[r].pc \in {"done", "recover"} /\ \A q \in Executions : q # r => exec'[q] = exec[q]
      BY <1>2, <2>1, GoneIsHand DEF Hand
    <2>3. QED
      BY <1>1, <2>1, <2>2, HoldsAside DEF Opened
  <1>7. QED
    BY <1>3, <1>4, <1>5, <1>6

(* The prompt of a turn is where the turn starts.                          *)
LEMMA MintHolds ==
  ASSUME TypeInv, LineagesEnd, HoldsInv, NEW r \in Executions, Message(r) \/ ToolCall(r)
  PROVE  HoldsInv'
  <1>1. /\ UNCHANGED <<journal, base, memory>>
        /\ \/ exec[r].pc = "turn" /\ exec' = [exec EXCEPT ![r].pc = "spoken", ![r].prompt = exec[r].tip]
           \/ exec[r].pc = "spoken" /\ exec' = [exec EXCEPT ![r].pc = "called"]
    BY DEF Message, ToolCall, Mint
  <1>2. exec \in [Executions -> Hand] /\ exec[r] \in Hand
    BY TypeInvParts DEF HandInv
  <1>3. /\ \A q \in Executions : q # r => exec'[q] = exec[q]
        /\ exec[r].pc \in {"turn", "spoken"} /\ exec'[r].pc \in {"spoken", "called"}
        /\ exec'[r].branch = exec[r].branch /\ exec'[r].sdk = exec[r].sdk
        /\ exec'[r].tip = exec[r].tip
        /\ \/ exec[r].pc = "turn" /\ exec'[r].prompt = exec[r].tip
           \/ exec[r].pc = "spoken" /\ exec'[r].prompt = exec[r].prompt
    BY <1>1, <1>2 DEF Hand
  <1>4. UNCHANGED Uuids
    BY <1>1 DEF Uuids
  <1>5. TurnsHold'
    BY <1>1 DEF HoldsInv, TurnsHold
  <1>6. ASSUME NEW b \in BranchIds PROVE RowHolds(b)'
    <2>1. RowHolds(b)
      BY DEF HoldsInv
    <2>2. \A q \in Executions : exec[q].pc = "flush" => exec'[q] = exec[q]
      BY <1>3
    <2>3. QED
      BY <1>1, <1>4, <2>1, <2>2 DEF RowHolds
  <1>7. ASSUME NEW q \in Executions, q # r PROVE RunHolds(q)'
    <2>1. RunHolds(q) /\ exec'[q] = exec[q]
      BY <1>3, <1>7 DEF HoldsInv
    <2>2. QED
      BY <1>1, <1>4, <2>1 DEF RunHolds, Opened
  <1>8. RunHolds(r)'
    <2>1. RunHolds(r) /\ Opened(r)
      BY <1>3 DEF HoldsInv, Opened
    <2>2. /\ exec'[r].prompt \in Gathered(journal', exec'[r].tip)
          /\ WalkEnd(journal', exec'[r].prompt) = WalkEnd(journal', exec'[r].tip)
      <3>1. CASE exec[r].pc = "turn"
        <4>1. exec[r].tip # None /\ exec[r].tip \in 0..Len(journal)
          BY <2>1, <3>1, HandTypes, Lengths DEF RunHolds
        <4>2. Lineage(exec[r].tip) = {exec[r].tip} \cup Lineage(journal[exec[r].tip].parent)
          BY <4>1, LineageOf
        <4>3. exec[r].tip \in Gathered(journal, exec[r].tip)
          BY <4>2, LineageIsGathered
        <4>4. QED
          BY <1>1, <1>3, <3>1, <4>3
      <3>2. CASE exec[r].pc = "spoken"
        BY <1>1, <1>3, <2>1, <3>2 DEF RunHolds
      <3>3. QED
        BY <1>3, <3>1, <3>2
    <2>3. QED
      BY <1>1, <1>3, <1>4, <2>1, <2>2 DEF RunHolds
  <1>9. QED
    BY <1>5, <1>6, <1>7, <1>8 DEF HoldsInv

(* A lineage that has no record recalls nothing.                           *)
LEMMA NothingToRecall ==
  ASSUME TypeInv, LineagesEnd, NEW s PROVE RecallsOf(journal, memory, s, None)
  <1>1. None \in 0..Len(journal)
    BY Lengths DEF None
  <1>2. Gathered(journal, None) = {}
    BY <1>1, LineageOf, LineageIsGathered
  <1>3. QED
    BY <1>2 DEF RecallsOf

(* A record that is no turn, of a run that is not between a turn and its   *)
(* flush.                                                                  *)
LEMMA LandHolds ==
  ASSUME TypeInv, TypeInv', TreeInv, LineagesEnd, HoldsInv, NEW r \in Executions, Live(r),
         exec[r].pc \notin {"recover", "flush"},
         NEW record \in Records, journal' = Append(journal, record),
         record.branch = exec[r].branch, record.parent = exec[r].tip,
         record.kind \notin {"result", "error"} \/ exec'[r].pc = "fail_release",
         record.kind # "result", UNCHANGED <<base, memory>>,
         exec' = [exec EXCEPT ![r] = exec'[r]],
         exec'[r].branch = exec[r].branch, exec'[r].sdk = exec[r].sdk,
         exec'[r].tip = Len(journal) + 1, exec'[r].prompt = exec[r].prompt,
         Opened(r)' => Opened(r),
         exec'[r].pc \in {"spoken", "called"} => exec[r].pc \in {"spoken", "called"}
  PROVE  HoldsInv'
  <1> DEFINE own == exec[r].branch
  <1>0. PICK n \in Nat : n = Len(journal)
    BY Lengths
  <1>1. /\ n + 1 # None /\ n + 1 \notin Uuids /\ Extends
        /\ journal'[n + 1] = record /\ n + 1 \in Uuids'
        /\ \A i \in Uuids' : i \in Uuids \/ i = n + 1
    <2>1. Uuids = 1..n /\ n + 1 # None /\ n + 1 \notin Uuids
      BY <1>0, Lengths DEF None
    <2>2. Extends /\ \A i \in Uuids' : i \in Uuids \/ i = Len(journal) + 1
      BY AppendExtends
    <2>3. Len(journal) + 1 \in Uuids' /\ journal'[Len(journal) + 1] = record
      BY OneLands
    <2>4. QED
      BY <1>0, <2>1, <2>2, <2>3
  <1>2. record.parent <= n /\ record.parent \in 0..n /\ own \in BranchIds
    BY <1>0, HandTypes
  <1>3. \A s : RecallsOf(journal, memory, s, exec[r].tip) =>
               RecallsOf(journal', memory', s, n + 1)
    BY <1>0, <1>1, <1>2, RecallLands
  <1>4. \A s, i : i \in Uuids /\ RecallsOf(journal, memory, s, i) =>
                  RecallsOf(journal', memory', s, i)
    <2>1. \A i \in Uuids : i \in 0..Len(journal)
      BY Lengths
    <2>2. QED
      BY <1>1, <2>1, RecallStays
  <1>5. exec[r].tip = None \/ (exec[r].tip \in Uuids /\ journal[exec[r].tip].branch = own)
    BY WriterAtHeadIs DEF TreeInv, AtHead
  <1>6. \A q \in Executions : q # r => exec'[q] = exec[q] /\ ~Live(q)
    BY OthersStay, OneAtWork DEF TreeInv
  <1>7. TurnsHold'
    <2> SUFFICES ASSUME NEW i \in TurnsIn(journal')
                 PROVE  RecallsOf(journal', memory', journal'[i].sdk, i)
      BY DEF TurnsHold
    <2>1. i \in Uuids
      BY <1>1 DEF TurnsIn, Uuids
    <2>2. i \in TurnsIn(journal) /\ journal'[i] = journal[i]
      BY <1>1, <2>1, OldTurns DEF Extends
    <2>3. QED
      BY <1>4, <2>1, <2>2 DEF HoldsInv, TurnsHold
  <1>8. ASSUME NEW b \in BranchIds PROVE RowHolds(b)'
    <2>1. RowHolds(b)
      BY DEF HoldsInv
    <2>2. \A q \in Executions : exec[q].pc # "flush"
      BY <1>6 DEF Live
    <2>3. /\ (\A i \in Uuids : journal[i].branch # b) =>
               RecallsOf(journal, memory, base[b].sdk, base[b].uuid)
          /\ \A i \in Uuids : journal[i].branch = b => RecallsOf(journal, memory, base[b].sdk, i)
      BY <2>1, <2>2 DEF RowHolds
    <2>4. ASSUME NEW i \in Uuids', journal'[i].branch = b
          PROVE  RecallsOf(journal', memory', base[b].sdk, i)
      <3>1. CASE i \in Uuids
        BY <1>1, <1>4, <2>3, <2>4, <3>1 DEF Extends
      <3>2. CASE i = n + 1
        <4>1. b = own
          BY <1>1, <2>4, <3>2
        <4>2. RecallsOf(journal, memory, base[b].sdk, exec[r].tip)
          BY <1>5, <2>3, <4>1, NothingToRecall
        <4>3. QED
          BY <1>3, <3>2, <4>2
      <3>3. QED
        BY <1>1, <3>1, <3>2
    <2>5. ASSUME \A i \in Uuids' : journal'[i].branch # b
          PROVE  RecallsOf(journal', memory', base[b].sdk, base[b].uuid)
      <3>1. \A i \in Uuids : journal[i].branch # b
        BY <1>1, <2>5 DEF Extends
      <3>2. base[b].uuid \in 0..Len(journal)
        BY <1>1, BaseTypes
      <3>3. QED
        BY <1>1, <2>3, <3>1, <3>2, RecallStays
    <2>6. QED
      BY <2>4, <2>5 DEF RowHolds
  <1>9. ASSUME NEW q \in Executions, q # r PROVE RunHolds(q)'
    BY <1>6, <1>9 DEF RunHolds, Live, Opened
  <1>10. RunHolds(r)'
    <2>1. RunHolds(r)
      BY DEF HoldsInv
    <2>2. ASSUME Opened(r)', NEW i \in Uuids', journal'[i].branch = own
          PROVE  RecallsOf(journal', memory', exec[r].sdk, i)
      <3>1. Opened(r) /\ \A k \in Uuids : journal[k].branch = own =>
                           RecallsOf(journal, memory, exec[r].sdk, k)
        BY <2>1, <2>2 DEF RunHolds
      <3>2. CASE i \in Uuids
        BY <1>1, <1>4, <2>2, <3>1, <3>2 DEF Extends
      <3>3. CASE i = n + 1
        <4>1. RecallsOf(journal, memory, exec[r].sdk, exec[r].tip)
          BY <1>5, <3>1, NothingToRecall
        <4>2. QED
          BY <1>3, <3>3, <4>1
      <3>4. QED
        BY <1>1, <3>2, <3>3
    <2>3. ASSUME exec'[r].pc \in {"spoken", "called"}
          PROVE  /\ exec[r].prompt \in Gathered(journal', n + 1)
                 /\ WalkEnd(journal', exec[r].prompt) = WalkEnd(journal', n + 1)
      <3>0. PICK t \in 0..n : t = exec[r].tip /\ t = record.parent
        BY <1>2
      <3>1. exec[r].prompt \in Gathered(journal, t) /\ WalkEnd(journal, exec[r].prompt) = WalkEnd(journal, t)
        BY <2>1, <2>3, <3>0 DEF RunHolds
      <3>2. Gathered(journal, t) \subseteq 1..t
        BY <1>0, <1>1, PastStays
      <3>3. exec[r].prompt \in 0..Len(journal)
        BY <1>0, <3>1, <3>2
      <3>4. Lineage(n + 1)' = {n + 1} \cup Lineage(record.parent)
        BY <1>0, <1>2, LineageLanded
      <3>5. TurnBase(n + 1)' = TurnBase(record.parent)
        <4>1. record.kind \notin {"result", "error"}
          BY <2>3
        <4>2. QED
          BY <1>0, <1>2, <4>1, WalksEndLanded DEF TypeInv, PointersHold
      <3>6. Lineage(n + 1)' = Gathered(journal', n + 1) /\ TurnBase(n + 1)' = WalkEnd(journal', n + 1)
        BY LineageIsGathered, TurnBaseIsWalkEnd
      <3>7. Lineage(t) = Gathered(journal, t) /\ TurnBase(t) = WalkEnd(journal, t)
        BY LineageIsGathered, TurnBaseIsWalkEnd
      <3>8. WalkEnd(journal', exec[r].prompt) = WalkEnd(journal, exec[r].prompt)
        BY <1>1, <3>3, PastStays
      <3>9. QED
        BY <3>0, <3>1, <3>4, <3>5, <3>6, <3>7, <3>8
    <2>4. QED
      BY <1>0, <1>1, <2>2, <2>3 DEF RunHolds
  <1>11. QED
    BY <1>7, <1>8, <1>9, <1>10 DEF HoldsInv

LEMMA AppendAloneHolds ==
  ASSUME TypeInv, TypeInv', TreeInv, LineagesEnd, HoldsInv, NEW r \in Executions, NEW from,
         NEW kind \in Kinds, NEW to, AppendAlone(r, from, kind, None, to),
         kind \notin {"result", "error"},
         \/ from = "hello" /\ to = "setup"
         \/ from = "loop" /\ to \in {"turn", "release"}
  PROVE  HoldsInv'
  <1> DEFINE record == Record(r, kind, None)
  <1>1. /\ record \in Records /\ record.branch = exec[r].branch
        /\ record.parent = exec[r].tip /\ record.kind = kind
    BY RecordIs, Lengths DEF None
  <1>2. /\ exec[r].pc = from /\ journal' = Append(journal, record)
        /\ exec' = [exec EXCEPT ![r].seq = record.seq, ![r].tip = Len(journal) + 1, ![r].pc = to]
        /\ UNCHANGED <<base, memory>>
    BY DEF AppendAlone, Land, Advanced
  <1> HIDE DEF record
  <1>3. exec \in [Executions -> Hand] /\ exec[r] \in Hand
    BY TypeInvParts DEF HandInv
  <1>4. /\ exec' = [exec EXCEPT ![r] = exec'[r]] /\ exec'[r].pc = to
        /\ exec'[r].branch = exec[r].branch /\ exec'[r].sdk = exec[r].sdk
        /\ exec'[r].prompt = exec[r].prompt /\ exec'[r].tip = Len(journal) + 1
    BY <1>2, <1>3 DEF Hand
  <1>5. Live(r) /\ (Opened(r)' => Opened(r)) /\ exec[r].pc \notin {"recover", "flush"}
    BY <1>2, <1>4 DEF Live, Opened
  <1>6. exec'[r].pc \in {"spoken", "called"} => exec[r].pc \in {"spoken", "called"}
    BY <1>4
  <1>7. QED
    BY <1>1, <1>2, <1>4, <1>5, <1>6, LandHolds

LEMMA WrittenHolds ==
  ASSUME TypeInv, TypeInv', TreeInv, LineagesEnd, HoldsInv, NEW r \in Executions,
         NEW w \in Writers, Written(r, w)
  PROVE  HoldsInv'
  <1> DEFINE record == minted[r][w]
  <1>1. /\ record # NoRecord /\ journal' = Append(journal, record)
        /\ exec' = [exec EXCEPT ![r].seq = record.seq, ![r].tip = Len(journal) + 1]
        /\ UNCHANGED <<base, memory>>
    BY DEF Written, Land, Advanced
  <1>2. record \in Records
    BY <1>1, TypeInvParts DEF MintInv
  <1>3. /\ record.branch = exec[r].branch /\ record.parent = exec[r].tip
        /\ record.kind \notin {"result", "error"} /\ exec[r].pc \in {"spoken", "called"}
    <2>1. /\ exec[r].pc \in {"spoken", "called"} /\ record.kind \in {"message", "tool_call"}
          /\ record = [branch |-> exec[r].branch, seq |-> exec[r].seq + 1,
                       parent |-> exec[r].tip, kind |-> record.kind,
                       sdk |-> None, context |-> exec[r].context]
      BY <1>1 DEF TreeInv, MintedIsNext
    <2> HIDE DEF record
    <2>2. record.branch = exec[r].branch /\ record.parent = exec[r].tip
      BY <2>1
    <2>3. QED
      BY <2>1, <2>2
  <1> HIDE DEF record
  <1>4. exec \in [Executions -> Hand] /\ exec[r] \in Hand
    BY TypeInvParts DEF HandInv
  <1>5. /\ exec' = [exec EXCEPT ![r] = exec'[r]] /\ exec'[r].pc = exec[r].pc
        /\ exec'[r].branch = exec[r].branch /\ exec'[r].sdk = exec[r].sdk
        /\ exec'[r].prompt = exec[r].prompt /\ exec'[r].tip = Len(journal) + 1
    BY <1>1, <1>4 DEF Hand
  <1>6. Live(r) /\ Opened(r) /\ exec[r].pc \notin {"recover", "flush"}
    BY <1>3 DEF Live, Opened
  <1>7. QED
    BY <1>1, <1>2, <1>3, <1>5, <1>6, LandHolds

LEMMA FailHolds ==
  ASSUME TypeInv, TypeInv', TreeInv, LineagesEnd, HoldsInv, FlushedTurns, NEW r \in Executions,
         Fail(r)
  PROVE  HoldsInv'
  <1> DEFINE record == Record(r, "error", exec[r].known)
  <1>1. /\ record \in Records /\ record.branch = exec[r].branch
        /\ record.parent = exec[r].tip /\ record.kind = "error"
    BY RecordIs, HandTypes DEF Kinds
  <1>2. /\ journal' = Append(journal, record)
        /\ exec[r].pc \in {"setup", "loop", "turn", "spoken", "called"}
        /\ exec' = [exec EXCEPT ![r].seq = record.seq, ![r].tip = Len(journal) + 1,
                                ![r].pc = "fail_release"]
        /\ UNCHANGED <<base, memory>>
    BY DEF Fail, Land, Advanced, Trouble, FlushedTurns, OrderlyRewinds
  <1> HIDE DEF record
  <1>3. exec \in [Executions -> Hand] /\ exec[r] \in Hand
    BY TypeInvParts DEF HandInv
  <1>4. /\ exec' = [exec EXCEPT ![r] = exec'[r]] /\ exec'[r].pc = "fail_release"
        /\ exec'[r].branch = exec[r].branch /\ exec'[r].sdk = exec[r].sdk
        /\ exec'[r].prompt = exec[r].prompt /\ exec'[r].tip = Len(journal) + 1
    BY <1>2, <1>3 DEF Hand
  <1>5. Live(r) /\ ~Opened(r)' /\ exec[r].pc \notin {"recover", "flush"}
    BY <1>2, <1>4 DEF Live, Opened
  <1>6. QED
    BY <1>1, <1>2, <1>4, <1>5, LandHolds

(* A turn is remembered by the conversation that answered its prompt.      *)
LEMMA ResultHolds ==
  ASSUME TypeInv, TypeInv', TreeInv, OwnInv, LineagesEnd, HoldsInv, NEW r \in Executions,
         Result(r)
  PROVE  HoldsInv'
  <1> DEFINE record == Record(r, "result", exec[r].sdk)
             own == exec[r].branch
             sdk == exec[r].sdk
  <1>0. PICK n \in Nat : n = Len(journal)
    BY Lengths
  <1>1. /\ record \in Records /\ record.branch = own /\ record.parent = exec[r].tip
        /\ record.kind = "result" /\ record.sdk = sdk
    BY RecordIs, HandTypes DEF Kinds
  <1>2. /\ journal' = Append(journal, record) /\ exec[r].pc \in {"spoken", "called"}
        /\ exec' = [exec EXCEPT ![r].seq = record.seq, ![r].tip = Len(journal) + 1,
                                ![r].pc = "flush", ![r].told = sdk]
        /\ UNCHANGED base
        /\ memory' = [memory EXCEPT ![sdk] = @ \cup {exec[r].prompt}]
    BY DEF Result, Land, Advanced
  <1> HIDE DEF record
  <1>3. exec \in [Executions -> Hand] /\ exec[r] \in Hand
    BY TypeInvParts DEF HandInv
  <1>4. /\ exec' = [exec EXCEPT ![r] = exec'[r]] /\ exec'[r].pc = "flush"
        /\ exec'[r].branch = own /\ exec'[r].sdk = sdk
    BY <1>2, <1>3 DEF Hand
  <1>5. Live(r) /\ Opened(r)
    BY <1>2 DEF Live, Opened
  <1>6. sdk \in 1..Len(memory) /\ sdk # None
    <2>1. sdk # None
      BY <1>5, OwnInvIs DEF HandOwn
    <2>2. QED
      BY <2>1, HandTypes, Lengths DEF None
  <1>7. /\ exec[r].prompt \in memory'[sdk]
        /\ \A s \in 1..Len(memory) : memory[s] \subseteq memory'[s]
    <2>1. memory \in Seq(SUBSET Nat)
      BY DEF TypeInv, TypeOK
    <2>2. QED
      BY <1>2, <1>6, <2>1
  <1>8. Uuids = 1..n /\ n + 1 \notin Uuids /\ Extends /\ journal'[n + 1] = record
        /\ (\A i \in Uuids' : i \in Uuids \/ i = n + 1)
    <2>1. Uuids = 1..n /\ n + 1 \notin Uuids
      BY <1>0, Lengths
    <2>2. Extends /\ \A i \in Uuids' : i \in Uuids \/ i = Len(journal) + 1
      BY <1>2, AppendExtends
    <2>3. journal'[Len(journal) + 1] = record
      BY <1>1, <1>2, OneLands
    <2>4. QED
      BY <1>0, <2>1, <2>2, <2>3
  <1>9. \A s \in 0..Len(memory), i \in 0..n : RecallsOf(journal, memory, s, i) =>
                                              RecallsOf(journal', memory', s, i)
    <2>1. \A s \in 0..Len(memory) : s # None => s \in 1..Len(memory)
      BY Lengths DEF None
    <2>2. QED
      BY <1>0, <1>7, <1>8, <2>1, RecallStays
  <1>10. RunHolds(r) /\ sdk \in 0..Len(memory)
    BY <1>6 DEF HoldsInv
  <1>11. RecallsOf(journal', memory', sdk, n + 1)
    <2>0. PICK t \in 0..n : t = exec[r].tip /\ t = record.parent
      BY <1>0, <1>1, HandTypes
    <2>1. RecallsOf(journal, memory, sdk, t)
      <3>1. t = None \/ (t \in Uuids /\ journal[t].branch = own)
        BY <1>2, <1>5, <2>0, WriterAtHeadIs DEF TreeInv, AtHead
      <3>2. QED
        BY <1>5, <1>10, <3>1, NothingToRecall DEF RunHolds
    <2>2. RecallsOf(journal', memory', sdk, t)
      BY <1>9, <1>10, <2>0, <2>1
    <2>3. Gathered(journal', n + 1) = {n + 1} \cup Gathered(journal, t)
      <3>0. PICK rec \in Records : rec = record
        BY <1>1
      <3>1. Lineage(n + 1)' = {n + 1} \cup Lineage(rec.parent)
        BY <1>0, <1>2, <2>0, <3>0, LineageLanded
      <3>2. Lineage(n + 1)' = Gathered(journal', n + 1) /\ Lineage(t) = Gathered(journal, t)
        BY LineageIsGathered
      <3>3. QED
        BY <2>0, <3>0, <3>1, <3>2
    <2>4. Gathered(journal', t) = Gathered(journal, t) /\ Gathered(journal, t) \subseteq 1..t
          /\ WalkEnd(journal', t) = WalkEnd(journal, t)
      BY <1>0, <1>8, <2>0, PastStays
    <2>5. exec[r].prompt \in Gathered(journal, t) /\ WalkEnd(journal, exec[r].prompt) = WalkEnd(journal, t)
      BY <1>2, <1>10, <2>0 DEF RunHolds
    <2>6. WalkEnd(journal', exec[r].prompt) = WalkEnd(journal', t)
      <3>1. exec[r].prompt \in 0..Len(journal)
        BY <1>0, <2>0, <2>4, <2>5
      <3>2. WalkEnd(journal', exec[r].prompt) = WalkEnd(journal, exec[r].prompt)
        BY <1>8, <3>1, PastStays
      <3>3. QED
        BY <2>4, <2>5, <3>2
    <2>7. n + 1 \in TurnsOf(journal', exec[r].prompt)
      <3>1. n + 1 \in DOMAIN journal'
        BY <1>0, <1>1, <1>2, OneLands DEF Uuids
      <3>2. n + 1 \in TurnsIn(journal')
        BY <1>1, <1>8, <3>1 DEF TurnsIn
      <3>3. QED
        BY <1>8, <2>0, <2>3, <2>5, <2>6, <3>2 DEF TurnsOf
    <2>8. QED
      BY <1>6, <1>7, <2>2, <2>3, <2>4, <2>7 DEF RecallsOf
  <1>12. \A q \in Executions : q # r => exec'[q] = exec[q] /\ ~Live(q)
    BY <1>4, <1>5, OthersStay, OneAtWork DEF TreeInv
  <1>13. TurnsHold'
    <2> SUFFICES ASSUME NEW i \in TurnsIn(journal')
                 PROVE  RecallsOf(journal', memory', journal'[i].sdk, i)
      BY DEF TurnsHold
    <2>1. i \in Uuids \/ i = n + 1
      BY <1>8 DEF TurnsIn, Uuids
    <2>2. CASE i \in Uuids
      <3>1. i \in TurnsIn(journal) /\ journal'[i] = journal[i]
        BY <1>8, <2>2, OldTurns DEF Extends
      <3>2. journal[i].sdk \in 0..Len(memory) /\ i \in 0..n
        BY <1>8, <2>2, RecordTypes, Lengths DEF TypeInv, PointersHold, RecordsPointBack, Known
      <3>3. QED
        BY <1>9, <3>1, <3>2 DEF HoldsInv, TurnsHold
    <2>3. CASE i = n + 1
      BY <1>1, <1>8, <1>11, <2>3
    <2>4. QED
      BY <2>1, <2>2, <2>3
  <1>14. ASSUME NEW b \in BranchIds PROVE RowHolds(b)'
    <2> SUFFICES ASSUME b # own PROVE RowHolds(b)'
      BY <1>4 DEF RowHolds
    <2>1. RowHolds(b) /\ \A q \in Executions : exec[q].pc # "flush"
      BY <1>2, <1>12 DEF HoldsInv, Live
    <2>2. /\ (\A i \in Uuids : journal[i].branch # b) =>
               RecallsOf(journal, memory, base[b].sdk, base[b].uuid)
          /\ \A i \in Uuids : journal[i].branch = b => RecallsOf(journal, memory, base[b].sdk, i)
      BY <2>1 DEF RowHolds
    <2>3. /\ base[b].sdk \in 0..Len(memory) /\ base[b].uuid \in 0..n
          /\ \A i \in Uuids : i \in 0..n
      BY <1>0, <1>8, BaseTypes, Lengths
    <2>4. \A i \in Uuids' : journal'[i].branch = b => i \in Uuids
      BY <1>1, <1>8
    <2>5. \A i \in Uuids : i \in Uuids' /\ journal'[i] = journal[i]
      BY <1>8 DEF Extends
    <2>6. QED
      BY <1>2, <1>9, <2>2, <2>3, <2>4, <2>5 DEF RowHolds
  <1>15. ASSUME NEW q \in Executions PROVE RunHolds(q)'
    <2>1. CASE q # r
      BY <1>12, <2>1 DEF RunHolds, Live, Opened
    <2>2. CASE q = r
      <3>1. ASSUME NEW i \in Uuids', journal'[i].branch = own
            PROVE  RecallsOf(journal', memory', sdk, i)
        <4>1. CASE i \in Uuids
          <5>1. RecallsOf(journal, memory, sdk, i) /\ i \in 0..n
            BY <1>5, <1>8, <1>10, <3>1, <4>1, Lengths DEF RunHolds, Extends
          <5>2. QED
            BY <1>9, <1>10, <5>1
        <4>2. CASE i = n + 1
          BY <1>11, <4>2
        <4>3. QED
          BY <1>8, <4>1, <4>2
      <3>2. QED
        BY <1>4, <2>2, <3>1 DEF RunHolds
    <2>3. QED
      BY <2>1, <2>2
  <1>16. QED
    BY <1>13, <1>14, <1>15 DEF HoldsInv

(* The first record of a branch stands on its base.                        *)
LEMMA RecordBranchHolds ==
  ASSUME TypeInv, TypeInv', TreeInv, LineagesEnd, HoldsInv, NEW c \in Clients, RecordBranch(c)
  PROVE  HoldsInv' /\ LineagesEnd'
  <1>0. PICK n \in Nat : n = Len(journal)
    BY Lengths
  <1>1. PICK d \in BranchIds : d = client[c].branch /\ On(d) = {}
    <2>1. Recording(c) /\ client[c].branch \in BranchIds
      BY ClientIs DEF RecordBranch, Recording
    <2>2. On(client[c].branch) = {}
      BY <2>1 DEF TreeInv, BranchesAreRecorded
    <2>3. QED
      BY <2>1, <2>2
  <1>2. PICK record \in Records :
          /\ journal' = Append(journal, record) /\ record.branch = d
          /\ record.parent = base[d].uuid /\ record.kind = "branch_created"
    <2> DEFINE first == [branch |-> d, seq |-> base[d].seq + 1, parent |-> base[d].uuid,
                         kind |-> "branch_created", sdk |-> None, context |-> None]
    <2>1. first \in Records
      BY BaseTypes DEF Records, Kinds, None
    <2>2. journal' = Append(journal, first)
      BY <1>1 DEF RecordBranch
    <2>3. QED
      BY <2>1, <2>2
  <1>3. UNCHANGED <<base, memory, exec>>
    BY DEF RecordBranch, execVars
  <1>4. \A q \in Executions : ~Live(q) /\ ~Live(q)'
    <2>1. Recording(c)
      BY DEF RecordBranch, Recording
    <2>2. QED
      BY <1>3, <2>1 DEF TreeInv, LeaseIsHeld, Live
  <1>5. Uuids = 1..n /\ n + 1 \notin Uuids /\ Extends /\ journal'[n + 1] = record
        /\ (\A i \in Uuids' : i \in Uuids \/ i = n + 1)
    <2>1. Uuids = 1..n /\ n + 1 \notin Uuids
      BY <1>0, Lengths
    <2>2. Extends /\ \A i \in Uuids' : i \in Uuids \/ i = Len(journal) + 1
      BY <1>2, AppendExtends
    <2>3. journal'[Len(journal) + 1] = record
      BY <1>2, OneLands
    <2>4. QED
      BY <1>0, <2>1, <2>2, <2>3
  <1>6. record.parent <= n
    BY <1>0, <1>2, BaseTypes
  <1>7. \A s, i : i \in 0..n /\ RecallsOf(journal, memory, s, i) =>
                  RecallsOf(journal', memory', s, i)
    BY <1>0, <1>3, <1>5, RecallStays
  <1>8. \A b \in BranchIds :
          /\ (\A i \in Uuids : journal[i].branch # b) =>
               RecallsOf(journal, memory, base[b].sdk, base[b].uuid)
          /\ \A i \in Uuids : journal[i].branch = b => RecallsOf(journal, memory, base[b].sdk, i)
    BY <1>4 DEF HoldsInv, RowHolds, Live
  <1>9. RecallsOf(journal', memory', base[d].sdk, n + 1)
    <2>1. RecallsOf(journal, memory, base[d].sdk, base[d].uuid)
      BY <1>1, <1>8 DEF On
    <2>2. PICK s : s = base[d].sdk
      OBVIOUS
    <2>3. RecallsOf(journal, memory, s, record.parent)
      BY <1>2, <2>1, <2>2
    <2>4. record.kind # "result" /\ memory' = memory
      BY <1>2, <1>3
    <2>5. RecallsOf(journal', memory', s, n + 1)
      BY <1>0, <1>2, <1>6, <2>3, <2>4, RecallLands
    <2>6. QED
      BY <2>2, <2>5
  <1>10. TurnsHold'
    <2> SUFFICES ASSUME NEW i \in TurnsIn(journal')
                 PROVE  RecallsOf(journal', memory', journal'[i].sdk, i)
      BY DEF TurnsHold
    <2>1. i \in Uuids /\ i \in 0..n
      BY <1>2, <1>5 DEF TurnsIn, Uuids
    <2>2. i \in TurnsIn(journal) /\ journal'[i] = journal[i]
      BY <1>5, <2>1, OldTurns DEF Extends
    <2>3. QED
      BY <1>7, <2>1, <2>2 DEF HoldsInv, TurnsHold
  <1>11. ASSUME NEW b \in BranchIds PROVE RowHolds(b)'
    <2>1. ASSUME NEW i \in Uuids', journal'[i].branch = b
          PROVE  RecallsOf(journal', memory', base[b].sdk, i)
      <3>1. CASE i \in Uuids
        BY <1>5, <1>7, <1>8, <2>1, <3>1 DEF Extends
      <3>2. CASE i = n + 1
        BY <1>2, <1>5, <1>9, <2>1, <3>2
      <3>3. QED
        BY <1>5, <3>1, <3>2
    <2>2. ASSUME \A i \in Uuids' : journal'[i].branch # b
          PROVE  RecallsOf(journal', memory', base[b].sdk, base[b].uuid)
      <3>1. \A i \in Uuids : journal[i].branch # b
        BY <1>5, <2>2 DEF Extends
      <3>2. base[b].uuid \in 0..n
        BY <1>0, BaseTypes
      <3>3. QED
        BY <1>7, <1>8, <3>1, <3>2
    <2>3. QED
      BY <1>3, <2>1, <2>2 DEF RowHolds
  <1>12. \A q \in Executions : RunHolds(q)'
    BY <1>4 DEF RunHolds, Live, Opened
  <1>13. LineagesEnd'
    BY <1>0, <1>2, <1>6, LineageLanded
  <1>14. QED
    BY <1>10, <1>11, <1>12, <1>13 DEF HoldsInv

(* The conversation a run opens holds what the row of its branch does.     *)
LEMMA SetupHolds ==
  ASSUME TypeInv, TypeInv', TreeInv, OwnInv, LineagesEnd, HoldsInv, NEW r \in Executions, Setup(r)
  PROVE  HoldsInv'
  <1> DEFINE own == exec[r].branch
             resumed == IF base[own].sdk # None THEN base[own].sdk ELSE exec[r].known
             forks == exec[r].fresh /\ base[own].sdk # None
             opens == IF resumed = None \/ forks THEN Len(memory) + 1 ELSE resumed
             opened == IF resumed = None THEN {} ELSE memory[resumed]
  <1>1. /\ exec[r].pc = "setup" /\ UNCHANGED <<journal, base>>
        /\ exec' = [exec EXCEPT ![r].pc = "loop", ![r].told = resumed, ![r].sdk = opens]
        /\ memory' = IF opens \in DOMAIN memory THEN memory ELSE Append(memory, opened)
    BY DEF Setup
  <1>2. exec \in [Executions -> Hand] /\ exec[r] \in Hand
    BY TypeInvParts DEF HandInv
  <1>3. /\ exec'[r].pc = "loop" /\ exec'[r].sdk = opens /\ exec'[r].branch = own
        /\ exec' = [exec EXCEPT ![r] = exec'[r]]
    <2> HIDE DEF resumed, opens
    <2>1. exec' = [exec EXCEPT ![r].pc = "loop", ![r].told = resumed, ![r].sdk = opens]
      BY <1>1
    <2>2. QED
      BY <1>2, <2>1 DEF Hand
  <1>4. /\ resumed \in Nat /\ resumed <= Len(memory) /\ Len(memory) \in Nat
        /\ DOMAIN memory = 1..Len(memory) /\ own \in BranchIds
    <2>1. memory \in Seq(SUBSET Nat)
      BY DEF TypeInv, TypeOK
    <2>2. QED
      BY <2>1, BaseTypes, HandTypes, Lengths
  <1>5. \A s \in 1..Len(memory) : memory[s] \subseteq memory'[s]
    <2>1. memory \in Seq(SUBSET Nat)
      BY DEF TypeInv, TypeOK
    <2>2. memory' = memory \/ \E m : memory' = Append(memory, m)
      BY <1>1
    <2>3. QED
      BY <2>1, <2>2
  <1>6. base[own].sdk # None => opens # None /\ memory[base[own].sdk] \subseteq memory'[opens]
    <2> SUFFICES ASSUME base[own].sdk # None
                 PROVE  opens # None /\ memory[base[own].sdk] \subseteq memory'[opens]
      OBVIOUS
    <2>1. resumed = base[own].sdk /\ resumed \in 1..Len(memory)
      BY <1>4 DEF None
    <2>2. CASE forks
      <3>1. opens = Len(memory) + 1 /\ opens \notin DOMAIN memory /\ opens # None
        BY <1>4, <2>2 DEF None
      <3>2. memory' = Append(memory, opened) /\ opened = memory[resumed]
        BY <1>1, <2>1, <3>1
      <3>3. memory'[Len(memory) + 1] = opened
        <4>1. memory \in Seq(SUBSET Nat)
          BY DEF TypeInv, TypeOK
        <4> HIDE DEF opened
        <4>2. QED
          BY <3>2, <4>1
      <3>4. QED
        BY <2>1, <3>1, <3>2, <3>3
    <2>3. CASE ~forks
      <3>1. opens = resumed /\ opens # None
        BY <2>1, <2>3
      <3>2. QED
        BY <1>5, <2>1, <3>1
    <2>4. QED
      BY <2>2, <2>3
  <1> HIDE DEF opens, resumed, forks, opened
  <1>7. Live(r) /\ \A q \in Executions : q # r => exec'[q] = exec[q] /\ ~Live(q)
    <2>1. Live(r)
      BY <1>1 DEF Live
    <2>2. QED
      BY <1>3, <2>1, OthersStay, OneAtWork DEF TreeInv
  <1>8. Extends /\ UNCHANGED Uuids /\ TurnsIn(journal') = TurnsIn(journal)
    BY <1>1, StaysExtends DEF Uuids
  <1>9. \A s \in 0..Len(memory), i \in 0..Len(journal) :
          RecallsOf(journal, memory, s, i) => RecallsOf(journal', memory', s, i)
    <2>1. \A s \in 0..Len(memory) : s # None => s \in 1..Len(memory)
      BY <1>4 DEF None
    <2>2. QED
      BY <1>5, <1>8, <2>1, RecallStays
  <1>10. \A b \in BranchIds :
           /\ (\A i \in Uuids : journal[i].branch # b) =>
                RecallsOf(journal, memory, base[b].sdk, base[b].uuid)
           /\ \A i \in Uuids : journal[i].branch = b => RecallsOf(journal, memory, base[b].sdk, i)
    <2>1. \A q \in Executions : exec[q].pc # "flush"
      BY <1>1, <1>7 DEF Live
    <2>2. QED
      BY <2>1 DEF HoldsInv, RowHolds
  <1>11. \A i \in Uuids : i \in 0..Len(journal)
    BY Lengths
  <1>12. TurnsHold'
    <2> SUFFICES ASSUME NEW i \in TurnsIn(journal)
                 PROVE  RecallsOf(journal', memory', journal'[i].sdk, i)
      BY <1>8 DEF TurnsHold
    <2>1. i \in Uuids /\ i \in 0..Len(journal)
      BY <1>11 DEF TurnsIn, Uuids
    <2>2. journal[i].sdk \in 0..Len(memory)
      BY <2>1, RecordTypes, Lengths DEF TypeInv, PointersHold, RecordsPointBack, Known
    <2>3. QED
      BY <1>1, <1>9, <2>1, <2>2 DEF HoldsInv, TurnsHold
  <1>13. ASSUME NEW b \in BranchIds PROVE RowHolds(b)'
    <2>1. base[b].sdk \in 0..Len(memory) /\ base[b].uuid \in 0..Len(journal)
      BY BaseTypes, Lengths
    <2>2. QED
      BY <1>1, <1>8, <1>9, <1>10, <1>11, <2>1 DEF RowHolds
  <1>14. ASSUME NEW q \in Executions PROVE RunHolds(q)'
    <2>1. CASE q # r
      BY <1>7, <2>1 DEF RunHolds, Live, Opened
    <2>2. CASE q = r
      <3>1. ASSUME NEW i \in Uuids, journal[i].branch = own
            PROVE  RecallsOf(journal', memory', opens, i)
        <4>1. RecallsOf(journal, memory, base[own].sdk, i)
          BY <1>4, <1>10, <3>1
        <4>2. QED
          BY <1>6, <1>8, <1>11, <4>1, RecallStays
      <3>2. QED
        BY <1>1, <1>3, <1>8, <2>2, <3>1 DEF RunHolds
    <2>3. QED
      BY <2>1, <2>2
  <1>15. QED
    BY <1>12, <1>13, <1>14 DEF HoldsInv

(* A flush makes the conversation of the run that of the row.              *)
LEMMA FlushHolds ==
  ASSUME TypeInv, TypeInv', TreeInv, OwnInv, LineagesEnd, HoldsInv, NEW r \in Executions, Flush(r)
  PROVE  HoldsInv'
  <1>0. PICK own \in BranchIds : own = exec[r].branch
    BY HandTypes
  <1>1. /\ exec[r].pc = "flush" /\ UNCHANGED <<journal, memory>>
        /\ base' = [base EXCEPT ![own].sdk = exec[r].told]
        /\ exec' = [exec EXCEPT ![r].pc = "loop", ![r].flushed = TRUE, ![r].context = exec[r].told]
    BY <1>0 DEF Flush
  <1>2. exec \in [Executions -> Hand] /\ exec[r] \in Hand
    BY TypeInvParts DEF HandInv
  <1>3. /\ exec'[r].pc = "loop" /\ exec'[r].sdk = exec[r].sdk /\ exec'[r].branch = own
        /\ exec' = [exec EXCEPT ![r] = exec'[r]]
    BY <1>0, <1>1, <1>2 DEF Hand
  <1>4. Live(r) /\ Opened(r) /\ \A q \in Executions : q # r => exec'[q] = exec[q] /\ ~Live(q)
    <2>1. Live(r) /\ Opened(r)
      BY <1>1 DEF Live, Opened
    <2>2. QED
      BY <1>3, <2>1, OthersStay, OneAtWork DEF TreeInv
  <1>5. exec[r].told = exec[r].sdk
    BY <1>1, OwnInvIs DEF HandOwn
  <1>6. /\ base'[own].sdk = exec[r].sdk /\ base'[own].uuid = base[own].uuid
        /\ \A b \in BranchIds : b # own => base'[b] = base[b]
    <2>1. base \in [BranchIds -> [seq : Nat, uuid : Nat, sdk : Nat]]
      BY TypeInvParts DEF BaseInv
    <2>2. QED
      BY <1>1, <1>5, <2>1
  <1>7. UNCHANGED Uuids
    BY <1>1 DEF Uuids
  <1>8. TurnsHold'
    BY <1>1 DEF HoldsInv, TurnsHold
  <1>9. RunHolds(r)
    BY DEF HoldsInv
  <1>10. (\A i \in Uuids : journal[i].branch # own) =>
           RecallsOf(journal, memory, exec[r].sdk, base[own].uuid)
    <2>1. CASE own = Main
      <3>1. base[own].uuid = None
        BY <2>1, TypeInvParts DEF BaseInv, BasesStand
      <3>2. QED
        BY <3>1, NothingToRecall
    <2>2. CASE own # Main
      <3>1. OnBranch(r, own)
        BY <1>0, <1>4, OwnInvIs DEF HandOwn
      <3>2. HasRun(own)
        BY <1>1, <2>2, <3>1 DEF OnBranch
      <3>3. QED
        BY <3>2 DEF HasRun, On
    <2>3. QED
      BY <2>1, <2>2
  <1>11. ASSUME NEW b \in BranchIds PROVE RowHolds(b)'
    <2>1. CASE b = own
      BY <1>0, <1>1, <1>4, <1>6, <1>7, <1>9, <1>10, <2>1 DEF RowHolds, RunHolds
    <2>2. CASE b # own
      <3>1. RowHolds(b)
        BY DEF HoldsInv
      <3>2. \A q \in Executions : exec[q].pc = "flush" => exec[q].branch # b
        BY <1>0, <1>4, <2>2 DEF Live
      <3>3. QED
        BY <1>1, <1>6, <1>7, <2>2, <3>1, <3>2 DEF RowHolds
    <2>3. QED
      BY <2>1, <2>2
  <1>12. ASSUME NEW q \in Executions PROVE RunHolds(q)'
    <2>1. CASE q # r
      BY <1>4, <2>1 DEF RunHolds, Live, Opened
    <2>2. CASE q = r
      BY <1>0, <1>1, <1>3, <1>4, <1>7, <1>9, <2>2 DEF RunHolds
    <2>3. QED
      BY <2>1, <2>2
  <1>13. QED
    BY <1>8, <1>11, <1>12 DEF HoldsInv

(* The branch of a rewind to a turn has the conversation of that turn.     *)
LEMMA RewindHolds ==
  ASSUME TypeInv, TreeInv, OwnInv, LineagesEnd, HoldsInv, OrderlyRewinds,
         NEW c \in Clients, Rewind(c)
  PROVE  HoldsInv'
  <1>1. UNCHANGED <<journal, exec, memory>> /\ UNCHANGED Uuids
    BY DEF Rewind, execVars, Uuids
  <1>2. PICK i \in RewindPoints :
          base' = [base EXCEPT ![made + 1] =
               [seq |-> IF i = None THEN 0 ELSE journal[i].seq, uuid |-> i,
                sdk |-> IF i = None THEN None ELSE ConversationAt(i)]]
    BY DEF Rewind
  <1>3. made + 1 \in BranchIds /\ made + 1 > made
    <2>1. made \in BranchIds /\ made < MaxBranches
      BY TypeInvParts DEF BaseInv, Rewind
    <2>2. QED
      BY <2>1, BoundAssumption DEF BranchIds
  <1>4. i \in Turns /\ i # None
    <2>1. PICK e \in Uuids : i = TurnBase(e)
      BY <1>2 DEF RewindPoints
    <2>2. e \in 0..Len(journal)
      BY <2>1, Lengths
    <2>3. TurnBase(e) \in 0..e /\ (TurnBase(e) # None => IsResult(TurnBase(e)))
      BY <2>2 DEF TypeInv, WalksEnd
    <2>4. i # None /\ journal[i].kind # "error"
      BY <1>2 DEF RewindPoints, OrderlyRewinds
    <2>5. i \in Uuids /\ journal[i].kind = "result"
      BY <2>1, <2>2, <2>3, <2>4, Lengths DEF IsResult, None
    <2>6. QED
      BY <2>4, <2>5 DEF Turns
  <1>5. ConversationAt(i) = journal[i].sdk
    BY <1>4, OwnInvIs DEF TurnsKnown, ConversationAt
  <1>6. /\ base'[made + 1].sdk = journal[i].sdk /\ base'[made + 1].uuid = i
        /\ \A b \in BranchIds : b # made + 1 => base'[b] = base[b]
    <2>1. base \in [BranchIds -> [seq : Nat, uuid : Nat, sdk : Nat]]
      BY TypeInvParts DEF BaseInv
    <2>2. QED
      BY <1>2, <1>3, <1>4, <1>5, <2>1
  <1>7. TurnsHold'
    BY <1>1 DEF HoldsInv, TurnsHold
  <1>8. ASSUME NEW b \in BranchIds PROVE RowHolds(b)'
    <2>1. CASE b = made + 1
      <3>1. RecallsOf(journal, memory, journal[i].sdk, i)
        BY <1>4 DEF HoldsInv, TurnsHold, Turns, TurnsIn, Uuids
      <3>2. \A k \in Uuids : journal[k].branch # b
        BY <1>3, <2>1 DEF TreeInv, BranchesAreRecorded, On
      <3>3. QED
        BY <1>1, <1>6, <2>1, <3>1, <3>2 DEF RowHolds
    <2>2. CASE b # made + 1
      <3>1. RowHolds(b)
        BY DEF HoldsInv
      <3>2. QED
        BY <1>1, <1>6, <2>2, <3>1 DEF RowHolds
    <2>3. QED
      BY <2>1, <2>2
  <1>9. \A q \in Executions : RunHolds(q)'
    BY <1>1 DEF HoldsInv, RunHolds, Opened
  <1>10. QED
    BY <1>7, <1>8, <1>9 DEF HoldsInv

-----------------------------------------------------------------------------
(* Every step.                                                             *)

LEMMA LineagesGoOn ==
  ASSUME TypeInv, TypeInv', LineagesEnd,
         UNCHANGED journal \/ \E record : journal' = Append(journal, record)
  PROVE  LineagesEnd'
  <1>1. CASE UNCHANGED journal
    <2>1. \A event : Lineage(event)' = Lineage(event)
      BY <1>1, LineageIsGathered
    <2>2. QED
      BY <1>1, <2>1 DEF LineagesEnd
  <1>2. CASE \E record : journal' = Append(journal, record)
    <2>0. PICK n \in Nat : n = Len(journal)
      BY Lengths
    <2>1. PICK record : journal' = Append(journal, record)
      BY <1>2
    <2>2. Len(journal') = n + 1 /\ journal'[n + 1] = record
      <3>1. journal \in Seq(Records \cup {record})
        BY DEF TypeInv, TypeOK
      <3>2. QED
        BY <2>0, <2>1, <3>1
    <2>3. n + 1 \in Uuids'
      BY <2>0, <2>1, AppendExtends, <2>2 DEF TypeInv, TypeOK, Uuids
    <2>4. record \in Records /\ record.parent < n + 1
      <3>1. journal' \in Seq(Records)
        BY DEF TypeInv, TypeOK
      <3>2. \A i \in Uuids' : journal'[i].parent < i
        BY DEF TypeInv, PointersHold, RecordsPointBack
      <3>3. \A i \in Uuids' : journal'[i] \in Records
        BY <3>1 DEF Uuids
      <3>4. QED
        BY <2>2, <2>3, <3>2, <3>3
    <2>5. record.parent <= n
      BY <2>4 DEF Records
    <2>6. QED
      BY <2>0, <2>1, <2>4, <2>5, LineageLanded
  <1>3. QED
    BY <1>1, <1>2

LEMMA NextLineages ==
  ASSUME TypeInv, TypeInv', LineagesEnd, [Next]_vars PROVE LineagesEnd'
  <1>1. CASE UNCHANGED vars
    BY <1>1, LineagesGoOn DEF vars
  <1>2. ASSUME NEW c \in Clients, ClientStep(c) PROVE LineagesEnd'
    <2>1. UNCHANGED journal \/ \E record : journal' = Append(journal, record)
      BY <1>2 DEF ClientStep, Attach, Rewind, RecordBranch, Send, Stream
    <2>2. QED
      BY <2>1, LineagesGoOn
  <1>3. ASSUME NEW r \in Executions, Run(r) PROVE LineagesEnd'
    <2>1. UNCHANGED journal \/ \E record : journal' = Append(journal, record)
      BY <1>3 DEF Run, Claim, Recover, Hello, Setup, Prompt, Message, ToolCall, Mint, Result, Flush,
         Bye, Release, Written, NotWritten, Fail, FailRelease, Die, AppendAlone, Land
    <2>2. QED
      BY <2>1, LineagesGoOn
  <1>4. CASE Lapse
    BY <1>4, LineagesGoOn DEF Lapse
  <1>5. QED
    BY <1>1, <1>2, <1>3, <1>4 DEF Next

LEMMA NextHolds ==
  ASSUME TypeInv, TypeInv', TreeInv, OwnInv, LineagesEnd, HoldsInv, FlushedTurns, [Next]_vars
  PROVE  HoldsInv'
  <1>1. CASE UNCHANGED vars \/ Lapse
    BY <1>1, HoldsAside DEF vars, Lapse, execVars
  <1>2. ASSUME NEW c \in Clients, ClientStep(c) PROVE HoldsInv'
    <2>1. OrderlyRewinds
      BY DEF FlushedTurns
    <2>2. QED
      BY <1>2, <2>1, ClientHolds, RewindHolds, RecordBranchHolds DEF ClientStep
  <1>3. ASSUME NEW r \in Executions, Run(r) PROVE HoldsInv'
    <2>1. CASE Claim(r) \/ Recover(r) \/ NotWritten(r) \/ Release(r) \/ FailRelease(r) \/ Die(r)
      BY <2>1, AsideHolds
    <2>2. CASE Hello(r) \/ Prompt(r) \/ Bye(r)
      <3>1. "claimed" \in Kinds /\ "prompt" \in Kinds /\ "released" \in Kinds
        BY DEF Kinds
      <3>2. CASE Hello(r)
        <4>1. AppendAlone(r, "hello", "claimed", None, "setup")
          BY <3>2 DEF Hello
        <4>2. "claimed" \in Kinds /\ "claimed" \notin {"result", "error"}
          BY <3>1
        <4>3. QED
          BY <4>1, <4>2, AppendAloneHolds
      <3>3. CASE Prompt(r)
        <4>1. AppendAlone(r, "loop", "prompt", None, "turn")
          BY <3>3 DEF Prompt
        <4>2. QED
          BY <3>1, <4>1, AppendAloneHolds
      <3>4. CASE Bye(r)
        <4>1. AppendAlone(r, "loop", "released", None, "release")
          BY <3>4 DEF Bye
        <4>2. QED
          BY <3>1, <4>1, AppendAloneHolds
      <3>5. QED
        BY <2>2, <3>2, <3>3, <3>4
    <2>3. CASE Message(r) \/ ToolCall(r)
      BY <2>3, MintHolds
    <2>4. CASE Written(r, "loop") \/ Written(r, "hook")
      BY <2>4, WrittenHolds DEF Writers
    <2>5. CASE Setup(r) \/ Result(r) \/ Flush(r) \/ Fail(r)
      BY <2>5, SetupHolds, ResultHolds, FlushHolds, FailHolds
    <2>6. QED
      BY <1>3, <2>1, <2>2, <2>3, <2>4, <2>5 DEF Run
  <1>4. QED
    BY <1>1, <1>2, <1>3 DEF Next

LEMMA InitLineages == Init => LineagesEnd
  <1> SUFFICES ASSUME Init PROVE LineagesEnd
    OBVIOUS
  <1> DEFINE f == [i \in 0..0 |-> {}]
  <1>1. LineWalk(journal, f, 0)
    BY DEF LineWalk, None
  <1>2. \A g : LineWalk(journal, g, 0) => g = f
    <2> SUFFICES ASSUME NEW g, LineWalk(journal, g, 0) PROVE g = f
      OBVIOUS
    <2>1. g = [i \in 0..0 |-> IF i = None THEN {} ELSE {i} \cup g[journal[i].parent]]
      BY DEF LineWalk
    <2>2. \A i \in 0..0 : i = None
      BY DEF None
    <2>3. QED
      BY <2>1, <2>2
  <1>3. LineWalkIsOne(journal, 0)
    BY <1>1, <1>2 DEF LineWalkIsOne
  <1>4. Gathered(journal, 0) = f[0]
    BY <1>1, <1>3, GatheredIs
  <1>5. Lineage(0) = {}
    BY <1>4, LineageIsGathered
  <1>6. \A event \in 0..Len(journal) : event = 0
    BY DEF Init
  <1>7. QED
    BY <1>3, <1>5, <1>6 DEF LineagesEnd

LEMMA InitHolds == Init => HoldsInv
  <1> SUFFICES ASSUME Init PROVE HoldsInv
    OBVIOUS
  <1>1. journal = <<>> /\ \A b \in BranchIds : base[b].uuid = None
    BY DEF Init
  <1>2. Uuids = {} /\ TurnsIn(journal) = {}
    BY <1>1 DEF Uuids, TurnsIn
  <1>3. \A r \in Executions : exec[r].pc = "off"
    BY DEF Init, Idle
  <1>4. \A s, i : RecallsOf(journal, memory, s, i)
    BY <1>2 DEF RecallsOf
  <1>5. QED
    BY <1>3, <1>4 DEF HoldsInv, TurnsHold, RowHolds, RunHolds, Opened

LEMMA RecallInvHolds ==
  FlushedTurns /\ Spec => [](TypeInv /\ TreeInv /\ OwnInv /\ LineagesEnd /\ HoldsInv)
  <1> SUFFICES ASSUME FlushedTurns
               PROVE  Spec => [](TypeInv /\ TreeInv /\ OwnInv /\ LineagesEnd /\ HoldsInv)
    OBVIOUS
  <1>1. Init => LineagesEnd /\ HoldsInv
    BY InitLineages, InitHolds
  <1>2. OrderlyRewinds
    BY DEF FlushedTurns
  <1>3. /\ TypeInv /\ TypeInv' /\ TreeInv /\ OwnInv /\ LineagesEnd /\ HoldsInv /\ [Next]_vars
             => LineagesEnd' /\ HoldsInv'
    BY NextLineages, NextHolds
  <1>4. QED
    BY <1>1, <1>2, <1>3, OwnInvHolds, PTL DEF Spec

(* Whoever answers a prompt on a branch, rewound or not, resumed or        *)
(* forked, after whatever failures, remembers every turn the branch shows: *)
(* build_sdk_options and _turn_base pick the conversation that holds them, *)
(* as long as no run is lost between a turn's result and its flush.        *)
THEOREM LineageRemembered == ASSUME FlushedTurns PROVE Spec => []RemembersLineage
  <1>1. TypeInv /\ TreeInv /\ OwnInv /\ HoldsInv => RemembersLineage
    <2> SUFFICES ASSUME TypeInv, TreeInv, OwnInv, HoldsInv, NEW r \in Executions,
                        exec[r].pc = "turn"
                 PROVE  Lineage(exec[r].tip) \cap Turns
                          \subseteq UNION {TurnOf(p) : p \in memory[exec[r].sdk]}
      BY DEF RemembersLineage
    <2>1. Opened(r) /\ Live(r)
      BY DEF Opened, Live
    <2>2. exec[r].tip # None /\ Opened(r)
      BY <2>1 DEF HoldsInv, RunHolds
    <2>3. exec[r].tip \in On(exec[r].branch)
      BY <2>1, <2>2, WriterAtHeadIs DEF TreeInv, AtHead, On
    <2>4. Recalls(exec[r].sdk, exec[r].tip)
      BY <2>1, <2>3, RecallInvIs DEF RecallInv, RunsRecall
    <2>5. exec[r].sdk # None
      BY <2>1, OwnInvIs DEF HandOwn
    <2>6. QED
      BY <2>4, <2>5 DEF Recalls, Recalled
  <1>2. QED
    BY <1>1, RecallInvHolds, PTL
=============================================================================
