---------------------------- MODULE StartupProofs ----------------------------
(***************************************************************************)
(* For any numbers of groups, versions and stops: the copy of a version is *)
(* the database it first met, what a start leaves of EveryOne and Internet, *)
(* and that the server comes up.                                           *)
(***************************************************************************)
EXTENDS Startup, FiniteSetTheorems, TLAPS

\* The target and its links are as this start found them.
AsFound ==
    IF before = None THEN db = None \/ ~db.internet
    ELSE db # None /\ db.internet = before.internet /\ db.links = before.links

Inv ==
    /\ TypeOK
    /\ UpgradeCanBeUndone
    /\ StartLeavesAccess
    /\ \A v \in Version : backup[v] # None => origin[v] # None
    /\ phase = "copy" => db # None /\ origin[image.version] = db
    /\ phase \in {"backup", "copy"} => db = before
    /\ phase \in {"migrate", "config", "groups", "targets"} => AsFound
    /\ phase \in {"targets", "link"} => db.everyone # {}
    /\ phase = "link" => db.internet /\ (before = None \/ ~before.internet)

-----------------------------------------------------------------------------
(* Rows *)

LEMMA FreshRow ==
    Fresh \in Database /\ ~Fresh.internet
  BY BoundsAssumption DEF Fresh, Database, Schema, Version

LEMMA NextSchema ==
    ASSUME NEW d \in Database, NEW v \in Version, d.schema < Schema(v)
    PROVE  /\ [d EXCEPT !.schema = @ + 1] \in Database
           /\ [d EXCEPT !.schema = @ + 1].internet = d.internet
           /\ [d EXCEPT !.schema = @ + 1].links = d.links
<1>1. Schema(v) <= Schema(MaxVersion) /\ Schema(v) \in Nat /\ Schema(MaxVersion) \in Nat
  BY BoundsAssumption DEF Schema, Version
<1>2. d.schema \in 1 .. Schema(MaxVersion)
  BY DEF Database
<1>3. d.schema + 1 \in 1 .. Schema(MaxVersion)
  BY <1>1, <1>2
<1> QED
  BY <1>3 DEF Database

LEMMA NewEveryOne ==
    ASSUME NEW d \in Database, NEW g \in Group
    PROVE  /\ [d EXCEPT !.everyone = {g}] \in Database
           /\ [d EXCEPT !.everyone = {g}].everyone = {g}
           /\ [d EXCEPT !.everyone = {g}].internet = d.internet
           /\ [d EXCEPT !.everyone = {g}].links = d.links
  BY DEF Database

LEMMA NewInternet ==
    ASSUME NEW d \in Database
    PROVE  /\ [d EXCEPT !.internet = TRUE] \in Database
           /\ [d EXCEPT !.internet = TRUE].everyone = d.everyone
           /\ [d EXCEPT !.internet = TRUE].internet
  BY DEF Database

LEMMA NewLinks ==
    ASSUME NEW d \in Database
    PROVE  /\ [d EXCEPT !.links = d.everyone] \in Database
           /\ [d EXCEPT !.links = d.everyone].everyone = d.everyone
           /\ [d EXCEPT !.links = d.everyone].internet = d.internet
           /\ [d EXCEPT !.links = d.everyone].links = d.everyone
  BY DEF Database

\* Whatever a request asks for, a database is left.
LEMMA RequestTyped ==
    ASSUME TypeOK, Requests
    PROVE  /\ db' \in Database
           /\ phase = "up"
           /\ UNCHANGED <<backup, image, phase, fault, stops, before, origin>>
<1>1. phase = "up" /\ db \in Database
  BY DEF Requests, TypeOK
<1>2. ASSUME NEW new \in Database, Request(new)
      PROVE  db' \in Database /\ UNCHANGED <<backup, image, phase, fault, stops, before, origin>>
  BY <1>2 DEF Request
<1>3. ASSUME NEW e \in SUBSET Group, NEW l \in SUBSET Group
      PROVE  [db EXCEPT !.everyone = e, !.links = l] \in Database
  BY <1>1 DEF Database
<1>4. ASSUME NEW i \in BOOLEAN, NEW l \in SUBSET Group
      PROVE  /\ [db EXCEPT !.internet = i, !.links = l] \in Database
             /\ [db EXCEPT !.internet = i] \in Database
             /\ [db EXCEPT !.links = l] \in Database
  BY <1>1 DEF Database
<1>5. db.everyone \in SUBSET Group /\ db.links \in SUBSET Group
  BY <1>1 DEF Database
<1>7. ASSUME NEW g \in Group, SaveGroup(g) \/ DeleteGroup(g)
      PROVE  db' \in Database /\ UNCHANGED <<backup, image, phase, fault, stops, before, origin>>
  <2>1. CASE SaveGroup(g)
    <3>1. PICK l \in SUBSET {x \in {g} : db.internet} :
             Request([db EXCEPT !.everyone = db.everyone \cup {g}, !.links = db.links \cup l])
      BY <2>1 DEF SaveGroup
    <3>2. db.everyone \cup {g} \in SUBSET Group /\ db.links \cup l \in SUBSET Group
      BY <1>5
    <3> QED
      BY <1>2, <1>3, <3>1, <3>2
  <2>2. CASE DeleteGroup(g)
    <3>1. db.everyone \ {g} \in SUBSET Group /\ db.links \ {g} \in SUBSET Group
      BY <1>5
    <3> QED
      BY <1>2, <1>3, <2>2, <3>1 DEF DeleteGroup
  <2> QED
    BY <1>7, <2>1, <2>2
<1>8. ASSUME SaveTarget \/ DeleteTarget \/ SetLinks
      PROVE  db' \in Database /\ UNCHANGED <<backup, image, phase, fault, stops, before, origin>>
  <2>1. CASE SaveTarget
    BY <1>2, <1>4, <1>5, <2>1 DEF SaveTarget
  <2>2. CASE DeleteTarget
    BY <1>2, <1>4, <2>2 DEF DeleteTarget
  <2>3. CASE SetLinks
    BY <1>2, <1>4, <1>5, <2>3 DEF SetLinks
  <2> QED
    BY <1>8, <2>1, <2>2, <2>3
<1> QED
  BY <1>1, <1>7, <1>8 DEF Requests

-----------------------------------------------------------------------------
(* One step for each action *)

LEMMA ImageVersion ==
    ASSUME TypeOK
    PROVE  image.version \in Version /\ image.live \in BOOLEAN
  BY DEF TypeOK, Image

\* What a version first found is noted once, and only then may a copy be missing.
LEMMA Noted ==
    ASSUME Inv, NoteOrigin, phase = "backup"
    PROVE  /\ origin' \in [Version -> Database \cup {None}]
           /\ \A v \in Version \ {image.version} : origin'[v] = origin[v]
           /\ \/ origin'[image.version] = origin[image.version]
              \/ origin'[image.version] = db /\ db # None
                 /\ origin[image.version] = None /\ image.live
           /\ image.live /\ db # None => origin'[image.version] # None
  BY ImageVersion DEF Inv, TypeOK, NoteOrigin

LEMMA BeginCopyStep ==
    ASSUME Inv, BeginCopy
    PROVE  Inv'
<1> DEFINE v0 == image.version
<1>1. /\ phase = "backup" /\ phase' = "copy"
      /\ UNCHANGED <<image, fault, stops, before, db>>
      /\ image.live /\ backup[v0] = None /\ db # None
      /\ backup' = [backup EXCEPT ![v0] = Partial]
      /\ NoteOrigin /\ v0 \in Version
  BY ImageVersion DEF BeginCopy, Boot, NeedsBackup, Inv
<1>2. origin[v0] = None
  BY <1>1, NoneAssumption DEF Inv, UpgradeCanBeUndone, TypeOK
<1>3. origin'[v0] = db /\ origin' \in [Version -> Database \cup {None}]
      /\ \A v \in Version \ {v0} : origin'[v] = origin[v]
  BY <1>1, <1>2, Noted
<1>4. UpgradeCanBeUndone'
  BY <1>1, <1>3 DEF Inv, UpgradeCanBeUndone, TypeOK
<1>5. TypeOK'
  BY <1>1, <1>3 DEF Inv, TypeOK, Booting
<1> QED
  BY <1>1, <1>3, <1>4, <1>5 DEF Inv, StartLeavesAccess

LEMMA EndCopyStep ==
    ASSUME Inv, EndCopy
    PROVE  Inv'
<1> DEFINE v0 == image.version
<1>1. /\ phase = "copy" /\ phase' = "migrate"
      /\ UNCHANGED <<image, fault, stops, before, db, origin>>
      /\ backup' = [backup EXCEPT ![v0] = db]
      /\ v0 \in Version /\ db \in Database /\ origin[v0] = db
  BY ImageVersion DEF EndCopy, Boot, Inv, TypeOK
<1>2. UpgradeCanBeUndone'
  BY <1>1 DEF Inv, UpgradeCanBeUndone, TypeOK
<1>3. TypeOK'
  BY <1>1 DEF Inv, TypeOK, Booting
<1>4. AsFound'
  BY <1>1 DEF Inv, AsFound
<1> QED
  BY <1>1, <1>2, <1>3, <1>4 DEF Inv, StartLeavesAccess

\* Where no copy is made, the one that exists is of the database noted before.
LEMMA SkipBackupStep ==
    ASSUME Inv, SkipBackup
    PROVE  Inv'
<1> DEFINE v0 == image.version
<1>1. /\ phase = "backup" /\ phase' = "migrate"
      /\ UNCHANGED <<image, fault, stops, before, db, backup>>
      /\ ~NeedsBackup /\ NoteOrigin /\ v0 \in Version
  BY ImageVersion DEF SkipBackup, Boot, Inv
<1>2. /\ origin' \in [Version -> Database \cup {None}]
      /\ \A v \in Version \ {v0} : origin'[v] = origin[v]
      /\ \/ origin'[v0] = origin[v0]
         \/ db # None /\ origin[v0] = None /\ image.live /\ origin'[v0] = db
  BY <1>1, Noted
<1>3. origin[v0] = None => backup[v0] = None
  BY <1>1 DEF Inv
<1>4. origin' = origin
  <2>1. origin'[v0] = origin[v0]
    BY <1>1, <1>2, <1>3 DEF NeedsBackup
  <2> QED
    BY <1>2, <2>1 DEF Inv, TypeOK
<1>5. TypeOK'
  BY <1>1, <1>2 DEF Inv, TypeOK, Booting
<1>6. UpgradeCanBeUndone' /\ AsFound'
  BY <1>1, <1>4 DEF Inv, UpgradeCanBeUndone, AsFound
<1> QED
  BY <1>1, <1>4, <1>5, <1>6 DEF Inv, StartLeavesAccess

\* The steps after the copy leave the copies and what was noted.
LEMMA Copies ==
    ASSUME Inv, UNCHANGED <<backup, origin>>
    PROVE  UpgradeCanBeUndone' /\ \A v \in Version : backup'[v] # None => origin'[v] # None
  BY DEF Inv, UpgradeCanBeUndone

LEMMA MigrateStep ==
    ASSUME Inv, Migrate
    PROVE  Inv'
<1>1. /\ phase = "migrate" /\ phase' = "migrate"
      /\ UNCHANGED <<image, fault, stops, before, backup, origin>>
      /\ image.version \in Version /\ db \in Database \cup {None}
  BY ImageVersion DEF Migrate, Boot, Inv, TypeOK
<1>2. AsFound
  BY <1>1 DEF Inv
<1>3. db' \in Database /\ AsFound'
  <2>1. CASE db = None
    <3>1. db' = Fresh /\ before = None
      BY <1>2, <2>1 DEF Migrate, AsFound
    <3> QED
      BY <1>1, <3>1, FreshRow DEF AsFound
  <2>2. CASE db # None
    <3>1. db \in Database /\ db.schema < Schema(image.version)
      <4>1. db.schema \in Nat /\ Schema(image.version) \in Nat
        BY <1>1, <2>2, BoundsAssumption DEF Database, Schema, Version
      <4> QED
        BY <1>1, <2>2, <4>1 DEF Migrate, UpToDate
    <3> DEFINE q == [db EXCEPT !.schema = @ + 1]
    <3>2. db' = q
      BY <2>2 DEF Migrate
    <3>3. q \in Database /\ q.internet = db.internet /\ q.links = db.links
      BY <1>1, <3>1, NextSchema
    <3> HIDE DEF q
    <3> QED
      BY <1>1, <1>2, <2>2, <3>2, <3>3, NoneAssumption DEF AsFound
  <2> QED
    BY <2>1, <2>2
<1>4. TypeOK'
  BY <1>1, <1>3 DEF Inv, TypeOK
<1> QED
  BY <1>1, <1>3, <1>4, Copies DEF Inv, StartLeavesAccess

LEMMA MigratedStep ==
    ASSUME Inv, Migrated
    PROVE  Inv'
<1>1. /\ phase = "migrate" /\ phase' = "config" /\ db # None
      /\ UNCHANGED <<image, fault, stops, before, db, backup, origin>>
  BY DEF Migrated, UpToDate, Boot
<1>2. TypeOK' /\ AsFound'
  BY <1>1 DEF Inv, TypeOK, Booting, AsFound
<1> QED
  BY <1>1, <1>2, Copies DEF Inv, StartLeavesAccess

LEMMA InitPeerGroupsStep ==
    ASSUME Inv, InitPeerGroups
    PROVE  Inv'
<1>1. /\ phase = "groups" /\ phase' = "targets" /\ db \in Database
      /\ UNCHANGED <<image, fault, stops, before, backup, origin>>
  BY DEF InitPeerGroups, Boot, Inv, TypeOK
<1>2. db' \in Database /\ db'.everyone # {} /\ AsFound'
  <2>1. CASE db.everyone # {}
    BY <1>1, <2>1 DEF InitPeerGroups, Inv, AsFound
  <2>2. CASE db.everyone = {}
    <3>1. PICK g \in Group : db' = [db EXCEPT !.everyone = {g}]
      BY <2>2 DEF InitPeerGroups
    <3>2. /\ db' \in Database /\ db'.everyone = {g}
          /\ db'.internet = db.internet /\ db'.links = db.links
      BY <1>1, <3>1, NewEveryOne
    <3> QED
      BY <1>1, <3>2, NoneAssumption DEF Inv, AsFound
  <2> QED
    BY <2>1, <2>2
<1>3. TypeOK'
  BY <1>1, <1>2, NoneAssumption DEF Inv, TypeOK, Booting
<1> QED
  BY <1>1, <1>2, <1>3, Copies DEF Inv, StartLeavesAccess

LEMMA KeepInternetStep ==
    ASSUME Inv, KeepInternet
    PROVE  Inv'
<1>1. /\ phase = "targets" /\ phase' = "peers" /\ db.internet /\ db # None
      /\ UNCHANGED <<image, fault, stops, before, db, backup, origin>>
  BY DEF KeepInternet, Boot, Inv, TypeOK
<1>2. AsFound /\ db.everyone # {}
  BY <1>1 DEF Inv
<1>3. StartLeavesAccess'
  BY <1>1, <1>2 DEF StartLeavesAccess, AsFound
<1>4. TypeOK'
  BY <1>1 DEF Inv, TypeOK, Booting
<1> QED
  BY <1>1, <1>3, <1>4, Copies DEF Inv

LEMMA SaveInternetStep ==
    ASSUME Inv, SaveInternet
    PROVE  Inv'
<1> DEFINE q == [db EXCEPT !.internet = TRUE]
<1>1. /\ phase = "targets" /\ phase' = "link" /\ ~db.internet /\ db \in Database
      /\ UNCHANGED <<image, fault, stops, before, backup, origin>> /\ db' = q
      /\ AsFound /\ db.everyone # {}
  BY DEF SaveInternet, Boot, Inv, TypeOK
<1>2. q \in Database /\ q.everyone = db.everyone /\ q.internet
  BY <1>1, NewInternet
<1> HIDE DEF q
<1>3. before = None \/ ~before.internet
  BY <1>1 DEF AsFound
<1>4. TypeOK'
  BY <1>1, <1>2, NoneAssumption DEF Inv, TypeOK, Booting
<1> QED
  BY <1>1, <1>2, <1>3, <1>4, Copies DEF Inv, StartLeavesAccess

LEMMA LinkInternetStep ==
    ASSUME Inv, LinkInternet
    PROVE  Inv'
<1> DEFINE q == [db EXCEPT !.links = db.everyone]
<1>1. /\ phase = "link" /\ phase' = "peers" /\ db \in Database /\ db.internet
      /\ UNCHANGED <<image, fault, stops, before, backup, origin>> /\ db' = q
      /\ db.everyone # {} /\ (before = None \/ ~before.internet)
  BY DEF LinkInternet, Boot, Inv, TypeOK
<1>2. /\ q \in Database /\ q.everyone = db.everyone /\ q.internet = db.internet
      /\ q.links = db.everyone
  BY <1>1, NewLinks
<1> HIDE DEF q
<1>3. StartLeavesAccess'
  BY <1>1, <1>2 DEF StartLeavesAccess
<1>4. TypeOK'
  BY <1>1, <1>2, NoneAssumption DEF Inv, TypeOK, Booting
<1> QED
  BY <1>1, <1>3, <1>4, Copies DEF Inv

LEMMA CommandStep ==
    ASSUME Inv, Command
    PROVE  Inv'
<1>1. /\ phase \in DOMAIN Then /\ phase' = Then[phase] /\ db # None
      /\ UNCHANGED <<image, fault, stops, before, db, backup, origin>>
  BY DEF Command, Boot, Then, Inv, TypeOK
<1>2. TypeOK'
  BY <1>1 DEF Inv, TypeOK, Then, Booting
<1>3. CASE phase = "config"
  BY <1>1, <1>2, <1>3, Copies DEF Inv, StartLeavesAccess, AsFound, Then
<1>4. CASE phase # "config"
  BY <1>1, <1>2, <1>4, Copies DEF Inv, StartLeavesAccess, Then
<1> QED
  BY <1>3, <1>4

\* The script begins again with the database as it is.
LEMMA AgainStep ==
    ASSUME Inv, phase' = "backup", before' = db, image' \in Image, stops' \in 0 .. MaxStops,
           UNCHANGED <<db, backup, fault, origin>>
    PROVE  Inv'
<1>1. TypeOK'
  BY DEF Inv, TypeOK, Booting
<1> QED
  BY <1>1, Copies DEF Inv, StartLeavesAccess

LEMMA RestartStep ==
    ASSUME Inv, Restart \/ InitTargetsFails \/ CommandFails
    PROVE  Inv'
<1>1. image \in Image /\ stops \in 0 .. MaxStops
  BY DEF Inv, TypeOK
<1>2. CASE Restart
  <2>1. stops' \in 0 .. MaxStops /\ image' \in Image
    BY <1>1, <1>2, BoundsAssumption DEF Restart
  <2> QED
    BY <1>2, <2>1, AgainStep DEF Restart
<1>3. CASE InitTargetsFails \/ CommandFails
  BY <1>1, <1>3, AgainStep DEF InitTargetsFails, CommandFails, GiveUp
<1> QED
  BY <1>2, <1>3

LEMMA RequestStep ==
    ASSUME Inv, Requests
    PROVE  Inv'
<1>1. db' \in Database /\ phase = "up" /\ UNCHANGED <<backup, image, phase, fault, stops, before, origin>>
  BY RequestTyped DEF Inv
<1>2. TypeOK'
  BY <1>1, NoneAssumption DEF Inv, TypeOK
<1> QED
  BY <1>1, <1>2, Copies DEF Inv, StartLeavesAccess

LEMMA OtherDataStep ==
    ASSUME Inv, OtherData
    PROVE  Inv'
<1>1. TypeOK'
  BY DEF OtherData, Inv, TypeOK
<1> QED
  BY <1>1, Copies DEF OtherData, Inv, StartLeavesAccess, AsFound

LEMMA InitInv ==
    ASSUME Init
    PROVE  Inv
<1>1. 0 \in 0 .. MaxStops
  BY BoundsAssumption
<1>2. TypeOK
  BY <1>1 DEF Init, TypeOK, Booting
<1> QED
  BY <1>2 DEF Init, Inv, UpgradeCanBeUndone, StartLeavesAccess

LEMMA Step ==
    ASSUME Inv, [Next]_vars
    PROVE  Inv'
<1>1. CASE UNCHANGED vars
  BY <1>1 DEF vars, Inv, TypeOK, UpgradeCanBeUndone, StartLeavesAccess, AsFound
<1> QED
  BY <1>1, BeginCopyStep, EndCopyStep, SkipBackupStep, MigrateStep, MigratedStep,
     InitPeerGroupsStep, KeepInternetStep, SaveInternetStep, LinkInternetStep, CommandStep,
     RestartStep, RequestStep, OtherDataStep DEF Next, Script

LEMMA Invariance == Spec => []Inv
  BY InitInv, Step, PTL DEF Spec

-----------------------------------------------------------------------------
(* Theorems *)

\* Every state has its type.
THEOREM TypeCorrect == Spec => []TypeOK
<1>1. Inv => TypeOK
  BY DEF Inv
<1> QED
  BY <1>1, Invariance, PTL

\* However often the container stops and whatever it is upgraded to, the copy
\* named after a version is the database that the version first met, or the part
\* of it that was copied before a stop (backup_db_before_upgrade).
THEOREM UpgradesCanBeUndone == Spec => []UpgradeCanBeUndone
<1>1. Inv => UpgradeCanBeUndone
  BY DEF Inv
<1> QED
  BY <1>1, Invariance, PTL

\* Every start that gets to init_peers has EveryOne and Internet, and links
\* them only if it made the target (init_peer_groups, init_targets).
THEOREM StartsLeaveAccess == Spec => []StartLeavesAccess
<1>1. Inv => StartLeavesAccess
  BY DEF Inv
<1> QED
  BY <1>1, Invariance, PTL

-----------------------------------------------------------------------------
(* Unless the next command fails there is a next step.  ENABLED <<Script>>_vars *)
(* says that there are next values of the variables with which <<Script>>_vars *)
(* holds; the prover does not expand ENABLED, so LeadsTo names such values,    *)
(* ScriptLeadsTo shows that they are a step, and ScriptGoesOn that they exist. *)

\* The script takes this state to the one with these values, by a command that
\* ends well or fails; the image and the number of stops stay.
LeadsTo(d, b, ph, e, o) ==
    \/ /\ phase = "backup" /\ <<d, e>> = <<db, before>>
       /\ o = (IF image.live /\ db # None /\ origin[image.version] = None
               THEN [origin EXCEPT ![image.version] = db] ELSE origin)
       /\ <<b, ph>> = (IF NeedsBackup
                       THEN <<[backup EXCEPT ![image.version] = Partial], "copy">>
                       ELSE <<backup, "migrate">>)
    \/ /\ phase = "copy" /\ ph = "migrate"
       /\ <<d, b, e, o>> = <<db, [backup EXCEPT ![image.version] = db], before, origin>>
    \/ /\ phase = "migrate" /\ <<b, e, o>> = <<backup, before, origin>>
       /\ <<d, ph>> = (IF UpToDate THEN <<db, "config">>
                       ELSE IF db = None THEN <<Fresh, "migrate">>
                       ELSE <<[db EXCEPT !.schema = @ + 1], "migrate">>)
    \/ /\ phase = "groups" /\ ph = "targets" /\ <<b, e, o>> = <<backup, before, origin>>
       /\ IF db.everyone # {} THEN d = db
          ELSE \E g \in Group : d = [db EXCEPT !.everyone = {g}]
    \/ /\ phase = "targets" /\ <<b, o>> = <<backup, origin>>
       /\ <<d, ph, e>> = (IF db.internet THEN <<db, "peers", before>>
                          ELSE IF OneEveryOne
                               THEN <<[db EXCEPT !.internet = TRUE], "link", before>>
                          ELSE <<db, "backup", db>>)
    \/ /\ phase = "link" /\ ph = "peers" /\ <<b, e, o>> = <<backup, before, origin>>
       /\ d = [db EXCEPT !.links = db.everyone]
    \/ /\ phase \in DOMAIN Then /\ ph = Then[phase]
       /\ <<d, b, e, o>> = <<db, backup, before, origin>>

LEMMA NoneNoStep == None \notin Booting
  BY NoneAssumption

LEMMA ScriptLeadsTo ==
    ASSUME Inv, fault = None, UNCHANGED <<image, fault, stops>>,
           LeadsTo(db', backup', phase', before', origin')
    PROVE  <<Script>>_vars
<1>0. fault \notin Booting
  BY NoneNoStep
<1>1. CASE phase = "backup"
  <2>1. CASE NeedsBackup
    BY <1>0, <1>1, <2>1 DEF LeadsTo, Booting, Then, Script, BeginCopy, Boot, NoteOrigin, vars
  <2>2. CASE ~NeedsBackup
    BY <1>0, <1>1, <2>2 DEF LeadsTo, Booting, Then, Script, SkipBackup, Boot, NoteOrigin, vars
  <2> QED
    BY <2>1, <2>2
<1>2. CASE phase = "copy"
  BY <1>0, <1>2 DEF LeadsTo, Booting, Then, Script, EndCopy, Boot, vars
<1>3. CASE phase = "migrate"
  <2>1. CASE UpToDate
    BY <1>0, <1>3, <2>1 DEF LeadsTo, Booting, Then, Script, Migrated, Boot, vars
  <2>2. CASE ~UpToDate /\ db = None
    BY <1>0, <1>3, <2>2, FreshRow, NoneAssumption DEF LeadsTo, Booting, Then, Script, Migrate, Boot, vars
  <2>3. CASE ~UpToDate /\ db # None
    <3>1. db' = [db EXCEPT !.schema = @ + 1] /\ Boot("migrate", "migrate")
      BY <1>0, <1>3, <2>3 DEF LeadsTo, Booting, Then, Boot
    <3>2. db \in Database /\ db.schema \in Nat
      BY <2>3, BoundsAssumption DEF Inv, TypeOK, Database, Schema
    <3>3. db'.schema # db.schema
      BY <3>1, <3>2 DEF Database
    <3>4. UNCHANGED <<backup, origin>>
      BY <1>3 DEF LeadsTo
    <3> QED
      BY <2>3, <3>1, <3>3, <3>4 DEF Script, Migrate, vars
  <2> QED
    BY <2>1, <2>2, <2>3
<1>4. CASE phase = "groups"
  BY <1>0, <1>4 DEF LeadsTo, Booting, Then, Script, InitPeerGroups, Boot, vars
<1>5. CASE phase = "targets"
  BY <1>0, <1>5 DEF LeadsTo, Booting, Then, Script, KeepInternet, SaveInternet, InitTargetsFails, Boot, GiveUp, vars
<1>6. CASE phase = "link"
  BY <1>0, <1>6 DEF LeadsTo, Booting, Then, Script, LinkInternet, Boot, vars
<1>7. CASE phase \in DOMAIN Then
  <2>1. Command
    BY <1>0, <1>7 DEF LeadsTo, Command, Boot, Then, Booting
  <2>2. phase' # phase
    BY <1>7 DEF LeadsTo, Then
  <2> QED
    BY <2>1, <2>2 DEF Script, vars
<1> QED
  BY <1>1, <1>2, <1>3, <1>4, <1>5, <1>6, <1>7 DEF LeadsTo

\* What the meaning of ENABLED makes of ScriptLeadsTo.
ScriptCan ==
    Inv /\ fault = None /\ (\E d, b, ph, e, o : LeadsTo(d, b, ph, e, o))
        => ENABLED <<Script>>_vars

\* Whatever stops, requests and other versions have left, the script has a step to
\* take until the server is up.
LEMMA ScriptGoesOn ==
    ASSUME Inv, phase # "up"
    PROVE  \E d, b, ph, e, o : LeadsTo(d, b, ph, e, o)
<1>1. phase \in Booting
  BY DEF Inv, TypeOK
<1>2. CASE phase \in {"backup", "copy", "migrate", "targets", "link"}
  BY <1>2 DEF LeadsTo
<1>3. CASE phase = "groups"
  <2>1. PICK g \in Group : TRUE
    BY GroupAssumption
  <2> QED
    BY <1>3, <2>1 DEF LeadsTo
<1>4. CASE phase \in DOMAIN Then
  BY <1>4 DEF LeadsTo
<1> QED
  BY <1>1, <1>2, <1>3, <1>4 DEF Booting, Then

NeverStuck == fault = None /\ phase # "up" => ENABLED <<Script>>_vars

LEMMA ScriptNeverStuck == Spec /\ []ScriptCan => []NeverStuck
<1>1. Inv /\ ScriptCan => NeverStuck
  BY ScriptGoesOn DEF ScriptCan, NeverStuck
<1> QED
  BY <1>1, Invariance, PTL

-----------------------------------------------------------------------------
(* The server comes up.  That stops and migrations come to an end follows from *)
(* ChangesAreFew, but by induction over temporal formulas, which is beyond the *)
(* prover.                                                                     *)

Changes == Restart \/ Migrate

On(ph) == phase = ph /\ Startable

\* A migration, a new group or the target leave that the server can be started.
LEMMA ScriptKeeps ==
    ASSUME Inv, Startable, Script
    PROVE  Startable' /\ phase # "up"
<1>1. CASE \/ BeginCopy \/ EndCopy \/ SkipBackup \/ Migrated \/ KeepInternet \/ Command
          \/ InitTargetsFails \/ CommandFails
  <2>1. db' = db
    BY <1>1 DEF BeginCopy, EndCopy, SkipBackup, Migrated, KeepInternet, Command,
                InitTargetsFails, CommandFails, GiveUp
  <2>2. phase # "up"
    <3>1. fault \in Booting \cup {None} /\ None \notin Booting /\ "up" \notin Booting
      BY FallibleAssumption, NoneAssumption DEF Inv, TypeOK, Booting
    <3>2. CASE CommandFails
      BY <3>1, <3>2 DEF CommandFails, GiveUp
    <3>3. CASE Command
      BY <3>3 DEF Command, Then
    <3> QED
      BY <1>1, <3>2, <3>3
        DEF BeginCopy, EndCopy, SkipBackup, Migrated, KeepInternet, InitTargetsFails, GiveUp, Boot
  <2> QED
    BY <2>1, <2>2 DEF Startable
<1>2. CASE Migrate
  <2>1. Startable'
    <3>1. CASE db = None
      BY <1>2, <3>1, FS_EmptySet DEF Migrate, Startable, Fresh
    <3>2. CASE db # None
      BY <1>2, <3>2, NoneAssumption DEF Migrate, Startable, Inv, TypeOK, Database
    <3> QED
      BY <3>1, <3>2
  <2> QED
    BY <1>2, <2>1 DEF Migrate, Boot
<1>3. CASE InitPeerGroups
  <2>1. phase = "groups" /\ phase' = "targets" /\ db \in Database
    BY <1>3 DEF InitPeerGroups, Boot, Inv, TypeOK
  <2>2. CASE db.everyone # {}
    BY <1>3, <2>1, <2>2 DEF InitPeerGroups, Startable
  <2>3. CASE db.everyone = {}
    <3>1. PICK g \in Group : db' = [db EXCEPT !.everyone = {g}]
      BY <1>3, <2>3 DEF InitPeerGroups
    <3>2. db'.everyone = {g}
      BY <2>1, <3>1 DEF Database
    <3>3. Cardinality({g}) = 1
      BY FS_Singleton
    <3> QED
      BY <2>1, <3>2, <3>3 DEF Startable
  <2> QED
    BY <2>1, <2>2, <2>3
<1>4. CASE SaveInternet \/ LinkInternet
  <2>1. db \in Database
    BY <1>4 DEF SaveInternet, LinkInternet, Boot, Inv, TypeOK
  <2>2. db'.internet
    BY <1>4, <2>1 DEF SaveInternet, LinkInternet, Boot, Inv, Database
  <2> QED
    BY <1>4, <2>2 DEF SaveInternet, LinkInternet, Boot, Startable
<1> QED
  BY <1>1, <1>2, <1>3, <1>4 DEF Script

\* Where no command fails, each step of the script leads to the next.
LEMMA ScriptStep ==
    ASSUME Inv, Startable, fault = None, Script
    PROVE  /\ Startable' /\ phase # "up"
           /\ phase = "backup" => phase' \in {"copy", "migrate"}
           /\ phase = "copy" => phase' = "migrate"
           /\ phase = "migrate" => Migrate \/ phase' = "config"
           /\ phase = "groups" => phase' = "targets"
           /\ phase = "targets" => phase' \in {"link", "peers"}
           /\ phase = "link" => phase' = "peers"
           /\ phase \in DOMAIN Then => phase' = Then[phase]
<1>1. Startable' /\ phase # "up"
  BY ScriptKeeps
<1>2. CASE \/ BeginCopy \/ EndCopy \/ SkipBackup \/ Migrate \/ Migrated
          \/ InitPeerGroups \/ KeepInternet \/ SaveInternet \/ LinkInternet
  BY <1>1, <1>2
    DEF BeginCopy, EndCopy, SkipBackup, Migrate, Migrated, InitPeerGroups, KeepInternet,
        SaveInternet, LinkInternet, Boot, Then
<1>3. CASE Command
  BY <1>1, <1>3 DEF Command, Boot, Then
<1>4. CASE InitTargetsFails
  <2>1. phase = "targets" /\ db \in Database /\ db.everyone # {} /\ ~db.internet /\ ~OneEveryOne
    BY <1>4 DEF InitTargetsFails, GiveUp, Inv, TypeOK
  <2>2. Cardinality(db.everyone) <= 1
    BY <2>1, NoneAssumption DEF Startable
  <2>3. IsFiniteSet(db.everyone)
    BY <2>1, GroupAssumption, FS_Subset DEF Database
  <2>4. Cardinality(db.everyone) \in Nat /\ Cardinality(db.everyone) # 0
    BY <2>1, <2>3, FS_CardinalityType, FS_EmptySet
  <2> QED
    BY <2>1, <2>2, <2>4 DEF OneEveryOne
<1>5. CASE CommandFails
  BY <1>5 DEF CommandFails
<1> QED
  BY <1>2, <1>3, <1>4, <1>5 DEF Script

\* While the container runs and the migrations are applied, only the script moves.
LEMMA OnlyScript ==
    ASSUME Inv, Startable, [Next]_vars, [~Changes]_vars
    PROVE  (Script /\ ~Migrate) \/ phase = "up" \/ (Startable' /\ phase' = phase)
<1>1. CASE UNCHANGED vars \/ OtherData
  BY <1>1 DEF vars, OtherData, Startable
<1>2. CASE Requests
  BY <1>2 DEF Requests
<1>3. CASE Script \/ Restart
  <2>1. CASE UNCHANGED vars
    BY <1>1, <2>1
  <2>2. CASE ~UNCHANGED vars
    BY <1>3, <2>2 DEF Changes
  <2> QED
    BY <2>1, <2>2
<1> QED
  BY <1>1, <1>2, <1>3 DEF Next

Mended == fault = None

Runs ==
    /\ []Inv /\ []NeverStuck /\ []Mended
    /\ [][Next]_vars /\ [][~Changes]_vars /\ WF_vars(Script)

\* From any step of the script the server comes up.
LEMMA StartEnds == Runs => (phase # "up" /\ Startable ~> phase = "up")
<1>1. Runs => (On("backup") ~> On("copy") \/ On("migrate"))
  <2>1. Inv /\ Mended /\ On("backup") /\ [Next]_vars /\ [~Changes]_vars
        => On("backup")' \/ On("copy")' \/ On("migrate")'
    BY OnlyScript, ScriptStep DEF On, Mended
  <2>2. Inv /\ Mended /\ On("backup") /\ [~Changes]_vars /\ <<Script>>_vars
        => On("copy")' \/ On("migrate")'
    BY ScriptStep DEF On, Mended, Changes
  <2>3. NeverStuck /\ Mended /\ On("backup") => ENABLED <<Script>>_vars
    BY DEF NeverStuck, On, Mended
  <2> QED
    BY <2>1, <2>2, <2>3, PTL DEF Runs
<1>2. Runs => (On("copy") ~> On("migrate"))
  <2>1. Inv /\ Mended /\ On("copy") /\ [Next]_vars /\ [~Changes]_vars
        => On("copy")' \/ On("migrate")'
    BY OnlyScript, ScriptStep DEF On, Mended
  <2>2. Inv /\ Mended /\ On("copy") /\ [~Changes]_vars /\ <<Script>>_vars
        => On("migrate")'
    BY ScriptStep DEF On, Mended, Changes
  <2>3. NeverStuck /\ Mended /\ On("copy") => ENABLED <<Script>>_vars
    BY DEF NeverStuck, On, Mended
  <2> QED
    BY <2>1, <2>2, <2>3, PTL DEF Runs
<1>3. Runs => (On("migrate") ~> On("config"))
  <2>1. Inv /\ Mended /\ On("migrate") /\ [Next]_vars /\ [~Changes]_vars
        => On("migrate")' \/ On("config")'
    BY OnlyScript, ScriptStep DEF On, Mended
  <2>2. Inv /\ Mended /\ On("migrate") /\ [~Changes]_vars /\ <<Script>>_vars
        => On("config")'
    BY ScriptStep DEF On, Mended, Changes
  <2>3. NeverStuck /\ Mended /\ On("migrate") => ENABLED <<Script>>_vars
    BY DEF NeverStuck, On, Mended
  <2> QED
    BY <2>1, <2>2, <2>3, PTL DEF Runs
<1>4. Runs => (On("config") ~> On("groups"))
  <2>1. Inv /\ Mended /\ On("config") /\ [Next]_vars /\ [~Changes]_vars
        => On("config")' \/ On("groups")'
    BY OnlyScript, ScriptStep DEF On, Mended, Then
  <2>2. Inv /\ Mended /\ On("config") /\ [~Changes]_vars /\ <<Script>>_vars
        => On("groups")'
    BY ScriptStep DEF On, Mended, Changes, Then
  <2>3. NeverStuck /\ Mended /\ On("config") => ENABLED <<Script>>_vars
    BY DEF NeverStuck, On, Mended
  <2> QED
    BY <2>1, <2>2, <2>3, PTL DEF Runs
<1>5. Runs => (On("groups") ~> On("targets"))
  <2>1. Inv /\ Mended /\ On("groups") /\ [Next]_vars /\ [~Changes]_vars
        => On("groups")' \/ On("targets")'
    BY OnlyScript, ScriptStep DEF On, Mended
  <2>2. Inv /\ Mended /\ On("groups") /\ [~Changes]_vars /\ <<Script>>_vars
        => On("targets")'
    BY ScriptStep DEF On, Mended, Changes
  <2>3. NeverStuck /\ Mended /\ On("groups") => ENABLED <<Script>>_vars
    BY DEF NeverStuck, On, Mended
  <2> QED
    BY <2>1, <2>2, <2>3, PTL DEF Runs
<1>6. Runs => (On("targets") ~> On("link") \/ On("peers"))
  <2>1. Inv /\ Mended /\ On("targets") /\ [Next]_vars /\ [~Changes]_vars
        => On("targets")' \/ On("link")' \/ On("peers")'
    BY OnlyScript, ScriptStep DEF On, Mended
  <2>2. Inv /\ Mended /\ On("targets") /\ [~Changes]_vars /\ <<Script>>_vars
        => On("link")' \/ On("peers")'
    BY ScriptStep DEF On, Mended, Changes
  <2>3. NeverStuck /\ Mended /\ On("targets") => ENABLED <<Script>>_vars
    BY DEF NeverStuck, On, Mended
  <2> QED
    BY <2>1, <2>2, <2>3, PTL DEF Runs
<1>7. Runs => (On("link") ~> On("peers"))
  <2>1. Inv /\ Mended /\ On("link") /\ [Next]_vars /\ [~Changes]_vars
        => On("link")' \/ On("peers")'
    BY OnlyScript, ScriptStep DEF On, Mended
  <2>2. Inv /\ Mended /\ On("link") /\ [~Changes]_vars /\ <<Script>>_vars
        => On("peers")'
    BY ScriptStep DEF On, Mended, Changes
  <2>3. NeverStuck /\ Mended /\ On("link") => ENABLED <<Script>>_vars
    BY DEF NeverStuck, On, Mended
  <2> QED
    BY <2>1, <2>2, <2>3, PTL DEF Runs
<1>8. Runs => (On("peers") ~> On("mcp"))
  <2>1. Inv /\ Mended /\ On("peers") /\ [Next]_vars /\ [~Changes]_vars
        => On("peers")' \/ On("mcp")'
    BY OnlyScript, ScriptStep DEF On, Mended, Then
  <2>2. Inv /\ Mended /\ On("peers") /\ [~Changes]_vars /\ <<Script>>_vars
        => On("mcp")'
    BY ScriptStep DEF On, Mended, Changes, Then
  <2>3. NeverStuck /\ Mended /\ On("peers") => ENABLED <<Script>>_vars
    BY DEF NeverStuck, On, Mended
  <2> QED
    BY <2>1, <2>2, <2>3, PTL DEF Runs
<1>9. Runs => (On("mcp") ~> On("cache"))
  <2>1. Inv /\ Mended /\ On("mcp") /\ [Next]_vars /\ [~Changes]_vars
        => On("mcp")' \/ On("cache")'
    BY OnlyScript, ScriptStep DEF On, Mended, Then
  <2>2. Inv /\ Mended /\ On("mcp") /\ [~Changes]_vars /\ <<Script>>_vars
        => On("cache")'
    BY ScriptStep DEF On, Mended, Changes, Then
  <2>3. NeverStuck /\ Mended /\ On("mcp") => ENABLED <<Script>>_vars
    BY DEF NeverStuck, On, Mended
  <2> QED
    BY <2>1, <2>2, <2>3, PTL DEF Runs
<1>10. Runs => (On("cache") ~> On("generate"))
  <2>1. Inv /\ Mended /\ On("cache") /\ [Next]_vars /\ [~Changes]_vars
        => On("cache")' \/ On("generate")'
    BY OnlyScript, ScriptStep DEF On, Mended, Then
  <2>2. Inv /\ Mended /\ On("cache") /\ [~Changes]_vars /\ <<Script>>_vars
        => On("generate")'
    BY ScriptStep DEF On, Mended, Changes, Then
  <2>3. NeverStuck /\ Mended /\ On("cache") => ENABLED <<Script>>_vars
    BY DEF NeverStuck, On, Mended
  <2> QED
    BY <2>1, <2>2, <2>3, PTL DEF Runs
<1>11. Runs => (On("generate") ~> On("tunnel"))
  <2>1. Inv /\ Mended /\ On("generate") /\ [Next]_vars /\ [~Changes]_vars
        => On("generate")' \/ On("tunnel")'
    BY OnlyScript, ScriptStep DEF On, Mended, Then
  <2>2. Inv /\ Mended /\ On("generate") /\ [~Changes]_vars /\ <<Script>>_vars
        => On("tunnel")'
    BY ScriptStep DEF On, Mended, Changes, Then
  <2>3. NeverStuck /\ Mended /\ On("generate") => ENABLED <<Script>>_vars
    BY DEF NeverStuck, On, Mended
  <2> QED
    BY <2>1, <2>2, <2>3, PTL DEF Runs
<1>12. Runs => (On("tunnel") ~> phase = "up")
  <2>1. Inv /\ Mended /\ On("tunnel") /\ [Next]_vars /\ [~Changes]_vars
        => On("tunnel")' \/ (phase = "up")'
    BY OnlyScript, ScriptStep DEF On, Mended, Then
  <2>2. Inv /\ Mended /\ On("tunnel") /\ <<Script>>_vars => (phase = "up")'
    BY ScriptStep DEF On, Mended, Then
  <2>3. NeverStuck /\ Mended /\ On("tunnel") => ENABLED <<Script>>_vars
    BY DEF NeverStuck, On, Mended
  <2> QED
    BY <2>1, <2>2, <2>3, PTL DEF Runs
<1>13. Inv /\ phase # "up" /\ Startable
       => \/ On("backup") \/ On("copy") \/ On("migrate") \/ On("config") \/ On("groups")
          \/ On("targets") \/ On("link") \/ On("peers") \/ On("mcp") \/ On("cache")
          \/ On("generate") \/ On("tunnel")
  BY DEF Inv, TypeOK, Booting, On
<1> QED
  BY <1>1, <1>2, <1>3, <1>4, <1>5, <1>6, <1>7, <1>8, <1>9, <1>10, <1>11, <1>12, <1>13, PTL DEF Runs

\* The stops and the migrations that can still come.
Level == IF db = None THEN 0 ELSE db.schema

ChangesLeft == (MaxStops - stops) + (Schema(MaxVersion) - Level)

FewLeft == ChangesLeft \in 0 .. (MaxStops + Schema(MaxVersion))

Shrinks == IF Changes THEN ChangesLeft' < ChangesLeft ELSE ChangesLeft' = ChangesLeft

LEMMA LevelType == Inv => Level \in 0 .. Schema(MaxVersion) /\ stops \in 0 .. MaxStops
  BY NoneAssumption, BoundsAssumption DEF Inv, TypeOK, Level, Schema, Database

\* No step takes a migration back.
LEMMA LevelKept ==
    ASSUME Inv, [Next]_vars, ~Migrate
    PROVE  Level' = Level
<1>1. CASE Script
  <2>1. CASE \/ BeginCopy \/ EndCopy \/ SkipBackup \/ Migrated \/ KeepInternet \/ Command
            \/ InitTargetsFails \/ CommandFails
    BY <2>1 DEF BeginCopy, EndCopy, SkipBackup, Migrated, KeepInternet, Command,
                InitTargetsFails, CommandFails, GiveUp, Level
  <2>2. CASE InitPeerGroups \/ SaveInternet \/ LinkInternet
    <3>1. db \in Database
      BY <2>2 DEF InitPeerGroups, SaveInternet, LinkInternet, Boot, Inv, TypeOK
    <3>2. db' # None
      BY <2>2, Step DEF InitPeerGroups, SaveInternet, LinkInternet, Boot, Inv, TypeOK
    <3>3. db'.schema = db.schema
      <4>1. \A g \in Group : [db EXCEPT !.everyone = {g}].schema = db.schema
        BY <3>1 DEF Database
      <4>2. /\ [db EXCEPT !.internet = TRUE].schema = db.schema
            /\ [db EXCEPT !.links = db.everyone].schema = db.schema
        BY <3>1 DEF Database
      <4> QED
        BY <2>2, <4>1, <4>2 DEF InitPeerGroups, SaveInternet, LinkInternet
    <3> QED
      BY <3>1, <3>2, <3>3, NoneAssumption DEF Level
  <2> QED
    BY <1>1, <2>1, <2>2 DEF Script
<1>2. CASE Restart \/ OtherData
  BY <1>2 DEF Restart, OtherData, Level
<1>3. CASE Requests
  <2>1. db \in Database
    BY <1>3 DEF Requests, Inv, TypeOK
  <2>2. db' \in Database
    BY <1>3, RequestTyped DEF Inv
  <2>3. ASSUME NEW e, NEW l, NEW i
        PROVE  /\ [db EXCEPT !.everyone = e, !.links = l].schema = db.schema
               /\ [db EXCEPT !.internet = i, !.links = l].schema = db.schema
               /\ [db EXCEPT !.internet = i].schema = db.schema
               /\ [db EXCEPT !.links = l].schema = db.schema
    BY <2>1 DEF Database
  <2>4. db'.schema = db.schema
    <3>1. ASSUME NEW g \in Group, SaveGroup(g) \/ DeleteGroup(g) PROVE db'.schema = db.schema
      <4>1. CASE SaveGroup(g)
        <5>1. PICK l \in SUBSET {x \in {g} : db.internet} :
                 db' = [db EXCEPT !.everyone = db.everyone \cup {g}, !.links = db.links \cup l]
          BY <4>1 DEF SaveGroup, Request
        <5> QED
          BY <2>3, <5>1
      <4>2. CASE DeleteGroup(g)
        <5>1. db' = [db EXCEPT !.everyone = db.everyone \ {g}, !.links = db.links \ {g}]
          BY <4>2 DEF DeleteGroup, Request
        <5> QED
          BY <2>3, <5>1
      <4> QED
        BY <3>1, <4>1, <4>2
    <3>2. CASE SaveTarget \/ DeleteTarget \/ SetLinks
      <4>1. \/ db' = [db EXCEPT !.internet = TRUE]
            \/ db' = [db EXCEPT !.internet = FALSE, !.links = {}]
            \/ \E l \in SUBSET db.everyone : db' = [db EXCEPT !.links = l]
        BY <3>2 DEF SaveTarget, DeleteTarget, SetLinks, Request
      <4>2. CASE db' = [db EXCEPT !.internet = TRUE]
        BY <2>3, <4>2
      <4>3. CASE db' = [db EXCEPT !.internet = FALSE, !.links = {}]
        BY <2>3, <4>3
      <4>4. CASE \E l \in SUBSET db.everyone : db' = [db EXCEPT !.links = l]
        BY <2>3, <4>4
      <4> QED
        BY <4>1, <4>2, <4>3, <4>4
    <3> QED
      BY <1>3, <3>1, <3>2 DEF Requests
  <2> QED
    BY <2>1, <2>2, <2>4, NoneAssumption DEF Level
<1>4. CASE UNCHANGED vars
  BY <1>4 DEF vars, Level
<1> QED
  BY <1>1, <1>2, <1>3, <1>4 DEF Next

LEMMA StopsKept ==
    ASSUME Inv, [Next]_vars, ~Restart
    PROVE  stops' = stops
  BY DEF Next, Script, BeginCopy, EndCopy, SkipBackup, Migrate, Migrated, InitPeerGroups,
         KeepInternet, SaveInternet, LinkInternet, InitTargetsFails, Command, CommandFails,
         GiveUp, Boot, Requests, SaveGroup, DeleteGroup, SaveTarget, DeleteTarget, SetLinks,
         Request, OtherData, vars

\* Stops and migrations take what is left of them, and nothing gives it back: a
\* behaviour has no more than MaxStops of the ones and those of all versions of the
\* others.  This is why the next theorem may suppose that they come to an end.
THEOREM ChangesAreFew == Spec => []FewLeft /\ [][Shrinks]_vars
<1>1. Inv => FewLeft
  BY LevelType, BoundsAssumption DEF FewLeft, ChangesLeft, Schema
<1>2. Inv /\ [Next]_vars => [Shrinks]_vars
  <2> SUFFICES ASSUME Inv, [Next]_vars PROVE Shrinks
    OBVIOUS
  <2>0. /\ Level \in Nat /\ stops \in Nat
        /\ MaxStops \in Nat /\ Schema(MaxVersion) \in Nat
    BY LevelType, BoundsAssumption DEF Schema
  <2>1. CASE Restart
    <3>1. stops' = stops + 1
      BY <2>1 DEF Restart
    <3>2. Level' = Level
      BY <2>1 DEF Restart, Level
    <3> QED
      BY <2>0, <2>1, <3>1, <3>2 DEF Shrinks, Changes, ChangesLeft
  <2>2. CASE Migrate
    <3>1. Level' = Level + 1
      <4>1. CASE db = None
        <5>1. db' = Fresh
          BY <2>2, <4>1 DEF Migrate
        <5>2. Fresh # None /\ Fresh.schema = 1
          BY NoneAssumption, FreshRow DEF Fresh
        <5> QED
          BY <4>1, <5>1, <5>2 DEF Level
      <4>2. CASE db # None
        <5>1. db \in Database
          BY <4>2 DEF Inv, TypeOK
        <5>2. db' = [db EXCEPT !.schema = db.schema + 1]
          BY <2>2, <4>2 DEF Migrate
        <5>3. db.schema < Schema(image.version)
          BY <2>2, <4>2, <5>1, BoundsAssumption, ImageVersion
            DEF Migrate, UpToDate, Database, Schema, Version, Inv
        <5>4. db' \in Database
          BY <5>1, <5>2, <5>3, ImageVersion, NextSchema DEF Inv
        <5>5. db'.schema = db.schema + 1
          BY <5>1, <5>2 DEF Database
        <5> QED
          BY <4>2, <5>4, <5>5, NoneAssumption DEF Level
      <4> QED
        BY <4>1, <4>2
    <3>2. stops' = stops
      BY <2>2 DEF Migrate, Boot
    <3> QED
      BY <2>0, <2>2, <3>1, <3>2 DEF Shrinks, Changes, ChangesLeft
  <2>3. CASE ~Changes
    BY <2>3, LevelKept, StopsKept DEF Changes, Shrinks, ChangesLeft
  <2> QED
    BY <2>1, <2>2, <2>3 DEF Changes
<1> QED
  BY <1>1, <1>2, Invariance, PTL DEF Spec

\* Wherever earlier starts were stopped or ended by a command that failed, and
\* whatever was deleted or renamed, the server comes up once the container stops no
\* more, the migrations are applied and what made commands fail is mended, if there
\* is no doubt which group a missing target is for.
THEOREM TheServerComesUp ==
    FairSpec /\ []ScriptCan /\ <>[][~Changes]_vars => ComesUp
<1>1. FairSpec => []Inv
  BY Invariance, PTL DEF FairSpec
<1>2. Inv /\ phase # "up" /\ Startable /\ [Next]_vars
      => (phase # "up" /\ Startable)' \/ (phase = "up")'
  <2>1. CASE Restart
    BY <2>1 DEF Restart, Startable
  <2>2. CASE ~Restart
    <3>1. [Next]_vars => Script \/ Requests \/ OtherData \/ UNCHANGED vars
      BY <2>2 DEF Next
    <3> QED
      BY <3>1, ScriptKeeps DEF Requests, OtherData, vars, Startable
  <2> QED
    BY <2>1, <2>2
<1>3. phase # "up" \/ phase = "up"
  OBVIOUS
<1>4. Mended <=> fault = None
  BY DEF Mended
<1> QED
  BY <1>1, <1>2, <1>3, <1>4, StartEnds, ScriptNeverStuck, PTL
    DEF FairSpec, Spec, Runs, ComesUp

==============================================================================
