------------------------------ MODULE Startup ------------------------------
(***************************************************************************)
(* run-app.sh, from the container's start to the server, as far as the     *)
(* whole database goes: the copy kept for each version, the migrations, the *)
(* built-in group and target.  Every command may fail, whichever rows,      *)
(* variables or files it reads, and set -e then ends the script.  The       *)
(* container may stop at any step, and starts again with the same image or  *)
(* a later one; what the other commands change when they do not fail is in  *)
(* PeerAddresses, ServerConfigRow and ApplyChanges.                         *)
(***************************************************************************)
EXTENDS Naturals, FiniteSets

CONSTANTS
    Group,       \* rows that a group named EveryOne can have
    MaxVersion,  \* bound on the versions of the program: 1 .. MaxVersion
    MaxStops,    \* bound on the stops of the container, upgrades included
    Fallible,    \* the steps of the script that may fail over what is not modelled here
    None,        \* no database, no copy
    Partial      \* a copy that was begun

Version == 1 .. MaxVersion

\* Each version brings two migrations.
Schema(v) == 2 * v

Database == [schema   : 1 .. Schema(MaxVersion),
             everyone : SUBSET Group,   \* the groups named EveryOne: names are not unique
             internet : BOOLEAN,        \* is there a target named Internet?
             links    : SUBSET Group]   \* those of everyone that have it

\* The steps of the script, and what comes after those that are all one command
\* to this module.
Booting == {"backup", "copy", "migrate", "config", "groups", "targets", "link", "peers",
            "mcp", "cache", "generate", "tunnel"}

Then == [config |-> "groups", peers |-> "mcp", mcp |-> "cache", cache |-> "generate",
         generate |-> "tunnel", tunnel |-> "up"]

ASSUME BoundsAssumption == MaxVersion \in Nat \ {0} /\ MaxStops \in Nat
ASSUME FallibleAssumption == Fallible \subseteq Booting
ASSUME GroupAssumption == Group # {} /\ IsFiniteSet(Group)
ASSUME NoneAssumption ==
    None \notin Database /\ Partial \notin Database /\ None # Partial /\ None \notin Booting

Image == [version : Version, live : BOOLEAN]

VARIABLES
    db,       \* the database file
    backup,   \* backup[v]: the file db.sqlite3-before-v
    image,    \* the image of the running container
    phase,    \* the next step of the script, or "up"
    fault,    \* the step that fails when it is reached, or None
    stops,    \* how often the container was stopped
    \* History:
    before,   \* the database as this start found it
    origin    \* origin[v]: the database as the first start of v that had one found it

vars == <<db, backup, image, phase, fault, stops, before, origin>>

Fresh == [schema |-> 1, everyone |-> {}, internet |-> FALSE, links |-> {}]

Init ==
    /\ db = None
    /\ backup = [v \in Version |-> None]
    /\ image \in Image
    /\ phase = "backup"
    /\ fault \in Fallible \cup {None}
    /\ stops = 0
    /\ before = None
    /\ origin = [v \in Version |-> None]

-----------------------------------------------------------------------------
(* The script *)

Boot(from, to) ==
    /\ phase = from /\ fault # from
    /\ phase' = to
    /\ UNCHANGED <<image, fault, stops, before>>

\* A command fails and set -e ends the script; the container starts again.
GiveUp(from) ==
    /\ phase = from
    /\ phase' = "backup"
    /\ before' = db
    /\ UNCHANGED <<db, backup, image, fault, stops, origin>>

\* Among these: no address is left for a configuration row or a sample peer, the
\* environment says of the MCP server what is no truth value, a target cannot be
\* rendered, and wg-quick up fails over a peer without an address or a rule that
\* iptables does not take (Firewall!StrictRenders, PeerAddresses!ChooseAddress).
CommandFails == fault # None /\ GiveUp(fault)

\* The commands that leave the rows and copies of this module as they are: the
\* configuration row, sample peers, the MCP settings, the cache, the files, wg-quick up.
Command ==
    /\ phase \in DOMAIN Then
    /\ Boot(phase, Then[phase])
    /\ UNCHANGED <<db, backup, origin>>

\* As if the last copy were the one to keep.
NeedsBackupAgain == image.live /\ db # None

NeedsBackup == image.live /\ backup[image.version] = None /\ db # None

\* No step of the program: what a version found first.
NoteOrigin ==
    origin' = IF image.live /\ db # None /\ origin[image.version] = None
              THEN [origin EXCEPT ![image.version] = db] ELSE origin

BeginCopy ==
    /\ NeedsBackup
    /\ Boot("backup", "copy")
    /\ NoteOrigin
    /\ backup' = [backup EXCEPT ![image.version] = Partial]
    /\ UNCHANGED db

EndCopy ==
    /\ Boot("copy", "migrate")
    /\ backup' = [backup EXCEPT ![image.version] = db]
    /\ UNCHANGED <<db, origin>>

SkipBackup ==
    /\ ~NeedsBackup
    /\ Boot("backup", "migrate")
    /\ NoteOrigin
    /\ UNCHANGED <<db, backup>>

UpToDate == db # None /\ db.schema >= Schema(image.version)

\* Each migration is a transaction.
Migrate ==
    /\ ~UpToDate
    /\ Boot("migrate", "migrate")
    /\ db' = IF db = None THEN Fresh ELSE [db EXCEPT !.schema = @ + 1]
    /\ UNCHANGED <<backup, origin>>

Migrated ==
    /\ UpToDate
    /\ Boot("migrate", "config")
    /\ UNCHANGED <<db, backup, origin>>

\* As if a group without the target did not count.
InitPeerGroupsAgain ==
    /\ Boot("groups", "targets")
    /\ IF db.everyone # {} /\ db.internet THEN UNCHANGED db
       ELSE \E g \in Group : db' = [db EXCEPT !.everyone = @ \cup {g}]
    /\ UNCHANGED <<backup, origin>>

\* As if EveryOne were made together with the target that belongs to it.
InitPeerGroupsOnce ==
    /\ Boot("groups", "targets")
    /\ IF db.everyone # {} \/ db.internet THEN UNCHANGED db
       ELSE \E g \in Group : db' = [db EXCEPT !.everyone = {g}]
    /\ UNCHANGED <<backup, origin>>

InitPeerGroups ==
    /\ Boot("groups", "targets")
    /\ IF db.everyone # {} THEN UNCHANGED db
       ELSE \E g \in Group : db' = [db EXCEPT !.everyone = {g}]
    /\ UNCHANGED <<backup, origin>>

KeepInternet ==
    /\ Boot("targets", "peers")
    /\ db.internet
    /\ UNCHANGED <<db, backup, origin>>

\* PeerGroup.objects.get wants exactly one.
OneEveryOne == Cardinality(db.everyone) = 1

SaveInternet ==
    /\ Boot("targets", "link")
    /\ ~db.internet /\ OneEveryOne
    /\ db' = [db EXCEPT !.internet = TRUE]
    /\ UNCHANGED <<backup, origin>>

InitTargetsFails ==
    /\ GiveUp("targets")
    /\ ~db.internet /\ ~OneEveryOne

LinkInternet ==
    /\ Boot("link", "peers")
    /\ db' = [db EXCEPT !.links = db.everyone]
    /\ UNCHANGED <<backup, origin>>

Script ==
    \/ BeginCopy \/ EndCopy \/ SkipBackup
    \/ Migrate \/ Migrated
    \/ InitPeerGroups \/ KeepInternet \/ SaveInternet \/ InitTargetsFails \/ LinkInternet
    \/ Command \/ CommandFails

\* What the commands read besides these rows changes at any time: through a request,
\* another command, an administrator at the host, or by itself.
OtherData ==
    /\ fault' \in (Fallible \cup {None}) \ {fault}
    /\ UNCHANGED <<db, backup, image, phase, stops, before, origin>>

\* The container stops at any point and starts again, perhaps with an upgrade.
Restart ==
    /\ stops < MaxStops
    /\ stops' = stops + 1
    /\ phase' = "backup"
    /\ image' \in {i \in Image : i.version >= image.version}
    /\ before' = db
    /\ UNCHANGED <<db, backup, fault, origin>>

-----------------------------------------------------------------------------
(* Requests: REST and MCP tools save and delete rows whatever allow_modify_self *)
(* says, which only the Django admin and the pages heed.                     *)

Request(new) ==
    /\ db' = new
    /\ UNCHANGED <<backup, image, phase, fault, stops, before, origin>>

\* A group gets the name, with or without the target.
SaveGroup(g) ==
    /\ g \notin db.everyone
    /\ \E l \in SUBSET {x \in {g} : db.internet} :
          Request([db EXCEPT !.everyone = @ \cup {g}, !.links = @ \cup l])

\* A group is deleted or loses the name.
DeleteGroup(g) ==
    /\ g \in db.everyone
    /\ Request([db EXCEPT !.everyone = @ \ {g}, !.links = @ \ {g}])

SaveTarget ==
    /\ ~db.internet
    /\ Request([db EXCEPT !.internet = TRUE])

DeleteTarget ==
    /\ db.internet
    /\ Request([db EXCEPT !.internet = FALSE, !.links = {}])

SetLinks ==
    /\ db.internet
    /\ \E l \in SUBSET db.everyone : l # db.links /\ Request([db EXCEPT !.links = l])

Requests ==
    /\ phase = "up"
    /\ \/ \E g \in Group : SaveGroup(g) \/ DeleteGroup(g)
       \/ SaveTarget \/ DeleteTarget \/ SetLinks

-----------------------------------------------------------------------------

Next == Script \/ Restart \/ Requests \/ OtherData

Spec == Init /\ [][Next]_vars

\* The script goes on by itself, and Docker starts a container that has ended.
FairSpec == Spec /\ WF_vars(Script)

-----------------------------------------------------------------------------

TypeOK ==
    /\ db \in Database \cup {None}
    /\ backup \in [Version -> Database \cup {None, Partial}]
    /\ image \in Image
    /\ phase \in Booting \cup {"up"} /\ fault \in Fallible \cup {None}
    /\ phase \notin {"backup", "copy", "migrate"} => db # None
    /\ stops \in 0 .. MaxStops
    /\ before \in Database \cup {None}
    /\ origin \in [Version -> Database \cup {None}]

\* Once a live image goes on to migrate a database, the copy named after its
\* version is that database as the version first met it: no later start of the
\* version, after a stop or half its migrations, replaces the copy.  A stop
\* during the copying leaves a part of it for good.
UpgradeCanBeUndone ==
    \A v \in Version :
        origin[v] = None \/ backup[v] \in {origin[v], Partial}

\* Whatever was deleted or renamed and wherever earlier starts were stopped, a
\* start that gets past init_targets, however often the commands after it fail, has
\* EveryOne, without which no peer can be listed, and Internet; it links the two if
\* it made the target and otherwise leaves the links as it found them, so that an
\* association once removed stays so.
StartLeavesAccess ==
    phase \in {"peers", "mcp", "cache", "generate", "tunnel"}
        => /\ db.everyone # {} /\ db.internet
           /\ IF before # None /\ before.internet
              THEN db.links = before.links
              ELSE db.links = db.everyone

\* The rows for which init_targets has one group to link a missing Internet with.
Startable == db = None \/ db.internet \/ Cardinality(db.everyone) <= 1

\* Once whatever made commands fail is mended, the server comes up, after any stops
\* and failed starts, halves of migrations and part copies, unless Internet is gone
\* and several groups are named EveryOne: set -e then ends every start, and no page
\* is there to mend the rows.
ComesUp == <>[](fault = None) => (phase # "up" /\ Startable ~> phase = "up")

=============================================================================
