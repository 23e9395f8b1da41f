----------------------------- MODULE Deployment -----------------------------
(***************************************************************************)
(* What "Apply Changes" of wg-ui-plus promises, without saying how: an     *)
(* edit changes the database and is noted; a file is made from the         *)
(* database as it is at that moment; the device and its rules are made     *)
(* from the files together.  ApplyChanges is the code, query by query, and *)
(* implements this module while one client works at a time: the copies     *)
(* that its threads hold, the row that a generation writes back and the    *)
(* requests that are cut short then make no difference.                    *)
(***************************************************************************)
CONSTANTS
    Server,         \* the row of the server configuration; it always exists
    LocalNetworks,  \* its local_networks, and...
    Plain,          \* ...what else of it a save does not compare, the private key and
                    \* the names of the scripts, which wg0.conf gives
    PeerRow, GroupRow, TargetRow,   \* rows the other tables can have
    Links,          \* the memberships of peers and targets in groups
    Value,          \* the contents a row, a part of one or Links may have
    Absent,         \* a row that does not exist
    Empty,          \* an empty or missing file; a FORWARD chain without rules
    Down,           \* no wg0 device
    Installed       \* what a database may hold that has been initialised

Row == {Server} \cup PeerRow \cup GroupRow \cup TargetRow
Uncompared == {LocalNetworks, Plain}

\* The columns of the server's row.
Config == {Server} \cup Uncompared

Input == Row \cup Config \cup {Links}

ASSUME RowAssumption ==
    /\ Uncompared \cap Row = {} /\ Links \notin Row \cup Uncompared
    /\ LocalNetworks # Plain
    /\ Server \notin PeerRow \cup GroupRow \cup TargetRow
    /\ Absent \notin Value

File == {"wg0.conf", "post-up", "post-down"}

\* What the contents of a file are made from.
Feeds(f) == CASE f = "wg0.conf"  -> {Server, Plain} \cup PeerRow
              [] f = "post-up"   -> Input \ {Plain}
              [] f = "post-down" -> {Server}

Part(c, f) == [i \in Feeds(f) |-> c[i]]

ASSUME EmptyAssumption == \A f \in File : Empty \notin [Feeds(f) -> Value \cup {Absent}]
ASSUME DownAssumption == Down \notin [Feeds("wg0.conf") -> Value \cup {Absent}] \cup {Empty}

Contents == {c \in [Input -> Value \cup {Absent}] :
                \A i \in Config \cup {Links} : c[i] # Absent}

ASSUME InstalledAssumption ==
    Installed \subseteq {c \in Contents : \A i \in Row \ {Server} : c[i] = Absent}

VARIABLES
    db,        \* db[i]: what the database holds
    newer,     \* the rows with a last_changed_datetime after every file's mtime
    file,      \* file[f]: the part of a database content f was made from
    device,    \* the wg0.conf from which wg-quick made the device, or Down
    firewall   \* the post-up whose rules are in the FORWARD chain

deployVars == <<db, newer, file, device, firewall>>

Exists(r) == db[r] # Absent

DeployInit ==
    /\ db \in Installed
    /\ newer = {Server}
    /\ file = [f \in File |-> Empty]
    /\ device = Down
    /\ firewall = Empty

-----------------------------------------------------------------------------
(* Edits *)

\* A peer, a group or a target is created or saved.
Save(r) ==
    /\ \E v \in Value : db' = [db EXCEPT ![r] = v]
    /\ newer' = newer \cup {r}
    /\ UNCHANGED <<file, device, firewall>>

\* Memberships change with a row that is saved: the change is noted already.
Relate ==
    /\ newer # {}
    /\ \E v \in Value : db' = [db EXCEPT ![Links] = v]
    /\ UNCHANGED <<newer, file, device, firewall>>

\* The local networks, the key and the scripts alone are not a change that is noted.
Reconfigure ==
    /\ \E c \in [Config -> Value] :
          /\ db' = [i \in Input |-> IF i \in Config THEN c[i] ELSE db[i]]
          /\ newer' = IF c[Server] # db[Server] THEN newer \cup {Server} ELSE newer
    /\ UNCHANGED <<file, device, firewall>>

\* A row takes its timestamp with it.
Remove(r) ==
    /\ Exists(r)
    /\ db' = [db EXCEPT ![r] = Absent]
    /\ newer' = newer \ {r}
    /\ UNCHANGED <<file, device, firewall>>

-----------------------------------------------------------------------------
(* Generation and restart *)

\* A file is truncated, or made from the database as it is now; either way it
\* is later than every change.
Make(f) ==
    /\ \E c \in {Empty, Part(db, f)} : file' = [file EXCEPT ![f] = c]
    /\ newer' = {}
    /\ UNCHANGED <<db, device, firewall>>

\* The device goes, and the rules with it when there are files that say so.
TakeDown ==
    /\ device' = Down
    /\ firewall' = IF device # Down /\ file["wg0.conf"] # Empty /\ file["post-down"] # Empty
                   THEN Empty ELSE firewall
    /\ UNCHANGED <<db, newer, file>>

\* Where there is no device, one comes up as the files say, with their rules.
BringUp ==
    /\ device = Down
    /\ device' = file["wg0.conf"]
    /\ firewall' = IF file["wg0.conf"] # Empty /\ file["post-up"] # Empty
                   THEN file["post-up"] ELSE firewall
    /\ UNCHANGED <<db, newer, file>>

\* The container stops: nothing of the kernel's state is left.
Stop ==
    /\ device' = Down
    /\ firewall' = Empty
    /\ UNCHANGED <<db, newer, file>>

DeployNext ==
    \/ \E r \in Row \ {Server} : Save(r) \/ Remove(r)
    \/ Relate \/ Reconfigure
    \/ \E f \in File : Make(f)
    \/ TakeDown \/ BringUp \/ Stop

DeploySpec == DeployInit /\ [][DeployNext]_deployVars

=============================================================================
