---------------------------- MODULE ApplyChanges ----------------------------
(***************************************************************************)
(* How an edit of the database reaches the running VPN: the rows and their *)
(* last_changed_datetime, the three files that a generation writes from    *)
(* what it reads query by query, the kernel state that wg-quick builds     *)
(* from the files, and need_regenerate_files, by which the web UI decides  *)
(* whether to offer "Apply Changes".                                       *)
(***************************************************************************)
EXTENDS Deployment

CONSTANTS
    Worker,         \* clients, each with at most one request in progress
    Boot,           \* the script that starts the container
    Scenarios       \* the sets of events, beyond saves of the server and the
                    \* peers, of which a behaviour may include one

ASSUME ProcAssumption == Boot \notin Worker

Event == {"targets", "delete", "uncompared", "failure", "timeout", "container"}

ASSUME ScenariosAssumption == Scenarios \subseteq SUBSET Event

VARIABLES
    nat,       \* the redirections of DNS in the nat table: <<u, v>> when the one
               \* made from the server content u is matched no later than v's
               \* (<<v, v>>: it is there; so is then the masquerading for v's network)
    events,    \* the events of this behaviour; no step changes them
    job        \* job[w]: what thread w does next, for which file, and its copy
               \* of what it has read

vars == <<db, newer, file, device, firewall, nat, events, job>>

Proc == Worker \cup {Boot}

Idle == [pc |-> "idle", file |-> "wg0.conf", copy |-> Empty]

Init ==
    /\ DeployInit
    /\ nat = {}
    /\ events \in Scenarios
    /\ job = [w \in Proc |-> IF w = Boot THEN [Idle EXCEPT !.pc = "config"] ELSE Idle]

\* Requests are accepted once the container has started.
Serving(w) == job[w] = Idle /\ job[Boot] = Idle

-----------------------------------------------------------------------------
(* Edits: the REST views, the MCP tools *)

\* Mutant: a request with memberships saves them without the row.
SaveRowOrLinks(w, r, v) ==
    /\ Serving(w)
    /\ r \in PeerRow \cup (IF "targets" \in events THEN GroupRow \cup TargetRow ELSE {})
    /\ \/ /\ db' = [db EXCEPT ![r] = v]
          /\ newer' = newer \cup {r}
          /\ UNCHANGED job
       \/ /\ job' = [job EXCEPT ![w] = [@ EXCEPT !.pc = "links"]]
          /\ UNCHANGED <<db, newer>>
    /\ UNCHANGED <<events, file, device, firewall, nat>>

\* Peers, groups and targets have auto_now: every save is a change.  The
\* memberships in the request, if any, are set by a later query.
SaveRow(w, r, v) ==
    /\ Serving(w)
    /\ r \in PeerRow \cup (IF "targets" \in events THEN GroupRow \cup TargetRow ELSE {})
    /\ db' = [db EXCEPT ![r] = v]
    /\ newer' = newer \cup {r}
    /\ \/ UNCHANGED job
       \/ job' = [job EXCEPT ![w] = [@ EXCEPT !.pc = "links"]]
    /\ UNCHANGED <<events, file, device, firewall, nat>>

SetLinks(w) ==
    /\ job[w].pc = "links"
    /\ \E v \in Value : db' = [db EXCEPT ![Links] = v]
    /\ job' = [job EXCEPT ![w] = Idle]
    /\ UNCHANGED <<events, newer, file, device, firewall, nat>>

\* Mutant: no field of the server configuration moves its timestamp.
SaveServerSilently(w, c) ==
    /\ Serving(w)
    /\ \E i \in Config : c[i] # db[i]
    /\ (\E i \in Uncompared : c[i] # db[i]) => "uncompared" \in events
    /\ db' = [i \in Input |-> IF i \in Config THEN c[i] ELSE db[i]]
    /\ UNCHANGED <<events, newer, file, device, firewall, nat, job>>

\* The timestamp of the server configuration moves only when one of the fields
\* in saved_state does; local_networks, private_key and the script paths are not among
\* them.  (Where the files are is not modelled: it stays as it was installed.)
SaveServer(w, c) ==
    /\ Serving(w)
    /\ \E i \in Config : c[i] # db[i]
    /\ (\E i \in Uncompared : c[i] # db[i]) => "uncompared" \in events
    /\ db' = [i \in Input |-> IF i \in Config THEN c[i] ELSE db[i]]
    /\ newer' = IF c[Server] # db[Server] THEN newer \cup {Server} ELSE newer
    /\ UNCHANGED <<events, file, device, firewall, nat, job>>

DeleteRow(w, r) ==
    /\ "delete" \in events
    /\ Serving(w)
    /\ r \in Row \ {Server}
    /\ Exists(r)
    /\ db' = [db EXCEPT ![r] = Absent]
    /\ newer' = newer \ {r}
    /\ UNCHANGED <<events, file, device, firewall, nat, job>>

-----------------------------------------------------------------------------
(* generate_configuration_files *)

Generate(w) ==
    /\ Serving(w)
    /\ job' = [job EXCEPT ![w] = [@ EXCEPT !.pc = "config"]]
    /\ UNCHANGED <<events, db, newer, file, device, firewall, nat>>

Read(w, inputs, f, next) ==
    /\ job' = [job EXCEPT ![w] =
                 [pc |-> next, file |-> f,
                  copy |-> [i \in Input |-> IF i \in inputs THEN db[i]
                                            ELSE job[w].copy[i]]]]
    /\ UNCHANGED <<events, db, newer, file, device, firewall, nat>>

\* The server configuration is loaded once and for all (and nothing else yet:
\* the rest of this first copy is replaced before it is used)...
ReadServer(w) == job[w].pc = "config" /\ Read(w, Input, "wg0.conf", "peers")

\* ...the peers and groups for wg0.conf...
ReadPeers(w) ==
    job[w].pc = "peers" /\ Read(w, PeerRow \cup GroupRow, "wg0.conf", "open")

\* ...and, after wg0.conf is written, everything again for the rules: the
\* peers come from new queries (peer_group.peers.all(), peers.all()).
ReadRules(w) ==
    /\ job[w].pc = "rules"
    /\ Read(w, PeerRow \cup GroupRow \cup TargetRow \cup {Links}, "post-up", "open")

\* open(path, "w") truncates, close writes; both leave a new mtime, and
\* get_server_status looks for the latest mtime of all files.
OpenFile(w) ==
    /\ job[w].pc = "open"
    /\ file' = [file EXCEPT ![job[w].file] = Empty]
    /\ newer' = {}
    /\ job' = [job EXCEPT ![w] = [@ EXCEPT !.pc = "write"]]
    /\ UNCHANGED <<events, db, device, firewall, nat>>

\* Mutants: the rules are not generated; post-down is not.
AfterWriteWithoutRules(w, f) ==
    IF w = Boot THEN [Idle EXCEPT !.pc = "up"] ELSE [job[w] EXCEPT !.pc = "mark"]

AfterWriteWithoutPostDown(w, f) ==
    CASE f = "wg0.conf"  -> [job[w] EXCEPT !.pc = "rules"]
      [] OTHER -> IF w = Boot THEN [Idle EXCEPT !.pc = "up"] ELSE [job[w] EXCEPT !.pc = "mark"]

AfterWrite(w, f) ==
    CASE f = "wg0.conf"  -> [job[w] EXCEPT !.pc = "rules"]
      [] f = "post-up"   -> [job[w] EXCEPT !.pc = "open", !.file = "post-down"]
      [] f = "post-down" -> IF w = Boot THEN [Idle EXCEPT !.pc = "up"]
                            ELSE [job[w] EXCEPT !.pc = "mark"]

WriteFile(w) ==
    /\ job[w].pc = "write"
    /\ file' = [file EXCEPT ![job[w].file] = Part(job[w].copy, job[w].file)]
    /\ newer' = {}
    /\ job' = [job EXCEPT ![w] = AfterWrite(w, job[w].file)]
    /\ UNCHANGED <<events, db, device, firewall, nat>>

\* sc.save() writes back the whole row as it was loaded, timestamp included
\* (the command that the start-up script runs does not).
MarkGenerated(w) ==
    /\ job[w].pc = "mark"
    /\ db' = [i \in Input |-> IF i \in Config THEN job[w].copy[i] ELSE db[i]]
    /\ newer' = newer \ {Server}
    /\ job' = [job EXCEPT ![w] = Idle]
    /\ UNCHANGED <<events, file, device, firewall, nat>>

\* An exception (rendering, a full disk) ends the request in the middle.
GenerateFails(w) ==
    /\ "failure" \in events
    /\ w # Boot
    /\ job[w].pc \in {"peers", "open", "rules", "write"}
    /\ job' = [job EXCEPT ![w] = Idle]
    /\ UNCHANGED <<events, db, newer, file, device, firewall, nat>>

-----------------------------------------------------------------------------
(* WireGuardHelper.restart: wg-quick down; conntrack -F; wg-quick up *)

RestartTunnel(w) ==
    /\ Serving(w)
    /\ job' = [job EXCEPT ![w] = [@ EXCEPT !.pc = "down"]]
    /\ UNCHANGED <<events, db, newer, file, device, firewall, nat>>

\* Mutants: wg-quick down is left out; wg-quick up is.
TunnelStays(w) ==
    /\ job[w].pc = "down"
    /\ job' = [job EXCEPT ![w] = [@ EXCEPT !.pc = "up"]]
    /\ UNCHANGED <<events, db, newer, file, device, firewall, nat>>

TunnelDownOnly(w) ==
    /\ job[w].pc = "down"
    /\ device' = Down
    /\ firewall' = Empty
    /\ job' = [job EXCEPT ![w] = Idle]
    /\ UNCHANGED <<events, db, newer, file, nat>>

\* iptables --delete finds a rule by its text: the redirection made from v.
\* (Contents that differ are taken to differ in the upstream DNS.)
Without(v) == {r \in nat : v \notin {r[1], r[2]}}

\* Mutant: the redirection goes to the end of the table.
AppendAfter(v) == Without(v) \cup {<<u, v>> : u \in {r[1] : r \in nat} \cup {v}}

\* post-up deletes the redirection that it makes and inserts it at the head.
InsertFirst(v) == Without(v) \cup {<<v, u>> : u \in {r[1] : r \in nat} \cup {v}}

\* The script post-down flushes the FORWARD chain as a whole, whichever
\* generation filled it, and deletes the redirection of the configuration it
\* was generated from, not of the one in force.
PostDown ==
    IF file["post-down"] = Empty THEN UNCHANGED <<firewall, nat>>
    ELSE /\ firewall' = Empty
         /\ nat' = Without(file["post-down"][Server])

\* wg-quick takes PostDown from the wg0.conf of the moment and fails when there
\* is no device; the shell goes on with the next command.
TunnelDown(w) ==
    /\ job[w].pc = "down"
    /\ device' = Down
    /\ IF device # Down /\ file["wg0.conf"] # Empty THEN PostDown
       ELSE UNCHANGED <<firewall, nat>>
    /\ job' = [job EXCEPT ![w] = [@ EXCEPT !.pc = "up"]]
    /\ UNCHANGED <<events, db, newer, file>>

\* The rules of post-up replace the FORWARD chain as a whole.
PostUp ==
    IF file["post-up"] = Empty THEN UNCHANGED <<firewall, nat>>
    ELSE /\ firewall' = file["post-up"]
         /\ nat' = InsertFirst(file["post-up"][Server])

\* wg-quick up fails when the device exists.
TunnelUp(w) ==
    /\ job[w].pc = "up"
    /\ IF device = Down
       THEN device' = file["wg0.conf"]
       ELSE UNCHANGED device
    /\ IF device = Down /\ file["wg0.conf"] # Empty THEN PostUp
       ELSE UNCHANGED <<firewall, nat>>
    /\ job' = [job EXCEPT ![w] = Idle]
    /\ UNCHANGED <<events, db, newer, file>>

\* After 60 seconds execute_process kills the shell: no later command runs.
RestartTimesOut(w) ==
    /\ "timeout" \in events
    /\ w # Boot
    /\ job[w].pc = "up"
    /\ job' = [job EXCEPT ![w] = Idle]
    /\ UNCHANGED <<events, db, newer, file, device, firewall, nat>>

\* The container stops at any point and starts again, in a new network
\* namespace; the files and the database are on volumes.
ContainerRestarts ==
    /\ "container" \in events
    /\ device' = Down
    /\ firewall' = Empty
    /\ nat' = {}
    /\ job' = [w \in Proc |-> IF w = Boot THEN [Idle EXCEPT !.pc = "config"] ELSE Idle]
    /\ UNCHANGED <<events, db, newer, file>>

-----------------------------------------------------------------------------

Edit(w) ==
    \/ \E r \in Row, v \in Value : SaveRow(w, r, v)
    \/ \E c \in [Config -> Value] : SaveServer(w, c)
    \/ \E r \in Row : DeleteRow(w, r)

Step(w) ==
    \/ SetLinks(w)
    \/ ReadServer(w) \/ ReadPeers(w) \/ ReadRules(w)
    \/ OpenFile(w) \/ WriteFile(w) \/ MarkGenerated(w)
    \/ TunnelDown(w) \/ TunnelUp(w)

Next ==
    \/ \E w \in Worker : Edit(w) \/ Generate(w) \/ RestartTunnel(w)
    \/ \E w \in Proc : Step(w) \/ GenerateFails(w) \/ RestartTimesOut(w)
    \/ ContainerRestarts

Spec == Init /\ [][Next]_vars

\* Threads and the child processes they wait for are scheduled; nobody owes an
\* edit, a generation or a restart.
Fair(w) == WF_vars(Step(w))

Fairness == \A w \in Proc : Fair(w)

FairSpec == Spec /\ Fairness

-----------------------------------------------------------------------------

Content(f) == {c \in [Feeds(f) -> Value \cup {Absent}] : c[Server] # Absent} \cup {Empty}

TypeOK ==
    /\ db \in Contents
    /\ newer \subseteq {r \in Row : Exists(r)}
    /\ \A f \in File : file[f] \in Content(f)
    /\ device \in Content("wg0.conf") \cup {Down}
    /\ firewall \in Content("post-up")
    /\ nat \subseteq Value \X Value
    /\ events \in Scenarios
    /\ \A w \in Proc :
          /\ job[w].pc \in {"idle", "links", "config", "peers", "open", "write", "rules",
                            "mark", "down", "up"}
          /\ job[w].file \in File
          /\ job[w].copy \in Contents \cup {Empty}

\* get_server_status: what makes the web UI offer "Apply Changes".  (The row of
\* the server always exists, so there always is a last_db_change_datetime.)
NeedRegenerate == newer # {}

Settled == \A w \in Proc : job[w] = Idle

Noticed == NeedRegenerate \/ \A f \in File : file[f] = Part(db, f)

\* Between requests, the UI offers "Apply Changes" whenever some file is not
\* what the database asks for (get_server_status compares timestamps only).
ChangesAreNoticed == Settled => Noticed

\* That is so as long as nothing is deleted, the fields that a save does not compare
\* stay and every generation succeeds: saves, restarts and stops at any point keep it.
StaleFilesAreNoticed ==
    events \cap {"delete", "uncompared", "failure"} = {} => ChangesAreNoticed

\* Between requests, a tunnel that is up has the rules of a generation, and the
\* rules know each peer as the device does: same row, same address.  (wg0.conf
\* and post-up are written one after the other from separate queries; a
\* generation that fails between them is the exception.)
SamePeersInForce ==
    "failure" \notin events /\ Settled /\ device # Down
        => /\ device # Empty /\ firewall # Empty
           /\ \A p \in PeerRow : device[p] = firewall[p]

\* While the rules of a configuration are in the chain, its own redirection is
\* the first that a DNS query of a peer meets: what earlier configurations left
\* in the nat table, because the post-down that ran was already a later one's,
\* is never reached.
DnsReachesUpstream ==
    firewall # Empty =>
        LET s == firewall[Server]
        IN  <<s, s>> \in nat /\ \A r \in nat : <<s, r[1]>> \in nat

\* Between requests no file is left truncated, whichever generations have
\* overlapped: whoever opens a file also writes it, unless an error stops it.
FilesComplete ==
    Settled => \A f \in File : file[f] # Empty

\* When a generation returns, the files are what the database then holds: its
\* three readings and the row it writes back agree.
GenerationFaithful ==
    [][\A w \in Worker :
          job[w].pc = "mark" /\ job'[w] = Idle /\ job'[Boot] = Idle
          => \A f \in File : file'[f] = Part(db', f)]_vars

\* A restart that runs to its end puts the generated files in force, whatever
\* earlier generations and restarts left behind when they were cut short.
RestartInstallsFiles ==
    [][\A w \in Worker :
          /\ job[w].pc = "up" /\ job'[w] = Idle /\ device' # Down
          /\ \A f \in File : file[f] # Empty
          => device' = file["wg0.conf"] /\ firewall' = file["post-up"]]_vars

\* While one client works at a time, every step is one of the abstract
\* deployment's: no thread writes to a file, to the database or to the kernel
\* what another has made stale.
ImplementsDeployment == DeploySpec

\* Restarts that overlap do not leave the tunnel down: whoever takes it down
\* brings it up again, or finds that somebody else has.
TunnelComesBack == device = Down ~> device # Down

=============================================================================
