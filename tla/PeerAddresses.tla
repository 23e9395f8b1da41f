---------------------------- MODULE PeerAddresses ----------------------------
(***************************************************************************)
(* VPN address assignment as the code does it: Peer.save and               *)
(* ServerConfiguration.save of models.py, the requests that reach them     *)
(* (REST, the web editor, MCP) and the seeding done at start-up.  The      *)
(* database commits every ORM query by itself and the server handles each  *)
(* request on its own thread, so an action here is one query, or one query *)
(* with the computation that follows it.                                   *)
(***************************************************************************)
EXTENDS AddressBook

CONSTANTS
    Worker,    \* clients that send requests; each has one in progress at most
    Editors,   \* those among them that use the web editor
    Boot,      \* the start-up command, which runs while no client is served
    Sent       \* the addresses that requests carry

ASSUME PeerAssumption == NoAddr \notin Peer
ASSUME WorkerAssumption == Boot \notin Worker /\ Editors \subseteq Worker
ASSUME SentAssumption == Sent \subseteq Addr

VARIABLES
    job,       \* job[w]: what thread w is doing and the rows it holds in memory
    phase      \* "env" and "samples": start-up; "up": requests are served

vars == <<network, serverIp, peerIp, given, job, phase>>

Proc == Worker \cup {Boot}

(***************************************************************************)
(* A thread's local state.  pc names the query it makes next:              *)
(*   editing   none: the web form is open on a peer                        *)
(*   config    Peer.save reads the ServerConfiguration row                 *)
(*   peers     Peer.save reads the addresses in use                        *)
(*   write     Peer.save writes the row                                    *)
(*   srvpeers  ServerConfiguration.save reads the addresses in use         *)
(*   srvwrite  ServerConfiguration.save writes its row                     *)
(*   srvlist   ServerConfiguration.save lists the peers to renumber        *)
(*   rewrite   a ServerConfiguration row is written back as it was loaded  *)
(*   seed      init_peers creates the next sample peer                     *)
(* peer and ip are the Peer instance being saved (ip NoAddr: to be chosen), *)
(* net and srv the ServerConfiguration row it goes by; new is the network  *)
(* that a ServerConfiguration.save renumbers to, todo the peers it still   *)
(* has to save and again whether the instance is then saved once more.     *)
(* sent, history, says that a request set the address in hand.             *)
(***************************************************************************)
Idle == [pc |-> "idle", kind |-> "none", peer |-> NoAddr, ip |-> NoAddr,
         net |-> {}, srv |-> NoAddr, new |-> {}, todo |-> {}, again |-> FALSE,
         sent |-> FALSE]

Job == [pc : {"idle", "editing", "config", "peers", "write", "srvpeers",
              "srvwrite", "srvlist", "rewrite", "seed"},
        kind : {"none", "create", "update", "renumber", "touch", "seed"},
        peer : Peer \cup {NoAddr}, ip : Addr \cup {NoAddr},
        net : Networks \cup {{}}, srv : Addr \cup {NoAddr},
        new : Networks \cup {{}}, todo : SUBSET Peer,
        again : BOOLEAN, sent : BOOLEAN]

(***************************************************************************)
(* get_next_free_ip_address: the first free host for the server, the       *)
(* second free one for a peer (an IndexError when there is none, and a     *)
(* ValueError when one of the addresses in use is no address).             *)
(***************************************************************************)
IsLowest(a, pool) == a \in pool /\ \A b \in pool : a <= b

IsSecondLowest(a, pool) ==
    /\ a \in pool
    /\ \E b \in pool : b < a /\ \A c \in pool \ {b} : a <= c

\* Mutant: the addresses in use are not excluded.
NextFreeIgnoringUse(net, existing) == {a \in net : IsLowest(a, net)}

NextFreeForServer(net, existing) ==
    {a \in net : Malformed \notin existing /\ IsLowest(a, net \ existing)}

NextFreeForPeer(net, existing) ==
    {a \in net : Malformed \notin existing /\ IsSecondLowest(a, net \ existing)}

Init ==
    /\ network \in Networks
    /\ IsLowest(serverIp, network)
    /\ peerIp = [p \in Peer |-> NoAddr]
    /\ given = {}
    /\ job = [w \in Proc |-> Idle]
    /\ phase = "env"

Serving(w) == phase = "up" /\ job[w].pc = "idle"

\* The table's ids are never used again: no thread still holds a row with it.
Unreferenced(p) == \A w \in Proc : job[w].peer # p /\ p \notin job[w].todo

-----------------------------------------------------------------------------
(* Requests about peers *)

\* POST /peer and the MCP tool create_peer: with an address a of the request, or
\* with none (NoAddr), and then Peer.save chooses one.
CreatePeer(w, p, a) ==
    /\ Serving(w)
    /\ p \in Peer \ (Rows \cup Sample)
    /\ Unreferenced(p)
    /\ a \in Sent \cup {NoAddr}
    /\ job' = [job EXCEPT ![w] = [Idle EXCEPT !.pc = "config", !.kind = "create",
                                    !.peer = p, !.ip = a, !.sent = (a # NoAddr)]]
    /\ UNCHANGED <<network, serverIp, peerIp, given, phase>>

\* A PUT, a PATCH or the MCP tool update_peer loads the row, and saves all of it:
\* with the address it had, with one of the request, or with none, and then
\* Peer.save chooses again.
UpdatePeer(w, p, a) ==
    /\ Serving(w)
    /\ p \in Rows
    /\ a \in Sent \cup {NoAddr, peerIp[p]}
    /\ job' = [job EXCEPT ![w] = [Idle EXCEPT !.pc = "config", !.kind = "update",
                                    !.peer = p, !.ip = a,
                                    !.sent = /\ a # NoAddr
                                             /\ a = peerIp[p] => p \in given]]
    /\ UNCHANGED <<network, serverIp, peerIp, given, phase>>

\* The web editor loads a peer when its form opens...
OpenEditor(w, p) ==
    /\ w \in Editors
    /\ Serving(w)
    /\ p \in Rows
    /\ job' = [job EXCEPT ![w] = [Idle EXCEPT !.pc = "editing", !.kind = "update",
                                    !.peer = p, !.ip = peerIp[p], !.sent = (p \in given)]]
    /\ UNCHANGED <<network, serverIp, peerIp, given, phase>>

\* ...and PUTs all of it, address included, when the form is saved: 404 when
\* the row is gone by then.
SubmitEditor(w) ==
    /\ phase = "up"
    /\ job[w].pc = "editing"
    /\ job' = [job EXCEPT ![w] = IF job[w].peer \in Rows
                                 THEN [@ EXCEPT !.pc = "config"] ELSE Idle]
    /\ UNCHANGED <<network, serverIp, peerIp, given, phase>>

\* The form is closed, by Cancel or by Delete: the row it was opened for goes,
\* if it is still there.
CloseEditor(w, delete) ==
    /\ phase = "up"
    /\ job[w].pc = "editing"
    /\ job' = [job EXCEPT ![w] = Idle]
    /\ IF delete
       THEN /\ peerIp' = [peerIp EXCEPT ![job[w].peer] = NoAddr]
            /\ given' = given \ {job[w].peer}
       ELSE UNCHANGED <<peerIp, given>>
    /\ UNCHANGED <<network, serverIp, phase>>

DeletePeer(w, p) ==
    /\ Serving(w)
    /\ p \in Rows
    /\ peerIp' = [peerIp EXCEPT ![p] = NoAddr]
    /\ given' = given \ {p}
    /\ UNCHANGED <<network, serverIp, job, phase>>

-----------------------------------------------------------------------------
(* Requests about the server configuration *)

\* The network address changes.  The REST view saves the instance twice, and
\* the second save still compares it with the row loaded before the first.
ChangeNetwork(w, n, twice) ==
    /\ Serving(w)
    /\ n # network
    /\ job' = [job EXCEPT ![w] = [Idle EXCEPT !.pc = "srvpeers",
                                    !.kind = "renumber", !.new = n, !.again = twice]]
    /\ UNCHANGED <<network, serverIp, peerIp, given, phase>>

\* The server's address is cleared: ServerConfiguration.save chooses it and
\* renumbers the peers as for a change of the network.  The REST view's second
\* save clears it once more.
ClearServerAddress(w, twice) ==
    /\ Serving(w)
    /\ job' = [job EXCEPT ![w] = [Idle EXCEPT !.pc = "srvpeers",
                                    !.kind = "renumber", !.new = network, !.again = twice]]
    /\ UNCHANGED <<network, serverIp, peerIp, given, phase>>

\* Anything else that loads the ServerConfiguration row and later saves all of
\* it, with the server's address a as it was or as the request sets it: an edit
\* of other fields, a configuration generation, an MCP switch.
LoadServer(w, a, twice) ==
    /\ Serving(w)
    /\ a \in Sent \cup {serverIp}
    /\ job' = [job EXCEPT ![w] = [Idle EXCEPT !.pc = "rewrite", !.kind = "touch",
                                    !.net = network, !.srv = a, !.again = twice,
                                    !.sent = (a = serverIp => Server \in given)]]
    /\ UNCHANGED <<network, serverIp, peerIp, given, phase>>

\* Who of an address's holder h remains or joins those whose address was set.
Mark(h, sent) == IF sent THEN given \cup {h} ELSE given \ {h}

\* Mutant: only one of the two fields is saved.
RewriteServerIp(w) ==
    /\ job[w].pc = "rewrite"
    /\ serverIp' = job[w].srv
    /\ given' = Mark(Server, job[w].sent)
    /\ job' = [job EXCEPT ![w] = IF @.again THEN [@ EXCEPT !.again = FALSE] ELSE Idle]
    /\ UNCHANGED <<network, peerIp, phase>>

RewriteServer(w) ==
    /\ job[w].pc = "rewrite"
    /\ network' = job[w].net
    /\ serverIp' = job[w].srv
    /\ given' = Mark(Server, job[w].sent)
    /\ job' = [job EXCEPT ![w] = IF @.again THEN [@ EXCEPT !.again = FALSE] ELSE Idle]
    /\ UNCHANGED <<peerIp, phase>>

-----------------------------------------------------------------------------
(* Peer.save *)

\* An exception ends the request with an error, and start-up altogether.
Fail(w) ==
    /\ job' = [job EXCEPT ![w] = Idle]
    /\ phase' = IF w = Boot THEN "env" ELSE phase
    /\ UNCHANGED <<network, serverIp, peerIp, given>>

\* What thread j turns to when the peers in rest are left to renumber: one of
\* them, or the second save of the ServerConfiguration instance.
NextPeers(j, rest) ==
    {[Idle EXCEPT !.pc = "config", !.kind = j.kind, !.peer = p, !.new = j.new,
                  !.todo = rest \ {p}, !.again = j.again]
     : p \in rest}

SecondSave(j) == [Idle EXCEPT !.pc = "srvpeers", !.kind = "renumber", !.new = j.new]

\* Mutant: the old address is not cleared before the peer is saved.
ContinueKeepingAddress(j, rest) ==
    IF j.kind # "renumber" \/ (rest = {} /\ ~j.again) THEN {Idle}
    ELSE IF rest # {} THEN {[k EXCEPT !.ip = peerIp[k.peer]] : k \in NextPeers(j, rest)}
    ELSE {SecondSave(j)}

Continue(j, rest) ==
    IF j.kind # "renumber" \/ (rest = {} /\ ~j.again) THEN {Idle}
    ELSE IF rest # {} THEN NextPeers(j, rest)
    ELSE {SecondSave(j)}

ReadConfig(w) ==
    /\ job[w].pc = "config"
    /\ job' = [job EXCEPT ![w] =
                  [@ EXCEPT !.net = network, !.srv = serverIp,
                            !.pc = IF job[w].ip = NoAddr THEN "peers" ELSE "write"]]
    /\ UNCHANGED <<network, serverIp, peerIp, given, phase>>

\* Mutant: the server's address is not among the excluded ones.
ChooseAddressBesideServer(w) ==
    /\ job[w].pc = "peers"
    /\ \E a \in NextFreeForPeer(job[w].net, Held) :
          job' = [job EXCEPT ![w] = [@ EXCEPT !.ip = a, !.pc = "write"]]
    /\ UNCHANGED <<network, serverIp, peerIp, given, phase>>

\* Mutant: an empty pool is not an error; the thread waits for a free address.
ChooseAddressOrWait(w) ==
    /\ job[w].pc = "peers"
    /\ \E a \in NextFreeForPeer(job[w].net, Held \cup {job[w].srv}) :
          job' = [job EXCEPT ![w] = [@ EXCEPT !.ip = a, !.pc = "write"]]
    /\ UNCHANGED <<network, serverIp, peerIp, given, phase>>

ChooseAddress(w) ==
    /\ job[w].pc = "peers"
    /\ LET free == NextFreeForPeer(job[w].net, Held \cup {job[w].srv})
       IN \/ /\ \E a \in free :
                   job' = [job EXCEPT ![w] = [@ EXCEPT !.ip = a, !.pc = "write"]]
             /\ UNCHANGED <<network, serverIp, peerIp, given, phase>>
          \/ free = {} /\ Fail(w)

\* Mutant: the list of the peers to renumber is evaluated anew for each.
WriteRowRelisting(w) ==
    /\ job[w].pc = "write"
    /\ peerIp' = [peerIp EXCEPT ![job[w].peer] = job[w].ip]
    /\ given' = Mark(job[w].peer, job[w].sent)
    /\ \E next \in Continue(job[w], Rows) : job' = [job EXCEPT ![w] = next]
    /\ UNCHANGED <<network, serverIp, phase>>

\* An UPDATE of every column by primary key, an INSERT when no row has it.
WriteRow(w) ==
    /\ job[w].pc = "write"
    /\ peerIp' = [peerIp EXCEPT ![job[w].peer] = job[w].ip]
    /\ given' = Mark(job[w].peer, job[w].sent)
    /\ \E next \in Continue(job[w], job[w].todo) : job' = [job EXCEPT ![w] = next]
    /\ UNCHANGED <<network, serverIp, phase>>

-----------------------------------------------------------------------------
(* ServerConfiguration.save with a changed network or a cleared address *)

ChooseServerAddress(w) ==
    /\ job[w].pc = "srvpeers"
    /\ LET free == NextFreeForServer(job[w].new, Held)
       IN \/ /\ \E a \in free :
                   job' = [job EXCEPT ![w] = [@ EXCEPT !.srv = a, !.pc = "srvwrite"]]
             /\ UNCHANGED <<network, serverIp, peerIp, given, phase>>
          \/ free = {} /\ Fail(w)

WriteServer(w) ==
    /\ job[w].pc = "srvwrite"
    /\ network' = job[w].new
    /\ serverIp' = job[w].srv
    /\ given' = given \ {Server}
    /\ job' = [job EXCEPT ![w] = [@ EXCEPT !.pc = "srvlist", !.srv = NoAddr]]
    /\ UNCHANGED <<peerIp, phase>>

ListPeers(w) ==
    /\ job[w].pc = "srvlist"
    /\ \E next \in Continue(job[w], Rows) : job' = [job EXCEPT ![w] = next]
    /\ UNCHANGED <<network, serverIp, peerIp, given, phase>>

-----------------------------------------------------------------------------
(* Start-up: db_init_db_on_start, before the server accepts requests *)

\* WG_NETWORK_ADDRESS, when set and different, is saved (once) over the row's.
BootEnvironment ==
    /\ phase = "env"
    /\ phase' = "samples"
    /\ \/ UNCHANGED job
       \/ \E n \in Networks \ {network} :
             job' = [job EXCEPT ![Boot] = [Idle EXCEPT !.pc = "srvpeers",
                                             !.kind = "renumber", !.new = n]]
    /\ UNCHANGED <<network, serverIp, peerIp, given>>

BootPeers ==
    /\ phase = "samples"
    /\ job[Boot].pc = "idle"
    /\ IF Rows = {} /\ Sample # {}
       THEN /\ job' = [job EXCEPT ![Boot] = [Idle EXCEPT !.pc = "seed", !.kind = "seed",
                                                         !.todo = Sample]]
            /\ UNCHANGED phase
       ELSE phase' = "up" /\ UNCHANGED job
    /\ UNCHANGED <<network, serverIp, peerIp, given>>

\* The address of the server is among the excluded ones only when some peer
\* exists already.
SeedPeer(p) ==
    /\ job[Boot].pc = "seed"
    /\ p \in job[Boot].todo
    /\ LET existing == IF Rows = {} THEN {} ELSE Held \cup {serverIp}
           free == NextFreeForPeer(network, existing)
           rest == job[Boot].todo \ {p}
       IN \/ /\ \E a \in free : peerIp' = [peerIp EXCEPT ![p] = a]
             /\ given' = given \ {p}
             /\ job' = [job EXCEPT ![Boot] = IF rest = {} THEN Idle
                                             ELSE [@ EXCEPT !.todo = rest]]
             /\ UNCHANGED <<network, serverIp, phase>>
          \/ free = {} /\ Fail(Boot)

\* The container stops at any point and starts again.  Forms stay open in the
\* browsers; one whose row is gone can only earn a 404 and is closed here.
Restart ==
    /\ job' = [w \in Proc |-> IF job[w].pc = "editing" /\ job[w].peer \in Rows
                              THEN job[w] ELSE Idle]
    /\ phase' = "env"
    /\ UNCHANGED <<network, serverIp, peerIp, given>>

-----------------------------------------------------------------------------

Request(w) ==
    \/ \E p \in Peer, a \in Addr \cup {NoAddr} : CreatePeer(w, p, a) \/ UpdatePeer(w, p, a)
    \/ \E p \in Peer : OpenEditor(w, p) \/ DeletePeer(w, p)
    \/ SubmitEditor(w) \/ \E delete \in BOOLEAN : CloseEditor(w, delete)
    \/ \E n \in Networks, twice \in BOOLEAN : ChangeNetwork(w, n, twice)
    \/ \E a \in Addr, twice \in BOOLEAN : LoadServer(w, a, twice)
    \/ \E twice \in BOOLEAN : ClearServerAddress(w, twice)

Step(w) ==
    \/ ReadConfig(w) \/ ChooseAddress(w) \/ WriteRow(w)
    \/ ChooseServerAddress(w) \/ WriteServer(w) \/ ListPeers(w)
    \/ RewriteServer(w)

Startup ==
    \/ BootEnvironment \/ BootPeers
    \/ \E p \in Sample : SeedPeer(p)

Next ==
    \/ \E w \in Worker : Request(w)
    \/ \E w \in Proc : Step(w)
    \/ Startup
    \/ Restart

Spec == Init /\ [][Next]_vars

\* The threads of the server are scheduled and SQLite grants its lock in the
\* end; clients, administrators and restarts owe nothing.
Fair(w) == WF_vars(Step(w))

Fairness == \A w \in Proc : Fair(w)

FairSpec == Spec /\ Fairness

-----------------------------------------------------------------------------

TypeOK ==
    /\ BookTypeOK
    /\ job \in [Proc -> Job]
    /\ phase \in {"env", "samples", "up"}

\* One client at a time, and no form left open while somebody else works: what
\* the address assignment needs and the code does not enforce.
Serial == (\A v, w \in Worker : v = w) /\ Editors = {}

\* The address of the server, unless a request set it, is a host of the network
\* saved with it, whatever the interleaving: every save writes the pair of one
\* instance.
ServerInNetwork == Server \in given \/ serverIp \in network

\* When a save that changed the network, or found the server's address cleared, has
\* ended its last pass over the peers, every one of them has an address of the
\* network in force, those to whom a request had given another included.
RenumberComplete ==
    [][\A w \in Proc :
          (/\ job[w].kind = "renumber" /\ job[w].pc \in {"write", "srvlist"}
           /\ job'[w].pc = "idle" /\ phase' = phase)
          => Held' \subseteq network']_vars

\* A request is being served; a form that is open waits for its user.
Busy(j) == j.pc \notin {"idle", "editing"}

CanStep(w) == ENABLED <<Step(w)>>_vars

\* Whatever other threads do to the rows that a request goes by, and however few
\* addresses they leave, its next query can be made, or ends it with an error.
NeverStuck == \A w \in Worker : Busy(job[w]) => CanStep(w)

\* A thread works off its request: renumbering ends though peers come and go.
RequestsEnd == \A w \in Worker : Busy(job[w]) ~> job[w].pc = "idle"

\* While one client works at a time, every step is one of the address book's.
ImplementsBook == BookSpec

-----------------------------------------------------------------------------
(* The inductive invariant of the general case *)

\* A thread that will write the ServerConfiguration row holds a matching pair.
PairInHand(j) ==
    /\ j.kind = "renumber" \/ j.pc \in {"srvpeers", "srvwrite"} => j.new \in Networks
    /\ j.pc \in {"srvpeers", "srvwrite", "srvlist"} => j.kind = "renumber"
    /\ j.pc \in {"editing", "config", "peers", "write"} => j.peer \in Peer
    /\ j.pc = "srvwrite" => j.srv \in j.new
    /\ j.pc = "rewrite" => j.net \in Networks /\ j.srv \in Addr
                          /\ (j.sent \/ j.srv \in j.net)

PairInv ==
    /\ TypeOK
    /\ ServerInNetwork
    /\ \A w \in Proc : PairInHand(job[w])

-----------------------------------------------------------------------------
(* The inductive invariant of the serial case *)

\* Start-up and requests exclude each other, and so do requests.
OneBusy ==
    /\ phase = "up" => job[Boot] = Idle
    /\ phase # "up" => \A w \in Worker : job[w] = Idle
    /\ phase = "env" => job[Boot] = Idle

\* A Peer instance about to be saved: whose it is and what its address is, one that
\* a request set, the peer's own as it was, or a free one.
PeerInHand(j) ==
    /\ j.pc \in {"config", "peers", "write"}
    /\ j.kind \in {"renumber", "create", "update"}
    /\ j.peer \in Peer
    /\ j.kind = "create" => j.peer \notin Sample
    /\ j.kind # "create" => j.peer \in Rows
    /\ j.ip = NoAddr => ~j.sent
    /\ j.pc = "peers" => j.ip = NoAddr
    /\ j.pc = "write" => j.ip # NoAddr
    /\ j.pc # "config" => j.net = network /\ j.srv = serverIp
    /\ \/ j.sent \/ j.ip = NoAddr
       \/ j.kind = "update" /\ j.ip = peerIp[j.peer] /\ j.peer \notin given
       \/ j.pc = "write" /\ j.ip \in network \ (HeldByOthers(j.peer) \cup {serverIp})
    /\ j.kind = "renumber"
          => /\ ~j.sent
             /\ network = j.new
             /\ j.todo \subseteq Rows
             /\ \A q \in Rows \ (j.todo \cup {j.peer}) : peerIp[q] \in network

\* A ServerConfiguration instance about to be saved.
ServerInHand(j) ==
    \/ /\ j.pc \in {"srvpeers", "srvwrite", "srvlist"}
       /\ j.kind = "renumber"
       /\ j.new \in Networks
       /\ j.pc = "srvwrite" => j.srv \in j.new \ Held
       /\ j.pc = "srvlist" => network = j.new
    \/ /\ j.pc = "rewrite" /\ j.kind = "touch" /\ j.net = network
       /\ j.sent \/ (j.srv = serverIp /\ Server \notin given)

SafeJob(j) ==
    \/ j = Idle
    \/ PeerInHand(j)
    \/ ServerInHand(j)
    \/ j.pc = "seed" /\ j.kind = "seed"

\* With it, no thread holds anything that another has made stale.
SerialInv ==
    /\ PeersDistinct
    /\ ServerDistinct
    /\ OneBusy
    /\ \A w \in Proc : SafeJob(job[w])

=============================================================================
