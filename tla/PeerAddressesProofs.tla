------------------------- MODULE PeerAddressesProofs -------------------------
(***************************************************************************)
(* Theorems about the address assignment, for every set of peers, clients, *)
(* networks and addresses that requests set.  The type invariant and       *)
(* ServerInNetwork hold for any interleaving of the requests; the others   *)
(* hold while one client works at a time (Serial): with two, each of them  *)
(* can be violated (the departures of the code in README.md).              *)
(***************************************************************************)
EXTENDS PeerAddresses, FiniteSetTheorems, TLAPS

USE NetworksAssumption, SampleAssumption, NoAddrAssumption, MalformedAssumption,
    ServerAssumption, PeerAssumption, WorkerAssumption, SentAssumption

\* What get_next_free_ip_address returns is a free host of the network.
LEMMA NextFreeIsFree ==
    ASSUME NEW net, NEW existing
    PROVE  /\ NextFreeForServer(net, existing) \subseteq net \ existing
           /\ NextFreeForPeer(net, existing) \subseteq net \ existing
  BY DEF NextFreeForServer, NextFreeForPeer, IsLowest, IsSecondLowest

\* What a thread can turn to after a write: the next peer of a renumbering, the
\* second save of the server's row, or nothing.
LEMMA ContinueCases ==
    ASSUME NEW j, NEW rest, NEW next \in Continue(j, rest)
    PROVE  \/ next = Idle /\ (j.kind = "renumber" => rest = {})
           \/ j.kind = "renumber" /\ next \in NextPeers(j, rest)
           \/ j.kind = "renumber" /\ rest = {} /\ j.again /\ next = SecondSave(j)
<1>1. CASE j.kind # "renumber" \/ (rest = {} /\ ~j.again)
  BY <1>1, Zenon DEF Continue
<1>2. CASE j.kind = "renumber" /\ rest # {}
  BY <1>2, Zenon DEF Continue
<1>3. CASE j.kind = "renumber" /\ rest = {} /\ j.again
  BY <1>3, Zenon DEF Continue
<1> QED
  BY <1>1, <1>2, <1>3

IsNextPeer(next, j, rest, p) ==
    /\ next.pc = "config" /\ next.kind = j.kind /\ next.peer = p /\ next.new = j.new
    /\ next.todo = rest \ {p} /\ (next.again <=> j.again)
    /\ next.ip = NoAddr /\ ~next.sent

LEMMA NextPeersFields ==
    ASSUME NEW j, NEW rest, NEW next \in NextPeers(j, rest)
    PROVE  \E p \in rest : IsNextPeer(next, j, rest, p)
<1>1. PICK p \in rest :
        next = [Idle EXCEPT !.pc = "config", !.kind = j.kind, !.peer = p,
                     !.new = j.new, !.todo = rest \ {p}, !.again = j.again]
  BY Zenon DEF NextPeers
<1>2. next.again = j.again /\ next.sent = FALSE
  BY <1>1 DEF Idle
<1>3. (next.again <=> j.again) /\ ~next.sent
  BY <1>2, Zenon
<1> QED
  BY <1>1, <1>3 DEF Idle, IsNextPeer

LEMMA SecondSaveFields ==
    ASSUME NEW j
    PROVE  LET next == SecondSave(j)
           IN  /\ next.again = FALSE /\ next.peer = NoAddr /\ next.sent = FALSE
               /\ next.pc = "srvpeers" /\ next.kind = "renumber" /\ next.new = j.new
  BY DEF SecondSave, Idle

-----------------------------------------------------------------------------
(* Each record update that a query makes of its thread's job, field by field *)

LEMMA ReadUpdate ==
    ASSUME NEW j \in Job, NEW n \in Networks, NEW s \in Addr,
           NEW c \in {"peers", "write"}
    PROVE  LET next == [j EXCEPT !.net = n, !.srv = s, !.pc = c]
           IN  /\ next \in Job /\ next.net = n /\ next.srv = s /\ next.pc = c
               /\ next.kind = j.kind /\ next.peer = j.peer /\ next.ip = j.ip
               /\ next.new = j.new /\ next.todo = j.todo /\ next.sent = j.sent
               /\ next.again = j.again
  BY DEF Job

LEMMA ChooseUpdate ==
    ASSUME NEW j \in Job, NEW a \in Addr
    PROVE  LET next == [j EXCEPT !.ip = a, !.pc = "write"]
           IN  /\ next \in Job /\ next.ip = a /\ next.pc = "write"
               /\ next.kind = j.kind /\ next.peer = j.peer /\ next.net = j.net
               /\ next.srv = j.srv /\ next.new = j.new /\ next.todo = j.todo
               /\ next.again = j.again /\ next.sent = j.sent
  BY DEF Job

LEMMA ChooseServerUpdate ==
    ASSUME NEW j \in Job, NEW a \in Addr
    PROVE  LET next == [j EXCEPT !.srv = a, !.pc = "srvwrite"]
           IN  /\ next \in Job /\ next.srv = a /\ next.pc = "srvwrite"
               /\ next.kind = j.kind /\ next.new = j.new
  BY DEF Job

LEMMA AgainUpdate ==
    ASSUME NEW j \in Job, NEW b \in BOOLEAN
    PROVE  [j EXCEPT !.again = b] \in Job
  BY DEF Job

LEMMA WriteServerUpdate ==
    ASSUME NEW j \in Job
    PROVE  LET next == [j EXCEPT !.pc = "srvlist", !.srv = NoAddr]
           IN  /\ next \in Job /\ next.pc = "srvlist"
               /\ next.kind = j.kind /\ next.new = j.new /\ next.again = j.again
  BY DEF Job

-----------------------------------------------------------------------------
(* The general case *)

\* A thread's job is well-typed and what it will write to the
\* ServerConfiguration row is a network with one of its hosts.
GoodJob == {j \in Job : PairInHand(j)}

LEMMA IdleGood == Idle \in GoodJob
  BY DEF Idle, GoodJob, Job, PairInHand

LEMMA ContinueGood ==
    ASSUME NEW j \in GoodJob, NEW rest \in SUBSET Peer, NEW next \in Continue(j, rest),
           j.pc \notin {"srvpeers", "srvwrite"}
    PROVE  next \in GoodJob
<1>0. j \in Job /\ PairInHand(j)
  BY DEF GoodJob
<1>1. CASE next = Idle
  BY <1>1, IdleGood
<1>2. CASE j.kind = "renumber" /\ next \in NextPeers(j, rest)
  <2>1. PICK p \in rest :
          next = [Idle EXCEPT !.pc = "config", !.kind = j.kind, !.peer = p,
                       !.new = j.new, !.todo = rest \ {p}, !.again = j.again]
    BY <1>2, Zenon DEF NextPeers
  <2>2. next \in Job
    BY <1>0, <1>2, <2>1 DEF Idle, Job
  <2>3. next.pc = "config" /\ next.kind = j.kind /\ next.new = j.new /\ next.peer = p
        /\ next.again = j.again
    BY <2>1 DEF Idle
  <2>4. PairInHand(next)
    BY <1>0, <1>2, <2>3 DEF PairInHand
  <2> QED
    BY <2>2, <2>4 DEF GoodJob
<1>3. CASE j.kind = "renumber" /\ j.again /\ next = SecondSave(j)
  <2>0. j.new \in Networks
    BY <1>0, <1>3 DEF PairInHand
  <2> QED
    BY <1>3, <2>0 DEF SecondSave, Idle, Job, GoodJob, PairInHand
<1> QED
  BY <1>1, <1>2, <1>3, ContinueCases

LEMMA PairInit == Init => PairInv
<1> SUFFICES ASSUME Init PROVE PairInv
  OBVIOUS
<1>1. network \in Networks /\ serverIp \in network
  BY DEF Init, IsLowest
<1>2. \A w \in Proc : job[w] \in GoodJob
  BY IdleGood DEF Init
<1>3. TypeOK
  BY <1>1, <1>2 DEF Init, TypeOK, BookTypeOK, Addr, GoodJob
<1> QED
  BY <1>1, <1>2, <1>3 DEF PairInv, ServerInNetwork, GoodJob

LEMMA PairStep == PairInv /\ [Next]_vars => PairInv'
<1> SUFFICES ASSUME PairInv, [Next]_vars PROVE PairInv'
  OBVIOUS
<1> DEFINE Good == /\ network \in Networks
                   /\ serverIp \in Addr
                   /\ Server \in given \/ serverIp \in network
                   /\ given \subseteq Peer \cup {Server}
                   /\ peerIp \in [Peer -> Addr \cup {NoAddr}]
                   /\ job \in [Proc -> GoodJob]
                   /\ phase \in {"env", "samples", "up"}
<1>a. Good
  BY DEF PairInv, TypeOK, BookTypeOK, ServerInNetwork, GoodJob
<1>b. Good' => PairInv'
  BY DEF PairInv, TypeOK, BookTypeOK, ServerInNetwork, GoodJob, Addr
<1> SUFFICES Good'
  BY <1>b
<1>1. \A w \in Proc : job[w] \in GoodJob /\ job[w] \in Job /\ PairInHand(job[w])
  BY <1>a DEF GoodJob
<1>2. serverIp \in Addr /\ \A n \in Networks : n \subseteq Addr
  BY <1>a DEF Addr
<1>3. ASSUME NEW w \in Proc, Fail(w) PROVE Good'
  BY <1>a, <1>3, IdleGood DEF Fail
<1>4. ASSUME NEW w \in Worker, Request(w) PROVE Good'
  <2>0. w \in Proc
    BY DEF Proc
  <2>1. ASSUME NEW p \in Peer, NEW a \in Addr \cup {NoAddr}, CreatePeer(w, p, a) PROVE Good'
    <3>1. [Idle EXCEPT !.pc = "config", !.kind = "create", !.peer = p, !.ip = a,
                       !.sent = (a # NoAddr)] \in GoodJob
      BY DEF Idle, GoodJob, Job, PairInHand
    <3> QED
      BY <1>a, <2>0, <2>1, <3>1 DEF CreatePeer
  <2>2. ASSUME NEW p \in Peer, NEW a \in Addr \cup {NoAddr}, UpdatePeer(w, p, a) PROVE Good'
    <3> DEFINE b == a # NoAddr /\ (a = peerIp[p] => p \in given)
    <3>0. b \in BOOLEAN
      OBVIOUS
    <3> HIDE DEF b
    <3>1. [Idle EXCEPT !.pc = "config", !.kind = "update", !.peer = p, !.ip = a,
                       !.sent = b] \in GoodJob
      BY <3>0 DEF Idle, GoodJob, Job, PairInHand
    <3>2. UNCHANGED <<network, serverIp, peerIp, given, phase>>
          /\ job' = [job EXCEPT ![w] = [Idle EXCEPT !.pc = "config", !.kind = "update",
                       !.peer = p, !.ip = a, !.sent = b]]
      BY <2>2 DEF UpdatePeer, b
    <3> QED
      BY <1>a, <2>0, <3>1, <3>2
  <2>3. ASSUME NEW p \in Peer, OpenEditor(w, p) PROVE Good'
    <3> DEFINE b == p \in given
    <3>0. b \in BOOLEAN /\ peerIp[p] \in Addr \cup {NoAddr}
      BY <1>a
    <3> HIDE DEF b
    <3>1. [Idle EXCEPT !.pc = "editing", !.kind = "update", !.peer = p,
                       !.ip = peerIp[p], !.sent = b] \in GoodJob
      BY <3>0 DEF Idle, GoodJob, Job, PairInHand
    <3>2. UNCHANGED <<network, serverIp, peerIp, given, phase>>
          /\ job' = [job EXCEPT ![w] = [Idle EXCEPT !.pc = "editing", !.kind = "update",
                       !.peer = p, !.ip = peerIp[p], !.sent = b]]
      BY <2>3 DEF OpenEditor, b
    <3> QED
      BY <1>a, <2>0, <3>1, <3>2
  <2>4. ASSUME NEW p \in Peer, DeletePeer(w, p) PROVE Good'
    BY <1>a, <2>4 DEF DeletePeer
  <2>5. ASSUME SubmitEditor(w) PROVE Good'
    <3> DEFINE next == [job[w] EXCEPT !.pc = "config"]
    <3>0. job[w] \in Job /\ PairInHand(job[w]) /\ job[w].pc = "editing"
      BY <1>1, <2>0, <2>5 DEF SubmitEditor
    <3>1. next \in Job
      BY <3>0 DEF Job
    <3>2. next.pc = "config" /\ next.kind = job[w].kind /\ next.new = job[w].new
          /\ next.again = job[w].again
          /\ next.peer = job[w].peer
      BY <3>0, SMT DEF Job
    <3>3. next \in GoodJob
      BY <3>0, <3>1, <3>2 DEF GoodJob, PairInHand
    <3> QED
      BY <1>a, <2>0, <2>5, <3>3, IdleGood DEF SubmitEditor
  <2>8. ASSUME NEW delete \in BOOLEAN, CloseEditor(w, delete) PROVE Good'
    <3>1. job' \in [Proc -> GoodJob]
      BY <1>a, <2>0, <2>8, IdleGood DEF CloseEditor
    <3>2. job[w].peer \in Peer
      BY <1>1, <2>0, <2>8 DEF CloseEditor, PairInHand
    <3>3. CASE delete
      BY <1>a, <2>8, <3>1, <3>2, <3>3 DEF CloseEditor
    <3>4. CASE ~delete
      BY <1>a, <2>8, <3>1, <3>4 DEF CloseEditor
    <3> QED
      BY <3>3, <3>4
  <2>6. ASSUME NEW n \in Networks, NEW twice \in BOOLEAN, ChangeNetwork(w, n, twice)
        PROVE  Good'
    <3>1. [Idle EXCEPT !.pc = "srvpeers", !.kind = "renumber", !.new = n,
                       !.again = twice] \in GoodJob
      BY DEF Idle, GoodJob, Job, PairInHand
    <3> QED
      BY <1>a, <2>0, <2>6, <3>1 DEF ChangeNetwork
  <2>7. ASSUME NEW a \in Addr, NEW twice \in BOOLEAN, LoadServer(w, a, twice) PROVE Good'
    <3> DEFINE b == a = serverIp => Server \in given
    <3>0. b \in BOOLEAN /\ (b \/ a \in network)
      BY <1>a
    <3> HIDE DEF b
    <3>1. [Idle EXCEPT !.pc = "rewrite", !.kind = "touch", !.net = network,
                       !.srv = a, !.again = twice, !.sent = b] \in GoodJob
      BY <1>a, <3>0 DEF Idle, GoodJob, Job, PairInHand
    <3>2. UNCHANGED <<network, serverIp, peerIp, given, phase>>
          /\ job' = [job EXCEPT ![w] = [Idle EXCEPT !.pc = "rewrite", !.kind = "touch",
                       !.net = network, !.srv = a, !.again = twice, !.sent = b]]
      BY <2>7 DEF LoadServer, b
    <3> QED
      BY <1>a, <2>0, <3>1, <3>2
  <2>9. ASSUME NEW twice \in BOOLEAN, ClearServerAddress(w, twice) PROVE Good'
    <3>1. [Idle EXCEPT !.pc = "srvpeers", !.kind = "renumber", !.new = network,
                       !.again = twice] \in GoodJob
      BY <1>a DEF Idle, GoodJob, Job, PairInHand
    <3> QED
      BY <1>a, <2>0, <2>9, <3>1 DEF ClearServerAddress
  <2> QED
    BY <1>4, <2>1, <2>2, <2>3, <2>4, <2>5, <2>6, <2>7, <2>8, <2>9 DEF Request
<1>5. ASSUME NEW w \in Proc, Step(w) PROVE Good'
  <2>1. CASE ReadConfig(w)
    <3>1. network \in Networks /\ serverIp \in Addr /\ job[w] \in Job
      BY <1>a, <1>1, <1>2
    <3>2. ASSUME NEW c \in {"peers", "write"},
                 job' = [job EXCEPT ![w] =
                           [job[w] EXCEPT !.net = network, !.srv = serverIp, !.pc = c]]
          PROVE  Good'
      <4> DEFINE next == [job[w] EXCEPT !.net = network, !.srv = serverIp, !.pc = c]
      <4>1. next \in Job
        BY <3>1, ReadUpdate, Zenon
      <4>2. next.kind = job[w].kind /\ next.new = job[w].new /\ next.pc = c
            /\ next.again = job[w].again
            /\ next.peer = job[w].peer
        BY <3>1, SMT DEF Job
      <4>3. next \in GoodJob
        BY <1>1, <2>1, <4>1, <4>2 DEF GoodJob, PairInHand, ReadConfig
      <4> QED
        BY <1>a, <2>1, <3>2, <4>3 DEF ReadConfig
    <3> QED
      BY <2>1, <3>2 DEF ReadConfig
  <2>2. CASE ChooseAddress(w)
    <3>1. ASSUME NEW a \in NextFreeForPeer(job[w].net, Held \cup {job[w].srv}),
                 job[w].pc = "peers"
          PROVE  [job[w] EXCEPT !.ip = a, !.pc = "write"] \in GoodJob
      <4>1. a \in Addr
        BY <1>1, <3>1 DEF Job, NextFreeForPeer, Addr
      <4> DEFINE next == [job[w] EXCEPT !.ip = a, !.pc = "write"]
      <4>2. next \in Job /\ next.pc = "write" /\ next.kind = job[w].kind
            /\ next.new = job[w].new /\ next.again = job[w].again
            /\ next.peer = job[w].peer
        <5>1. job[w] \in Job
          BY <1>1
        <5>2. next \in Job
          BY <4>1, <5>1, ChooseUpdate
        <5>3. next.pc = "write" /\ next.kind = job[w].kind /\ next.new = job[w].new
              /\ next.again = job[w].again
              /\ next.peer = job[w].peer
          BY <5>1, SMT DEF Job
        <5> QED
          BY <5>2, <5>3
      <4> QED
        BY <1>1, <3>1, <4>2 DEF GoodJob, PairInHand
    <3>2. ASSUME NEW a \in NextFreeForPeer(job[w].net, Held \cup {job[w].srv}),
                 job' = [job EXCEPT ![w] = [@ EXCEPT !.ip = a, !.pc = "write"]],
                 job[w].pc = "peers", UNCHANGED <<network, serverIp, peerIp, given, phase>>
          PROVE  Good'
      <4> DEFINE next == [job[w] EXCEPT !.ip = a, !.pc = "write"]
      <4>1. next \in GoodJob
        BY <3>1, <3>2
      <4>2. job' = [job EXCEPT ![w] = next]
        BY <1>a, <3>2
      <4> HIDE DEF next
      <4> QED
        BY <1>a, <3>2, <4>1, <4>2
    <3> QED
      BY <1>3, <2>2, <3>2 DEF ChooseAddress
  <2>3. CASE WriteRow(w)
    <3>0. job[w].todo \in SUBSET Peer /\ job[w].ip \in Addr \cup {NoAddr}
          /\ job[w].peer \in Peer \cup {NoAddr}
      BY <1>1 DEF Job
    <3>1. job[w].pc = "write"
      BY <2>3 DEF WriteRow
    <3>2. \A next \in Continue(job[w], job[w].todo) : next \in GoodJob
      BY <1>1, <3>0, <3>1, ContinueGood
    <3>3. job' \in [Proc -> GoodJob]
      BY <1>a, <2>3, <3>2 DEF WriteRow
    <3>4. peerIp' \in [Peer -> Addr \cup {NoAddr}]
      BY <1>a, <2>3, <3>0 DEF WriteRow
    <3>5. given' \subseteq Peer \cup {Server} /\ (Server \in given => Server \in given')
      BY <1>1, <1>a, <2>3, <3>0, <3>1 DEF WriteRow, Mark, PairInHand
    <3> QED
      BY <1>a, <2>3, <3>3, <3>4, <3>5 DEF WriteRow
  <2>4. CASE ChooseServerAddress(w)
    <3>1. ASSUME NEW a \in NextFreeForServer(job[w].new, Held), job[w].pc = "srvpeers"
          PROVE  [job[w] EXCEPT !.srv = a, !.pc = "srvwrite"] \in GoodJob
      <4>1. job[w].new \in Networks /\ a \in job[w].new /\ a \in Addr
        BY <1>1, <3>1 DEF PairInHand, NextFreeForServer, Addr
      <4> DEFINE next == [job[w] EXCEPT !.srv = a, !.pc = "srvwrite"]
      <4>2. next \in Job /\ next.pc = "srvwrite" /\ next.srv = a
            /\ next.new = job[w].new /\ next.kind = job[w].kind
        BY <1>1, <4>1, ChooseServerUpdate, Zenon
      <4> QED
        BY <1>1, <3>1, <4>1, <4>2 DEF GoodJob, PairInHand
    <3>2. ASSUME NEW a \in NextFreeForServer(job[w].new, Held),
                 job' = [job EXCEPT ![w] = [@ EXCEPT !.srv = a, !.pc = "srvwrite"]],
                 job[w].pc = "srvpeers", UNCHANGED <<network, serverIp, peerIp, given, phase>>
          PROVE  Good'
      <4> DEFINE next == [job[w] EXCEPT !.srv = a, !.pc = "srvwrite"]
      <4>1. next \in GoodJob
        BY <3>1, <3>2
      <4>2. job' = [job EXCEPT ![w] = next]
        BY <1>a, <3>2
      <4> HIDE DEF next
      <4> QED
        BY <1>a, <3>2, <4>1, <4>2
    <3> QED
      BY <1>3, <2>4, <3>2 DEF ChooseServerAddress
  <2>5. CASE WriteServer(w)
    <3>1. job[w].new \in Networks /\ job[w].srv \in job[w].new /\ job[w].srv \in Addr
          /\ job[w].kind = "renumber"
      BY <1>1, <1>2, <2>5 DEF PairInHand, WriteServer
    <3> DEFINE next == [job[w] EXCEPT !.pc = "srvlist", !.srv = NoAddr]
    <3>4. job' = [job EXCEPT ![w] = next]
      BY <2>5 DEF WriteServer
    <3>5. next \in Job /\ next.pc = "srvlist"
          /\ next.kind = job[w].kind /\ next.new = job[w].new /\ next.again = job[w].again
      BY <1>1, WriteServerUpdate, Zenon
    <3>6. next \in GoodJob
      BY <3>1, <3>5 DEF GoodJob, PairInHand
    <3> HIDE DEF next
    <3> QED
      BY <1>a, <2>5, <3>1, <3>4, <3>6 DEF WriteServer
  <2>6. CASE ListPeers(w)
    <3>1. \A next \in Continue(job[w], Rows) : next \in GoodJob
      BY <1>1, <2>6, ContinueGood DEF Rows, ListPeers
    <3> QED
      BY <1>a, <2>6, <3>1 DEF ListPeers
  <2>7. CASE RewriteServer(w)
    <3>1. job[w].net \in Networks /\ job[w].srv \in Addr
          /\ (job[w].sent \/ job[w].srv \in job[w].net)
      BY <1>1, <2>7 DEF PairInHand, RewriteServer
    <3> DEFINE next == [job[w] EXCEPT !.again = FALSE]
    <3>5. next \in Job
      BY <1>1, AgainUpdate, Zenon
    <3>6. next.pc = job[w].pc /\ next.kind = job[w].kind /\ next.new = job[w].new
          /\ next.again = FALSE /\ next.net = job[w].net /\ next.srv = job[w].srv
          /\ next.sent = job[w].sent
      BY <1>1, SMT DEF Job
    <3>2. next \in GoodJob
      BY <1>1, <2>7, <3>5, <3>6 DEF GoodJob, PairInHand, RewriteServer
    <3>3. job' \in [Proc -> GoodJob]
      BY <1>a, <2>7, <3>2, IdleGood DEF RewriteServer
    <3>4. given' \subseteq Peer \cup {Server} /\ (job[w].sent => Server \in given')
      BY <1>a, <2>7 DEF RewriteServer, Mark
    <3> QED
      BY <1>a, <2>7, <3>1, <3>3, <3>4 DEF RewriteServer
  <2> QED
    BY <1>5, <2>1, <2>2, <2>3, <2>4, <2>5, <2>6, <2>7 DEF Step
<1>6. ASSUME Startup PROVE Good'
  <2>0. Boot \in Proc
    BY DEF Proc
  <2>1. CASE BootEnvironment
    <3>1. ASSUME NEW n \in Networks
          PROVE  [Idle EXCEPT !.pc = "srvpeers", !.kind = "renumber", !.new = n]
                   \in GoodJob
      BY DEF Idle, GoodJob, Job, PairInHand
    <3>2. job' \in [Proc -> GoodJob]
      <4>1. CASE UNCHANGED job
        BY <1>a, <4>1
      <4>2. ASSUME NEW n \in Networks \ {network},
                   job' = [job EXCEPT ![Boot] = [Idle EXCEPT !.pc = "srvpeers",
                                                   !.kind = "renumber", !.new = n]]
            PROVE  job' \in [Proc -> GoodJob]
        <5>1. n \in Networks
          BY <4>2
        <5>2. [Idle EXCEPT !.pc = "srvpeers", !.kind = "renumber", !.new = n] \in GoodJob
          BY <3>1, <5>1
        <5> HIDE DEF GoodJob
        <5> QED
          BY <1>a, <2>0, <4>2, <5>2
      <4> QED
        BY <2>1, <4>1, <4>2 DEF BootEnvironment
    <3> QED
      BY <1>a, <2>1, <3>2 DEF BootEnvironment
  <2>2. CASE BootPeers
    <3>1. [Idle EXCEPT !.pc = "seed", !.kind = "seed", !.todo = Sample] \in GoodJob
      BY DEF Idle, GoodJob, Job, PairInHand
    <3> QED
      BY <1>a, <2>0, <2>2, <3>1 DEF BootPeers
  <2>3. ASSUME NEW p \in Sample, SeedPeer(p) PROVE Good'
    <3>1. [job[Boot] EXCEPT !.todo = job[Boot].todo \ {p}] \in GoodJob
      BY <1>1, <2>0, <2>3 DEF GoodJob, Job, PairInHand, SeedPeer
    <3> DEFINE existing == IF Rows = {} THEN {} ELSE Held \cup {serverIp}
               free == NextFreeForPeer(network, existing)
    <3>2. CASE free = {} /\ Fail(Boot)
      BY <1>3, <2>0, <3>2
    <3>3. ASSUME NEW a \in free, peerIp' = [peerIp EXCEPT ![p] = a],
                 job' = [job EXCEPT ![Boot] = IF job[Boot].todo \ {p} = {} THEN Idle
                           ELSE [@ EXCEPT !.todo = job[Boot].todo \ {p}]],
                 given' = given \ {p}, UNCHANGED <<network, serverIp, phase>>
          PROVE  Good'
      <4>1. a \in Addr
        BY <1>a DEF NextFreeForPeer, Addr
      <4> QED
        BY <1>a, <2>0, <3>1, <3>3, <4>1, IdleGood DEF Addr
    <3> QED
      BY <2>3, <3>2, <3>3 DEF SeedPeer
  <2> QED
    BY <1>6, <2>1, <2>2, <2>3 DEF Startup
<1>7. ASSUME Restart PROVE Good'
  BY <1>a, <1>7, IdleGood DEF Restart
<1>8. CASE UNCHANGED vars
  BY <1>a, <1>8 DEF vars
<1> QED
  BY <1>4, <1>5, <1>6, <1>7, <1>8 DEF Next

\* Whoever will write the configuration row holds a network and an address in
\* it, whatever else the clients do meanwhile.
THEOREM PairCorrect == Spec => []PairInv
  BY PairInit, PairStep, PTL DEF Spec

\* Every variable keeps its type, whatever the clients do.
THEOREM TypeCorrect == Spec => []TypeOK
<1>1. PairInv => TypeOK
  BY DEF PairInv
<1> QED
  BY <1>1, PairCorrect, PTL

\* However saves of the ServerConfiguration row interleave, with each other and
\* with restarts, the server's address is a host of the network saved with it.
THEOREM ServerStaysInNetwork == Spec => []ServerInNetwork
<1>1. PairInv => ServerInNetwork
  BY DEF PairInv
<1> QED
  BY <1>1, PairCorrect, PTL

-----------------------------------------------------------------------------
(* One client at a time *)

LEMMA IdlePc == Idle.pc = "idle" /\ Idle.kind = "none"
  BY DEF Idle

\* At most one thread has work in progress, start-up included.
LEMMA Exclusion ==
    ASSUME Serial, SerialInv, NEW v \in Proc, NEW w \in Proc, v # w, job[w] # Idle
    PROVE  job[v] = Idle
<1>1. CASE v = Boot
  BY <1>1 DEF SerialInv, OneBusy, Proc
<1>2. CASE w = Boot
  BY <1>2 DEF SerialInv, OneBusy, Proc
<1> QED
  BY <1>1, <1>2 DEF Serial, Proc

\* What a thread that makes a query of some kind has in hand.
LEMMA JobAt ==
    ASSUME SerialInv, NEW w \in Proc
    PROVE  /\ job[w].pc = "idle" => job[w] = Idle
           /\ job[w].pc # "editing"
           /\ job[w].pc \in {"config", "peers", "write"} => PeerInHand(job[w])
           /\ job[w].pc \in {"srvpeers", "srvwrite", "srvlist", "rewrite"}
                 => ServerInHand(job[w])
           /\ job[w].pc = "seed" => job[w].kind = "seed"
  BY IdlePc DEF SerialInv, SafeJob, PeerInHand, ServerInHand

\* Giving a peer an address that no other peer has, or one that a request sets,
\* keeps the assigned addresses distinct.
LEMMA AssignDistinct ==
    ASSUME PeersDistinct, BookTypeOK, NEW p \in Peer, NEW a \in Addr,
           peerIp' = [peerIp EXCEPT ![p] = a],
           \/ given' = given \cup {p}
           \/ given' = given \ {p} /\ a \notin HeldByOthers(p)
    PROVE  PeersDistinct' /\ Rows' = Rows \cup {p}
<1>1. Rows' = Rows \cup {p}
  BY DEF Rows, BookTypeOK
<1>2. \A q \in Rows \ {p} : peerIp'[q] = peerIp[q]
  BY DEF BookTypeOK, Rows
<1>3. peerIp'[p] = a
  BY DEF BookTypeOK
<1>4. CASE given' = given \cup {p}
  BY <1>1, <1>2, <1>4 DEF PeersDistinct
<1>5. CASE given' = given \ {p} /\ a \notin HeldByOthers(p)
  <2>1. \A q \in Rows \ {p} : peerIp[q] # a
    BY <1>5 DEF HeldByOthers
  <2> QED
    BY <1>1, <1>2, <1>3, <1>5, <2>1 DEF PeersDistinct
<1> QED
  BY <1>4, <1>5

LEMMA SerialInit == Init => SerialInv
<1> SUFFICES ASSUME Init PROVE SerialInv
  OBVIOUS
<1>1. Rows = {}
  BY DEF Init, Rows
<1>2. \A w \in Proc : job[w] = Idle
  BY DEF Init
<1> QED
  BY <1>1, <1>2 DEF Init, SerialInv, PeersDistinct, ServerDistinct, OneBusy, SafeJob, Proc

\* A step of thread w that leaves every other thread alone.
LEMMA OthersIdle ==
    ASSUME Serial, SerialInv, TypeOK, NEW w \in Proc, NEW next, job' = [job EXCEPT ![w] = next],
           job[w] # Idle \/ (w \in Worker /\ phase = "up")
    PROVE  /\ job'[w] = next
           /\ \A v \in Proc \ {w} : job'[v] = Idle
           /\ UNCHANGED phase => OneBusy'
           /\ w = Boot => phase = "samples"
           /\ w # Boot => phase = "up"
<1>1. \A v \in Proc \ {w} : job[v] = Idle
  BY Exclusion DEF SerialInv, OneBusy, Serial, Proc
<1>2. job'[w] = next /\ \A v \in Proc \ {w} : job'[v] = Idle
  BY <1>1 DEF TypeOK
<1>3. (w = Boot => phase = "samples") /\ (w # Boot => phase = "up")
  BY DEF SerialInv, OneBusy, TypeOK, Proc
<1> QED
  BY <1>2, <1>3 DEF OneBusy, Proc

LEMMA FromThread ==
    ASSUME Serial, SerialInv, TypeOK, NEW w \in Proc, NEW next,
           job' = [job EXCEPT ![w] = next], UNCHANGED phase,
           job[w] # Idle \/ (w \in Worker /\ phase = "up"),
           PeersDistinct', ServerDistinct', SafeJob(job[w])'
    PROVE  SerialInv'
  BY OthersIdle DEF SerialInv, SafeJob

LEMMA BookUnchanged ==
    ASSUME SerialInv, UNCHANGED <<network, serverIp, peerIp, given>>
    PROVE  /\ PeersDistinct' /\ ServerDistinct'
           /\ Rows' = Rows /\ Held' = Held
           /\ \A p : HeldByOthers(p)' = HeldByOthers(p)
  BY DEF SerialInv, PeersDistinct, ServerDistinct, Rows, Held, HeldByOthers

LEMMA SerialFail ==
    ASSUME Serial, SerialInv, TypeOK, NEW w \in Proc, job[w] # Idle, Fail(w)
    PROVE  SerialInv'
<1>1. PeersDistinct' /\ ServerDistinct'
  BY BookUnchanged DEF Fail
<1>2. \A v \in Proc : job'[v] = Idle
  BY OthersIdle DEF Fail
<1> QED
  BY <1>1, <1>2 DEF SerialInv, SafeJob, OneBusy, Proc

LEMMA SerialRequest ==
    ASSUME Serial, SerialInv, PairInv, NEW w \in Worker, Request(w)
    PROVE  SerialInv'
<1> USE DEF Proc
<1>0. TypeOK /\ w \in Proc
  BY DEF PairInv
<1>1. ASSUME NEW p \in Peer, NEW a \in Addr \cup {NoAddr}, CreatePeer(w, p, a)
      PROVE  SerialInv'
  <2> DEFINE next == [Idle EXCEPT !.pc = "config", !.kind = "create", !.peer = p, !.ip = a,
                                  !.sent = (a # NoAddr)]
  <2>1. job' = [job EXCEPT ![w] = next] /\ phase = "up" /\ job'[w] = next
    BY <1>0, <1>1 DEF CreatePeer, Serving, TypeOK
  <2>2. next.pc = "config" /\ next.kind = "create" /\ next.peer = p /\ next.ip = a
        /\ next.sent = (a # NoAddr)
    BY DEF Idle
  <2>3. PeerInHand(job[w])'
    BY <1>1, <2>1, <2>2 DEF PeerInHand, CreatePeer
  <2> QED
    BY <1>0, <1>1, <2>1, <2>3, FromThread, BookUnchanged DEF CreatePeer, SafeJob
<1>2. ASSUME NEW p \in Peer, NEW a \in Addr \cup {NoAddr}, UpdatePeer(w, p, a)
      PROVE  SerialInv'
  <2> DEFINE next == [Idle EXCEPT !.pc = "config", !.kind = "update", !.peer = p, !.ip = a,
                        !.sent = a # NoAddr /\ (a = peerIp[p] => p \in given)]
  <2>1. job' = [job EXCEPT ![w] = next] /\ phase = "up" /\ job'[w] = next
    BY <1>0, <1>2 DEF UpdatePeer, Serving, TypeOK
  <2>2. next.pc = "config" /\ next.kind = "update" /\ next.peer = p /\ next.ip = a
        /\ next.sent = (a # NoAddr /\ (a = peerIp[p] => p \in given))
    BY DEF Idle
  <2>3. PeerInHand(job[w])'
    BY <1>2, <2>1, <2>2, BookUnchanged DEF PeerInHand, UpdatePeer
  <2> QED
    BY <1>0, <1>2, <2>1, <2>3, FromThread, BookUnchanged DEF UpdatePeer, SafeJob
<1>3. ASSUME NEW p \in Peer, OpenEditor(w, p) PROVE SerialInv'
  BY <1>3 DEF OpenEditor, Serial
<1>4. ASSUME NEW p \in Peer, DeletePeer(w, p) PROVE SerialInv'
  <2>1. Rows' = Rows \ {p} /\ \A q \in Rows' : peerIp'[q] = peerIp[q]
    BY <1>0, <1>4 DEF DeletePeer, TypeOK, BookTypeOK, Rows
  <2>2. PeersDistinct' /\ ServerDistinct'
    BY <1>4, <2>1 DEF SerialInv, PeersDistinct, ServerDistinct, DeletePeer
  <2>3. \A v \in Proc : job[v] = Idle
    BY <1>0, <1>4, JobAt DEF DeletePeer, Serving, SerialInv, OneBusy, Serial
  <2> QED
    BY <1>4, <2>2, <2>3 DEF SerialInv, SafeJob, OneBusy, DeletePeer
<1>5. ASSUME SubmitEditor(w) PROVE SerialInv'
  BY <1>0, <1>5, JobAt DEF SubmitEditor
<1>6. ASSUME NEW n \in Networks, NEW twice \in BOOLEAN, ChangeNetwork(w, n, twice)
      PROVE  SerialInv'
  <2> DEFINE next == [Idle EXCEPT !.pc = "srvpeers", !.kind = "renumber", !.new = n,
                                  !.again = twice]
  <2>1. job' = [job EXCEPT ![w] = next] /\ phase = "up" /\ job'[w] = next
    BY <1>0, <1>6 DEF ChangeNetwork, Serving, TypeOK
  <2>2. next.pc = "srvpeers" /\ next.kind = "renumber" /\ next.new = n
    BY DEF Idle
  <2>3. ServerInHand(job[w])'
    BY <2>1, <2>2 DEF ServerInHand
  <2> QED
    BY <1>0, <1>6, <2>1, <2>3, FromThread, BookUnchanged DEF ChangeNetwork, SafeJob
<1>7. ASSUME NEW a \in Addr, NEW twice \in BOOLEAN, LoadServer(w, a, twice)
      PROVE  SerialInv'
  <2> DEFINE next == [Idle EXCEPT !.pc = "rewrite", !.kind = "touch", !.net = network,
                        !.srv = a, !.again = twice,
                        !.sent = (a = serverIp => Server \in given)]
  <2>1. job' = [job EXCEPT ![w] = next] /\ phase = "up" /\ job'[w] = next
    BY <1>0, <1>7 DEF LoadServer, Serving, TypeOK
  <2>2. next.pc = "rewrite" /\ next.kind = "touch" /\ next.net = network
        /\ next.srv = a /\ next.sent = (a = serverIp => Server \in given)
    BY DEF Idle
  <2>3. ServerInHand(job[w])'
    BY <1>7, <2>1, <2>2 DEF ServerInHand, LoadServer
  <2> QED
    BY <1>0, <1>7, <2>1, <2>3, FromThread, BookUnchanged DEF LoadServer, SafeJob
<1>9. ASSUME NEW twice \in BOOLEAN, ClearServerAddress(w, twice) PROVE SerialInv'
  <2> DEFINE next == [Idle EXCEPT !.pc = "srvpeers", !.kind = "renumber", !.new = network,
                                  !.again = twice]
  <2>1. job' = [job EXCEPT ![w] = next] /\ phase = "up" /\ job'[w] = next
    BY <1>0, <1>9 DEF ClearServerAddress, Serving, TypeOK
  <2>2. next.pc = "srvpeers" /\ next.kind = "renumber" /\ next.new = network
    BY DEF Idle
  <2>3. ServerInHand(job[w])'
    BY <1>0, <2>1, <2>2 DEF ServerInHand, TypeOK, BookTypeOK
  <2> QED
    BY <1>0, <1>9, <2>1, <2>3, FromThread, BookUnchanged DEF ClearServerAddress, SafeJob
<1>8. ASSUME NEW delete \in BOOLEAN, CloseEditor(w, delete) PROVE SerialInv'
  BY <1>0, <1>8, JobAt DEF CloseEditor
<1> QED
  BY <1>1, <1>2, <1>3, <1>4, <1>5, <1>6, <1>7, <1>8, <1>9 DEF Request

\* The write that ends Peer.save stores what a request set, the row as it was, or an
\* available address.
LEMMA WriteRowBook ==
    ASSUME SerialInv, TypeOK, NEW w \in Proc, WriteRow(w)
    PROVE  /\ PeerInHand(job[w]) /\ job[w].peer \in Peer
           /\ job[w].ip \in Addr
           /\ peerIp' = [peerIp EXCEPT ![job[w].peer] = job[w].ip]
           /\ \/ given' = given \cup {job[w].peer}
              \/ UNCHANGED <<peerIp, given>> /\ job[w].peer \in Rows
              \/ /\ given' = given \ {job[w].peer}
                 /\ job[w].ip \in network \ (HeldByOthers(job[w].peer) \cup {serverIp})
           /\ job[w].kind = "renumber"
                 => job[w].ip \in network /\ given' = given \ {job[w].peer}
<1>1. PeerInHand(job[w]) /\ job[w].pc = "write"
  BY JobAt DEF WriteRow
<1>2. /\ peerIp' = [peerIp EXCEPT ![job[w].peer] = job[w].ip]
      /\ job[w].sent => given' = given \cup {job[w].peer}
      /\ ~job[w].sent => given' = given \ {job[w].peer}
  BY DEF WriteRow, Mark
<1>3. job[w] \in Job
  BY DEF TypeOK
<1>4. job[w].ip \in Addr /\ job[w].peer \in Peer
  BY <1>1, <1>3 DEF PeerInHand, Job
<1>5. CASE job[w].sent
  BY <1>1, <1>2, <1>4, <1>5 DEF PeerInHand
<1>6. CASE ~job[w].sent /\ job[w].kind = "update" /\ job[w].ip = peerIp[job[w].peer]
           /\ job[w].peer \notin given
  <2>1. job[w].peer \in Rows
    BY <1>1, <1>6 DEF PeerInHand
  <2>2. peerIp' = peerIp
    BY <1>2, <1>6, <2>1 DEF Rows, TypeOK, BookTypeOK
  <2>3. given' = given
    <3>1. given' = given \ {job[w].peer} /\ job[w].peer \notin given
      BY <1>2, <1>6
    <3> QED
      BY <3>1, Zenon
  <2> QED
    BY <1>1, <1>2, <1>4, <1>6, <2>1, <2>2, <2>3 
<1>7. CASE ~job[w].sent /\ job[w].ip \in network \ (HeldByOthers(job[w].peer) \cup {serverIp})
  BY <1>1, <1>2, <1>4, <1>7
<1> QED
  BY <1>1, <1>5, <1>6, <1>7 DEF PeerInHand

LEMMA SerialWriteRow ==
    ASSUME Serial, SerialInv, PairInv, NEW w \in Proc, WriteRow(w)
    PROVE  SerialInv'
<1> DEFINE j == job[w]
<1>0. TypeOK /\ j # Idle /\ j.todo = job[w].todo
  BY IdlePc DEF PairInv, WriteRow
<1>1. PICK next \in Continue(j, j.todo) : job' = [job EXCEPT ![w] = next]
  BY DEF WriteRow
<1>2. job'[w] = next /\ UNCHANGED <<network, serverIp, phase>>
  BY <1>0, <1>1 DEF TypeOK, WriteRow
<1>3. PeersDistinct' /\ Rows' = Rows \cup {j.peer}
  <2>1. CASE UNCHANGED <<peerIp, given>> /\ j.peer \in Rows
    BY <1>2, <2>1, BookUnchanged
  <2>2. CASE ~UNCHANGED <<peerIp, given>>
    BY <1>0, <2>2, WriteRowBook, AssignDistinct DEF SerialInv, TypeOK
  <2> QED
    BY <1>0, <2>1, <2>2, WriteRowBook, AssignDistinct DEF SerialInv, TypeOK
<1>4. \A q \in Rows \ {j.peer} : peerIp'[q] = peerIp[q]
  BY <1>0, WriteRowBook DEF TypeOK, BookTypeOK, Rows
<1>5. peerIp'[j.peer] = j.ip
  BY <1>0, WriteRowBook DEF TypeOK, BookTypeOK
<1>6. ServerDistinct'
  <2>0. j.peer \in Peer /\ ServerDistinct
    BY <1>0, WriteRowBook DEF SerialInv
  <2>1. CASE given' = given \cup {j.peer}
    BY <1>2, <1>3, <1>4, <2>0, <2>1 DEF ServerDistinct
  <2>2. CASE UNCHANGED <<peerIp, given>>
    BY <1>2, <2>2, BookUnchanged
  <2>3. CASE given' = given \ {j.peer} /\ j.ip # serverIp
    BY <1>2, <1>3, <1>4, <1>5, <2>0, <2>3 DEF ServerDistinct
  <2> QED
    BY <1>0, <2>1, <2>2, <2>3, WriteRowBook
<1>7. SafeJob(job[w])'
  <2>1. CASE next = Idle
    BY <1>2, <2>1 DEF SafeJob
  <2>2. CASE j.kind = "renumber" /\ next \in NextPeers(j, j.todo)
    <3>0. PICK p \in j.todo : IsNextPeer(next, j, j.todo, p)
      BY <2>2, NextPeersFields
    <3>1. next.pc = "config" /\ next.kind = j.kind /\ next.peer = p
          /\ next.ip = NoAddr /\ next.new = j.new /\ next.todo = j.todo \ {p}
          /\ (next.again <=> j.again) /\ ~next.sent
      BY <3>0 DEF IsNextPeer
    <3>2. network = j.new /\ j.todo \subseteq Rows
          /\ \A q \in Rows \ (j.todo \cup {j.peer}) : peerIp[q] \in network
      BY <1>0, <2>2, WriteRowBook DEF PeerInHand
    <3>3. j.ip \in network /\ given' = given \ {j.peer}
      BY <1>0, <2>2, WriteRowBook
    <3>4. p \in Peer /\ p \in Rows'
      BY <1>3, <3>2 DEF Rows
    <3>5. ASSUME NEW q \in Rows' \ (next.todo \cup {p}) PROVE peerIp'[q] \in network
      <4>1. CASE q = j.peer
        BY <1>5, <3>3, <4>1
      <4>2. CASE q # j.peer
        <5>1. q \in Rows \ (j.todo \cup {j.peer})
          BY <1>3, <3>1, <3>5, <4>2
        <5> QED
          BY <1>4, <3>2, <4>2, <5>1
      <4> QED
        BY <4>1, <4>2
    <3>7. PeerInHand(job[w])'
      BY <1>2, <1>3, <2>2, <3>1, <3>2, <3>4, <3>5 DEF PeerInHand
    <3> QED
      BY <3>7 DEF SafeJob
  <2>3. CASE j.kind = "renumber" /\ j.again /\ next = SecondSave(j)
    <3>1. j.new \in Networks
      BY <2>3 DEF PairInv, PairInHand
    <3>2. next.pc = "srvpeers" /\ next.kind = "renumber" /\ next.new = j.new
      BY <2>3, SecondSaveFields
    <3>3. ServerInHand(job[w])'
      BY <1>2, <3>1, <3>2 DEF ServerInHand
    <3> QED
      BY <3>3 DEF SafeJob
  <2> QED
    BY <1>1, <2>1, <2>2, <2>3, ContinueCases
<1> QED
  BY <1>0, <1>1, <1>2, <1>3, <1>6, <1>7, FromThread

LEMMA SerialPeerSave ==
    ASSUME Serial, SerialInv, PairInv, NEW w \in Proc,
           ReadConfig(w) \/ ChooseAddress(w)
    PROVE  SerialInv'
<1>0. TypeOK /\ job[w] # Idle /\ job[w] \in Job
  BY IdlePc DEF PairInv, ReadConfig, ChooseAddress, TypeOK
<1>1. PeerInHand(job[w])
  BY JobAt DEF ReadConfig, ChooseAddress
<1>2. CASE ReadConfig(w)
  <2>1. PICK c \in {"peers", "write"} :
           /\ c = IF job[w].ip = NoAddr THEN "peers" ELSE "write"
           /\ job' = [job EXCEPT ![w] =
                        [job[w] EXCEPT !.net = network, !.srv = serverIp, !.pc = c]]
    BY <1>2 DEF ReadConfig
  <2> DEFINE next == [job[w] EXCEPT !.net = network, !.srv = serverIp, !.pc = c]
  <2>2. job'[w] = next /\ UNCHANGED <<network, serverIp, peerIp, given, phase>>
    BY <1>0, <1>2, <2>1 DEF TypeOK, ReadConfig
  <2>3. next.net = network /\ next.srv = serverIp /\ next.pc = c
        /\ next.kind = job[w].kind /\ next.peer = job[w].peer /\ next.ip = job[w].ip
        /\ next.new = job[w].new /\ next.todo = job[w].todo
        /\ (next.again <=> job[w].again) /\ (next.sent <=> job[w].sent)
    BY <1>0, SMT DEF Job
  <2>4. job[w].pc = "config"
    BY <1>2 DEF ReadConfig
  <2>5. PeerInHand(job[w])'
    BY <1>1, <2>1, <2>2, <2>3, <2>4, BookUnchanged DEF PeerInHand
  <2> QED
    BY <1>0, <2>1, <2>2, <2>5, FromThread, BookUnchanged DEF SafeJob
<1>3. CASE ChooseAddress(w)
  <2> DEFINE free == NextFreeForPeer(job[w].net, Held \cup {job[w].srv})
  <2>1. CASE Fail(w)
    BY <1>0, <2>1, SerialFail
  <2>2. ASSUME NEW a \in free,
               job' = [job EXCEPT ![w] = [@ EXCEPT !.ip = a, !.pc = "write"]],
               UNCHANGED <<network, serverIp, peerIp, given, phase>>
        PROVE  SerialInv'
    <3> DEFINE next == [job[w] EXCEPT !.ip = a, !.pc = "write"]
    <3>1. job'[w] = next
      BY <1>0, <2>2 DEF TypeOK
    <3>2. next.ip = a /\ next.pc = "write" /\ next.net = job[w].net
          /\ next.srv = job[w].srv
          /\ next.kind = job[w].kind /\ next.peer = job[w].peer
          /\ next.new = job[w].new /\ next.todo = job[w].todo
          /\ (next.again <=> job[w].again) /\ (next.sent <=> job[w].sent)
      BY <1>0, SMT DEF Job
    <3>3. job[w].net = network /\ job[w].srv = serverIp /\ ~job[w].sent
      BY <1>1, <1>3 DEF PeerInHand, ChooseAddress
    <3>4. a \in network \ (Held \cup {serverIp})
      BY <3>3, NextFreeIsFree
    <3>5. HeldByOthers(job[w].peer) \subseteq Held
      BY DEF HeldByOthers, Held
    <3>7. a # NoAddr
      BY <1>0, <3>3, <3>4 DEF TypeOK, BookTypeOK, Addr
    <3>6. PeerInHand(job[w])'
      BY <1>1, <2>2, <3>1, <3>2, <3>3, <3>4, <3>5, <3>7, BookUnchanged
         DEF PeerInHand
    <3> QED
      BY <1>0, <2>2, <3>6, FromThread, BookUnchanged DEF SafeJob
  <2> QED
    BY <1>3, <2>1, <2>2 DEF ChooseAddress
<1> QED
  BY <1>2, <1>3

LEMMA SerialServerSave ==
    ASSUME Serial, SerialInv, PairInv, NEW w \in Proc,
           ChooseServerAddress(w) \/ WriteServer(w) \/ ListPeers(w) \/ RewriteServer(w)
    PROVE  SerialInv'
<1>0. TypeOK /\ job[w] # Idle /\ job[w] \in Job
  BY IdlePc DEF PairInv, ChooseServerAddress, WriteServer, ListPeers, RewriteServer, TypeOK
<1>1. ServerInHand(job[w])
  BY JobAt DEF ChooseServerAddress, WriteServer, ListPeers, RewriteServer
<1>2. CASE ChooseServerAddress(w)
  <2>1. CASE Fail(w)
    BY <1>0, <2>1, SerialFail
  <2>2. ASSUME NEW a \in NextFreeForServer(job[w].new, Held),
               job' = [job EXCEPT ![w] = [@ EXCEPT !.srv = a, !.pc = "srvwrite"]],
               UNCHANGED <<network, serverIp, peerIp, given, phase>>
        PROVE  SerialInv'
    <3> DEFINE next == [job[w] EXCEPT !.srv = a, !.pc = "srvwrite"]
    <3>1. job'[w] = next
      BY <1>0, <2>2 DEF TypeOK
    <3>2. next.srv = a /\ next.pc = "srvwrite" /\ next.kind = job[w].kind
          /\ next.new = job[w].new
      BY <1>0, SMT DEF Job
    <3>3. job[w].kind = "renumber" /\ job[w].new \in Networks
      BY <1>1, <1>2 DEF ServerInHand, ChooseServerAddress
    <3>4. a \in job[w].new \ Held
      BY NextFreeIsFree
    <3>5. ServerInHand(job[w])'
      BY <2>2, <3>1, <3>2, <3>3, <3>4, BookUnchanged DEF ServerInHand
    <3> QED
      BY <1>0, <2>2, <3>5, FromThread, BookUnchanged DEF SafeJob
  <2> QED
    BY <1>2, <2>1, <2>2 DEF ChooseServerAddress
<1>3. CASE WriteServer(w)
  <2> DEFINE next == [job[w] EXCEPT !.pc = "srvlist", !.srv = NoAddr]
  <2>1. job'[w] = next /\ job' = [job EXCEPT ![w] = next]
    BY <1>0, <1>3 DEF TypeOK, WriteServer
  <2>2. next.pc = "srvlist" /\ next.kind = job[w].kind /\ next.new = job[w].new
    BY <1>0, SMT DEF Job
  <2>3. job[w].kind = "renumber" /\ job[w].new \in Networks
        /\ job[w].srv \in job[w].new \ Held
    BY <1>1, <1>3 DEF ServerInHand, WriteServer
  <2>6. network' = job[w].new /\ serverIp' = job[w].srv /\ given' = given \ {Server}
        /\ UNCHANGED <<peerIp, phase>>
    BY <1>3 DEF WriteServer
  <2>4. ServerInHand(job[w])'
    BY <2>1, <2>2, <2>3, <2>6 DEF ServerInHand
  <2>5. PeersDistinct' /\ ServerDistinct'
    <3>1. Rows' = Rows /\ \A p \in Rows : p \in given' <=> p \in given
      BY <2>6 DEF Rows
    <3>2. \A p \in Rows : peerIp[p] # job[w].srv
      BY <2>3 DEF Held
    <3> QED
      BY <2>6, <3>1, <3>2 DEF SerialInv, PeersDistinct, ServerDistinct
  <2> HIDE DEF next
  <2> QED
    BY <1>0, <2>1, <2>4, <2>5, <2>6, FromThread DEF SafeJob
<1>4. CASE ListPeers(w)
  <2>1. PICK next \in Continue(job[w], Rows) : job' = [job EXCEPT ![w] = next]
    BY <1>4 DEF ListPeers
  <2>2. job'[w] = next /\ UNCHANGED <<network, serverIp, peerIp, given, phase>>
    BY <1>0, <1>4, <2>1 DEF TypeOK, ListPeers
  <2>3. job[w].kind = "renumber" /\ job[w].new \in Networks /\ network = job[w].new
    BY <1>1, <1>4 DEF ServerInHand, ListPeers
  <2>4. CASE next = Idle
    BY <2>2, <2>4, <1>0, <2>1, FromThread, BookUnchanged DEF SafeJob
  <2>7. SafeJob(job[w])' => SerialInv'
    BY <1>0, <2>1, <2>2, FromThread, BookUnchanged
  <2>5. CASE next \in NextPeers(job[w], Rows)
    <3>0. PICK p \in Rows : IsNextPeer(next, job[w], Rows, p)
      BY <2>5, NextPeersFields
    <3>1. next.pc = "config" /\ next.kind = job[w].kind /\ next.peer = p
          /\ next.ip = NoAddr /\ next.new = job[w].new /\ next.todo = Rows \ {p}
          /\ (next.again <=> job[w].again) /\ ~next.sent
      BY <3>0 DEF IsNextPeer
    <3>2. p \in Peer
      BY DEF Rows
    <3>3. next.again => job[w].again
      BY <3>1
    <3>4. PeerInHand(job[w])'
      BY <2>2, <2>3, <3>1, <3>2, <3>3, BookUnchanged DEF PeerInHand
    <3> QED
      BY <2>7, <3>4 DEF SafeJob
  <2>6. CASE job[w].again /\ next = SecondSave(job[w])
    <3>1. next.pc = "srvpeers" /\ next.kind = "renumber" /\ next.new = job[w].new
      BY <2>6, SecondSaveFields
    <3>2. ServerInHand(job[w])'
      BY <2>2, <2>3, <3>1 DEF ServerInHand
    <3> QED
      BY <2>7, <3>2 DEF SafeJob
  <2> QED
    BY <2>1, <2>4, <2>5, <2>6, ContinueCases
<1>5. CASE RewriteServer(w)
  <2>1. /\ job[w].kind = "touch" /\ job[w].net = network
        /\ job[w].sent \/ (job[w].srv = serverIp /\ Server \notin given)
    BY <1>1, <1>5 DEF ServerInHand, RewriteServer
  <2>2. UNCHANGED <<network, peerIp, phase>>
    BY <1>5, <2>1 DEF RewriteServer
  <2>3. \/ job[w].sent /\ given' = given \cup {Server}
        \/ UNCHANGED <<serverIp, given>> /\ Server \notin given
    <3>1. CASE job[w].sent
      BY <1>5, <3>1 DEF RewriteServer, Mark
    <3>2. CASE ~job[w].sent
      <4>1. serverIp' = serverIp /\ given' = given \ {Server} /\ Server \notin given
        BY <1>5, <2>1, <3>2 DEF RewriteServer, Mark
      <4>2. given' = given
        BY <4>1, Zenon
      <4> QED
        BY <4>1, <4>2
    <3> QED
      BY <3>1, <3>2
  <2>4. PeersDistinct' /\ ServerDistinct'
    <3>1. Rows' = Rows /\ \A p \in Rows : p \in given' <=> p \in given
      BY <2>2, <2>3 DEF Rows
    <3> QED
      BY <2>2, <2>3, <3>1 DEF SerialInv, PeersDistinct, ServerDistinct
  <2> DEFINE next == IF job[w].again THEN [job[w] EXCEPT !.again = FALSE] ELSE Idle
  <2>5. job' = [job EXCEPT ![w] = next] /\ job'[w] = next
    BY <1>0, <1>5 DEF RewriteServer, TypeOK
  <2>6. SafeJob(job[w])'
    <3>1. CASE ~job[w].again
      BY <2>5, <3>1 DEF SafeJob
    <3>2. CASE job[w].again
      <4>1. /\ job'[w].pc = "rewrite" /\ job'[w].kind = "touch" /\ job'[w].net = job[w].net
            /\ job'[w].srv = job[w].srv /\ (job'[w].sent <=> job[w].sent)
        BY <1>0, <1>5, <2>1, <2>5, <3>2 DEF Job, RewriteServer
      <4>2. ServerInHand(job[w])'
        BY <2>1, <2>2, <2>3, <4>1 DEF ServerInHand
      <4> QED
        BY <4>2 DEF SafeJob
    <3> QED
      BY <3>1, <3>2
  <2> HIDE DEF next
  <2> QED
    BY <1>0, <2>2, <2>4, <2>5, <2>6, FromThread
<1> QED
  BY <1>2, <1>3, <1>4, <1>5

\* What seeding stores is held by no other peer.
LEMMA SeedAvailable ==
    ASSUME TypeOK, NEW p \in Sample,
           NEW a \in NextFreeForPeer(network, IF Rows = {} THEN {}
                                              ELSE Held \cup {serverIp})
    PROVE  a \in network /\ a \notin HeldByOthers(p) /\ a \in Addr
<1>1. a \in network
  BY DEF NextFreeForPeer
<1>2. Rows # {} => a \notin Held
  BY NextFreeIsFree
<1> QED
  BY <1>1, <1>2 DEF HeldByOthers, Held, TypeOK, BookTypeOK, Addr

LEMMA SerialStartup ==
    ASSUME Serial, SerialInv, PairInv, Startup
    PROVE  SerialInv'
<1>0. TypeOK /\ Boot \in Proc
  BY DEF PairInv, Proc
<1>1. ASSUME NEW next, job' = [job EXCEPT ![Boot] = next], phase = "env" \/ job[Boot] = Idle,
             phase # "up", phase' = "samples", SafeJob(job[Boot])',
             UNCHANGED <<network, serverIp, peerIp, given>>
      PROVE  SerialInv'
  <2>1. \A v \in Worker : job'[v] = Idle
    BY <1>0, <1>1 DEF SerialInv, OneBusy, TypeOK, Proc
  <2> QED
    BY <1>1, <2>1, BookUnchanged DEF SerialInv, OneBusy, SafeJob, Proc
<1>2. CASE BootEnvironment
  <2>1. CASE UNCHANGED job
    <3>1. job' = [job EXCEPT ![Boot] = Idle] /\ job'[Boot] = Idle
      BY <1>0, <1>2, <2>1 DEF BootEnvironment, SerialInv, OneBusy, TypeOK
    <3>2. SafeJob(job[Boot])'
      BY <3>1 DEF SafeJob
    <3> QED
      BY <1>1, <1>2, <3>1, <3>2 DEF BootEnvironment
  <2>2. ASSUME NEW n \in Networks,
               job' = [job EXCEPT ![Boot] = [Idle EXCEPT !.pc = "srvpeers",
                                               !.kind = "renumber", !.new = n]]
        PROVE  SerialInv'
    <3> DEFINE next == [Idle EXCEPT !.pc = "srvpeers", !.kind = "renumber", !.new = n]
    <3>1. next.pc = "srvpeers" /\ next.kind = "renumber" /\ next.new = n
      BY DEF Idle
    <3>2. job'[Boot] = next
      BY <1>0, <2>2 DEF TypeOK
    <3>3. SafeJob(job[Boot])'
      BY <3>1, <3>2 DEF SafeJob, ServerInHand
    <3> QED
      BY <1>1, <1>2, <2>2, <3>3 DEF BootEnvironment
  <2> QED
    BY <1>2, <2>1, <2>2 DEF BootEnvironment
<1>3. CASE BootPeers
  <2>1. job[Boot] = Idle /\ phase = "samples"
    BY <1>0, <1>3, JobAt DEF BootPeers
  <2>2. CASE phase' = "up" /\ UNCHANGED job
    BY <1>3, <2>1, <2>2, BookUnchanged DEF SerialInv, OneBusy, SafeJob, Proc, BootPeers
  <2>3. ASSUME job' = [job EXCEPT ![Boot] = [Idle EXCEPT !.pc = "seed", !.kind = "seed",
                                                         !.todo = Sample]],
               UNCHANGED phase
        PROVE  SerialInv'
    <3> DEFINE next == [Idle EXCEPT !.pc = "seed", !.kind = "seed", !.todo = Sample]
    <3>1. next.pc = "seed" /\ next.kind = "seed"
      BY DEF Idle
    <3>2. job'[Boot] = next
      BY <1>0, <2>3 DEF TypeOK
    <3>3. SafeJob(job[Boot])'
      BY <3>1, <3>2 DEF SafeJob
    <3> QED
      BY <1>1, <1>3, <2>1, <2>3, <3>3 DEF BootPeers
  <2> QED
    BY <1>3, <2>2, <2>3 DEF BootPeers
<1>4. ASSUME NEW p \in Sample, SeedPeer(p) PROVE SerialInv'
  <2> DEFINE free == NextFreeForPeer(network, IF Rows = {} THEN {}
                                              ELSE Held \cup {serverIp})
             rest == job[Boot].todo \ {p}
             next == IF rest = {} THEN Idle ELSE [job[Boot] EXCEPT !.todo = rest]
  <2>0. job[Boot] # Idle /\ job[Boot].kind = "seed" /\ job[Boot] \in Job
    BY <1>0, <1>4, JobAt, IdlePc DEF SeedPeer, TypeOK
  <2>1. CASE Fail(Boot)
    BY <1>0, <2>0, <2>1, SerialFail
  <2>2. ASSUME NEW a \in free, peerIp' = [peerIp EXCEPT ![p] = a],
               given' = given \ {p}, job' = [job EXCEPT ![Boot] = next],
               UNCHANGED <<network, serverIp, phase>>
        PROVE  SerialInv'
    <3>1. PeersDistinct' /\ Rows' = Rows \cup {p}
      BY <1>0, <2>2, SeedAvailable, AssignDistinct DEF SerialInv, TypeOK
    <3>2. ServerDistinct'
      BY <1>0, <2>2, <3>1 DEF SerialInv, ServerDistinct, TypeOK, BookTypeOK
    <3>3. job'[Boot] = next
      BY <1>0, <2>2 DEF TypeOK
    <3>4. next # Idle => next.pc = "seed" /\ next.kind = "seed"
      BY <1>4, <2>0 DEF Job, SeedPeer
    <3>5. SafeJob(job[Boot])'
      BY <3>3, <3>4 DEF SafeJob
    <3> HIDE DEF next
    <3> QED
      BY <1>0, <2>0, <2>2, <3>1, <3>2, <3>5, FromThread
  <2> QED
    BY <1>4, <2>1, <2>2 DEF SeedPeer
<1> QED
  BY <1>2, <1>3, <1>4 DEF Startup

LEMMA SerialStep ==
    ASSUME Serial
    PROVE  PairInv /\ SerialInv /\ [Next]_vars => SerialInv'
<1> SUFFICES ASSUME PairInv, SerialInv, [Next]_vars PROVE SerialInv'
  OBVIOUS
<1>1. ASSUME NEW w \in Proc, Step(w) PROVE SerialInv'
  BY <1>1, SerialPeerSave, SerialWriteRow, SerialServerSave DEF Step
<1>2. ASSUME Restart PROVE SerialInv'
  <2>1. \A w \in Proc : job'[w] = Idle
    BY <1>2, JobAt DEF Restart
  <2> QED
    BY <1>2, <2>1, BookUnchanged DEF Restart, SerialInv, OneBusy, SafeJob, Proc
<1>3. CASE UNCHANGED vars
  BY <1>3 DEF vars, SerialInv, PeersDistinct, ServerDistinct, OneBusy, SafeJob, PeerInHand,
              ServerInHand, Rows, Held, HeldByOthers
<1> QED
  BY <1>1, <1>2, <1>3, SerialRequest, SerialStartup DEF Next

\* One client at a time, what a thread holds in memory between reading and
\* writing is still true of the database.
THEOREM SerialCorrect == ASSUME Serial PROVE Spec => []SerialInv
<1>1. PairInv /\ SerialInv /\ [Next]_vars => SerialInv'
  BY SerialStep
<1> QED
  BY <1>1, PairCorrect, SerialInit, PTL DEF Spec

\* One client at a time, no two peers share an address that was assigned to them:
\* through creation, edits, deletion, renumbering that fails half-way and restarts in
\* the middle, and whatever addresses requests set for others.
THEOREM PeersStayDistinct == ASSUME Serial PROVE Spec => []PeersDistinct
<1>1. SerialInv => PeersDistinct
  BY DEF SerialInv
<1> QED
  BY <1>1, SerialCorrect, PTL

\* One client at a time, no peer that a client created and whose address was assigned
\* has an assigned address of the server.
THEOREM ServerStaysDistinct == ASSUME Serial PROVE Spec => []ServerDistinct
<1>1. SerialInv => ServerDistinct
  BY DEF SerialInv
<1> QED
  BY <1>1, SerialCorrect, PTL

-----------------------------------------------------------------------------
(* Action properties and refinement *)

\* One client at a time, every step is a step of AddressBook or changes nothing
\* that it speaks of.
LEMMA BookStep ==
    ASSUME Serial, PairInv, SerialInv, [Next]_vars
    PROVE  [BookNext]_bookVars
<1>0. TypeOK /\ Boot \in Proc
  BY DEF PairInv, Proc
<1>1. CASE UNCHANGED <<network, serverIp, peerIp, given>>
  BY <1>1 DEF bookVars
<1>2. ASSUME NEW w \in Proc, WriteRow(w) PROVE [BookNext]_bookVars
  <2>1. UNCHANGED <<network, serverIp>>
    BY <1>2 DEF WriteRow
  <2>2. /\ job[w].peer \in Peer /\ job[w].ip \in Addr
        /\ peerIp' = [peerIp EXCEPT ![job[w].peer] = job[w].ip]
    BY <1>0, <1>2, WriteRowBook
  <2>3. CASE given' = given \cup {job[w].peer}
    <3>1. Give(job[w].peer)
      BY <2>1, <2>2, <2>3 DEF Give
    <3> QED
      BY <2>2, <3>1 DEF BookNext
  <2>4. CASE UNCHANGED <<peerIp, given>>
    BY <1>1, <2>1, <2>4
  <2>5. CASE /\ given' = given \ {job[w].peer}
             /\ job[w].ip \in network \ (HeldByOthers(job[w].peer) \cup {serverIp})
    <3>1. Assign(job[w].peer)
      BY <2>1, <2>2, <2>5 DEF Assign
    <3> QED
      BY <2>2, <3>1 DEF BookNext
  <2> QED
    BY <1>0, <1>2, <2>3, <2>4, <2>5, WriteRowBook
<1>3. ASSUME NEW p \in Sample, SeedPeer(p) PROVE [BookNext]_bookVars
  <2>1. CASE Fail(Boot)
    BY <1>1, <2>1 DEF Fail
  <2>2. CASE ~Fail(Boot)
    <3>1. Assign(p)
      BY <1>0, <1>3, <2>2, SeedAvailable DEF SeedPeer, Assign
    <3> QED
      BY <3>1 DEF BookNext
  <2> QED
    BY <2>1, <2>2
<1>4. ASSUME NEW w \in Worker, NEW p \in Peer, DeletePeer(w, p) PROVE [BookNext]_bookVars
  BY <1>4 DEF DeletePeer, Release, BookNext
<1>5. ASSUME NEW w \in Proc, WriteServer(w) PROVE [BookNext]_bookVars
  <2>1. ServerInHand(job[w]) /\ job[w].pc = "srvwrite"
    BY <1>5, JobAt DEF WriteServer
  <2>2. job[w].new \in Networks /\ Move(job[w].new)
    BY <1>5, <2>1 DEF ServerInHand, WriteServer, Move
  <2> QED
    BY <2>2 DEF BookNext
<1>6. ASSUME NEW w \in Proc, RewriteServer(w) PROVE [BookNext]_bookVars
  <2>1. ServerInHand(job[w]) /\ job[w].pc = "rewrite" /\ job[w] \in Job
    BY <1>0, <1>6, JobAt DEF RewriteServer, TypeOK
  <2>2. UNCHANGED <<network, peerIp>>
    BY <1>6, <2>1 DEF ServerInHand, RewriteServer
  <2>3. CASE job[w].sent
    <3>1. serverIp' = job[w].srv /\ job[w].srv \in Addr
      BY <1>6, <2>1 DEF RewriteServer, PairInv, PairInHand
    <3>2. GiveServer
      BY <1>6, <2>2, <2>3, <3>1 DEF RewriteServer, Mark, GiveServer
    <3> QED
      BY <3>2 DEF BookNext
  <2>4. CASE ~job[w].sent
    <3>1. serverIp' = serverIp /\ Server \notin given
      BY <1>6, <2>1, <2>4 DEF ServerInHand, RewriteServer
    <3>2. given' = given \ {Server}
      BY <1>6, <2>4 DEF RewriteServer, Mark
    <3>3. given' = given
      BY <3>1, <3>2, Zenon
    <3> QED
      BY <1>1, <2>2, <3>1, <3>3
  <2> QED
    BY <2>3, <2>4
<1>7. CASE UNCHANGED vars
  BY <1>1, <1>7 DEF vars
<1>8. ASSUME NEW w \in Worker, NEW delete \in BOOLEAN, CloseEditor(w, delete) PROVE FALSE
  BY <1>0, <1>8, JobAt DEF CloseEditor, Proc
<1>9. ASSUME NEW w \in Worker, Request(w) PROVE [BookNext]_bookVars
  BY <1>1, <1>4, <1>8, <1>9
     DEF Request, CreatePeer, UpdatePeer, OpenEditor, SubmitEditor, ChangeNetwork,
         LoadServer, ClearServerAddress
<1>10. ASSUME NEW w \in Proc, Step(w) PROVE [BookNext]_bookVars
  BY <1>1, <1>2, <1>5, <1>6, <1>10
     DEF Step, ReadConfig, ChooseAddress, ChooseServerAddress, ListPeers, Fail
<1>11. ASSUME Startup PROVE [BookNext]_bookVars
  BY <1>1, <1>3, <1>11 DEF Startup, BootEnvironment, BootPeers
<1> QED
  BY <1>1, <1>7, <1>9, <1>10, <1>11 DEF Next, Restart

\* One client at a time, the code keeps the promise of AddressBook.
THEOREM PeerAddressesImplementsBook == ASSUME Serial PROVE Spec => ImplementsBook
<1>1. Init => BookInit
  BY DEF Init, BookInit, IsLowest
<1>2. PairInv /\ SerialInv /\ [Next]_vars => [BookNext]_bookVars
  BY BookStep
<1> QED
  BY <1>1, <1>2, PairCorrect, SerialCorrect, PTL DEF Spec, ImplementsBook, BookSpec

\* A renumbering that ends its passes over the peers has none left.
LEMMA ContinueToEnd ==
    ASSUME NEW j, NEW rest, NEW next \in Continue(j, rest), j.kind = "renumber",
           next.pc = "idle"
    PROVE  rest = {}
<1>1. CASE next \in NextPeers(j, rest)
  BY <1>1, NextPeersFields DEF IsNextPeer
<1> QED
  BY <1>1, ContinueCases

\* Only thread w itself, with a write or a listing, can end a renumbering of w
\* without an error.
LEMMA WhoEndsRenumbering ==
    ASSUME Serial, PairInv, SerialInv, [Next]_vars, NEW w \in Proc,
           job[w].pc \in {"write", "srvlist"}, job'[w].pc = "idle",
           phase' = phase
    PROVE  WriteRow(w) \/ ListPeers(w)
<1>0. TypeOK /\ job[w] # Idle
  BY IdlePc DEF PairInv
<1>1. \A v \in Proc \ {w} : job[v] = Idle
  BY <1>0, Exclusion
<1>2. phase # "env"
  BY <1>0 DEF SerialInv, OneBusy, Proc
<1>3. w \in Worker => phase = "up"
  BY <1>0 DEF SerialInv, OneBusy
<1>4. w = Boot => phase = "samples"
  BY <1>0, <1>2 DEF SerialInv, OneBusy, TypeOK
<1>5. ASSUME NEW v \in Worker, Request(v) PROVE FALSE
  <2>1. phase = "up" /\ job[v].pc \in {"idle", "editing"}
    BY <1>5 DEF Request, CreatePeer, UpdatePeer, OpenEditor, DeletePeer, SubmitEditor, CloseEditor,
                ChangeNetwork, LoadServer, ClearServerAddress, Serving
  <2>2. w = v
    BY <1>4, <2>1 DEF Serial, Proc
  <2> QED
    BY <2>1, <2>2
<1>6. ASSUME NEW v \in Proc, Step(v) PROVE WriteRow(w) \/ ListPeers(w)
  <2>1. job[v].pc # "idle"
    BY <1>6 DEF Step, ReadConfig, ChooseAddress, WriteRow, ChooseServerAddress,
                WriteServer, ListPeers, RewriteServer
  <2>2. v = w
    BY <1>1, <2>1, IdlePc
  <2> QED
    BY <1>6, <2>2 DEF Step, ReadConfig, ChooseAddress, ChooseServerAddress,
                      WriteServer, RewriteServer
<1>7. ASSUME Startup PROVE FALSE
  <2>1. ~BootEnvironment
    BY <1>2 DEF BootEnvironment
  <2>2. ~BootPeers
    BY <1>0, <1>3, IdlePc DEF BootPeers, Proc
  <2>3. ASSUME NEW p \in Sample, SeedPeer(p) PROVE FALSE
    BY <1>1, <2>3, IdlePc DEF SeedPeer, Proc
  <2> QED
    BY <1>7, <2>1, <2>2, <2>3 DEF Startup
<1>8. ~Restart
  BY <1>2 DEF Restart
<1>9. ~UNCHANGED vars
  BY <1>0 DEF vars
<1> QED
  BY <1>5, <1>6, <1>7, <1>8, <1>9 DEF Next

\* One client at a time, a change of the network, or a renumbering for a cleared
\* server address, that ends its last pass has moved every peer into the network.
THEOREM RenumberingCompletes == ASSUME Serial PROVE Spec => RenumberComplete
<1>1. ASSUME PairInv, SerialInv, [Next]_vars, NEW w \in Proc, job[w].kind = "renumber",
             job[w].pc \in {"write", "srvlist"}, job'[w].pc = "idle",
             phase' = phase
      PROVE  Held' \subseteq network'
  <2> DEFINE j == job[w]
  <2>0. TypeOK
    BY <1>1 DEF PairInv
  <2>1. CASE WriteRow(w)
    <3>1. PICK next \in Continue(j, j.todo) : job' = [job EXCEPT ![w] = next]
      BY <2>1 DEF WriteRow
    <3>2. next.pc = "idle"
      BY <1>1, <2>0, <3>1 DEF TypeOK
    <3>3. j.todo = {}
      BY <1>1, <3>1, <3>2, ContinueToEnd
    <3>4. \A q \in Rows \ {j.peer} : peerIp[q] \in network
      BY <1>1, <2>0, <2>1, <3>3, WriteRowBook DEF PeerInHand
    <3>5. j.ip \in network /\ network' = network
      BY <1>1, <2>0, <2>1, WriteRowBook DEF WriteRow
    <3>6. \A q \in Rows' : peerIp'[q] \in network
      BY <1>1, <2>0, <2>1, <3>4, <3>5, WriteRowBook DEF Rows, TypeOK, BookTypeOK
    <3> QED
      BY <3>5, <3>6 DEF Held
  <2>2. CASE ListPeers(w)
    <3>1. PICK next \in Continue(j, Rows) : job' = [job EXCEPT ![w] = next]
      BY <2>2 DEF ListPeers
    <3>2. next.pc = "idle"
      BY <1>1, <2>0, <3>1 DEF TypeOK
    <3>3. Rows = {}
      BY <1>1, <3>1, <3>2, ContinueToEnd
    <3> QED
      BY <2>2, <3>3 DEF ListPeers, Rows, Held
  <2> QED
    BY <1>1, <2>1, <2>2, WhoEndsRenumbering
<1> DEFINE Ends(w) == /\ job[w].kind = "renumber" /\ job[w].pc \in {"write", "srvlist"}
                      /\ job'[w].pc = "idle" /\ phase' = phase
<1>2. PairInv /\ SerialInv /\ [Next]_vars
        => [\A w \in Proc : Ends(w) => Held' \subseteq network']_vars
  BY <1>1
<1> QED
  BY <1>2, PairCorrect, SerialCorrect, PTL DEF Spec, RenumberComplete

-----------------------------------------------------------------------------
(* How many queries a request still makes *)

\* The queries of one pass of a renumbering: three for each peer, and three of
\* ServerConfiguration.save.
Pass == 3 * Cardinality(Peer) + 3

\* In this pass: those for the row in hand, then those for the rows in todo.
Here(j) ==
    CASE j.pc = "config"   -> 3 * Cardinality(j.todo) + 3
      [] j.pc = "peers"    -> 3 * Cardinality(j.todo) + 2
      [] j.pc = "write"    -> 3 * Cardinality(j.todo) + 1
      [] j.pc = "srvpeers" -> Pass
      [] j.pc = "srvwrite" -> Pass - 1
      [] j.pc = "srvlist"  -> Pass - 2
      [] OTHER             -> 1

QueriesLeft(j) == Here(j) + (IF j.again THEN Pass ELSE 0)

\* A job of whose queries at most n are left, or that has ended.
Within(j, n) == Busy(j) => QueriesLeft(j) < n

LEMMA PassType == ASSUME IsFiniteSet(Peer) PROVE Pass \in Nat /\ Pass >= 3
  BY FS_CardinalityType DEF Pass

LEMMA TodoBound ==
    ASSUME IsFiniteSet(Peer), NEW T \in SUBSET Peer
    PROVE  /\ IsFiniteSet(T) /\ Cardinality(T) \in Nat
           /\ 3 * Cardinality(T) + 3 <= Pass
<1>1. IsFiniteSet(T) /\ Cardinality(T) <= Cardinality(Peer)
  BY FS_Subset
<1>2. Cardinality(T) \in Nat /\ Cardinality(Peer) \in Nat
  BY <1>1, FS_CardinalityType
<1> QED
  BY <1>1, <1>2 DEF Pass

\* Taking a peer from those that are left takes its three queries with it.
LEMMA TodoShrinks ==
    ASSUME IsFiniteSet(Peer), NEW T \in SUBSET Peer, NEW p \in T
    PROVE  3 * Cardinality(T \ {p}) + 3 = 3 * Cardinality(T)
<1>1. IsFiniteSet(T) /\ Cardinality(T) \in Nat
  BY TodoBound
<1>2. Cardinality(T \ {p}) = Cardinality(T) - 1
  BY <1>1, FS_RemoveElement
<1> QED
  BY <1>1, <1>2

LEMMA QueriesType ==
    ASSUME IsFiniteSet(Peer), NEW j \in Job
    PROVE  /\ Here(j) \in 1..Pass
           /\ QueriesLeft(j) \in 1..2 * Pass
<1>1. j.todo \in SUBSET Peer /\ j.again \in BOOLEAN
  BY DEF Job
<1>2. Cardinality(j.todo) \in Nat /\ 3 * Cardinality(j.todo) + 3 <= Pass
  BY <1>1, TodoBound
<1>3. Pass \in Nat /\ Pass >= 3
  BY PassType
<1>4. Here(j) \in 1..Pass
  BY <1>2, <1>3 DEF Here
<1> QED
  BY <1>1, <1>3, <1>4 DEF QueriesLeft

\* Going on to the next peer, or to the second pass, after a write or a listing.
LEMMA ContinueShortens ==
    ASSUME IsFiniteSet(Peer), NEW j \in Job, NEW rest \in SUBSET Peer,
           NEW next \in Continue(j, rest), 3 * Cardinality(rest) < Here(j)
    PROVE  Within(next, QueriesLeft(j))
<1>1. Here(j) \in Nat /\ Pass \in Nat /\ Pass >= 3 /\ j.again \in BOOLEAN
  BY QueriesType, PassType DEF Job
<1>2. CASE next = Idle
  BY <1>2 DEF Within, Busy, Idle
<1>3. CASE next \in NextPeers(j, rest)
  <2>0. PICK p \in rest : IsNextPeer(next, j, rest, p)
    BY <1>3, NextPeersFields
  <2>1. next.pc = "config" /\ next.todo = rest \ {p} /\ (next.again <=> j.again)
    BY <2>0 DEF IsNextPeer
  <2>2. Here(next) = 3 * Cardinality(rest)
    BY <2>1, TodoShrinks DEF Here
  <2>3. Cardinality(rest) \in Nat
    BY TodoBound
  <2> QED
    BY <1>1, <2>1, <2>2, <2>3 DEF Within, QueriesLeft
<1>4. ASSUME j.again, next = SecondSave(j)
      PROVE  Within(next, QueriesLeft(j))
  <2>1. next.pc = "srvpeers" /\ next.again = FALSE
    BY <1>4, SecondSaveFields
  <2>2. QueriesLeft(next) \in 1..Pass
    BY <1>1, <2>1 DEF QueriesLeft, Here
  <2>3. Here(j) > 0
    BY <1>1, QueriesType
  <2> QED
    BY <1>1, <1>4, <2>2, <2>3 DEF Within, QueriesLeft
<1> QED
  BY <1>2, <1>3, <1>4, ContinueCases

\* A query that only moves on within the pass.
LEMMA MoveShortens ==
    ASSUME IsFiniteSet(Peer), NEW j \in Job, NEW k \in Job, k.again = j.again,
           Here(k) < Here(j)
    PROVE  Within(k, QueriesLeft(j))
  BY QueriesType, PassType DEF Within, QueriesLeft, Job

\* Every query of a thread leaves it fewer to make, or is its last.
LEMMA StepShortens ==
    ASSUME IsFiniteSet(Peer), PairInv, NEW w \in Proc, Step(w)
    PROVE  Within(job'[w], QueriesLeft(job[w]))
<1> DEFINE j == job[w]
<1>1. j \in Job /\ job \in [Proc -> Job] /\ j.todo \in SUBSET Peer /\ TypeOK
  BY DEF PairInv, TypeOK, Job
<1>2. Cardinality(j.todo) \in Nat /\ Pass \in Nat /\ Pass >= 3
  BY <1>1, TodoBound, PassType
<1>3. network \in Networks /\ serverIp \in Addr
  BY <1>1 DEF TypeOK, BookTypeOK
<1>4. ASSUME Fail(w) PROVE Within(job'[w], QueriesLeft(j))
  BY <1>1, <1>4 DEF Fail, Within, Busy, Idle
<1>5. CASE ReadConfig(w)
  <2>1. PICK c \in {"peers", "write"} :
           job'[w] = [j EXCEPT !.net = network, !.srv = serverIp, !.pc = c]
    BY <1>1, <1>5 DEF ReadConfig
  <2>a. [j EXCEPT !.net = network, !.srv = serverIp, !.pc = c] \in Job
    BY <1>1, <1>3, ReadUpdate, Zenon
  <2>2. job'[w] \in Job
    BY <2>1, <2>a
  <2>3. /\ job'[w].pc = c /\ job'[w].todo = j.todo /\ job'[w].again = j.again
    BY <1>1, <2>1, SMT DEF Job
  <2>4. Here(job'[w]) < Here(j)
    BY <1>2, <1>5, <2>3 DEF Here, ReadConfig
  <2> QED
    BY <1>1, <2>2, <2>3, <2>4, MoveShortens
<1>6. CASE ChooseAddress(w)
  <2>0. j.pc = "peers"
    BY <1>6 DEF ChooseAddress
  <2>1. ASSUME NEW a \in NextFreeForPeer(j.net, Held \cup {j.srv}),
               job'[w] = [j EXCEPT !.ip = a, !.pc = "write"]
        PROVE  Within(job'[w], QueriesLeft(j))
    <3>1. a \in Addr
      BY <1>1 DEF Job, NextFreeForPeer, Addr
    <3>a. [j EXCEPT !.ip = a, !.pc = "write"] \in Job
      BY <1>1, <3>1, ChooseUpdate, Zenon
    <3>2. job'[w] \in Job
      BY <2>1, <3>a
    <3>3. job'[w].pc = "write" /\ job'[w].todo = j.todo /\ job'[w].again = j.again
      BY <1>1, <2>1 DEF Job
    <3>4. Here(job'[w]) < Here(j)
      BY <1>2, <2>0, <3>3 DEF Here
    <3> QED
      BY <1>1, <3>2, <3>3, <3>4, MoveShortens
  <2> QED
    BY <1>1, <1>4, <1>6, <2>1 DEF ChooseAddress
<1>7. CASE WriteRow(w)
  <2>1. PICK next \in Continue(j, j.todo) : job'[w] = next
    BY <1>1, <1>7 DEF WriteRow
  <2>2. 3 * Cardinality(j.todo) < Here(j)
    BY <1>2, <1>7 DEF Here, WriteRow
  <2> QED
    BY <1>1, <2>1, <2>2, ContinueShortens
<1>8. CASE ChooseServerAddress(w)
  <2>0. j.pc = "srvpeers"
    BY <1>8 DEF ChooseServerAddress
  <2>1. ASSUME NEW a \in NextFreeForServer(j.new, Held),
               job'[w] = [j EXCEPT !.srv = a, !.pc = "srvwrite"]
        PROVE  Within(job'[w], QueriesLeft(j))
    <3>1. a \in Addr
      BY <1>1 DEF Job, NextFreeForServer, Addr
    <3>2. job'[w] \in Job
      BY <1>1, <2>1, <3>1 DEF Job
    <3>3. job'[w].pc = "srvwrite" /\ job'[w].again = j.again
      BY <1>1, <2>1 DEF Job
    <3>4. Here(job'[w]) < Here(j)
      BY <1>2, <2>0, <3>3 DEF Here
    <3> QED
      BY <1>1, <3>2, <3>3, <3>4, MoveShortens
  <2> QED
    BY <1>1, <1>4, <1>8, <2>1 DEF ChooseServerAddress
<1>9. CASE WriteServer(w)
  <2>0. job'[w] = [j EXCEPT !.pc = "srvlist", !.srv = NoAddr]
    BY <1>1, <1>9 DEF WriteServer
  <2> DEFINE next == [j EXCEPT !.pc = "srvlist", !.srv = NoAddr]
  <2>a. next \in Job
    BY <1>1, WriteServerUpdate, Zenon
  <2>b. next.pc = "srvlist" /\ (next.again <=> j.again)
    BY <1>1, SMT DEF Job
  <2> HIDE DEF next
  <2>c. job'[w] = next
    BY <2>0 DEF next
  <2>2. job'[w] \in Job
    BY <2>a, <2>c
  <2>3. job'[w].pc = "srvlist" /\ job'[w].again = j.again
    BY <1>1, <2>a, <2>b, <2>c DEF Job
  <2>4. Here(job'[w]) < Here(j)
    BY <1>2, <1>9, <2>3 DEF Here, WriteServer
  <2> QED
    BY <1>1, <2>2, <2>3, <2>4, MoveShortens
<1>10. CASE ListPeers(w)
  <2>1. PICK next \in Continue(j, Rows) : job'[w] = next
    BY <1>1, <1>10 DEF ListPeers
  <2>2. Rows \in SUBSET Peer
    BY DEF Rows
  <2>3. 3 * Cardinality(Rows) + 3 <= Pass /\ Cardinality(Rows) \in Nat
    BY <2>2, TodoBound
  <2>4. 3 * Cardinality(Rows) < Here(j)
    BY <1>2, <1>10, <2>3 DEF Here, ListPeers
  <2> QED
    BY <1>1, <2>1, <2>2, <2>4, ContinueShortens
<1>11. CASE RewriteServer(w)
  <2>1. CASE j.again
    <3>1. job'[w] = [j EXCEPT !.again = FALSE]
      BY <1>1, <1>11, <2>1 DEF RewriteServer
    <3>2. job'[w].pc = "rewrite" /\ job'[w].again = FALSE
      BY <1>1, <1>11, <3>1 DEF Job, RewriteServer
    <3>3. Here(job'[w]) = 1 /\ Here(j) = 1
      BY <1>11, <3>2 DEF Here, RewriteServer
    <3> QED
      BY <1>2, <2>1, <3>2, <3>3 DEF Within, QueriesLeft
  <2>2. CASE ~j.again
    <3>1. job'[w] = Idle
      BY <1>1, <1>11, <2>2 DEF RewriteServer
    <3> QED
      BY <3>1 DEF Within, Busy, Idle
  <2> QED
    BY <2>1, <2>2
<1> QED
  BY <1>5, <1>6, <1>7, <1>8, <1>9, <1>10, <1>11 DEF Step

\* No step of another thread changes what a request has left to do, but a stop ends it.
LEMMA OthersLeave ==
    ASSUME PairInv, [Next]_vars, NEW w \in Worker, Busy(job[w])
    PROVE  Step(w) \/ job'[w] = job[w] \/ ~Busy(job'[w])
<1>0. job \in [Proc -> Job] /\ w \in Proc /\ Boot \in Proc /\ w # Boot
  BY DEF PairInv, TypeOK, Proc
<1>1. ASSUME NEW v \in Worker, Request(v) PROVE job'[w] = job[w]
  <2>1. job[v].pc \in {"idle", "editing"}
    BY <1>1 DEF Request, CreatePeer, UpdatePeer, OpenEditor, DeletePeer, SubmitEditor,
                CloseEditor, ChangeNetwork, LoadServer, ClearServerAddress, Serving
  <2>2. v # w
    BY <2>1 DEF Busy
  <2> QED
    BY <1>0, <1>1, <2>2 DEF Request, CreatePeer, UpdatePeer, OpenEditor, DeletePeer,
          SubmitEditor, CloseEditor, ChangeNetwork, LoadServer, ClearServerAddress
<1>2. ASSUME NEW v \in Proc, v # w, Step(v) PROVE job'[w] = job[w]
  BY <1>0, <1>2 DEF Step, ReadConfig, ChooseAddress, WriteRow, ChooseServerAddress,
                    WriteServer, ListPeers, RewriteServer, Fail
<1>3. ASSUME Startup PROVE job'[w] = job[w]
  BY <1>0, <1>3 DEF Startup, BootEnvironment, BootPeers, SeedPeer, Fail
<1>4. ASSUME Restart PROVE ~Busy(job'[w])
  BY <1>0, <1>4 DEF Restart, Busy, Idle
<1>5. CASE UNCHANGED vars
  BY <1>5 DEF vars
<1> QED
  BY <1>1, <1>2, <1>3, <1>4, <1>5 DEF Next

\* A thread that is busy makes at most twice three queries for each peer and three
\* more, whatever the others do: no step but its own changes what it has left, and
\* each of its own makes it fewer.
Shortens(w) ==
    Busy(job[w])
        => /\ Step(w) => Within(job'[w], QueriesLeft(job[w]))
           /\ ~Step(w) => job'[w] = job[w] \/ ~Busy(job'[w])

Bounded == \A w \in Worker : QueriesLeft(job[w]) \in 1..(6 * Cardinality(Peer) + 6)

\* However many clients there are, and while peers come and go, no request makes
\* more than six queries for each peer and six more: the list of the peers to
\* renumber is made once for each of the two passes and only ever shrinks.
THEOREM RequestsAreShort ==
    ASSUME IsFiniteSet(Peer)
    PROVE  Spec => []Bounded /\ [][\A w \in Worker : Shortens(w)]_vars
<1>1. PairInv => Bounded
  <2> SUFFICES ASSUME PairInv, NEW w \in Worker
               PROVE  QueriesLeft(job[w]) \in 1..(6 * Cardinality(Peer) + 6)
    BY DEF Bounded
  <2>1. job[w] \in Job
    BY DEF PairInv, TypeOK, Proc
  <2>2. 2 * Pass = 6 * Cardinality(Peer) + 6
    BY FS_CardinalityType DEF Pass
  <2> QED
    BY <2>1, <2>2, QueriesType
<1>2. PairInv /\ [Next]_vars => [\A w \in Worker : Shortens(w)]_vars
  BY StepShortens, OthersLeave DEF Shortens, Proc
<1> QED
  BY <1>1, <1>2, PairCorrect, PTL DEF Spec

-----------------------------------------------------------------------------
(***************************************************************************)
(* No request is ever stuck.  That a query can be made says that values of *)
(* the next state exist which the query allows and which differ.  TLAPS    *)
(* does not expand ENABLED, so LeadsTo names such values, StepLeadsTo      *)
(* shows that they are a step of the thread, and StepsCan is what the      *)
(* meaning of ENABLED makes of that lemma.                                 *)
(***************************************************************************)

\* Values n, s, p, g, f and j of network, serverIp, peerIp, given, phase and job[w] to
\* which the query that w makes next leads.
LeadsTo(w, n, s, p, g, f, j) ==
    LET pc == job[w].pc
    IN  \/ /\ pc = "config"
           /\ j = [job[w] EXCEPT !.net = network, !.srv = serverIp,
                                 !.pc = IF job[w].ip = NoAddr THEN "peers" ELSE "write"]
           /\ n = network /\ s = serverIp /\ p = peerIp /\ g = given /\ f = phase
        \/ /\ pc = "peers"
           /\ LET free == NextFreeForPeer(job[w].net, Held \cup {job[w].srv})
              IN  \/ \E a \in free : j = [job[w] EXCEPT !.ip = a, !.pc = "write"]
                  \/ free = {} /\ j = Idle
           /\ n = network /\ s = serverIp /\ p = peerIp /\ g = given /\ f = phase
        \/ /\ pc = "write"
           /\ p = [peerIp EXCEPT ![job[w].peer] = job[w].ip]
           /\ g = Mark(job[w].peer, job[w].sent)
           /\ j \in Continue(job[w], job[w].todo)
           /\ n = network /\ s = serverIp /\ f = phase
        \/ /\ pc = "srvpeers"
           /\ LET free == NextFreeForServer(job[w].new, Held)
              IN  \/ \E a \in free : j = [job[w] EXCEPT !.srv = a, !.pc = "srvwrite"]
                  \/ free = {} /\ j = Idle
           /\ n = network /\ s = serverIp /\ p = peerIp /\ g = given /\ f = phase
        \/ /\ pc = "srvwrite"
           /\ n = job[w].new /\ s = job[w].srv /\ g = given \ {Server}
           /\ j = [job[w] EXCEPT !.pc = "srvlist", !.srv = NoAddr]
           /\ p = peerIp /\ f = phase
        \/ /\ pc = "srvlist"
           /\ j \in Continue(job[w], Rows)
           /\ n = network /\ s = serverIp /\ p = peerIp /\ g = given /\ f = phase
        \/ /\ pc = "rewrite"
           /\ n = job[w].net /\ s = job[w].srv /\ g = Mark(Server, job[w].sent)
           /\ j = IF job[w].again THEN [job[w] EXCEPT !.again = FALSE] ELSE Idle
           /\ p = peerIp /\ f = phase

LEMMA ContinuePc ==
    ASSUME NEW j, NEW rest, NEW next \in Continue(j, rest)
    PROVE  next.pc \in {"idle", "config", "srvpeers"}
<1>1. CASE next = Idle
  BY <1>1 DEF Idle
<1>2. CASE next \in NextPeers(j, rest)
  BY <1>2, NextPeersFields DEF IsNextPeer
<1>3. CASE next = SecondSave(j)
  BY <1>3, SecondSaveFields
<1> QED
  BY <1>1, <1>2, <1>3, ContinueCases

LEMMA StepLeadsTo ==
    ASSUME PairInv, NEW w \in Worker, NEW j,
           LeadsTo(w, network', serverIp', peerIp', given', phase', j),
           job' = [job EXCEPT ![w] = j]
    PROVE  <<Step(w)>>_vars
<1>0. w \in Proc /\ w # Boot /\ job \in [Proc -> Job] /\ job[w] \in Job
  BY DEF PairInv, TypeOK, Proc
<1>1. job[w].pc = "config" => ReadConfig(w)
  BY DEF LeadsTo, ReadConfig
<1>2. job[w].pc = "peers" => ChooseAddress(w)
  BY <1>0 DEF LeadsTo, ChooseAddress, Fail
<1>3. job[w].pc = "write" => WriteRow(w)
  BY DEF LeadsTo, WriteRow
<1>4. job[w].pc = "srvpeers" => ChooseServerAddress(w)
  BY <1>0 DEF LeadsTo, ChooseServerAddress, Fail
<1>5. job[w].pc = "srvwrite" => WriteServer(w)
  BY DEF LeadsTo, WriteServer
<1>6. job[w].pc = "srvlist" => ListPeers(w)
  BY DEF LeadsTo, ListPeers
<1>7. job[w].pc = "rewrite" => RewriteServer(w)
  BY DEF LeadsTo, RewriteServer
<1>8. Step(w)
  BY <1>1, <1>2, <1>3, <1>4, <1>5, <1>6, <1>7 DEF LeadsTo, Step
<1>9. job'[w] # job[w]
  <2>0. job'[w] = j
    BY <1>0
  <2>1. CASE j = Idle
    <3>1. job[w].pc # "idle"
      BY DEF LeadsTo
    <3> QED
      BY <2>0, <2>1, <3>1 DEF Idle
  <2>2. CASE job[w].pc = "config"
    BY <1>0, <2>0, <2>2 DEF LeadsTo, Job
  <2>3. CASE job[w].pc = "peers"
    BY <1>0, <2>0, <2>1, <2>3 DEF LeadsTo, Job
  <2>4. CASE job[w].pc \in {"write", "srvlist"}
    <3>1. PICK rest : j \in Continue(job[w], rest)
      BY <2>4 DEF LeadsTo
    <3> QED
      BY <2>0, <2>4, <3>1, ContinuePc
  <2>5. CASE job[w].pc = "srvpeers"
    BY <1>0, <2>0, <2>1, <2>5 DEF LeadsTo, Job
  <2>6. CASE job[w].pc = "srvwrite"
    BY <1>0, <2>0, <2>6 DEF LeadsTo, Job
  <2>7. CASE job[w].pc = "rewrite"
    BY <1>0, <2>0, <2>1, <2>7 DEF LeadsTo, Job
  <2> QED
    BY <2>2, <2>3, <2>4, <2>5, <2>6, <2>7 DEF LeadsTo
<1> QED
  BY <1>8, <1>9 DEF vars

\* Only the start-up command seeds the table.
Seeding == \A w \in Worker : job[w].pc # "seed"

LEMMA SeedingStep == PairInv /\ Seeding /\ [Next]_vars => Seeding'
<1> SUFFICES ASSUME PairInv, Seeding, [Next]_vars, NEW w \in Worker
             PROVE  job'[w].pc # "seed"
  BY DEF Seeding
<1>0. job \in [Proc -> Job] /\ job[w] \in Job /\ w \in Proc /\ Boot \in Proc /\ w # Boot
  BY DEF PairInv, TypeOK, Proc
<1>1. job'[w] = job[w] => job'[w].pc # "seed"
  BY DEF Seeding
<1>2. CASE Busy(job[w]) /\ ~Step(w)
  BY <1>1, <1>2, OthersLeave DEF Busy
<1>3. CASE Step(w)
  <2>1. CASE ReadConfig(w)
    BY <1>0, <2>1 DEF ReadConfig, Job
  <2>2. CASE ChooseAddress(w)
    <3>1. ASSUME NEW a, job'[w] = [job[w] EXCEPT !.ip = a, !.pc = "write"]
          PROVE  job'[w].pc = "write"
      BY <1>0, <3>1 DEF Job
    <3>2. Fail(w) => job'[w].pc = "idle"
      BY <1>0 DEF Fail, Idle
    <3> QED
      BY <1>0, <2>2, <3>1, <3>2 DEF ChooseAddress
  <2>3. CASE WriteRow(w) \/ ListPeers(w)
    <3>1. PICK rest : job'[w] \in Continue(job[w], rest)
      BY <1>0, <2>3 DEF WriteRow, ListPeers
    <3> QED
      BY <3>1, ContinuePc
  <2>4. CASE ChooseServerAddress(w)
    <3>1. ASSUME NEW a, job'[w] = [job[w] EXCEPT !.srv = a, !.pc = "srvwrite"]
          PROVE  job'[w].pc = "srvwrite"
      BY <1>0, <3>1 DEF Job
    <3>2. Fail(w) => job'[w].pc = "idle"
      BY <1>0 DEF Fail, Idle
    <3> QED
      BY <1>0, <2>4, <3>1, <3>2 DEF ChooseServerAddress
  <2>5. CASE WriteServer(w)
    BY <1>0, <2>5 DEF WriteServer, Job
  <2>6. CASE RewriteServer(w)
    BY <1>0, <2>6 DEF RewriteServer, Idle, Job
  <2> QED
    BY <1>3, <2>1, <2>2, <2>3, <2>4, <2>5, <2>6 DEF Step
<1>4. CASE ~Busy(job[w])
  <2>1. ASSUME NEW v \in Worker, Request(v) PROVE job'[w].pc # "seed"
    <3>1. CASE \/ \E p \in Peer, a \in Addr \cup {NoAddr} :
                     CreatePeer(v, p, a) \/ UpdatePeer(v, p, a)
               \/ \E p \in Peer : OpenEditor(v, p) \/ DeletePeer(v, p)
      <4>1. ASSUME NEW p \in Peer, NEW a \in Addr \cup {NoAddr}, CreatePeer(v, p, a)
            PROVE  job'[w].pc # "seed"
        BY <1>0, <1>1, <4>1 DEF CreatePeer, Proc, Idle
      <4>2. ASSUME NEW p \in Peer, NEW a \in Addr \cup {NoAddr}, UpdatePeer(v, p, a)
            PROVE  job'[w].pc # "seed"
        <5> DEFINE b == a # NoAddr /\ (a = peerIp[p] => p \in given)
        <5>1. job' = [job EXCEPT ![v] = [Idle EXCEPT !.pc = "config", !.kind = "update",
                                           !.peer = p, !.ip = a, !.sent = b]]
          BY <4>2 DEF UpdatePeer
        <5> HIDE DEF b
        <5> QED
          BY <1>0, <1>1, <5>1 DEF Proc, Idle
      <4>3. ASSUME NEW p \in Peer, DeletePeer(v, p) PROVE job'[w].pc # "seed"
        BY <1>1, <4>3 DEF DeletePeer
      <4>4. ASSUME NEW p \in Peer, OpenEditor(v, p) PROVE job'[w].pc # "seed"
        <5> DEFINE b == p \in given
        <5>1. job' = [job EXCEPT ![v] = [Idle EXCEPT !.pc = "editing", !.kind = "update",
                                           !.peer = p, !.ip = peerIp[p], !.sent = b]]
          BY <4>4 DEF OpenEditor
        <5> HIDE DEF b
        <5> QED
          BY <1>0, <1>1, <5>1 DEF Proc, Idle
      <4> QED
        BY <3>1, <4>1, <4>2, <4>3, <4>4
    <3>2. CASE SubmitEditor(v) \/ \E delete \in BOOLEAN : CloseEditor(v, delete)
      <4>1. v \in Proc /\ job[v] \in Job
        BY <1>0 DEF Proc
      <4>2. [job[v] EXCEPT !.pc = "config"].pc = "config"
        BY <4>1 DEF Job
      <4>3. /\ v = w => job'[w] \in {[job[v] EXCEPT !.pc = "config"], Idle}
            /\ v # w => job'[w] = job[w]
        BY <1>0, <3>2, <4>1 DEF SubmitEditor, CloseEditor
      <4> QED
        <5>1. Idle.pc = "idle"
          BY DEF Idle
        <5>2. CASE job'[w] = [job[v] EXCEPT !.pc = "config"]
          BY <4>2, <5>2, Zenon
        <5>3. CASE job'[w] = Idle
          BY <5>1, <5>3
        <5> QED
          BY <1>1, <4>3, <5>2, <5>3
    <3>3. CASE \/ \E n \in Networks, twice \in BOOLEAN : ChangeNetwork(v, n, twice)
               \/ \E a \in Addr, twice \in BOOLEAN : LoadServer(v, a, twice)
               \/ \E twice \in BOOLEAN : ClearServerAddress(v, twice)
      <4>1. ASSUME NEW n \in Networks, NEW twice \in BOOLEAN, ChangeNetwork(v, n, twice)
            PROVE  job'[w].pc # "seed"
        BY <1>0, <1>1, <4>1 DEF ChangeNetwork, Proc, Idle
      <4>2. ASSUME NEW a \in Addr, NEW twice \in BOOLEAN, LoadServer(v, a, twice)
            PROVE  job'[w].pc # "seed"
        BY <1>0, <1>1, <4>2 DEF LoadServer, Proc, Idle
      <4>3. ASSUME NEW twice \in BOOLEAN, ClearServerAddress(v, twice)
            PROVE  job'[w].pc # "seed"
        BY <1>0, <1>1, <4>3 DEF ClearServerAddress, Proc, Idle
      <4> QED
        BY <3>3, <4>1, <4>2, <4>3
    <3> QED
      BY <2>1, <3>1, <3>2, <3>3 DEF Request
  <2>2. ASSUME NEW v \in Proc, v # w, Step(v) PROVE job'[w] = job[w]
    BY <1>0, <2>2 DEF Step, ReadConfig, ChooseAddress, WriteRow, ChooseServerAddress,
                      WriteServer, ListPeers, RewriteServer, Fail
  <2>3. CASE Startup
    BY <1>0, <1>1, <2>3 DEF Startup, BootEnvironment, BootPeers, SeedPeer, Fail
  <2>4. CASE Restart
    BY <1>0, <2>4 DEF Restart, Idle
  <2>5. CASE UNCHANGED vars
    BY <1>1, <2>5 DEF vars
  <2> QED
    BY <1>1, <1>3, <2>1, <2>2, <2>3, <2>4, <2>5 DEF Next
<1> QED
  BY <1>2, <1>3, <1>4

\* What the meaning of ENABLED makes of StepLeadsTo.
StepsCan ==
    PairInv => \A w \in Worker :
                  (\E n, s, p, g, f, j : LeadsTo(w, n, s, p, g, f, j)) => CanStep(w)

\* Whatever the other threads do to the rows that a request goes by, and however few
\* addresses are left, its next query can be made or ends it with an error.
THEOREM RequestsNeverStuck == Spec /\ []StepsCan => []NeverStuck
<1>1. PairInv /\ Seeding /\ StepsCan => NeverStuck
  <2> SUFFICES ASSUME PairInv, Seeding, StepsCan, NEW w \in Worker, Busy(job[w])
               PROVE  \E n, s, p, g, f, j : LeadsTo(w, n, s, p, g, f, j)
    BY DEF StepsCan, NeverStuck
  <2>1. job[w].pc \in {"config", "peers", "write", "srvpeers", "srvwrite", "srvlist",
                       "rewrite"}
    <3>1. job[w] \in Job
      BY DEF PairInv, TypeOK, Proc
    <3> QED
      BY <3>1 DEF Job, Busy, Seeding
  <2>2. ASSUME NEW j, NEW rest PROVE Continue(j, rest) # {}
    <3>1. CASE j.kind # "renumber" \/ rest = {}
      BY <3>1 DEF Continue
    <3>2. CASE rest # {}
      <4>1. PICK p : p \in rest
        BY <3>2
      <4>2. [Idle EXCEPT !.pc = "config", !.kind = j.kind, !.peer = p, !.new = j.new,
                         !.todo = rest \ {p}, !.again = j.again]
              \in NextPeers(j, rest)
        BY <4>1 DEF NextPeers
      <4> QED
        BY <4>2 DEF Continue
    <3> QED
      BY <3>1, <3>2
  <2>3. CASE job[w].pc \in {"config", "srvwrite", "rewrite"}
    BY <2>3 DEF LeadsTo
  <2>4. CASE job[w].pc = "peers"
    <3> DEFINE free == NextFreeForPeer(job[w].net, Held \cup {job[w].srv})
    <3>1. CASE free = {}
      BY <2>4, <3>1 DEF LeadsTo
    <3>2. ASSUME NEW a \in free
          PROVE  LeadsTo(w, network, serverIp, peerIp, given, phase,
                         [job[w] EXCEPT !.ip = a, !.pc = "write"])
      BY <2>4, <3>2 DEF LeadsTo
    <3> QED
      BY <3>1, <3>2
  <2>5. CASE job[w].pc = "srvpeers"
    <3> DEFINE free == NextFreeForServer(job[w].new, Held)
    <3>1. CASE free = {}
      BY <2>5, <3>1 DEF LeadsTo
    <3>2. ASSUME NEW a \in free
          PROVE  LeadsTo(w, network, serverIp, peerIp, given, phase,
                         [job[w] EXCEPT !.srv = a, !.pc = "srvwrite"])
      BY <2>5, <3>2 DEF LeadsTo
    <3> QED
      BY <3>1, <3>2
  <2>6. CASE job[w].pc = "write"
    <3>1. PICK j : j \in Continue(job[w], job[w].todo)
      BY <2>2
    <3> QED
      BY <2>6, <3>1 DEF LeadsTo
  <2>7. CASE job[w].pc = "srvlist"
    <3>1. PICK j : j \in Continue(job[w], Rows)
      BY <2>2
    <3> QED
      BY <2>7, <3>1 DEF LeadsTo
  <2> QED
    BY <2>1, <2>3, <2>4, <2>5, <2>6, <2>7
<1>2. Init => Seeding
  BY DEF Init, Seeding, Idle, Proc
<1> QED
  BY <1>1, <1>2, PairCorrect, SeedingStep, PTL DEF Spec

-----------------------------------------------------------------------------
(* Progress *)

HasLeft(w, n) == Busy(job[w]) /\ QueriesLeft(job[w]) = n

HasLess(w, n) == Within(job[w], n)

\* A request with n queries left gets to fewer, or ends: its thread is scheduled and
\* nothing makes it wait.  That it ends, RequestsEnd, is the induction over n.
THEOREM RequestsAdvance ==
    ASSUME IsFiniteSet(Peer), NEW w \in Worker, NEW n \in Nat
    PROVE  FairSpec /\ []StepsCan => (HasLeft(w, n) ~> HasLess(w, n))
<1>1. PairInv /\ HasLeft(w, n) /\ [Next]_vars => HasLeft(w, n)' \/ HasLess(w, n)'
  <2> SUFFICES ASSUME PairInv, HasLeft(w, n), [Next]_vars
               PROVE  HasLeft(w, n)' \/ HasLess(w, n)'
    OBVIOUS
  <2>1. CASE Step(w)
    BY <2>1, StepShortens DEF HasLeft, HasLess, Proc
  <2>2. CASE job'[w] = job[w]
    BY <2>2 DEF HasLeft
  <2>3. CASE ~Busy(job'[w])
    BY <2>3 DEF HasLess, Within
  <2> QED
    BY <2>1, <2>2, <2>3, OthersLeave DEF HasLeft
<1>2. PairInv /\ HasLeft(w, n) /\ <<Step(w)>>_vars => HasLess(w, n)'
  BY StepShortens DEF HasLeft, HasLess, Proc
<1>3. NeverStuck /\ HasLeft(w, n) => CanStep(w)
  BY DEF NeverStuck, HasLeft
<1>4. Fairness => Fair(w)
  BY DEF Fairness, Proc
<1> QED
  BY <1>1, <1>2, <1>3, <1>4, PairCorrect, RequestsNeverStuck, PTL
     DEF FairSpec, Spec, Fair, CanStep

=============================================================================
