--------------------------- MODULE FirewallProofs ---------------------------
(***************************************************************************)
(* The generated rules accept exactly what the access relations allow, for *)
(* every set of peers, groups, targets and addresses, and strict routes    *)
(* cover what they accept; what taking rights away or editing other peers  *)
(* can change of them.                                                     *)
(***************************************************************************)
EXTENDS Firewall, TLAPS

\* The target rules there are for a peer.
Applies(p, tg) == tg \in Enabled /\ Ruled(tg[1]) /\ p \in PeersOf(tg[2])

LEMMA TypeStep == TypeOK /\ [Next]_vars => TypeOK'
<1> SUFFICES ASSUME TypeOK, [Next]_vars PROVE TypeOK'
  OBVIOUS
<1>1. ASSUME NEW S, NEW T, S \subseteq T, NEW x \in T
      PROVE  Flip(S, x) \subseteq T
  BY <1>1 DEF Flip
<1>2. ASSUME NEW x \in Peer \cup Group \cup Target, CreateRow(x)
      PROVE  TypeOK'
  BY <1>2 DEF CreateRow, TypeOK
<1>3. ASSUME NEW x \in Peer \cup Group \cup Target, DeleteRow(x)
      PROVE  TypeOK'
  <2>1. ASSUME NEW S, NEW T, NEW pairs, pairs \subseteq (S \cap rows) \X (T \cap rows)
        PROVE  Without(pairs, x) \subseteq (S \cap (rows \ {x})) \X (T \cap (rows \ {x}))
    BY <2>1 DEF Without
  <2>2. /\ rows' = rows \ {x} /\ disabled' = disabled \ {x} /\ local' = local
        /\ member' = Without(member, x) /\ grant' = Without(grant, x)
    BY <1>3 DEF DeleteRow
  <2>3. member' \subseteq (Peer \cap rows') \X (Group \cap rows')
    BY <2>1, <2>2 DEF TypeOK
  <2>4. grant' \subseteq (Target \cap rows') \X (Group \cap rows')
    BY <2>1, <2>2 DEF TypeOK
  <2> QED
    BY <2>2, <2>3, <2>4 DEF TypeOK
<1>4. ASSUME NEW x \in Peer \cup Group \cup Target, SwitchRow(x)
      PROVE  TypeOK'
  BY <1>1, <1>4 DEF SwitchRow, TypeOK
<1>5. ASSUME NEW p \in Peer, NEW g \in Group, SwitchMember(p, g)
      PROVE  TypeOK'
  BY <1>1, <1>5 DEF SwitchMember, TypeOK
<1>6. ASSUME NEW t \in Target, NEW g \in Group, SwitchGrant(t, g)
      PROVE  TypeOK'
  BY <1>1, <1>6 DEF SwitchGrant, TypeOK
<1>7. ASSUME NEW n \in Network, SwitchLocal(n)
      PROVE  TypeOK'
  BY <1>1, <1>7 DEF SwitchLocal, TypeOK
<1>8. CASE UNCHANGED vars
  BY <1>8 DEF TypeOK, vars
<1> QED
  BY <1>2, <1>3, <1>4, <1>5, <1>6, <1>7, <1>8 DEF Next

\* Rows exist, relations are between rows that do: deletions leave no dangling
\* membership or grant.
THEOREM TypeCorrect == Spec => []TypeOK
<1>1. Init => TypeOK
  <2> SUFFICES ASSUME Init PROVE TypeOK
    OBVIOUS
  <2>1. Internet \subseteq Target /\ EveryOne \in Group
    BY HostAssumption DEF Internet
  <2>2. grant \subseteq (Target \cap rows) \X (Group \cap rows)
    BY <2>1 DEF Init
  <2> QED
    BY <2>1, <2>2 DEF Init, TypeOK
<1> QED
  BY <1>1, TypeStep, PTL DEF Spec

-----------------------------------------------------------------------------

\* The rules of a set that come first: iptables always finds one.
LEMMA SomeRuleDecides ==
    ASSUME NEW S, S # {}, \A r \in S : r.pass \in 1..6
    PROVE  \E x \in S : \A y \in S : x.pass <= y.pass
<1>1. CASE \E x \in S : x.pass = 1
  BY <1>1
<1>2. CASE (\A x \in S : x.pass \in 2..6) /\ \E x \in S : x.pass = 2
  BY <1>2
<1>3. CASE (\A x \in S : x.pass \in 3..6) /\ \E x \in S : x.pass = 3
  BY <1>3
<1>4. CASE (\A x \in S : x.pass \in 4..6) /\ \E x \in S : x.pass = 4
  BY <1>4
<1>5. CASE (\A x \in S : x.pass \in 5..6) /\ \E x \in S : x.pass = 5
  BY <1>5
<1>6. CASE \A x \in S : x.pass = 6
  BY <1>6
<1> QED
  BY <1>1, <1>2, <1>3, <1>4, <1>5, <1>6

\* Every verdict is that of a first rule, and there is one.
LEMMA VerdictsAre ==
    ASSUME NEW rules, NEW k, NEW v \in BOOLEAN,
           Matching(rules, k) # {}, \A r \in rules : r.pass \in 1..6,
           \A x \in Matching(rules, k) :
               (\A y \in Matching(rules, k) : x.pass <= y.pass) => x.accept = v
    PROVE  Verdicts(rules, k) = {v}
<1>1. \E x \in Matching(rules, k) : \A y \in Matching(rules, k) : x.pass <= y.pass
  BY SomeRuleDecides DEF Matching
<1> QED
  BY <1>1 DEF Verdicts

LEMMA TargetRuleFields ==
    ASSUME NEW p, NEW t \in Target
    PROVE  /\ TargetRule(p, t).pass = PassOf[Kind[t]]
           /\ TargetRule(p, t).pass \in {2, 3, 5}
           /\ TargetRule(p, t).from = {p}
           /\ TargetRule(p, t).accept = (p \notin disabled)
           /\ p \notin disabled =>
                  TargetRule(p, t).to = Covers[t] /\ TargetRule(p, t).service = Services(t)
<1>1. Kind[t] \in {"host", "network", "internet"}
  BY TargetAssumption DEF Kinds
<1>2. PassOf[Kind[t]] \in {2, 3, 5}
  BY <1>1 DEF PassOf
<1>3. CASE p \in disabled
  BY <1>2, <1>3 DEF TargetRule
<1>4. CASE p \notin disabled
  BY <1>2, <1>4 DEF TargetRule
<1> QED
  BY <1>3, <1>4

\* The rules, one kind at a time.
LEMMA PostUpIs ==
    ASSUME NEW r
    PROVE  r \in PostUp <=>
               \/ r = DnsRule \/ r = LastRule
               \/ \E p \in Peer, tg \in Enabled :
                      Applies(p, tg) /\ r = TargetRule(p, tg[1])
               \/ \E n \in local : r = LocalRule(n)
<1>1. \A g : PeersOf(g) \subseteq Peer
  BY DEF PeersOf
<1>2. r \in TargetRules <=>
          \E p \in Peer, tg \in Enabled : Applies(p, tg) /\ r = TargetRule(p, tg[1])
  BY <1>1 DEF Applies, TargetRules
<1>3. r \in {LocalRule(n) : n \in local} <=> \E n \in local : r = LocalRule(n)
  OBVIOUS
<1> QED
  BY <1>2, <1>3 DEF PostUp

LEMMA Passes ==
    ASSUME TypeOK
    PROVE  \A r \in PostUp : r.pass \in 1..6
<1> SUFFICES ASSUME NEW r \in PostUp PROVE r.pass \in 1..6
  OBVIOUS
<1>1. CASE r = DnsRule \/ r = LastRule \/ \E n \in local : r = LocalRule(n)
  BY <1>1 DEF DnsRule, LastRule, LocalRule
<1>2. ASSUME NEW p \in Peer, NEW tg \in Enabled, r = TargetRule(p, tg[1])
      PROVE  r.pass \in 1..6
  <2>1. tg[1] \in Target
    BY <1>2 DEF Enabled, TypeOK
  <2> QED
    BY <1>2, <2>1, TargetRuleFields
<1> QED
  BY <1>1, <1>2, PostUpIs

-----------------------------------------------------------------------------

LEMMA PacketFields ==
    ASSUME NEW k \in Packet
    PROVE  /\ k.src \in Peer /\ k.dst \in Host /\ k.dst # ServerHost
           /\ k.service \in Service
           /\ k.service = "dns" => k.dst = Dns
  BY DEF Packet

\* What matches a packet that is not DNS.
LEMMA MatchingIs ==
    ASSUME TypeOK, NEW k \in Packet, k.service # "dns",
           NEW r \in Matching(PostUp, k)
    PROVE  \/ r.pass = 6 /\ r.accept = FALSE
           \/ r.pass = 4 /\ r.accept = FALSE /\ k.dst \in UNION local
           \/ \E tg \in Enabled : Applies(k.src, tg) /\ r = TargetRule(k.src, tg[1])
<1>1. r \in PostUp /\ k.src \in r.from /\ k.dst \in r.to /\ k.service \in r.service
  BY DEF Matching
<1>2. r # DnsRule
  BY <1>1 DEF DnsRule
<1>3. CASE r = LastRule
  BY <1>3 DEF LastRule
<1>4. ASSUME NEW n \in local, r = LocalRule(n)
      PROVE  r.pass = 4 /\ r.accept = FALSE /\ k.dst \in UNION local
  BY <1>1, <1>4 DEF LocalRule
<1>5. ASSUME NEW p \in Peer, NEW tg \in Enabled, Applies(p, tg), r = TargetRule(p, tg[1])
      PROVE  Applies(k.src, tg) /\ r = TargetRule(k.src, tg[1])
  <2>1. tg[1] \in Target
    BY DEF Enabled, TypeOK
  <2>2. k.src = p
    BY <1>1, <1>5, <2>1, TargetRuleFields
  <2> QED
    BY <1>5, <2>2
<1> QED
  BY <1>1, <1>2, <1>3, <1>4, <1>5, PostUpIs

LEMMA LastMatches ==
    ASSUME NEW k \in Packet
    PROVE  LastRule \in Matching(PostUp, k)
<1>1. LastRule \in PostUp
  BY DEF PostUp
<1> QED
  BY <1>1, PacketFields DEF Matching, LastRule

\* DNS is accepted before anything else is looked at.
LEMMA DnsAccepted ==
    ASSUME TypeOK, NEW k \in Packet, k.service = "dns"
    PROVE  Verdicts(PostUp, k) = {TRUE}
<1>1. DnsRule \in Matching(PostUp, k) /\ DnsRule.pass = 1
  <2>1. DnsRule \in PostUp
    BY DEF PostUp
  <2> QED
    BY <2>1, PacketFields DEF Matching, DnsRule
<1>2. ASSUME NEW x \in Matching(PostUp, k), \A y \in Matching(PostUp, k) : x.pass <= y.pass
      PROVE  x.accept = TRUE
  <2>1. x \in PostUp /\ x.pass \in 1..6
    BY Passes DEF Matching
  <2>2. x.pass = 1
    BY <1>1, <1>2, <2>1
  <2>3. x # LastRule /\ \A n \in local : x # LocalRule(n)
    BY <2>2 DEF LastRule, LocalRule
  <2>4. ASSUME NEW p \in Peer, NEW tg \in Enabled, x = TargetRule(p, tg[1])
        PROVE  FALSE
    <3>1. tg[1] \in Target
      BY DEF Enabled, TypeOK
    <3> QED
      BY <2>2, <2>4, <3>1, TargetRuleFields
  <2>5. x = DnsRule
    BY <2>1, <2>3, <2>4, PostUpIs
  <2> QED
    BY <2>5 DEF DnsRule
<1> QED
  BY <1>1, <1>2, Passes, VerdictsAre

\* An enabled target that covers the packet has an ACCEPT that matches it.
LEMMA GrantMatches ==
    ASSUME TypeOK, NEW k \in Packet, NEW t \in Target, Granted(k, t)
    PROVE  /\ TargetRule(k.src, t) \in Matching(PostUp, k)
           /\ TargetRule(k.src, t).pass = PassOf[Kind[t]]
<1>1. PICK g \in Group \ disabled :
          /\ <<t, g>> \in grant
          /\ g = EveryOne \/ <<k.src, g>> \in member
  BY DEF Granted
<1>2. /\ k.src \in Peer /\ k.src \in rows /\ k.src \notin disabled /\ t \notin disabled
      /\ k.dst \in Covers[t] /\ k.dst # ServerHost
  BY PacketFields DEF Granted
<1>3. Ruled(t)
  BY <1>2 DEF Ruled
<1>4. <<t, g>> \in Enabled /\ k.src \in PeersOf(g)
  BY <1>1, <1>2 DEF Enabled, PeersOf
<1>5. Applies(k.src, <<t, g>>)
  BY <1>3, <1>4 DEF Applies
<1>6. TargetRule(k.src, t) \in PostUp
  <2>1. t = <<t, g>>[1]
    OBVIOUS
  <2> QED
    BY <1>2, <1>4, <1>5, <2>1, PostUpIs
<1>7. k.service \in Services(t)
  BY PacketFields DEF Granted, Services
<1>8. /\ TargetRule(k.src, t).from = {k.src}
      /\ TargetRule(k.src, t).to = Covers[t]
      /\ TargetRule(k.src, t).service = Services(t)
      /\ TargetRule(k.src, t).pass = PassOf[Kind[t]]
  BY <1>2, TargetRuleFields
<1> QED
  BY <1>2, <1>6, <1>7, <1>8 DEF Matching

\* Conversely, a target rule of an enabled peer that matches is a grant, local
\* networks apart.
LEMMA MatchGrants ==
    ASSUME TypeOK, NEW k \in Packet, k.src \notin disabled,
           NEW tg \in Enabled, Applies(k.src, tg),
           TargetRule(k.src, tg[1]) \in Matching(PostUp, k),
           Kind[tg[1]] = "internet" => k.dst \notin UNION local
    PROVE  tg[1] \in Target /\ Granted(k, tg[1])
<1>1. /\ tg \in grant /\ tg[1] \in Target /\ tg[2] \in Group
      /\ tg = <<tg[1], tg[2]>> /\ tg[1] \notin disabled /\ tg[2] \notin disabled
  BY DEF Enabled, TypeOK
<1>2. /\ TargetRule(k.src, tg[1]).to = Covers[tg[1]]
      /\ TargetRule(k.src, tg[1]).service = Services(tg[1])
  BY <1>1, TargetRuleFields
<1>3. k.dst \in Covers[tg[1]] /\ k.service \in Services(tg[1])
  BY <1>2 DEF Matching
<1>4. tg[2] = EveryOne \/ <<k.src, tg[2]>> \in member
  BY DEF Applies, PeersOf
<1>5. Ports[tg[1]] # {} => k.service \in Ports[tg[1]]
  BY <1>3 DEF Services
<1>6. k.src \in rows
  <2>1. <<k.src, tg[2]>> \in member => k.src \in rows
    BY DEF TypeOK
  <2> QED
    BY <2>1 DEF Applies, PeersOf
<1> QED
  BY <1>1, <1>3, <1>4, <1>5, <1>6 DEF Granted

\* What is granted is accepted: only ACCEPTs come before the rule of the grant.
LEMMA GrantedAccepted ==
    ASSUME TypeOK, NEW k \in Packet, k.service # "dns", NEW t \in Target, Granted(k, t)
    PROVE  Verdicts(PostUp, k) = {TRUE}
<1> DEFINE rule == TargetRule(k.src, t)
<1>1. rule \in Matching(PostUp, k) /\ rule.pass = PassOf[Kind[t]]
  BY GrantMatches
<1>2. k.src \notin disabled /\ (Kind[t] = "internet" => k.dst \notin UNION local)
  BY DEF Granted
<1>3. \/ rule.pass \in {2, 3}
      \/ rule.pass = 5 /\ k.dst \notin UNION local
  BY <1>1, <1>2, TargetAssumption DEF PassOf, Kinds
<1> HIDE DEF rule
<1>4. ASSUME NEW x \in Matching(PostUp, k), \A y \in Matching(PostUp, k) : x.pass <= y.pass
      PROVE  x.accept = TRUE
  <2>1. x.pass <= rule.pass
    BY <1>1, <1>4
  <2>2. ~(x.pass = 6 /\ x.accept = FALSE)
    BY <1>3, <2>1
  <2>3. ~(x.pass = 4 /\ x.accept = FALSE /\ k.dst \in UNION local)
    BY <1>3, <2>1
  <2>4. PICK tg \in Enabled : Applies(k.src, tg) /\ x = TargetRule(k.src, tg[1])
    BY <2>2, <2>3, MatchingIs
  <2>5. tg[1] \in Target
    BY DEF Enabled, TypeOK
  <2> QED
    BY <1>2, <2>4, <2>5, TargetRuleFields
<1> QED
  BY <1>1, <1>4, Passes, VerdictsAre

\* What is not granted is dropped: a matching ACCEPT would be a grant, or is the
\* Internet behind the DROP of a local network.
LEMMA OthersDropped ==
    ASSUME TypeOK, NEW k \in Packet, k.service # "dns",
           ~\E t \in Target : Granted(k, t)
    PROVE  Verdicts(PostUp, k) = {FALSE}
<1>1. ASSUME NEW x \in Matching(PostUp, k), \A y \in Matching(PostUp, k) : x.pass <= y.pass
      PROVE  x.accept = FALSE
  <2>1. CASE \E tg \in Enabled : Applies(k.src, tg) /\ x = TargetRule(k.src, tg[1])
    <3>1. PICK tg \in Enabled : Applies(k.src, tg) /\ x = TargetRule(k.src, tg[1])
      BY <2>1
    <3>2. tg[1] \in Target
      BY DEF Enabled, TypeOK
    <3>3. CASE k.src \in disabled
      BY <3>1, <3>2, <3>3, TargetRuleFields
    <3>4. CASE k.src \notin disabled
      <4>1. Kind[tg[1]] = "internet" /\ k.dst \in UNION local
        BY <3>1, <3>4, MatchGrants
      <4>2. x.pass = 5
        BY <3>1, <3>2, <4>1, TargetRuleFields DEF PassOf
      <4>3. PICK n \in local : k.dst \in n
        BY <4>1
      <4>4. LocalRule(n) \in Matching(PostUp, k) /\ LocalRule(n).pass = 4
        <5>1. LocalRule(n) \in PostUp
          BY PostUpIs
        <5> QED
          BY <4>3, <5>1, PacketFields DEF Matching, LocalRule
      <4>5. x.pass <= 4
        BY <1>1, <4>4
      <4> QED
        BY <4>2, <4>5
    <3> QED
      BY <3>3, <3>4
  <2> QED
    BY <2>1, MatchingIs
<1>2. Matching(PostUp, k) # {}
  BY LastMatches
<1> QED
  BY <1>1, <1>2, Passes, VerdictsAre

LEMMA Exactly ==
    ASSUME TypeOK
    PROVE  GrantsExactly
<1> SUFFICES ASSUME NEW k \in Packet PROVE Verdicts(PostUp, k) = {Allowed(k)}
  BY DEF GrantsExactly
<1>1. CASE k.service = "dns"
  BY <1>1, DnsAccepted DEF Allowed
<1>2. CASE k.service # "dns" /\ \E t \in Target : Granted(k, t)
  BY <1>2, GrantedAccepted DEF Allowed
<1>3. CASE k.service # "dns" /\ ~\E t \in Target : Granted(k, t)
  BY <1>3, OthersDropped DEF Allowed
<1> QED
  BY <1>1, <1>2, <1>3

\* The rules that get_wireguard_iptables_script generates accept exactly what the
\* access relations allow, for all tables, targets and names.
THEOREM RulesGrantExactly == Spec => []GrantsExactly
<1>1. TypeOK => GrantsExactly
  BY Exactly
<1> QED
  BY <1>1, TypeCorrect, PTL

\* The AllowedIPs of a strict configuration, where it can be rendered, cover all
\* that the rules accept.
THEOREM StrictRoutesSuffice == Spec => []StrictRoutesCover
<1>1. TypeOK => StrictRoutesCover
  <2> SUFFICES ASSUME TypeOK, NEW k \in Packet, Verdicts(PostUp, k) = {TRUE}
               PROVE  k.dst \in AllowedIPs(k.src)
    BY DEF StrictRoutesCover
  <2>1. {Allowed(k)} = {TRUE}
    BY Exactly DEF GrantsExactly
  <2>2. CASE k.service = "dns"
    BY <2>2, PacketFields DEF AllowedIPs
  <2>3. CASE k.service # "dns"
    <3>1. PICK t \in Target : Granted(k, t)
      BY <2>1, <2>3 DEF Allowed
    <3>2. PICK g \in Group : <<t, g>> \in grant /\ (g = EveryOne \/ <<k.src, g>> \in member)
      BY <3>1 DEF Granted
    <3>3. k.dst \in Covers[t] /\ t \in TargetsOf(g)
      <4>1. t = <<t, g>>[1] /\ g = <<t, g>>[2]
        OBVIOUS
      <4> QED
        BY <3>1, <3>2, <4>1 DEF Granted, TargetsOf
    <3>4. g \in GroupsOf(k.src) \cup {EveryOne}
      BY <3>2 DEF GroupsOf
    <3>5. k.dst \in Routed(GroupsOf(k.src) \cup {EveryOne})
      BY <3>3, <3>4 DEF Routed
    <3> QED
      BY <3>5 DEF AllowedIPs
  <2> QED
    BY <2>2, <2>3
<1> QED
  BY <1>1, TypeCorrect, PTL

\* Every access that the rules give is explained by a target of the list that
\* get_target_names makes for the peer.
THEOREM NamesExplainAllAccess == Spec => []NamesExplainAccess
<1>1. TypeOK => NamesExplainAccess
  <2> SUFFICES ASSUME TypeOK, NEW k \in Packet, k.service # "dns",
                      Verdicts(PostUp, k) = {TRUE}
               PROVE  \E t \in TargetNames(k.src) :
                         k.dst \in Covers[t] /\ k.service \in Services(t)
    BY DEF NamesExplainAccess
  <2>1. PICK t \in Target : Granted(k, t)
    BY Exactly DEF GrantsExactly, Allowed
  <2>2. PICK g \in Group \ disabled :
           <<t, g>> \in grant /\ (g = EveryOne \/ <<k.src, g>> \in member)
    BY <2>1 DEF Granted
  <2>3. t \in TargetsOf(g)
    <3>1. t = <<t, g>>[1] /\ g = <<t, g>>[2]
      OBVIOUS
    <3> QED
      BY <2>2, <3>1 DEF TargetsOf
  <2>4. g \in (GroupsOf(k.src) \ disabled) \cup {EveryOne}
    BY <2>2 DEF GroupsOf
  <2>5. t \in TargetNames(k.src)
    BY <2>3, <2>4 DEF TargetNames
  <2>6. k.dst \in Covers[t] /\ k.service \in Services(t)
    BY <2>1, PacketFields DEF Granted, Services
  <2> QED
    BY <2>5, <2>6
<1> QED
  BY <1>1, TypeCorrect, PTL

\* Every access that the rules give is a path without "block" of the VPN Layout.
THEOREM LayoutExplainsAllAccess == Spec => []LayoutExplainsAccess
<1>1. TypeOK => LayoutExplainsAccess
  <2> SUFFICES ASSUME TypeOK, NEW k \in Packet, k.service # "dns",
                      Verdicts(PostUp, k) = {TRUE}
               PROVE  \E t \in Layout : \E g \in t.children :
                         /\ ~t.blocked /\ k.dst \in Covers[t.row]
                         /\ k.service \in Services(t.row) /\ ~g.blocked
                         /\ \/ g.row = EveryOne
                            \/ \E p \in g.children : p.row = k.src /\ ~p.blocked
    BY DEF LayoutExplainsAccess
  <2>1. PICK t \in Target : Granted(k, t)
    BY Exactly DEF GrantsExactly, Allowed
  <2>2. PICK g \in Group \ disabled :
           <<t, g>> \in grant /\ (g = EveryOne \/ <<k.src, g>> \in member)
    BY <2>1 DEF Granted
  <2> DEFINE target == Node(t, GroupNodes(t))
             group == Node(g, PeerNodes(g))
             peer == Node(k.src, {})
  <2>3. target \in Layout
    BY <2>2 DEF Layout, TypeOK
  <2>4. group \in target.children
    BY <2>2 DEF Node, GroupNodes
  <2>5. target.row = t /\ ~target.blocked /\ group.row = g /\ ~group.blocked
    BY <2>1, <2>2 DEF Node, Granted
  <2>6. g = EveryOne \/ (peer \in group.children /\ peer.row = k.src /\ ~peer.blocked)
    BY <2>1, <2>2, PacketFields DEF Node, PeerNodes, Granted
  <2>7. k.dst \in Covers[t] /\ k.service \in Services(t)
    BY <2>1, PacketFields DEF Granted, Services
  <2> HIDE DEF target, group, peer
  <2> QED
    BY <2>3, <2>4, <2>5, <2>6, <2>7
<1> QED
  BY <1>1, TypeCorrect, PTL

-----------------------------------------------------------------------------
(* Edits *)

\* What the rules of the moment let through.
Accepted(k) == Verdicts(PostUp, k) = {TRUE}

LEMMA AcceptedIsAllowed ==
    ASSUME TypeOK, NEW k \in Packet
    PROVE  Accepted(k) <=> Allowed(k)
<1>1. Verdicts(PostUp, k) = {Allowed(k)}
  BY Exactly DEF GrantsExactly
<1>2. Allowed(k) \in BOOLEAN
  BY DEF Allowed
<1> QED
  BY <1>1, <1>2 DEF Accepted

\* Rows and relations only go, rows are only disabled, local networks only come.
OnlyRevokes ==
    /\ rows' \subseteq rows /\ member' \subseteq member /\ grant' \subseteq grant
    /\ disabled \cap rows' \subseteq disabled'
    /\ local \subseteq local'

\* Taking rights away opens nothing, at the next generation either: deleting or
\* disabling a row, taking a peer or a target out of a group and naming a local
\* network leave no packet accepted that was not accepted before.  (The rules drop
\* as well as accept, and deletions drop rules of both kinds.)
THEOREM RevokingOpensNothing ==
    Spec => [][OnlyRevokes => \A k \in Packet : Accepted(k)' => Accepted(k)]_vars
<1>1. TypeOK /\ TypeOK' => (OnlyRevokes => \A k \in Packet : Accepted(k)' => Accepted(k))
  <2> SUFFICES ASSUME TypeOK, TypeOK', OnlyRevokes, NEW k \in Packet, Allowed(k)'
               PROVE  Allowed(k)
    <3>1. ASSUME NEW k \in Packet, TypeOK, TypeOK'
          PROVE  (Accepted(k) <=> Allowed(k)) /\ (Accepted(k)' <=> Allowed(k)')
      BY <3>1, AcceptedIsAllowed, PTL
    <3> QED
      BY <3>1
  <2>1. CASE k.service = "dns"
    BY <2>1 DEF Allowed
  <2>2. ASSUME NEW t \in Target, Granted(k, t)'
        PROVE  Granted(k, t)
    <3>1. PICK g \in Group \ disabled' : /\ <<t, g>> \in grant'
                                         /\ g = EveryOne \/ <<k.src, g>> \in member'
      BY <2>2 DEF Granted
    <3>2. {t, g, k.src} \subseteq rows' /\ t \notin disabled' /\ k.src \notin disabled'
      BY <2>2, <3>1 DEF Granted, TypeOK
    <3>3. k.src \in rows \ disabled /\ t \notin disabled /\ g \in Group \ disabled
      BY <3>1, <3>2 DEF OnlyRevokes
    <3>4. <<t, g>> \in grant /\ (g = EveryOne \/ <<k.src, g>> \in member)
      BY <3>1 DEF OnlyRevokes
    <3>5. Kind[t] = "internet" => k.dst \notin UNION local
      BY <2>2 DEF Granted, OnlyRevokes
    <3> QED
      BY <2>2, <3>3, <3>4, <3>5 DEF Granted
  <2> QED
    BY <2>1, <2>2 DEF Allowed
<1>2. TypeOK /\ [Next]_vars => TypeOK'
  BY TypeStep
<1>3. TypeOK /\ [Next]_vars
        => [OnlyRevokes => \A k \in Packet : Accepted(k)' => Accepted(k)]_vars
  BY <1>1, <1>2
<1> QED
  BY <1>3, TypeCorrect, PTL DEF Spec

\* An edit of a peer's row or of its memberships.
EditsPeer(p) ==
    \/ CreateRow(p) \/ DeleteRow(p) \/ SwitchRow(p)
    \/ \E g \in Group : SwitchMember(p, g)

\* Creating, deleting, disabling or moving a peer changes what is accepted from
\* that peer alone: no rule made for one peer stands before another peer's.
THEOREM PeersKeepToThemselves ==
    ASSUME Peer \cap (Group \cup Target) = {}
    PROVE  Spec => [][\A p \in Peer : EditsPeer(p) =>
                         \A k \in Packet : k.src # p => (Accepted(k)' <=> Accepted(k))]_vars
<1>1. ASSUME TypeOK, TypeOK', NEW p \in Peer, EditsPeer(p), NEW k \in Packet, k.src # p
      PROVE  Accepted(k)' <=> Accepted(k)
  <2>1. (Accepted(k) <=> Allowed(k)) /\ (Accepted(k)' <=> Allowed(k)')
    BY <1>1, AcceptedIsAllowed, PTL
  <2>2. /\ \A x \in (Peer \cup Group \cup Target) \ {p} :
              (x \in rows' <=> x \in rows) /\ (x \in disabled' <=> x \in disabled)
        /\ local' = local
    BY <1>1 DEF EditsPeer, CreateRow, DeleteRow, SwitchRow, SwitchMember, Flip
  <2>3. \A t \in Target, g \in Group : <<t, g>> \in grant' <=> <<t, g>> \in grant
    <3>1. \A t \in Target, g \in Group : p \notin {t, g}
      OBVIOUS
    <3> QED
      BY <1>1, <3>1 DEF EditsPeer, CreateRow, DeleteRow, SwitchRow, SwitchMember, Without
  <2>4. \A g \in Group : <<k.src, g>> \in member' <=> <<k.src, g>> \in member
    <3>1. \A g \in Group : p \notin {k.src, g}
      BY <1>1
    <3>2. CASE DeleteRow(p)
      BY <3>1, <3>2 DEF DeleteRow, Without
    <3>3. ASSUME NEW h, SwitchMember(p, h)
          PROVE  \A g \in Group : <<k.src, g>> \in member' <=> <<k.src, g>> \in member
      <4>1. \A g : <<k.src, g>> # <<p, h>>
        BY <1>1
      <4> QED
        BY <3>3, <4>1 DEF SwitchMember, Flip
    <3>4. CASE CreateRow(p) \/ SwitchRow(p)
      BY <3>4 DEF CreateRow, SwitchRow
    <3> QED
      BY <1>1, <3>2, <3>3, <3>4 DEF EditsPeer
  <2>5. k.src \in Peer /\ p \notin Group /\ p \notin Target
    BY PacketFields
  <2>6. ASSUME NEW t \in Target
        PROVE  Granted(k, t)' <=> Granted(k, t)
    BY <1>1, <2>2, <2>3, <2>4, <2>5 DEF Granted
  <2> QED
    BY <2>1, <2>6 DEF Allowed
<1>2. TypeOK /\ [Next]_vars => TypeOK'
  BY TypeStep
<1>3. TypeOK /\ [Next]_vars
        => [\A p \in Peer : EditsPeer(p) =>
               \A k \in Packet : k.src # p => (Accepted(k)' <=> Accepted(k))]_vars
  BY <1>1, <1>2
<1> QED
  BY <1>3, TypeCorrect, PTL DEF Spec

=============================================================================
