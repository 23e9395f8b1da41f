------------------------------ MODULE Firewall ------------------------------
(***************************************************************************)
(* Who may reach what: the access relations that an administrator edits,   *)
(* the FORWARD rules that get_wireguard_iptables_script generates from     *)
(* them and the AllowedIPs of the peers' own configurations.               *)
(***************************************************************************)
EXTENDS Naturals

CONSTANTS
    Peer, Group, Target,   \* the rows of the three tables
    EveryOne,              \* the group whose targets are for all peers
    Host,                  \* the addresses there are, those of the peers included
    Dns, ServerHost,       \* upstream_dns_ip_address and the server's own address
    Port,                  \* TCP ports that targets name
    Network,               \* networks that may be in local_networks
    Kind, Covers, Ports    \* what a target's ip_address says (see below)

Kinds == {"host", "network", "internet"}
Service == Port \cup {"dns", "other"}

\* get_target_ip_address_parts: a host, all of it or some TCP ports; a network;
\* 0.0.0.0/0.  (An address with a mask and host bits counts as the host.)
ASSUME TargetAssumption ==
    /\ Kind \in [Target -> Kinds]
    /\ Covers \in [Target -> SUBSET Host]
    /\ Ports \in [Target -> SUBSET Port]
    /\ \A t \in Target :
          /\ Kind[t] = "host" => \E h \in Host : Covers[t] = {h}
          /\ Kind[t] # "host" => Ports[t] = {}
          /\ Kind[t] = "internet" => Covers[t] = Host

ASSUME HostAssumption ==
    /\ Peer \subseteq Host
    /\ Dns \in Host
    /\ ServerHost \in Host \ ({Dns} \cup Peer)
    /\ Network \subseteq SUBSET Host
    /\ EveryOne \in Group
    /\ Port \cap {"dns", "other"} = {}

VARIABLES
    rows,          \* the peers, groups and targets there are
    disabled,      \* the disabled ones
    member,        \* pairs of a peer and a group it is in
    grant,         \* pairs of a target and a group it is for
    local          \* local_networks

vars == <<rows, disabled, member, grant, local>>

-----------------------------------------------------------------------------
(* get_wireguard_iptables_script: rules in five passes and a last one.     *)
(* iptables takes the first rule that matches; within a pass the order is  *)
(* that of the names of targets and groups, which anybody may change.      *)

\* Mutant: 0.0.0.0/0 is a network like any other.
PassOfNetworks == [host |-> 2, network |-> 3, internet |-> 3]

PassOf == [host |-> 2, network |-> 3, internet |-> 5]

\* target_infos: the disabled targets and groups are filtered out.
Enabled == {tg \in grant : tg[1] \notin disabled /\ tg[2] \notin disabled}

PeersOf(g) == IF g = EveryOne THEN Peer \cap rows ELSE {p \in Peer : <<p, g>> \in member}

Services(t) == IF Ports[t] = {} THEN Service ELSE Ports[t]

TargetRule(p, t) ==
    IF p \in disabled
    THEN [pass |-> PassOf[Kind[t]], from |-> {p}, to |-> Host, service |-> Service,
          accept |-> FALSE]
    ELSE [pass |-> PassOf[Kind[t]], from |-> {p}, to |-> Covers[t],
          service |-> Services(t), accept |-> TRUE]

\* Nothing is forwarded to the server itself: no rule for such a host.
Ruled(t) == ~(Kind[t] = "host" /\ Covers[t] = {ServerHost})

TargetRules ==
    UNION {{TargetRule(p, tg[1]) : p \in PeersOf(tg[2])}
           : tg \in {x \in Enabled : Ruled(x[1])}}

LocalRule(n) ==
    [pass |-> 4, from |-> Peer, to |-> n, service |-> Service, accept |-> FALSE]

DnsRule ==
    [pass |-> 1, from |-> Peer, to |-> Host, service |-> {"dns"}, accept |-> TRUE]

LastRule ==
    [pass |-> 6, from |-> Peer, to |-> Host, service |-> Service, accept |-> FALSE]

PostUp == {DnsRule, LastRule} \cup TargetRules \cup {LocalRule(n) : n \in local}

\* New connections that reach the FORWARD chain; the nat table has sent all DNS
\* traffic to the upstream server before.
Packet == {k \in [src : Peer, dst : Host \ {ServerHost}, service : Service] :
              k.service = "dns" => k.dst = Dns}

Matching(rules, k) ==
    {r \in rules : k.src \in r.from /\ k.dst \in r.to /\ k.service \in r.service}

\* What becomes of a packet, for every order of the rules of a pass.
Verdicts(rules, k) ==
    LET matching == Matching(rules, k)
    IN {r.accept : r \in {x \in matching : \A y \in matching : x.pass <= y.pass}}

-----------------------------------------------------------------------------
(* get_wireguard_configurations_for_peer: the AllowedIPs of a strict       *)
(* configuration.  Unlike the rules, they know nothing of "disabled".      *)

TargetsOf(g) == {tg[1] : tg \in {x \in grant : x[2] = g}}
GroupsOf(p) == {g \in Group : <<p, g>> \in member}

\* The other members of the peer's groups, the targets of these groups and of
\* EveryOne.
Colleagues(p) == {q \in Peer \ {p} : \E g \in GroupsOf(p) : <<q, g>> \in member}
Routed(groups) == UNION {Covers[t] : t \in UNION {TargetsOf(g) : g \in groups}}

\* Mutant: the targets of EveryOne are left out.
AllowedIPsOfGroups(p) == Colleagues(p) \cup Routed(GroupsOf(p)) \cup {Dns, ServerHost}

AllowedIPs(p) ==
    Colleagues(p) \cup Routed(GroupsOf(p) \cup {EveryOne}) \cup {Dns, ServerHost}

\* The ports are cut off the targets of the peer's groups but not off those of
\* EveryOne, where they end the rendering with a TypeError.
StrictRenders == \A t \in TargetsOf(EveryOne) : Ports[t] = {}

-----------------------------------------------------------------------------
(* PeerSerializer.get_target_names: the targets that the peers page lists   *)

\* Mutant: the targets of EveryOne are not listed.
TargetNamesOfGroups(p) == UNION {TargetsOf(g) : g \in GroupsOf(p) \ disabled}

\* Without the group EveryOne the list of the peers ends with an IndexError.
ListRenders == EveryOne \in rows

\* Those of the peer's enabled groups and of EveryOne, disabled or not.
TargetNames(p) == UNION {TargetsOf(g) : g \in (GroupsOf(p) \ disabled) \cup {EveryOne}}

-----------------------------------------------------------------------------
(* The page VPN Layout: a tree of targets, groups and peers, in which the   *)
(* disabled ones bear the icon "block" (getTargetHierarchy, org-chart).     *)

Node(x, children) == [row |-> x, blocked |-> x \in disabled, children |-> children]

PeerNodes(g) == {Node(p, {}) : p \in {x \in Peer : <<x, g>> \in member}}
GroupNodes(t) == {Node(g, PeerNodes(g)) : g \in {x \in Group : <<t, x>> \in grant}}

\* Mutant: groups without peers are not shown.
LayoutOfMembers ==
    {Node(t, {n \in GroupNodes(t) : n.children # {}}) : t \in Target \cap rows}

Layout == {Node(t, GroupNodes(t)) : t \in Target \cap rows}

-----------------------------------------------------------------------------
(* The edits *)

Internet == {t \in Target : Kind[t] = "internet"}

\* After a start: the built-in group and target, linked or not.
Init ==
    /\ rows = {EveryOne} \cup Internet
    /\ disabled = {}
    /\ member = {}
    /\ grant \in SUBSET {<<t, EveryOne>> : t \in Internet}
    /\ local \in SUBSET Network

Flip(set, x) == IF x \in set THEN set \ {x} ELSE set \cup {x}

\* By a form, a tool or, for EveryOne and the Internet, the next start.
CreateRow(x) ==
    /\ x \notin rows
    /\ rows' = rows \cup {x}
    /\ UNCHANGED <<disabled, member, grant, local>>

Without(pairs, x) == {y \in pairs : x \notin {y[1], y[2]}}

\* Mutant: the relations of a deleted row stay.
DeleteRowOnly(x) ==
    /\ x \in rows
    /\ rows' = rows \ {x}
    /\ disabled' = disabled \ {x}
    /\ UNCHANGED <<member, grant, local>>

\* The ORM deletes the row's memberships and grants with it.
DeleteRow(x) ==
    /\ x \in rows
    /\ rows' = rows \ {x}
    /\ disabled' = disabled \ {x}
    /\ member' = Without(member, x)
    /\ grant' = Without(grant, x)
    /\ UNCHANGED local

SwitchRow(x) ==
    /\ x \in rows
    /\ disabled' = Flip(disabled, x)
    /\ UNCHANGED <<rows, member, grant, local>>

SwitchMember(p, g) ==
    /\ {p, g} \subseteq rows
    /\ member' = Flip(member, <<p, g>>)
    /\ UNCHANGED <<rows, disabled, grant, local>>

SwitchGrant(t, g) ==
    /\ {t, g} \subseteq rows
    /\ grant' = Flip(grant, <<t, g>>)
    /\ UNCHANGED <<rows, disabled, member, local>>

SwitchLocal(n) ==
    /\ local' = Flip(local, n)
    /\ UNCHANGED <<rows, disabled, member, grant>>

Next ==
    \/ \E x \in Peer \cup Group \cup Target : CreateRow(x) \/ DeleteRow(x) \/ SwitchRow(x)
    \/ \E p \in Peer, g \in Group : SwitchMember(p, g)
    \/ \E t \in Target, g \in Group : SwitchGrant(t, g)
    \/ \E n \in Network : SwitchLocal(n)

Spec == Init /\ [][Next]_vars

-----------------------------------------------------------------------------

TypeOK ==
    /\ rows \subseteq Peer \cup Group \cup Target
    /\ disabled \subseteq rows
    /\ member \subseteq (Peer \cap rows) \X (Group \cap rows)
    /\ grant \subseteq (Target \cap rows) \X (Group \cap rows)
    /\ local \subseteq Network

\* ACCESS_CONTROL.md, "The access model": an enabled peer reaches what the
\* enabled targets of its enabled groups and of EveryOne cover, 0.0.0.0/0 without
\* the local networks; and DNS.
Granted(k, t) ==
    /\ k.src \in rows \ disabled /\ t \notin disabled
    /\ \E g \in Group \ disabled :
          /\ <<t, g>> \in grant
          /\ g = EveryOne \/ <<k.src, g>> \in member
    /\ k.dst \in Covers[t]
    /\ Ports[t] # {} => k.service \in Ports[t]
    /\ Kind[t] = "internet" => k.dst \notin UNION local

Allowed(k) == k.service = "dns" \/ \E t \in Target : Granted(k, t)

\* The rules accept what the access relations allow and nothing else, whatever
\* the names by which the rules of a pass are sorted: no DROP of one relation
\* shadows an ACCEPT of another, no broad ACCEPT precedes a narrow DROP.
GrantsExactly ==
    LET rules == PostUp
    IN \A k \in Packet : Verdicts(rules, k) = {Allowed(k)}

\* A strict configuration routes into the tunnel all that the rules accept: a
\* client cannot lose, by its own routes, access that the server gives it.
StrictRoutesCover ==
    LET rules == PostUp
    IN StrictRenders =>
          \A k \in Packet : Verdicts(rules, k) = {TRUE} => k.dst \in AllowedIPs(k.src)

\* What the rules accept beyond DNS is on the list that the administrator sees
\* for the peer: no access without a target named there that explains it.
NamesExplainAccess ==
    LET rules == PostUp
    IN ListRenders =>
          \A k \in Packet :
             k.service # "dns" /\ Verdicts(rules, k) = {TRUE}
                => \E t \in TargetNames(k.src) :
                      k.dst \in Covers[t] /\ k.service \in Services(t)

\* Nor is there access that the page VPN Layout does not show: what the rules
\* accept beyond DNS follows a path of it without the icon "block", to the peer
\* or to EveryOne.
LayoutExplainsAccess ==
    LET rules == PostUp
    IN \A k \in Packet :
          k.service # "dns" /\ Verdicts(rules, k) = {TRUE}
             => \E t \in Layout : \E g \in t.children :
                   /\ ~t.blocked /\ k.dst \in Covers[t.row] /\ k.service \in Services(t.row)
                   /\ ~g.blocked
                   /\ g.row = EveryOne \/ \E p \in g.children : p.row = k.src /\ ~p.blocked

=============================================================================
