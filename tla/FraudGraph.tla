----------------------------- MODULE FraudGraph -----------------------------
(***************************************************************************)
(* The relationship graph of the fraud ring endpoints: how build_graph     *)
(* turns rows into a multigraph, and what analyze_graph and                *)
(* extract_subgraph_schema read from it.  Pure operators; ApiServer runs   *)
(* them on what a request has read.                                        *)
(*                                                                         *)
(* A graph is a set of edges; an edge holds the row it was made from, so   *)
(* that parallel edges stay apart.  Every node of the program's graph is   *)
(* an end of an edge, and its label is the set it belongs to.              *)
(***************************************************************************)
EXTENDS Integers, Sequences, FiniteSetsExt

CONSTANTS Customers, Accounts, Devices, Addresses,
          NodeOf(_),           \* the node of an account or a device
          CriticalVolume,      \* above it a ring is CRITICAL
          CriticalCustomers    \* from it on a cluster is CRITICAL

Edge(relationship, from, to, row) ==
    [relationship |-> relationship, from |-> from, to |-> to, row |-> row]

(* A node's name is the id with a prefix, unless the id has one: an account *)
(* X and an account ACCT-X are one node.                                   *)
Owns(accounts) == {Edge("OWNS", a.customer, NodeOf(a.account), a) : a \in accounts}

(* Transactions and logins are those from the cutoff on. *)
TransferredTo(transactions, cutoff) ==
    {Edge("TRANSFERRED_TO", NodeOf(t.from), NodeOf(t.to), t) : t \in {x \in transactions : x.at >= cutoff}}

UsedDevice(devices) == {Edge("USED_DEVICE", d.customer, NodeOf(d.device), d) : d \in devices}

LoggedInFrom(logins, cutoff) ==
    {Edge("LOGGED_IN_FROM", l.customer, l.address, l) : l \in {x \in logins : x.at >= cutoff}}

Nodes(G) == UNION {{e.from, e.to} : e \in G}

-----------------------------------------------------------------------------
(* extract_subgraph_schema: what lies within depth hops of the centre,     *)
(* edges taken in both directions, and the edges in between.               *)
(* Mutant: edges are followed in their direction only. *)
Successors(G, nodes) == {e.to : e \in {x \in G : x.from \in nodes}}

Neighbours(G, nodes) ==
    {e.to : e \in {x \in G : x.from \in nodes}} \cup {e.from : e \in {x \in G : x.to \in nodes}}

Within(G, center, depth) ==
    LET near[d \in 0..depth] ==
            IF d = 0 THEN {center} ELSE near[d - 1] \cup Neighbours(G, near[d - 1])
    IN  near[depth]

Subgraph(G, center, depth) ==
    LET nodes == Within(G, center, depth)
    IN  [nodes |-> nodes, edges |-> {e \in G : {e.from, e.to} \subseteq nodes}]

-----------------------------------------------------------------------------
(* analyze_graph, first part: the transfers collapsed into one weighted    *)
(* edge per pair of accounts, and the simple cycles of 3 hops and more.    *)
Transfers(G) == {e \in G : e.relationship = "TRANSFERRED_TO"}

Pairs(G) == {<<e.from, e.to>> : e \in Transfers(G)}

(* Mutant: of several transfers between two accounts the largest counts. *)
VolumeOfLargest(G, pairs) ==
    MapThenSumSet(LAMBDA p : Max({e.row.amount : e \in {x \in Transfers(G) : <<x.from, x.to>> = p}}), pairs)

Volume(G, pairs) ==
    MapThenSumSet(LAMBDA e : e.row.amount, {e \in Transfers(G) : <<e.from, e.to>> \in pairs})

(* simple_cycles: each cycle once, here as the set of its edges. *)
Cycles(pairs, hops) ==
    LET paths[n \in 1..hops] ==
            IF n = 1 THEN {<<p[1]>> : p \in pairs}
            ELSE UNION {{Append(s, p[2]) : p \in {x \in pairs : x[1] = s[n - 1]}} : s \in paths[n - 1]}
        simple == {s \in paths[hops] : /\ Cardinality({s[i] : i \in 1..hops}) = hops
                                       /\ \A i \in 1..hops : <<s[i], s[(i % hops) + 1]>> \in pairs}
    IN  {{<<s[i], s[(i % hops) + 1]>> : i \in 1..hops} : s \in simple}

Severity(critical) == IF critical THEN "CRITICAL" ELSE "HIGH"

CircularRings(G, maxHops) ==
    {[members |-> cycle, volume |-> Volume(G, cycle),
      severity |-> Severity(Volume(G, cycle) > CriticalVolume)] :
        cycle \in UNION {Cycles(Pairs(G), hops) : hops \in 3..maxHops}}

(* Second part: a device or an address with many customers at it. *)
SharedClusters(G, minShared) ==
    LET customers(node) == {e.from : e \in {x \in G : x.to = node /\ x.from \in Customers}}
    IN  {[shared |-> node, customers |-> customers(node),
          severity |-> Severity(Cardinality(customers(node)) >= CriticalCustomers)] :
            node \in {n \in Nodes(G) \cap (Devices \cup Addresses) :
                        Cardinality(customers(n)) >= minShared}}
=============================================================================
