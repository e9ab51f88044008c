----------------------------- MODULE TargetScan ------------------------------
(***************************************************************************)
(* HostScan composed with TargetList and Blackrock: the task that          *)
(* init_host_scan_task makes of the user's lists of addresses and ports,   *)
(* and the address and port that each probe of send_thread goes to.        *)
(***************************************************************************)
EXTENDS HostScan, TargetList, Blackrock

CONSTANT MaxFactor      \* bound on the ranges whose shuffle is checked

\* The counts are taken of the lists as they were given; nothing has sorted them.
Counts(lists) ==
    [ports |-> Count(AddAll(lists.ports)),
     ipv4  |-> Count(AddAll(lists.ipv4)),
     ipv6  |-> Count(AddAll(lists.ipv6))]

\* init_host_scan_task, with the fields that HostScan needs.
InitTask(lists, isArp, rate, shuffle, hash) ==
    LET n == Counts(lists)
    IN  [lists |-> lists, arp |-> isArp, rate |-> rate, shuffle |-> shuffle, hash |-> hash,
         range |-> n.ipv4 * n.ports + n.ipv6 * n.ports, range6 |-> n.ipv6 * n.ports]

\* Where send_thread sends the probe of index t: addresses run fastest, IPv6
\* addresses come first.
Destination(lists, t) ==
    LET n == Counts(lists)
        in6 == t < n.ipv6 * n.ports
        k == IF in6 THEN t ELSE t - n.ipv6 * n.ports
        count == IF in6 THEN n.ipv6 ELSE n.ipv4
    IN  [family  |-> IF in6 THEN 6 ELSE 4,
         address |-> Pick(AddAll(IF in6 THEN lists.ipv6 ELSE lists.ipv4), k % count),
         port    |-> Pick(AddAll(lists.ports), k \div count)]

\* What HostScan supposes of a task is what init_host_scan_task made of the lists.
MadeFromLists(n) ==
    /\ n.lists \in [ports : Seq(AddressRange), ipv4 : Seq(AddressRange), ipv6 : Seq(AddressRange)]
    /\ n = InitTask(n.lists, n.arp, n.rate, n.shuffle, n.hash)

ASSUME TargetScanAssumption == MaxFactor \in Nat /\ \A n \in Networks : MadeFromLists(n)

-----------------------------------------------------------------------------
(* Properties                                                              *)

Named(ranges) == UNION {Members(ranges[k]) : k \in DOMAIN ranges}

\* Every address with every port, as the user gave them.
Wanted(lists) ==
    [family : {4}, address : Named(lists.ipv4), port : Named(lists.ports)]
    \cup [family : {6}, address : Named(lists.ipv6), port : Named(lists.ports)]

Probed == {Destination(net.lists, t) : t \in {s \in Slots(net) : probes[s] > 0}}

\* No address of a list is counted twice.
Resolved(ranges) == Count(AddAll(ranges)) <= Cardinality(Named(ranges))

\* The shuffle that send_thread sets up gives every index of the task an index of
\* its own (hostscan.c:777 relies on it), also if there were up to MaxFactor times
\* as many ports, and whatever the round function; the sides of the network, chosen by
\* hand for small ranges, leave no index out.
ShufflePermutes ==
    spc = "loop" /\ rpc = "loop" /\ pass = 0 =>
        \A factor \in 1..MaxFactor, seed \in Seeds : Permutes(factor * net.range, seed)

\* From the user's lists to the probes (init_host_scan_task, send_thread): no
\* address and port are probed but the named ones, once in a pass (twice when
\* there are IPv6 addresses, whose probes total_count counts twice), and all of
\* them when send_done is seen - if no list has overlaps left when it is counted;
\* and the shuffle that this supposes is one.
ProbesExact ==
    /\ Resolved(net.lists.ipv4) /\ Resolved(net.lists.ipv6) /\ Resolved(net.lists.ports) =>
        /\ Probed \subseteq Wanted(net.lists)
        /\ \A t \in Slots(net) : probes[t] <= pass * (IF net.range6 = 0 THEN 1 ELSE 2)
        /\ "send_done" \in bits => Probed = Wanted(net.lists)
    /\ ShufflePermutes

\* massip-rangesv4.c:699 asserts that an index picked lies within the list.
PickWithinList ==
    \A d \in Probed : d.address # EndOfList /\ d.port # EndOfList

-----------------------------------------------------------------------------
(* The inductive invariant for ProbesExact                                 *)

\* How often the first k probes of a pass hit t: the indices repeat after range.
Hits(n, k, t) == Cardinality({j \in 0..(k - 1) : Target(n, j) = t})

MaxHits == IF net.range6 = 0 THEN 1 ELSE 2

\* What the passes before and this one have probed.
HitInv ==
    \A t \in Slots(net) :
        probes[t] <= IF spc = "probe" THEN (pass - 1) * MaxHits + Hits(net, i, t)
                                      ELSE pass * MaxHits

=============================================================================
