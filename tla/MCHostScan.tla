------------------------------ MODULE MCHostScan ------------------------------
(* Instances of TargetScan for TLC.                                        *)
EXTENDS TargetScan

One(a) == [begin |-> a, end |-> a]
Span(a, b) == [begin |-> a, end |-> b]
Lists(v4, v6, ports) == [ipv4 |-> v4, ipv6 |-> v6, ports |-> ports]

\* Every shuffle of the indices, every rate up to twice their number (the code
\* takes another path beyond it), targets in buckets of their own or two in one.
Permuted(r) == {g \in [0..(r-1) -> 0..(r-1)] : \A a, b \in 0..(r-1) : g[a] = g[b] => a = b}
Apart(r) == [t \in 0..(r-1) |-> t]
Meeting(r) == [t \in 0..(r-1) |-> IF t = r-1 THEN 0 ELSE t]

Nets(lists, isArp) ==
    LET r == InitTask(lists, isArp, 0, <<>>, <<>>).range
    IN  {InitTask(lists, isArp, k, f, h) : k \in 0..2*r, f \in Permuted(r),
                                            h \in {Apart(r), Meeting(r)}}

Straight(lists) ==
    LET r == InitTask(lists, FALSE, 0, <<>>, <<>>).range
    IN  {InitTask(lists, FALSE, 0, Apart(r), Apart(r))}

\* Two IPv4 addresses, ARP and port scan; IPv6 beside IPv4; IPv6 only; then lists
\* in any order, that touch, lie in each other, or reach the last address.
MCNetworks ==
    Nets(Lists(<<One(4), One(2)>>, <<>>, <<One(1)>>), TRUE)
    \cup Nets(Lists(<<Span(3, 4)>>, <<>>, <<One(1)>>), FALSE)
    \cup Nets(Lists(<<One(5), One(3)>>, <<One(2)>>, <<One(1)>>), FALSE)
    \cup Nets(Lists(<<>>, <<One(2)>>, <<One(5), One(3)>>), FALSE)
    \cup Nets(Lists(<<One(2)>>, <<One(2)>>, <<One(1)>>), TRUE)
    \cup UNION {Straight(l) : l \in {
            Lists(<<One(1), One(3), One(2)>>, <<>>, <<One(7)>>),
            Lists(<<Span(0, 2), One(1)>>, <<>>, <<One(1)>>),
            Lists(<<One(7), Span(6, 7)>>, <<>>, <<One(5), One(0)>>),
            Lists(<<One(5), Span(2, 3), Span(1, 3)>>, <<>>, <<One(1)>>),
            Lists(<<One(4)>>, <<Span(6, 7)>>, <<One(2), One(0)>>)}}

\* An address, or a port, is given twice, with another one in between.
MCOverlapping ==
    Straight(Lists(<<One(1), One(4), One(1)>>, <<>>, <<One(1)>>))
    \cup Straight(Lists(<<One(1)>>, <<>>, <<One(0), Span(3, 4), One(0)>>))

\* A round function that looks at the round, the number and the seed.
MCRead(j, R, seed) == (seed * R * R + (seed + 1) * j + R) % 11

=============================================================================
