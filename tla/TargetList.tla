----------------------------- MODULE TargetList -----------------------------
(***************************************************************************)
(* Operators: the lists of address or port ranges of                       *)
(* thirdpart/masscan/massip-rangesv4.c (massip-rangesv6.c has the same     *)
(* code for wider addresses).  A list holds ranges in the order they were  *)
(* given; it is sorted, and its overlaps are combined, by the first pick.  *)
(***************************************************************************)
EXTENDS Integers, SequencesExt, Functions

CONSTANT TopAddress     \* 0xFFFFFFFF

ASSUME TargetListAssumption == TopAddress \in Nat

AddressRange == {r \in [begin : 0..TopAddress, end : 0..TopAddress] : r.begin <= r.end}

Members(r) == r.begin .. r.end

\* range_is_overlap: r begins before s, or at the same place, and reaches it; a
\* range that ends where the other begins touches it.
Reaches(r, s) == r.begin < s.begin /\ (r.end = TopAddress \/ r.end + 1 >= s.begin)

Overlap(r, s) ==
    \/ Reaches(r, s) \/ Reaches(s, r)
    \/ r.begin >= s.begin /\ r.end <= s.end
    \/ s.begin >= r.begin /\ s.end <= r.end

\* Faulty: the later range always says where the two end.
CombinedLast(r, s) ==
    [begin |-> IF r.begin > s.begin THEN s.begin ELSE r.begin, end |-> s.end]

Combined(r, s) ==
    [begin |-> IF r.begin > s.begin THEN s.begin ELSE r.begin,
     end   |-> IF r.end < s.end THEN s.end ELSE r.end]

EmptyList == [list |-> <<>>, is_sorted |-> FALSE]

\* rangelist_add_range looks at the last range only.
AddRange(targets, r) ==
    LET list == targets.list
    IN  IF list = <<>> THEN [list |-> <<r>>, is_sorted |-> TRUE]
        ELSE IF Overlap(Last(list), r)
        THEN [list |-> Append(Front(list), Combined(Last(list), r)), is_sorted |-> FALSE]
        ELSE [list |-> Append(list, r), is_sorted |-> FALSE]

AddAll(ranges) ==
    LET after[k \in 0..Len(ranges)] ==
            IF k = 0 THEN EmptyList ELSE AddRange(after[k - 1], ranges[k])
    IN  after[Len(ranges)]

\* qsort with range_compare; the order of ranges that begin alike is its own.
Ordered(list) ==
    LET place == CHOOSE p \in Bijection(DOMAIN list, DOMAIN list) :
                     \A j, k \in DOMAIN list : j < k => list[p[j]].begin <= list[p[k]].begin
    IN  [k \in DOMAIN list |-> list[place[k]]]

\* rangelist_sort: sorted by begin and added again to a new list.
Sorted(targets) ==
    IF targets.list = <<>> \/ targets.is_sorted
    THEN [targets EXCEPT !.is_sorted = TRUE]
    ELSE [list |-> AddAll(Ordered(targets.list)).list, is_sorted |-> TRUE]

\* How many members the ranges up to each of a list have.
UpTo(list) ==
    LET sum[k \in 0..Len(list)] ==
            IF k = 0 THEN 0 ELSE sum[k - 1] + list[k].end - list[k].begin + 1
    IN  sum

\* rangelist_count
Count(targets) == UpTo(targets.list)[Len(targets.list)]

\* What pick returns past the end, unless its assertion is compiled in.
EndOfList == -1

\* rangelist_pick_linearsearch
PickLinear(list, index) ==
    LET hits == {k \in DOMAIN list : index - UpTo(list)[k - 1] \in 0..(list[k].end - list[k].begin)}
    IN  IF hits = {} THEN EndOfList
        ELSE LET k == CHOOSE k \in hits : TRUE IN list[k].begin + index - UpTo(list)[k - 1]

\* rangelist_pick, which sorts first.
Pick(targets, index) == PickLinear(Sorted(targets).list, index)

=============================================================================
