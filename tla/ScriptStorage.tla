---------------------------- MODULE ScriptStorage ----------------------------
(***************************************************************************)
(* The knowledge base of one host (class support::ScriptStorage).  A       *)
(* storage maps each name to the list of its distinct values, in the order *)
(* they were stored; the empty list is a name that was never stored.       *)
(***************************************************************************)
EXTENDS Integers, Sequences, Functions

CONSTANTS Name, Value,
          Null          \* what GetItem returns for an unknown name

ASSUME NullAssumption == Null \notin Value

Storage == [Name -> Seq(Value)]

EmptyStorage == [n \in Name |-> <<>>]

\* GetItem: pos counts from 0; a negative or too large one means the last item.
GetItem(s, n, pos) ==
    IF s[n] = <<>> THEN Null
    ELSE IF pos < 0 \/ pos >= Len(s[n]) THEN s[n][Len(s[n])]
    ELSE s[n][pos + 1]

GetItemSize(s, n) == Len(s[n])

\* SetItem: a value already in the list is not added again.
Added(list, v) == IF v \in Range(list) THEN list ELSE Append(list, v)
SetItem(s, n, v) == [s EXCEPT ![n] = Added(@, v)]

ReplaceItem(s, n, v) == [s EXCEPT ![n] = <<v>>]

\* Combine: every item of the other storage through SetItem.
AddedAll(list, more) ==
    LET after[k \in 0..Len(more)] == IF k = 0 THEN list ELSE Added(after[k - 1], more[k])
    IN  after[Len(more)]
Combine(s, from) == [n \in Name |-> AddedAll(s[n], from[n])]

\* A storage without duplicates, which every operation keeps.
NoDuplicates(s) == \A n \in Name : IsInjective(s[n])

=============================================================================
