------------------------------- MODULE ScanTask -------------------------------
(***************************************************************************)
(* What a scan task promises to its caller, without counters, lists or     *)
(* flags: hosts are started one permission at a time, no permission is     *)
(* given once the task is cancelled, a permission already given may still  *)
(* be used, and the task closes only when every started host has finished. *)
(***************************************************************************)
EXTENDS FiniteSets

CONSTANT Host

VARIABLES
    open,        \* the task has begun and has not closed
    closed,
    cancelled,
    granted,     \* the permission in hand: at most one host
    launched,
    finished

vars == <<open, closed, cancelled, granted, launched, finished>>

Init ==
    /\ open = FALSE /\ closed = FALSE /\ cancelled = FALSE
    /\ granted = {} /\ launched = {} /\ finished = {}

Begin ==
    /\ ~open /\ ~closed
    /\ open' = TRUE
    /\ UNCHANGED <<closed, cancelled, granted, launched, finished>>

Cancel ==
    /\ open \/ closed
    /\ cancelled' = TRUE
    /\ UNCHANGED <<open, closed, granted, launched, finished>>

Grant(h) ==
    /\ open /\ ~cancelled /\ granted = {} /\ h \notin launched
    /\ granted' = {h}
    /\ UNCHANGED <<open, closed, cancelled, launched, finished>>

Launch(h) ==
    /\ h \in granted
    /\ granted' = {} /\ launched' = launched \cup {h}
    /\ UNCHANGED <<open, closed, cancelled, finished>>

Finish(h) ==
    /\ h \in launched \ finished
    /\ finished' = finished \cup {h}
    /\ UNCHANGED <<open, closed, cancelled, granted, launched>>

Close ==
    /\ open /\ granted = {} /\ finished = launched
    /\ open' = FALSE /\ closed' = TRUE
    /\ UNCHANGED <<cancelled, granted, launched, finished>>

Next ==
    \/ Begin \/ Cancel \/ Close
    \/ \E h \in Host : Grant(h) \/ Launch(h) \/ Finish(h)

Spec == Init /\ [][Next]_vars

=============================================================================
