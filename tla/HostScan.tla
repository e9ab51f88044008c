------------------------------- MODULE HostScan -------------------------------
(***************************************************************************)
(* The stateless scanner of thirdpart/masscan/hostscan.c: the thread that  *)
(* sends probes, the thread that receives the answers, and the caller that *)
(* starts both, waits and joins them (resolve_mac_address for the ARP      *)
(* scan, HostsTask::Execute for the port scan).                            *)
(*                                                                         *)
(* send_done and recv_done are bit fields of one word, and each thread     *)
(* sets its bit with a load and a store of the whole word, without a lock: *)
(* a data race, modelled by the two accesses.  The network may lose, delay *)
(* and repeat answers.                                                     *)
(***************************************************************************)
EXTENDS Integers, FiniteSets, Functions

CONSTANTS
    Networks,   \* the tasks that are scanned, records as in NetworkAssumption
    WaitPolls,  \* how often resolve_mac_address polls recv_done
    MaxAnswers  \* bound on the packets that reach the receiver

\* The probes of a task are numbered 0..range-1, IPv6 first; an index i is a
\* target's address (i % count) and port (i \div count), so that an index is as
\* good as the address.
Slots(n) == 0..(n.range - 1)

\* count_ipv4, count_ipv6 and the number of ports give range and range_ipv6;
\* shuffle is what blackrock_shuffle does, a permutation of the indices, and
\* hash is the bucket of the duplicate table a target falls in.
NetworkAssumption(n) ==
    /\ n.range \in Nat \ {0} /\ n.range6 \in 0..n.range /\ n.rate \in Nat /\ n.arp \in BOOLEAN
    /\ n.shuffle \in Bijection(Slots(n), Slots(n))
    /\ DOMAIN n.hash = Slots(n)

ASSUME HostScanAssumption ==
    WaitPolls \in Nat /\ MaxAnswers \in Nat /\ \A n \in Networks : NetworkAssumption(n)

VARIABLES
    net,                 \* the task being scanned
    bits,                \* the bit-field word: subset of {"send_done", "recv_done"}
    shutdown,
    spc, i, pass, sword, \* send_thread: place, index, passes begun, word loaded
    probes,              \* how often each target was probed
    rpc, rword, seen,    \* recv_thread: place, word loaded, the duplicate table
    arp,                 \* count.arp
    answers,             \* packets received so far
    reported,            \* how often an answer of a target passed the table
    wpc, polls           \* the caller: place, polls of recv_done so far

netVars  == <<net, answers>>
sendVars == <<spc, i, pass, sword, probes>>
recvVars == <<rpc, rword, seen, arp, reported>>
waitVars == <<wpc, polls>>
vars == <<netVars, bits, shutdown, sendVars, recvVars, waitVars>>

Word == SUBSET {"send_done", "recv_done"}

\* init_host_scan_task: total_count adds the IPv6 probes to a range that holds
\* them already.
Total(n) == n.range + n.range6

\* start_host_scan_task
Init ==
    /\ net \in Networks /\ bits = {} /\ shutdown = FALSE
    /\ spc = "loop" /\ i = 0 /\ pass = 0 /\ sword = {} /\ probes = [t \in Slots(net) |-> 0]
    /\ rpc = "loop" /\ rword = {} /\ seen = {} /\ arp = 0
    /\ answers = 0 /\ reported = [t \in Slots(net) |-> 0]
    /\ wpc = "send" /\ polls = 0

-----------------------------------------------------------------------------
(* send_thread                                                             *)

\* The target of the k-th probe of a pass.
Target(n, k) == n.shuffle[(k + n.rate) % n.range]

\* Faulty: the thread does not look at shutdown.
SendLoopDeaf ==
    /\ spc = "loop" /\ spc' = "test"
    /\ UNCHANGED <<netVars, bits, shutdown, i, pass, sword, probes, recvVars, waitVars>>

SendLoop ==
    /\ spc = "loop"
    /\ spc' = IF shutdown THEN "exit" ELSE "test"
    /\ UNCHANGED <<netVars, bits, shutdown, i, pass, sword, probes, recvVars, waitVars>>

\* With send_done set the thread only flushes the stack and looks again.
SendTest ==
    /\ spc = "test"
    /\ IF "send_done" \in bits
       THEN spc' = "loop" /\ UNCHANGED <<i, pass>>
       ELSE spc' = "probe" /\ i' = 0 /\ pass' = pass + 1
    /\ UNCHANGED <<netVars, bits, shutdown, sword, probes, recvVars, waitVars>>

Probe ==
    /\ spc = "probe" /\ i < Total(net)
    /\ probes' = [probes EXCEPT ![Target(net, i)] = @ + 1]
    /\ i' = i + 1
    /\ UNCHANGED <<netVars, bits, shutdown, spc, pass, sword, recvVars, waitVars>>

\* send_done = 1, the load ...
SendLoad ==
    /\ spc = "probe" /\ i = Total(net)
    /\ sword' = bits /\ spc' = "store"
    /\ UNCHANGED <<netVars, bits, shutdown, i, pass, probes, recvVars, waitVars>>

\* Faulty: send_done is set for the first pass only.
SendStoreOnce ==
    /\ spc = "store"
    /\ bits' = (IF pass = 1 THEN sword \cup {"send_done"} ELSE sword) /\ spc' = "loop"
    /\ UNCHANGED <<netVars, shutdown, i, pass, sword, probes, recvVars, waitVars>>

\* ... and the store.
SendStore ==
    /\ spc = "store"
    /\ bits' = sword \cup {"send_done"} /\ spc' = "loop"
    /\ UNCHANGED <<netVars, shutdown, i, pass, sword, probes, recvVars, waitVars>>

Sender == SendLoop \/ SendTest \/ Probe \/ SendLoad \/ SendStore

-----------------------------------------------------------------------------
(* recv_thread                                                             *)

RecvLoop ==
    /\ rpc = "loop"
    /\ rpc' = IF shutdown THEN "exit" ELSE "recv"
    /\ UNCHANGED <<netVars, bits, shutdown, sendVars, rword, seen, arp, reported, waitVars>>

\* rawsock_recv_packet returns without a packet.
NoPacket ==
    /\ rpc = "recv" /\ rpc' = "loop"
    /\ UNCHANGED <<netVars, bits, shutdown, sendVars, rword, seen, arp, reported, waitVars>>

\* In an ARP scan an IPv4 target may answer, asked or not; in a port scan the
\* sequence number shows that it was probed.
Answerable == IF net.arp THEN {t \in Slots(net) : t >= net.range6}
                         ELSE {t \in Slots(net) : probes[t] > 0}

\* Faulty: one bucket for all targets.
RememberLast(t) == {t}

\* dedup_is_duplicate: memmove shifts a bucket towards its first entry, which
\* the new one then overwrites, so a bucket remembers its last target only.
Remember(t) == {s \in seen : net.hash[s] # net.hash[t]} \cup {t}

Duplicate ==
    /\ rpc = "recv" /\ answers < MaxAnswers
    /\ \E t \in Answerable : t \in seen
    /\ answers' = answers + 1 /\ rpc' = "loop"
    /\ UNCHANGED <<net, bits, shutdown, sendVars, rword, seen, arp, reported, waitVars>>

\* Faulty: duplicates are not looked for.
AnswerAgain ==
    /\ rpc = "recv" /\ answers < MaxAnswers
    /\ \E t \in Answerable :
        /\ seen' = Remember(t) /\ reported' = [reported EXCEPT ![t] = @ + 1]
        /\ arp' = IF net.arp THEN arp + 1 ELSE arp
    /\ rpc' = IF net.arp /\ arp' = Total(net) THEN "load" ELSE "loop"
    /\ answers' = answers + 1
    /\ UNCHANGED <<net, bits, shutdown, sendVars, rword, waitVars>>

\* The first answer of a target, or one the table has forgotten.  When as many
\* ARP answers as probes were counted, recv_done = 1 follows: the load ...
Answer ==
    /\ rpc = "recv" /\ answers < MaxAnswers
    /\ \E t \in Answerable \ seen :
        /\ seen' = Remember(t) /\ reported' = [reported EXCEPT ![t] = @ + 1]
        /\ arp' = IF net.arp THEN arp + 1 ELSE arp
    /\ rpc' = IF net.arp /\ arp' = Total(net) THEN "load" ELSE "loop"
    /\ answers' = answers + 1
    /\ UNCHANGED <<net, bits, shutdown, sendVars, rword, waitVars>>

RecvLoad ==
    /\ rpc = "load"
    /\ rword' = bits /\ rpc' = "store"
    /\ UNCHANGED <<netVars, bits, shutdown, sendVars, seen, arp, reported, waitVars>>

\* ... and the store.
RecvStore ==
    /\ rpc = "store"
    /\ bits' = rword \cup {"recv_done"} /\ rpc' = "loop"
    /\ UNCHANGED <<netVars, shutdown, sendVars, rword, seen, arp, reported, waitVars>>

Receiver == RecvLoop \/ NoPacket \/ Duplicate \/ Answer \/ RecvLoad \/ RecvStore

-----------------------------------------------------------------------------
(* The caller.                                                             *)

\* while (!task->send_done) sleep
WaitSend ==
    /\ wpc = "send" /\ "send_done" \in bits
    /\ wpc' = "wait"
    /\ UNCHANGED <<netVars, bits, shutdown, sendVars, recvVars, polls>>

\* resolve_mac_address polls recv_done until its timeout; the port scan sleeps.
WaitRecv ==
    /\ wpc = "wait"
    /\ IF net.arp /\ "recv_done" \notin bits /\ polls < WaitPolls
       THEN polls' = polls + 1 /\ UNCHANGED wpc
       ELSE wpc' = "stop" /\ UNCHANGED polls
    /\ UNCHANGED <<netVars, bits, shutdown, sendVars, recvVars>>

\* join_host_scan_task
Stop ==
    /\ wpc = "stop"
    /\ shutdown' = TRUE /\ wpc' = "join"
    /\ UNCHANGED <<netVars, bits, sendVars, recvVars, polls>>

Join ==
    /\ wpc = "join" /\ rpc = "exit" /\ spc = "exit"
    /\ wpc' = "done"
    /\ UNCHANGED <<netVars, bits, shutdown, sendVars, recvVars, polls>>

Caller == WaitSend \/ WaitRecv \/ Stop \/ Join

-----------------------------------------------------------------------------
Next == Sender \/ Receiver \/ Caller
Spec == Init /\ [][Next]_vars

\* Each of the three threads is scheduled; nothing is assumed of the network.
FairSpec == Spec /\ WF_vars(Sender) /\ WF_vars(Receiver) /\ WF_vars(Caller)

-----------------------------------------------------------------------------
(* Properties                                                              *)

TypeOK ==
    /\ net \in Networks /\ bits \in Word /\ shutdown \in BOOLEAN
    /\ spc \in {"loop", "test", "probe", "store", "exit"} /\ sword \in Word
    /\ i \in 0..Total(net) /\ pass \in Nat /\ probes \in [Slots(net) -> Nat]
    /\ rpc \in {"loop", "recv", "load", "store", "exit"} /\ rword \in Word
    /\ seen \subseteq Slots(net) /\ arp \in Nat
    /\ answers \in 0..MaxAnswers /\ reported \in [Slots(net) -> Nat]
    /\ wpc \in {"send", "wait", "stop", "join", "done"} /\ polls \in 0..WaitPolls

\* When a caller sees send_done (taskmgr.cc:172, hostscan.c:875) every target
\* has been probed, whatever the rate, the shuffle and the race on the word.
AllSlotsProbed == \A t \in Slots(net) : probes[t] > 0
AllProbed == "send_done" \in bits => AllSlotsProbed

Collision == \E s, t \in Slots(net) : s # t /\ net.hash[s] = net.hash[t]

\* recv_done ends the wait of resolve_mac_address early (hostscan.c:879): then
\* every target has answered, unless two of them share a bucket of the duplicate
\* table, where alternating answers are counted twice.
RecvDoneHonest ==
    "recv_done" \in bits => Collision \/ \A t \in Slots(net) : reported[t] > 0

\* An answer is reported at most once (main-dedup.c), with the same exception.
ReportedOnce == Collision \/ \A t \in Slots(net) : reported[t] <= 1

\* The sender never looks at shutdown inside a pass: an update of send_done lost
\* to the receiver's store costs one more pass.  It never costs two, and never
\* happens in a port scan.
RepeatsBounded == pass <= (IF net.arp THEN 2 ELSE 1)

-----------------------------------------------------------------------------
(* The inductive invariant (checked by TLC too).                           *)

Done(flag) == flag \in bits \cup sword \cup rword
Idle == spc \in {"loop", "test", "exit"}

\* Inside a pass the targets of the indices passed have been probed, and the bit
\* is set, or loaded, only when all have.
ProbeInv ==
    /\ spc \in {"probe", "store"} => \A k \in 0..(i-1) : probes[Target(net, k)] > 0
    /\ spc = "store" => i = Total(net)
    /\ Done("send_done") => AllSlotsProbed
    /\ pass = 0 => Idle /\ \A t \in Slots(net) : probes[t] = 0

\* recv_done is stored once, when the count reaches Total; only that store can
\* take send_done away.
Spent == net.arp /\ arp >= Total(net) /\ rpc \notin {"load", "store"}

PassInv ==
    /\ rpc \in {"load", "store"} => net.arp /\ arp = Total(net)
    /\ pass = 0 => "send_done" \notin bits \cup rword
    /\ pass > 0 /\ Idle /\ "send_done" \notin bits => Spent /\ pass = 1
    /\ pass > 1 => Spent
    /\ pass <= 2

\* Without a collision the table is the set of the targets that have answered.
AnswerInv ==
    /\ seen \subseteq {t \in Slots(net) : net.arp => t >= net.range6}
    /\ ~Collision => /\ \A t \in Slots(net) : reported[t] = IF t \in seen THEN 1 ELSE 0
                     /\ net.arp => arp = Cardinality(seen)
    /\ Done("recv_done") \/ rpc = "store" => net.arp /\ arp >= Total(net)

IndInv == TypeOK /\ ProbeInv /\ PassInv /\ AnswerInv

-----------------------------------------------------------------------------
\* A scan ends: the caller's wait and its joins return.
CallerReturns == <>(wpc = "done")

=============================================================================
