---------------------------- MODULE ServiceDetect ----------------------------
(***************************************************************************)
(* The service detection of one host (HostsTask::TCPDetectService): the    *)
(* open ports are dealt out to threads, each thread runs the detection     *)
(* script on a clone of the host's storage, and the host thread joins them *)
(* and combines the clones.                                                *)
(*                                                                         *)
(* All the ports of a thread share one execution of the script, and its    *)
(* time limit: an exception on one port ends the thread, and as Execute    *)
(* has noted its success by then, nobody hears of it.                      *)
(***************************************************************************)
EXTENDS ScriptStorage, SequencesExt, FiniteSetsExt

CONSTANTS
    TCPPorts,       \* of the TCB, in the order the port scan found them
    ThreadCount,    \* service_detection_thread_count
    Before,         \* the storage when detection begins: credentials
    Finds           \* the calls that detect_tcp_service makes for each port

VARIABLES
    exit,       \* TCB::Exit, written by others
    at,         \* of the host thread: idle, join, done
    storage,    \* TCB::Storage
    threads,    \* of each thread: where it is, the ports it has left, its storage
    examined,   \* history: how often each port was examined to its end
    failed      \* history: the ports on which an exception ended a thread

detectVars == <<at, storage, threads, examined, failed>>

Init ==
    /\ exit = FALSE
    /\ at = "idle" /\ storage = Before /\ threads = <<>>
    /\ examined = [p \in Range(TCPPorts) |-> 0] /\ failed = {}

Written(s, call) ==
    IF call.op = "set" THEN SetItem(s, call.name, call.value)
                       ELSE ReplaceItem(s, call.name, call.value)

WrittenAll(s, calls) ==
    LET after[k \in 0..Len(calls)] == IF k = 0 THEN s ELSE Written(after[k - 1], calls[k])
    IN  after[Len(calls)]

-----------------------------------------------------------------------------
(* Faulty variants, substituted for definitions below.                     *)

\* As many ports for each thread as divide evenly.
DealEven(n) ==
    LET size == Len(TCPPorts) \div n
    IN  [i \in 1..n |-> SubSeq(TCPPorts, (i - 1) * size + 1, i * size)]

\* The clones of a name replace what was there.
CombineAllReplaces(s, clones) ==
    FoldLeft(LAMBDA t, from : [m \in Name |-> IF from[m] = <<>> THEN t[m] ELSE from[m]],
             s, clones)

-----------------------------------------------------------------------------

\* No more threads than ports.
ThreadTotal == Min({Len(TCPPorts), ThreadCount})

\* groups[i % thread_count].push_back(ports[i])
Deal(n) ==
    [i \in 1..n |-> [k \in 1..((Len(TCPPorts) - i) \div n + 1) |-> TCPPorts[(k - 1) * n + i]]]

CombineAll(s, clones) ==
    LET after[k \in 0..Len(clones)] == IF k = 0 THEN s ELSE Combine(after[k - 1], clones[k])
    IN  after[Len(clones)]

\* The threads get clones, so that it does not matter that the first ones run
\* while the others are being started.
StartThreads ==
    /\ at = "idle"
    /\ LET groups == Deal(ThreadTotal)
       IN  threads' = [i \in 1..ThreadTotal |->
                        [at |-> "enter", ports |-> groups[i], storage |-> storage]]
    /\ at' = "join"
    /\ UNCHANGED <<storage, examined, failed>>

\* OnScriptEntryExecuted, and its test between two ports.
TestExit(i) ==
    /\ threads[i].at \in {"enter", "test"}
    /\ threads' = [threads EXCEPT ![i].at = IF exit THEN "end" ELSE "port"]
    /\ UNCHANGED <<at, storage, examined, failed>>

DetectPort(i) ==
    /\ threads[i].at = "port" /\ threads[i].ports # <<>>
    /\ LET port == Head(threads[i].ports) IN
       /\ threads' = [threads EXCEPT ![i] =
                        [at |-> "test", ports |-> Tail(@.ports),
                         storage |-> WrittenAll(@.storage, Finds[port])]]
       /\ examined' = [examined EXCEPT ![port] = @ + 1]
    /\ UNCHANGED <<at, storage, failed>>

\* A RuntimeException, the time limit among them; what was written before stays.
ThreadFail(i) ==
    /\ threads[i].at = "port" /\ threads[i].ports # <<>>
    /\ LET port == Head(threads[i].ports) IN
       /\ \E k \in 0..Len(Finds[port]) :
            threads' = [threads EXCEPT ![i] =
                [at |-> "end", ports |-> @.ports,
                 storage |-> WrittenAll(@.storage, SubSeq(Finds[port], 1, k))]]
       /\ failed' = failed \cup {port}
    /\ UNCHANGED <<at, storage, examined>>

ThreadEnd(i) ==
    /\ threads[i].at = "port" /\ threads[i].ports = <<>>
    /\ threads' = [threads EXCEPT ![i].at = "end"]
    /\ UNCHANGED <<at, storage, examined, failed>>

\* Joined in order; then the clones are combined in the order of the threads.
JoinThreads ==
    /\ at = "join"
    /\ \A i \in DOMAIN threads : threads[i].at = "end"
    /\ storage' = CombineAll(storage, [i \in DOMAIN threads |-> threads[i].storage])
    /\ at' = "done"
    /\ UNCHANGED <<threads, examined, failed>>

Detect ==
    \/ StartThreads \/ JoinThreads
    \/ \E i \in DOMAIN threads : TestExit(i) \/ DetectPort(i) \/ ThreadFail(i) \/ ThreadEnd(i)

-----------------------------------------------------------------------------
(* What detection promises.                                                *)

\* The ports a failed thread still had before it when it failed.
Lost == UNION {Range(threads[i].ports) : i \in {j \in DOMAIN threads :
                    threads[j].ports # <<>> /\ Head(threads[j].ports) \in failed}}

\* No port is left out when nobody stopped the host, but for those of a thread
\* that failed; none is examined twice (groups, TCPDetectService).
PortsExamined ==
    /\ \A p \in Range(TCPPorts) : examined[p] <= 1
    /\ at = "done" /\ ~exit =>
            \A p \in Range(TCPPorts) : examined[p] = 1 <=> p \notin Lost

\* What one thread leaves that examines these of the open ports, in their order.
InOrder(ports) ==
    LET after[k \in 0..Len(TCPPorts)] ==
            IF k = 0 THEN Before
            ELSE IF TCPPorts[k] \in ports THEN WrittenAll(after[k - 1], Finds[TCPPorts[k]])
            ELSE after[k - 1]
    IN  after[Len(TCPPorts)]

OneAfterTheOther == InOrder(Range(TCPPorts))

\* What the calls for one port store under a name, the last replace and after; and
\* what was or is stored under it by anybody.
LeftBy(p, n) == Range(WrittenAll(EmptyStorage, Finds[p])[n])
EverStored(n) == Range(Before[n]) \cup UNION {LeftBy(p, n) : p \in Range(TCPPorts)}

Replaces(p, n) == \E k \in DOMAIN Finds[p] : Finds[p][k].op # "set" /\ Finds[p][k].name = n

\* A port replaces the name, while another or an earlier script stores something
\* else under it: the names the script builds without the port, when ports differ
\* (Known/tcp/, pop3/banner/).
Contested(n) == \E p \in Range(TCPPorts) : Replaces(p, n) /\ LeftBy(p, n) # EverStored(n)

\* When every port was examined, dealing out, cloning and combining have lost no
\* item that one thread would have left, and invented none.  Under a contested name
\* values stay that one thread would have replaced; under all others the items are
\* exactly those of one thread (TCPDetectService, Clone, Combine).
DetectedLikeOneThread ==
    at = "done" /\ (\A p \in Range(TCPPorts) : examined[p] = 1) =>
        /\ NoDuplicates(storage)
        /\ \A n \in Name :
            /\ Range(OneAfterTheOther[n]) \subseteq Range(storage[n])
            /\ Range(storage[n]) \subseteq EverStored(n)
            /\ ~Contested(n) => Range(storage[n]) = Range(OneAfterTheOther[n])

-----------------------------------------------------------------------------
(* The inductive invariants behind them.                                   *)

Thread == [at : {"enter", "test", "port", "end"}, ports : Seq(Range(TCPPorts)),
           storage : Storage]

DetectTypeOK ==
    /\ at \in {"idle", "join", "done"}
    /\ storage \in Storage
    /\ \E n \in Nat : threads \in [1..n -> Thread]
    /\ examined \in [Range(TCPPorts) -> Nat]
    /\ failed \subseteq Range(TCPPorts)

\* A port is examined, or it is left to one thread, in one place; a thread ends
\* with ports left only when the host was stopped or the first of them failed.
LeftInv ==
    /\ at = "idle" => threads = <<>> /\ \A p \in Range(TCPPorts) : examined[p] = 0
    /\ at # "idle" => \A p \in Range(TCPPorts) :
            examined[p] = IF \E i \in DOMAIN threads : p \in Range(threads[i].ports) THEN 0 ELSE 1
    /\ \A i \in DOMAIN threads :
        /\ IsInjective(threads[i].ports)
        /\ \A j \in DOMAIN threads \ {i} :
                Range(threads[i].ports) \cap Range(threads[j].ports) = {}
        /\ at = "done" => threads[i].at = "end"
        /\ threads[i].at = "end" /\ ~exit =>
                threads[i].ports = <<>> \/ Head(threads[i].ports) \in failed

Earlier(p, q) ==
    \E x, y \in DOMAIN TCPPorts : TCPPorts[x] = p /\ TCPPorts[y] = q /\ x < y

\* A thread examines its ports in the order of the scan, and unless it has failed
\* its clone is what they leave in that order; the clones are combined.
FoundInv ==
    /\ at # "done" => storage = Before
    /\ at # "idle" => DOMAIN threads = 1..ThreadTotal
    /\ NoDuplicates(storage)
    /\ \A i \in DOMAIN threads :
        LET left == threads[i].ports
            dealt == Range(Deal(ThreadTotal)[i])
        IN  /\ NoDuplicates(threads[i].storage)
            /\ Range(left) \subseteq dealt
            /\ \A k, l \in DOMAIN left : k < l => Earlier(left[k], left[l])
            /\ \A p \in dealt \ Range(left), q \in Range(left) : Earlier(p, q)
            /\ \/ threads[i].at = "end" /\ left # <<>>
               \/ threads[i].storage = InOrder(dealt \ Range(left))
    /\ at = "done" =>
            \A n \in Name : Range(storage[n])
                = Range(Before[n]) \cup UNION {Range(threads[i].storage[n]) : i \in DOMAIN threads}

DetectInv == DetectTypeOK /\ LeftInv /\ FoundInv

=============================================================================
