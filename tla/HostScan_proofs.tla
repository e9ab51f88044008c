---------------------------- MODULE HostScan_proofs ----------------------------
(***************************************************************************)
(* Proofs about HostScan, for any networks, rates, shuffles and bounds,    *)
(* and about TargetScan, for any lists of ranges, seeds and round function *)
(* of the cipher, with the lemmas about TargetList and Blackrock it needs. *)
(***************************************************************************)
EXTENDS TargetScan, FiniteSetTheorems, SequenceTheorems, WellFoundedInduction, TLAPS

-----------------------------------------------------------------------------
(* Remainders.                                                             *)

LEMMA IntDivMod ==
  ASSUME NEW n \in Nat \ {0}, NEW x \in Int
  PROVE  /\ x % n \in 0..(n - 1) /\ x \div n \in Int
         /\ x = n * (x \div n) + (x % n)
OBVIOUS

\* No multiple of n but 0 lies between -n and n.
LEMMA SmallMultiple ==
  ASSUME NEW n \in Nat \ {0}, NEW q \in Int, -n < n * q, n * q < n
  PROVE  q = 0
<1>1. CASE q >= 1
  <2>1. n * q >= n
    BY <1>1
  <2> QED BY <2>1
<1>2. CASE q <= -1
  <2>1. n * q <= -n
    BY <1>2
  <2> QED BY <2>1
<1> QED BY <1>1, <1>2

LEMMA IntModUnique ==
  ASSUME NEW n \in Nat \ {0}, NEW q \in Int, NEW r \in 0..(n - 1), NEW x \in Int, x = n * q + r
  PROVE  x % n = r /\ x \div n = q
<1> DEFINE p == x \div n
           s == x % n
<1>1. s \in 0..(n - 1) /\ p \in Int /\ x = n * p + s
  BY IntDivMod
<1> HIDE DEF p, s
<1>2. n * (p - q) = r - s
  BY <1>1
<1>3. p - q = 0
  BY <1>1, <1>2, SmallMultiple
<1> QED BY <1>1, <1>2, <1>3 DEF p, s

\* What is added to a remainder can be taken away again, and the other way round.
LEMMA AddSubtract ==
  ASSUME NEW n \in Nat \ {0}, NEW y \in 0..(n - 1), NEW x \in Int
  PROVE  (((y + x) % n) - x) % n = y /\ (((y - x) % n) + x) % n = y
<1> DEFINE r == (y + x) % n
           q == (y + x) \div n
           s == (y - x) % n
           t == (y - x) \div n
<1>1. /\ r \in 0..(n - 1) /\ q \in Int /\ y + x = n * q + r
      /\ s \in 0..(n - 1) /\ t \in Int /\ y - x = n * t + s
  <2>1. y + x \in Int /\ y - x \in Int
    OBVIOUS
  <2> QED BY <2>1, IntDivMod
<1> HIDE DEF r, q, s, t
<1>2. r - x \in Int /\ -q \in Int /\ r - x = n * (-q) + y
  BY <1>1
<1>3. s + x \in Int /\ -t \in Int /\ s + x = n * (-t) + y
  BY <1>1
<1>4. (r - x) % n = y
  BY <1>2, IntModUnique
<1>5. (s + x) % n = y
  BY <1>3, IntModUnique
<1> QED BY <1>4, <1>5 DEF r, s

-----------------------------------------------------------------------------
(* The order of the probes.                                                *)

LEMMA DivMod ==
    ASSUME NEW R \in Nat \ {0}, NEW x \in Nat
    PROVE  \E q \in Nat, m \in 0..(R-1) : m = x % R /\ x = R * q + m
<1> DEFINE q == x \div R
           m == x % R
<1>1. q \in Nat /\ m \in 0..(R-1) /\ x = R * q + m
  OBVIOUS
<1> QED BY <1>1

\* The rate turns the indices round: every place is reached by an index below R.
LEMMA Rotation ==
    ASSUME NEW R \in Nat \ {0}, NEW r \in Nat, NEW j \in 0..(R-1)
    PROVE  \E k \in 0..(R-1) : (k + r) % R = j
<1>1. PICK q \in Nat, m \in 0..(R-1) : m = r % R /\ r = R * q + m
  BY DivMod
<1>2. CASE j >= m
  <2>1. j - m \in 0..(R-1) /\ (j - m) + r \in Nat
    BY <1>1, <1>2
  <2>2. (j - m) + r = R * q + j
    <3>1. R * q \in Int
      BY <1>1
    <3> QED BY <1>1, <3>1
  <2>3. ((j - m) + r) % R = j
    <3>1. q \in Int /\ (j - m) + r \in Int
      BY <1>1, <2>1
    <3> QED BY <3>1, <2>2, IntModUnique
  <2> QED BY <2>1, <2>3
<1>3. CASE j < m
  <2>1. (j - m) + R \in 0..(R-1) /\ ((j - m) + R) + r \in Nat
    BY <1>1, <1>3
  <2>2. ((j - m) + R) + r = R * (q + 1) + j
    <3>1. R * (q + 1) = R * q + R /\ R * q \in Int
      BY <1>1
    <3> QED BY <1>1, <3>1
  <2>3. (((j - m) + R) + r) % R = j
    <3>1. q + 1 \in Int /\ ((j - m) + R) + r \in Int
      BY <1>1, <2>1
    <3> QED BY <3>1, <2>2, IntModUnique
  <2> QED BY <2>1, <2>3
<1> QED BY <1>1, <1>2, <1>3

\* A pass over Total indices leaves no target out.
LEMMA PassCovers ==
    ASSUME NEW n \in Networks, NEW t \in Slots(n)
    PROVE  \E k \in 0..(Total(n) - 1) : Target(n, k) = t
<1>1. n.range \in Nat \ {0} /\ n.range6 \in Nat /\ n.rate \in Nat
      /\ n.shuffle \in Surjection(Slots(n), Slots(n))
  BY HostScanAssumption DEF NetworkAssumption, Bijection
<1>2. PICK j \in 0..(n.range - 1) : n.shuffle[j] = t
  BY <1>1 DEF Surjection, Slots
<1>3. PICK k \in 0..(n.range - 1) : (k + n.rate) % n.range = j
  BY <1>1, <1>2, Rotation
<1>4. k \in 0..(Total(n) - 1)
  BY <1>1, <1>3 DEF Total
<1> QED BY <1>2, <1>3, <1>4 DEF Target

LEMMA TargetType ==
    ASSUME NEW n \in Networks, NEW k \in Nat
    PROVE  Target(n, k) \in Slots(n)
<1>1. n.range \in Nat \ {0} /\ n.rate \in Nat /\ n.shuffle \in [Slots(n) -> Slots(n)]
  BY HostScanAssumption DEF NetworkAssumption, Bijection, Surjection
<1>2. (k + n.rate) % n.range \in 0..(n.range - 1)
  BY <1>1
<1> QED BY <1>1, <1>2 DEF Target, Slots

LEMMA NetType ==
    ASSUME NEW n \in Networks
    PROVE  /\ n.range \in Nat \ {0} /\ n.range6 \in 0..n.range /\ n.arp \in BOOLEAN
           /\ Total(n) \in Nat \ {0} /\ Total(n) >= n.range
BY HostScanAssumption DEF NetworkAssumption, Total
LEMMA SlotsFinite ==
    ASSUME NEW n \in Networks
    PROVE  IsFiniteSet(Slots(n)) /\ Cardinality(Slots(n)) = n.range
<1>1. n.range \in Nat \ {0}
  BY NetType
<1>2. IsFiniteSet(0..(n.range - 1)) /\ Cardinality(0..(n.range - 1)) = n.range
  <2>1. 0 \in Int /\ n.range - 1 \in Int /\ ~(0 > n.range - 1) /\ (n.range - 1) - 0 + 1 = n.range
    BY <1>1
  <2>2. /\ IsFiniteSet(0..(n.range - 1))
        /\ Cardinality(0..(n.range - 1)) =
              IF 0 > n.range - 1 THEN 0 ELSE (n.range - 1) - 0 + 1
    BY <2>1, FS_Interval
  <2> QED BY <2>1, <2>2
<1> QED BY <1>2 DEF Slots

-----------------------------------------------------------------------------
(* Type correctness                                                        *)

LEMMA TypeInit == ASSUME Init PROVE TypeOK
<1>1. Total(net) \in Nat
  BY NetType DEF Init
<1>2. /\ net \in Networks /\ bits \in Word /\ shutdown \in BOOLEAN /\ sword \in Word
      /\ spc \in {"loop", "test", "probe", "store", "exit"} /\ rword \in Word
      /\ rpc \in {"loop", "recv", "load", "store", "exit"}
      /\ wpc \in {"send", "wait", "stop", "join", "done"}
  BY DEF Init, Word
<1>3. i \in 0..Total(net) /\ answers \in 0..MaxAnswers /\ polls \in 0..WaitPolls
      /\ pass \in Nat /\ arp \in Nat
  BY <1>1, HostScanAssumption DEF Init
<1>4. probes \in [Slots(net) -> Nat] /\ reported \in [Slots(net) -> Nat] /\ seen \subseteq Slots(net)
  BY DEF Init
<1> QED BY <1>2, <1>3, <1>4 DEF TypeOK

LEMMA TypeStep == ASSUME TypeOK, [Next]_vars PROVE TypeOK'
<1>1. net \in Networks /\ Total(net) \in Nat
  BY NetType DEF TypeOK
<1>2. net' = net
  BY DEF Next, Sender, Receiver, Caller, vars, netVars, SendLoop, SendTest, Probe, SendLoad,
    SendStore, RecvLoop, NoPacket, Duplicate, Answer, RecvLoad, RecvStore, WaitSend, WaitRecv,
    Stop, Join
<1>3. Total(net)' = Total(net) /\ Slots(net)' = Slots(net)
  BY <1>2
<1> USE <1>1, <1>2, <1>3, HostScanAssumption DEF TypeOK, Word, netVars, sendVars, recvVars, waitVars
<1>4. CASE SendLoop
  BY <1>4 DEF SendLoop
<1>5. CASE SendTest
  BY <1>5 DEF SendTest
<1>6. CASE Probe
  <2>1. Target(net, i) \in Slots(net)
    BY TargetType
  <2>2. probes' \in [Slots(net) -> Nat]
    BY <1>6, <2>1 DEF Probe
  <2>3. i' \in 0..Total(net)
    BY <1>6 DEF Probe
  <2> QED BY <1>6, <2>2, <2>3 DEF Probe
<1>7. CASE SendLoad
  BY <1>7 DEF SendLoad
<1>8. CASE SendStore
  BY <1>8 DEF SendStore
<1>9. CASE RecvLoop
  BY <1>9 DEF RecvLoop
<1>10. CASE NoPacket
  BY <1>10 DEF NoPacket
<1>11. CASE Duplicate
  BY <1>11 DEF Duplicate
<1>12. CASE Answer
  <2>1. PICK t \in Answerable \ seen :
          seen' = Remember(t) /\ reported' = [reported EXCEPT ![t] = @ + 1]
          /\ arp' = IF net.arp THEN arp + 1 ELSE arp
    BY <1>12 DEF Answer
  <2>2. seen' \subseteq Slots(net) /\ reported' \in [Slots(net) -> Nat] /\ arp' \in Nat
    BY <2>1 DEF Remember, Answerable
  <2> QED BY <1>12, <2>2 DEF Answer
<1>13. CASE RecvLoad
  BY <1>13 DEF RecvLoad
<1>14. CASE RecvStore
  BY <1>14 DEF RecvStore
<1>15. CASE WaitSend
  BY <1>15 DEF WaitSend
<1>16. CASE WaitRecv
  BY <1>16 DEF WaitRecv
<1>17. CASE Stop
  BY <1>17 DEF Stop
<1>18. CASE Join
  BY <1>18 DEF Join
<1>19. CASE UNCHANGED vars
  BY <1>19 DEF vars
<1> QED
  BY <1>4, <1>5, <1>6, <1>7, <1>8, <1>9, <1>10, <1>11, <1>12, <1>13, <1>14, <1>15, <1>16, <1>17,
     <1>18, <1>19 DEF Next, Sender, Receiver, Caller

-----------------------------------------------------------------------------
(* The steps the parts of the invariant have to look at.  A step of the     *)
(* caller, and any other step not named, leaves what they speak of alone.   *)

Quiet ==
    /\ UNCHANGED <<net, bits, i, pass, sword, rword, probes, seen, arp, reported>>
    /\ \/ spc' = spc
       \/ spc = "loop" /\ spc' \in {"test", "exit"}
       \/ spc = "test" /\ spc' = "loop" /\ "send_done" \in bits
    /\ \/ rpc' = rpc
       \/ rpc \in {"loop", "recv"} /\ rpc' \in {"loop", "recv", "exit"}

StartPass == SendTest /\ "send_done" \notin bits

LEMMA StepKinds ==
    ASSUME TypeOK, [Next]_vars
    PROVE  Quiet \/ StartPass \/ Probe \/ SendLoad \/ SendStore \/ Answer \/ RecvLoad \/ RecvStore
<1> USE DEF netVars, sendVars, recvVars, waitVars, TypeOK
<1>1. CASE SendLoop
  BY <1>1 DEF SendLoop, Quiet
<1>2. CASE SendTest
  BY <1>2 DEF SendTest, Quiet, StartPass
<1>3. CASE RecvLoop
  BY <1>3 DEF RecvLoop, Quiet
<1>4. CASE NoPacket
  BY <1>4 DEF NoPacket, Quiet
<1>5. CASE Duplicate
  BY <1>5 DEF Duplicate, Quiet
<1>6. CASE WaitSend
  BY <1>6 DEF WaitSend, Quiet
<1>7. CASE WaitRecv
  BY <1>7 DEF WaitRecv, Quiet
<1>8. CASE Stop
  BY <1>8 DEF Stop, Quiet
<1>9. CASE Join
  BY <1>9 DEF Join, Quiet
<1>10. CASE UNCHANGED vars
  BY <1>10 DEF vars, Quiet
<1> QED
  BY <1>1, <1>2, <1>3, <1>4, <1>5, <1>6, <1>7, <1>8, <1>9, <1>10 DEF Next, Sender, Receiver, Caller
-----------------------------------------------------------------------------
(* The inductive invariant                                                 *)

LEMMA InvInit == ASSUME Init PROVE IndInv
<1>1. TypeOK
  BY TypeInit
<1>2. net \in Networks /\ Total(net) \in Nat \ {0}
  BY NetType DEF Init
<1>3. ProbeInv
  BY DEF Init, ProbeInv, Idle, Done
<1>4. PassInv
  BY DEF Init, PassInv, Idle
<1>5. AnswerInv
  <2>1. Cardinality({}) = 0
    BY FS_EmptySet
  <2> QED BY <2>1 DEF Init, AnswerInv, Done
<1> QED BY <1>1, <1>3, <1>4, <1>5 DEF IndInv

\* When all indices of a pass have been used, all targets have been probed.
LEMMA PassDone ==
    ASSUME TypeOK, ProbeInv, spc \in {"probe", "store"}, i = Total(net)
    PROVE  AllSlotsProbed
<1> SUFFICES ASSUME NEW t \in Slots(net) PROVE probes[t] > 0
  BY DEF AllSlotsProbed
<1>1. PICK k \in 0..(Total(net) - 1) : Target(net, k) = t
  BY PassCovers DEF TypeOK
<1> QED BY <1>1 DEF ProbeInv

LEMMA ProbeStep == ASSUME IndInv, [Next]_vars PROVE ProbeInv'
<1> USE DEF IndInv
<1>0. net \in Networks /\ Total(net) \in Nat \ {0} /\ i \in 0..Total(net) /\ pass \in Nat
      /\ probes \in [Slots(net) -> Nat]
  BY NetType DEF TypeOK
<1>1. CASE Quiet
  BY <1>1, <1>0 DEF Quiet, ProbeInv, Idle, Done, AllSlotsProbed
<1>2. CASE StartPass
  <2>1. net' = net /\ i' = 0 /\ pass' = pass + 1 /\ spc' = "probe" /\ probes' = probes
        /\ bits' = bits /\ sword' = sword /\ rword' = rword
    BY <1>2 DEF StartPass, SendTest, netVars, recvVars
  <2> QED BY <2>1, <1>0 DEF ProbeInv, Idle, Done, AllSlotsProbed
<1>3. CASE Probe
  <2>1. /\ net' = net /\ i' = i + 1 /\ pass' = pass /\ spc' = "probe" /\ spc = "probe"
        /\ bits' = bits /\ sword' = sword /\ rword' = rword
        /\ probes' = [probes EXCEPT ![Target(net, i)] = @ + 1]
    BY <1>3 DEF Probe, netVars, recvVars
  <2>2. Target(net, i) \in Slots(net)
    BY <1>0, TargetType
  <2>3. \A t \in Slots(net) : probes[t] > 0 => probes'[t] > 0
    BY <2>1, <2>2, <1>0
  <2>4. ASSUME NEW k \in 0..(i' - 1) PROVE probes'[Target(net, k)] > 0
    <3>1. CASE k = i
      BY <3>1, <2>1, <2>2, <1>0
    <3>2. CASE k # i
      <4>1. k \in 0..(i - 1) /\ k \in Nat
        BY <3>2, <2>1, <1>0
      <4>2. probes[Target(net, k)] > 0
        BY <4>1, <2>1 DEF ProbeInv
      <4>3. Target(net, k) \in Slots(net)
        BY <4>1, <1>0, TargetType
      <4> QED BY <4>2, <4>3, <2>3
    <3> QED BY <3>1, <3>2
  <2>5. \A k \in 0..(i' - 1) : probes'[Target(net', k)] > 0
    BY <2>4, <2>1
  <2>6. pass # 0
    BY <2>1 DEF ProbeInv, Idle
  <2>7. Done("send_done")' => AllSlotsProbed'
    BY <2>1, <2>3 DEF Done, ProbeInv, AllSlotsProbed
  <2> QED BY <2>1, <2>5, <2>6, <2>7 DEF ProbeInv
<1>4. CASE SendLoad
  <2>1. /\ net' = net /\ i' = i /\ pass' = pass /\ spc = "probe" /\ spc' = "store" /\ i = Total(net)
        /\ bits' = bits /\ sword' = bits /\ rword' = rword /\ probes' = probes
    BY <1>4 DEF SendLoad, netVars, recvVars
  <2>2. AllSlotsProbed
    BY <2>1, PassDone
  <2> QED BY <2>1, <2>2 DEF ProbeInv, AllSlotsProbed, Idle
<1>5. CASE SendStore
  <2>1. /\ net' = net /\ i' = i /\ pass' = pass /\ spc = "store" /\ spc' = "loop"
        /\ sword' = sword /\ rword' = rword /\ probes' = probes
    BY <1>5 DEF SendStore, netVars, recvVars
  <2>2. AllSlotsProbed
    BY <2>1, PassDone DEF ProbeInv
  <2>3. pass # 0
    BY <2>1 DEF ProbeInv, Idle
  <2> QED BY <2>1, <2>2, <2>3 DEF ProbeInv, AllSlotsProbed
<1>6. CASE Answer
  <2>1. UNCHANGED <<net, bits, i, pass, spc, sword, rword, probes>>
    BY <1>6 DEF Answer, sendVars
  <2> QED BY <2>1 DEF ProbeInv, AllSlotsProbed, Idle, Done
<1>7. CASE RecvLoad
  <2>1. UNCHANGED <<net, bits, i, pass, spc, sword, probes>> /\ rword' = bits
    BY <1>7 DEF RecvLoad, sendVars, netVars
  <2> QED BY <2>1 DEF ProbeInv, AllSlotsProbed, Idle, Done
<1>8. CASE RecvStore
  <2>1. UNCHANGED <<net, i, pass, spc, sword, rword, probes>> /\ bits' = rword \cup {"recv_done"}
    BY <1>8 DEF RecvStore, sendVars, netVars
  <2>2. Done("send_done")' => Done("send_done")
    BY <2>1 DEF Done
  <2> QED BY <2>1, <2>2 DEF ProbeInv, AllSlotsProbed, Idle
<1> QED BY <1>1, <1>2, <1>3, <1>4, <1>5, <1>6, <1>7, <1>8, StepKinds

LEMMA PassStep == ASSUME IndInv, [Next]_vars PROVE PassInv'
<1> USE DEF IndInv
<1>0. net \in Networks /\ Total(net) \in Nat \ {0} /\ pass \in Nat /\ arp \in Nat
      /\ net.arp \in BOOLEAN /\ probes \in [Slots(net) -> Nat]
  BY NetType DEF TypeOK
<1>1. CASE Quiet
  BY <1>1, <1>0 DEF Quiet, PassInv, Idle, Spent
<1>2. CASE StartPass
  <2>1. UNCHANGED <<net, arp, rpc, bits, rword>> /\ pass' = pass + 1 /\ spc' = "probe" /\ spc = "test"
        /\ "send_done" \notin bits
    BY <1>2 DEF StartPass, SendTest, netVars, recvVars
  <2>2. pass > 0 => Spent /\ pass = 1
    BY <2>1 DEF PassInv, Idle
  <2> QED BY <2>1, <2>2, <1>0 DEF PassInv, Idle, Spent
<1>3. CASE Probe
  <2>1. UNCHANGED <<net, arp, rpc, bits, rword, pass, spc>>
    BY <1>3 DEF Probe, netVars, recvVars
  <2> QED BY <2>1 DEF PassInv, Idle, Spent
<1>4. CASE SendLoad
  <2>1. UNCHANGED <<net, arp, rpc, bits, rword, pass>> /\ spc' = "store"
    BY <1>4 DEF SendLoad, netVars, recvVars
  <2> QED BY <2>1 DEF PassInv, Idle, Spent
<1>5. CASE SendStore
  <2>1. UNCHANGED <<net, arp, rpc, pass>> /\ spc = "store" /\ "send_done" \in bits'
    BY <1>5 DEF SendStore, netVars, recvVars
  <2>2. pass # 0
    BY <2>1 DEF ProbeInv, Idle
  <2> QED BY <2>1, <2>2 DEF PassInv, Spent
<1>6. CASE Answer
  <2>1. UNCHANGED <<net, bits, rword, pass, spc>>
    BY <1>6 DEF Answer, sendVars
  <2>2. /\ rpc = "recv" /\ arp' = IF net.arp THEN arp + 1 ELSE arp
        /\ rpc' = IF net.arp /\ arp' = Total(net) THEN "load" ELSE "loop"
    BY <1>6 DEF Answer
  <2>3. Spent => Spent'
    BY <2>1, <2>2, <1>0 DEF Spent
  <2>4. rpc' \in {"load", "store"} => net'.arp /\ arp' = Total(net')
    BY <2>1, <2>2
  <2> QED BY <2>1, <2>3, <2>4 DEF PassInv, Idle
<1>7. CASE RecvLoad
  <2>1. UNCHANGED <<net, arp, bits, pass, spc>> /\ rpc = "load" /\ rpc' = "store" /\ rword' = bits
    BY <1>7 DEF RecvLoad, sendVars, netVars
  <2>2. ~Spent
    BY <2>1 DEF Spent
  <2> QED BY <2>1, <2>2 DEF PassInv, Idle
<1>8. CASE RecvStore
  <2>1. UNCHANGED <<net, arp, pass, spc, rword>> /\ rpc = "store" /\ rpc' = "loop"
        /\ bits' = rword \cup {"recv_done"}
    BY <1>8 DEF RecvStore, sendVars, netVars
  <2>2. net.arp /\ arp = Total(net) /\ ~Spent
    BY <2>1 DEF PassInv, Spent
  <2>3. pass \in {0, 1}
    BY <2>2, <1>0 DEF PassInv
  <2>4. Spent'
    BY <2>1, <2>2, <1>0 DEF Spent
  <2>5. pass = 0 => "send_done" \notin bits' \cup rword'
    BY <2>1 DEF PassInv
  <2> QED BY <2>1, <2>3, <2>4, <2>5, <1>0 DEF PassInv
<1> QED BY <1>1, <1>2, <1>3, <1>4, <1>5, <1>6, <1>7, <1>8, StepKinds

LEMMA AnswerStep == ASSUME IndInv, [Next]_vars PROVE AnswerInv'
<1> USE DEF IndInv
<1>0. net \in Networks /\ Total(net) \in Nat \ {0} /\ arp \in Nat /\ net.arp \in BOOLEAN
      /\ reported \in [Slots(net) -> Nat] /\ seen \subseteq Slots(net)
  BY NetType DEF TypeOK
<1>1. CASE Quiet
  BY <1>1 DEF Quiet, AnswerInv, Done, Collision
<1>2. CASE StartPass
  <2>1. UNCHANGED <<net, bits, sword, rword, rpc, seen, arp, reported>>
    BY <1>2 DEF StartPass, SendTest, netVars, recvVars
  <2> QED BY <2>1 DEF AnswerInv, Done, Collision
<1>3. CASE Probe
  <2>1. UNCHANGED <<net, bits, sword, rword, rpc, seen, arp, reported>>
    BY <1>3 DEF Probe, netVars, recvVars
  <2> QED BY <2>1 DEF AnswerInv, Done, Collision
<1>4. CASE SendLoad
  <2>1. UNCHANGED <<net, bits, rword, rpc, seen, arp, reported>> /\ sword' = bits
    BY <1>4 DEF SendLoad, netVars, recvVars
  <2> QED BY <2>1 DEF AnswerInv, Done, Collision
<1>5. CASE SendStore
  <2>1. UNCHANGED <<net, sword, rword, rpc, seen, arp, reported>> /\ bits' = sword \cup {"send_done"}
    BY <1>5 DEF SendStore, netVars, recvVars
  <2> QED BY <2>1 DEF AnswerInv, Done, Collision
<1>6. CASE Answer
  <2>1. UNCHANGED <<net, bits, sword, rword>>
    BY <1>6 DEF Answer, sendVars
  <2>2. /\ rpc = "recv" /\ rpc' \in {"load", "loop"} /\ arp' = IF net.arp THEN arp + 1 ELSE arp
        /\ \E t \in Answerable \ seen :
              seen' = Remember(t) /\ reported' = [reported EXCEPT ![t] = @ + 1]
    BY <1>6 DEF Answer
  <2>3. PICK t \in Answerable \ seen :
          seen' = Remember(t) /\ reported' = [reported EXCEPT ![t] = @ + 1]
    BY <2>2
  <2>4. t \in Slots(net) /\ (net.arp => t >= net.range6) /\ t \notin seen
    BY <2>3 DEF Answerable
  <2>5. seen' \subseteq {u \in Slots(net) : net.arp => u >= net.range6}
    BY <2>3, <2>4 DEF AnswerInv, Remember
  <2>6. ASSUME ~Collision
        PROVE  /\ seen' = seen \cup {t}
               /\ \A u \in Slots(net) : reported'[u] = IF u \in seen' THEN 1 ELSE 0
               /\ net.arp => arp' = Cardinality(seen')
    <3>1. seen' = seen \cup {t}
      BY <2>3, <2>4, <2>6, <1>0 DEF Collision, Remember
    <3>2. \A u \in Slots(net) : reported[u] = IF u \in seen THEN 1 ELSE 0
      BY <2>6 DEF AnswerInv
    <3>3. \A u \in Slots(net) : reported'[u] = IF u \in seen' THEN 1 ELSE 0
      BY <3>1, <3>2, <2>3, <2>4, <1>0
    <3>4. IsFiniteSet(seen)
      BY <1>0, SlotsFinite, FS_Subset
    <3>5. Cardinality(seen') = Cardinality(seen) + 1
      BY <3>1, <3>4, <2>4, FS_AddElement
    <3> QED BY <3>1, <3>3, <3>5, <2>2, <2>6 DEF AnswerInv
  <2>7. Done("recv_done")' \/ rpc' = "store" => net'.arp /\ arp' >= Total(net')
    BY <2>1, <2>2, <1>0 DEF AnswerInv, Done
  <2>8. Collision' <=> Collision
    BY <2>1 DEF Collision
  <2> QED BY <2>1, <2>5, <2>6, <2>7, <2>8 DEF AnswerInv
<1>7. CASE RecvLoad
  <2>1. UNCHANGED <<net, bits, sword, seen, arp, reported>> /\ rword' = bits
        /\ rpc = "load" /\ rpc' = "store"
    BY <1>7 DEF RecvLoad, sendVars, netVars
  <2>2. net.arp /\ arp >= Total(net)
    BY <2>1, <1>0 DEF PassInv
  <2> QED BY <2>1, <2>2 DEF AnswerInv, Done, Collision
<1>8. CASE RecvStore
  <2>1. UNCHANGED <<net, sword, rword, seen, arp, reported>> /\ rpc = "store"
    BY <1>8 DEF RecvStore, sendVars, netVars
  <2>2. net.arp /\ arp >= Total(net)
    BY <2>1 DEF AnswerInv
  <2> QED BY <2>1, <2>2 DEF AnswerInv, Collision
<1> QED BY <1>1, <1>2, <1>3, <1>4, <1>5, <1>6, <1>7, <1>8, StepKinds

-----------------------------------------------------------------------------
(* The theorems about HostScan                                             *)

\* IndInv is an invariant, for any networks, bounds and schedule.
THEOREM IndInvariant == Spec => []IndInv
<1>1. Init => IndInv
  BY InvInit
<1>2. IndInv /\ [Next]_vars => IndInv'
  BY TypeStep, ProbeStep, PassStep, AnswerStep DEF IndInv
<1> QED BY <1>1, <1>2, PTL DEF Spec

\* The scanner's state has its type.
THEOREM TypeCorrect == Spec => []TypeOK
<1>1. IndInv => TypeOK
  BY DEF IndInv
<1> QED BY <1>1, IndInvariant, PTL

\* When send_done is seen every target has been probed (hostscan.c:748-859).
THEOREM ScanComplete == Spec => []AllProbed
<1>1. IndInv => AllProbed
  BY DEF IndInv, ProbeInv, AllProbed, Done
<1> QED BY <1>1, IndInvariant, PTL

\* Losing send_done to the race costs one pass at most (hostscan.c:635, 859).
THEOREM OneRepeat == Spec => []RepeatsBounded
<1>1. IndInv => RepeatsBounded
  BY DEF IndInv, PassInv, RepeatsBounded, TypeOK, Spent
<1> QED BY <1>1, IndInvariant, PTL

\* An answer is reported once, unless buckets collide (hostscan.c:629, 681).
THEOREM NoRepeatedReport == Spec => []ReportedOnce
<1>1. IndInv => ReportedOnce
  BY DEF IndInv, AnswerInv, ReportedOnce
<1> QED BY <1>1, IndInvariant, PTL

\* recv_done means that all have answered, unless buckets collide: the count
\* reaches Total only if the table holds every target, and no target is IPv6
\* (hostscan.c:632-636).
THEOREM EarlyReturnJustified == Spec => []RecvDoneHonest
<1>1. ASSUME IndInv PROVE RecvDoneHonest
  <2> SUFFICES ASSUME "recv_done" \in bits, ~Collision, NEW t \in Slots(net) PROVE reported[t] > 0
    BY DEF RecvDoneHonest
  <2>1. net.arp /\ arp >= Total(net) /\ arp = Cardinality(seen)
    BY <1>1 DEF IndInv, AnswerInv, Done
  <2>2. net \in Networks /\ net.range \in Nat \ {0} /\ net.range6 \in 0..net.range /\ arp \in Nat
    BY <1>1, NetType DEF IndInv, TypeOK
  <2>3. seen \subseteq Slots(net) /\ IsFiniteSet(Slots(net)) /\ Cardinality(Slots(net)) = net.range
    BY <1>1, <2>2, SlotsFinite DEF IndInv, TypeOK
  <2>4. Cardinality(seen) >= Cardinality(Slots(net))
    BY <2>1, <2>2, <2>3, NetType
  <2>5. seen = Slots(net)
    BY <2>3, <2>4, FS_Subset, FS_CardinalityType
  <2> QED BY <1>1, <2>5 DEF IndInv, AnswerInv
<1> QED BY <1>1, IndInvariant, PTL

-----------------------------------------------------------------------------
(* Induction and recursion.                                                 *)

LEMMA NatInductionSet ==
  ASSUME NEW S \in SUBSET Nat, 0 \in S, \A n \in S : n + 1 \in S
  PROVE  \A n \in Nat : n \in S
<1> DEFINE R == {ss \in Nat \X Nat : ss[1] < ss[2]}
<1>0. IsWellFoundedOn(R, Nat)
  BY NatLessThanWellFounded, Zenon DEF OpToRel
<1>1. SUFFICES ASSUME NEW T, T = Nat \ S, T # {} PROVE FALSE
  OBVIOUS
<1>2. PICK x \in T : \A y \in T : ~ (<<y, x>> \in R)
  <2> HIDE DEF R
  <2> QED BY <1>0, <1>1, WFMin
<1>3. x # 0 /\ x - 1 \in Nat
  BY <1>1
<1>4. <<x - 1, x>> \in R
  BY <1>3, <1>1
<1>5. x - 1 \in S
  BY <1>2, <1>3, <1>4, <1>1
<1> QED BY <1>5, <1>3, <1>1

\* f is what starts with base and goes on with step, N times.
Iterates(f, N, S, base, step) ==
    /\ f \in [0..N -> S]
    /\ f[0] = base
    /\ \A n \in 1..N : f[n] = step[n][f[n - 1]]

LEMMA Recursion ==
  ASSUME NEW N \in Nat, NEW S, NEW base \in S, NEW step \in [1..N -> [S -> S]]
  PROVE  \E f : Iterates(f, N, S, base, step)
<1> DEFINE Upto(m) == \E f \in [0..m -> S] :
                f[0] = base /\ \A n \in 1..m : f[n] = step[n][f[n - 1]]
           T == {m \in Nat : m <= N => Upto(m)}
<1>1. Upto(0)
  <2> DEFINE g == [x \in 0..0 |-> base]
  <2>1. g \in [0..0 -> S]
    OBVIOUS
  <2>2. g[0] = base
    OBVIOUS
  <2>3. 1..0 = {}
    OBVIOUS
  <2> HIDE DEF g
  <2> QED BY <2>1, <2>2, <2>3
<1>2. ASSUME NEW m \in Nat, m + 1 <= N, Upto(m) PROVE Upto(m + 1)
  <2>1. PICK f \in [0..m -> S] : f[0] = base /\ \A n \in 1..m : f[n] = step[n][f[n - 1]]
    BY <1>2
  <2>2. m + 1 \in 1..N
    BY <1>2
  <2> DEFINE g == [x \in 0..(m + 1) |-> IF x = m + 1 THEN step[m + 1][f[m]] ELSE f[x]]
  <2>3. step[m + 1][f[m]] \in S
    BY <2>1, <2>2
  <2>4. \A x \in 0..m : x \in 0..(m + 1) /\ x # m + 1
    BY <1>2
  <2>5. g \in [0..(m + 1) -> S]
    BY <2>1, <2>3
  <2>6. g[0] = base
    BY <2>1, <2>4
  <2>7. ASSUME NEW n \in 1..(m + 1) PROVE g[n] = step[n][g[n - 1]]
    <3>1. n - 1 \in 0..m
      BY <1>2
    <3>2. g[n - 1] = f[n - 1]
      BY <3>1, <2>4
    <3>3. CASE n = m + 1
      BY <3>2, <3>3
    <3>4. CASE n # m + 1
      <4>1. n \in 1..m
        BY <3>4, <1>2
      <4> QED BY <4>1, <3>2, <2>1
    <3> QED BY <3>3, <3>4
  <2> HIDE DEF g
  <2> QED BY <2>5, <2>6, <2>7
<1>3. 0 \in T
  BY <1>1
<1>4. \A m \in T : m + 1 \in T
  <2> SUFFICES ASSUME NEW m \in T PROVE m + 1 \in T
    OBVIOUS
  <2>1. m \in Nat /\ (m <= N => Upto(m))
    OBVIOUS
  <2> HIDE DEF Upto
  <2>2. m + 1 <= N => Upto(m + 1)
    BY <2>1, <1>2
  <2> QED BY <2>1, <2>2
<1>5. T \in SUBSET Nat
  OBVIOUS
<1>6. N \in T
  <2> HIDE DEF T
  <2> QED BY <1>3, <1>4, <1>5, NatInductionSet
<1>7. Upto(N)
  <2> HIDE DEF Upto
  <2> QED BY <1>6
<1> QED BY <1>7 DEF Iterates


-----------------------------------------------------------------------------
(* The cipher.                                                             *)

LEMMA SplitFacts ==
  ASSUME NEW a \in Nat \ {0}, NEW b \in Nat \ {0}, NEW m \in 0..(a * b - 1)
  PROVE  m % a \in 0..(a - 1) /\ m \div a \in 0..(b - 1) /\ a * (m \div a) + (m % a) = m
<1>0. m \in Int /\ a * b \in Nat
  OBVIOUS
<1> DEFINE q == m \div a
           r == m % a
<1>1. r \in 0..(a - 1) /\ q \in Int /\ m = a * q + r
  BY <1>0, IntDivMod
<1> HIDE DEF q, r
<1>2. ~ (q <= -1)
  <2> SUFFICES ASSUME q <= -1 PROVE FALSE
    OBVIOUS
  <2>1. a * q <= -a
    BY <1>1
  <2> QED BY <2>1, <1>1
<1>3. ~ (q >= b)
  <2> SUFFICES ASSUME q >= b PROVE FALSE
    OBVIOUS
  <2>1. a * q >= a * b
    BY <1>1
  <2> QED BY <2>1, <1>1, <1>0
<1> QED BY <1>1, <1>2, <1>3 DEF q, r

LEMMA JoinFacts ==
  ASSUME NEW a \in Nat \ {0}, NEW b \in Nat \ {0}, NEW L \in 0..(a - 1), NEW R \in 0..(b - 1)
  PROVE  /\ a * R + L \in 0..(a * b - 1)
         /\ (a * R + L) % a = L /\ (a * R + L) \div a = R
<1> DEFINE x == a * R + L
<1>1. a * R \in Nat /\ x \in Int
  OBVIOUS
<1>2. x % a = L /\ x \div a = R
  <2>1. R \in Int /\ x = a * R + L
    OBVIOUS
  <2> HIDE DEF x
  <2> QED BY <2>1, <1>1, IntModUnique
<1>3. a * R <= a * (b - 1) /\ a * (b - 1) = a * b - a
  OBVIOUS
<1> QED BY <1>1, <1>2, <1>3

\* The halves that round j leaves.
Pair(br, j) == IF j % 2 = 0 THEN (0..(br.a - 1)) \X (0..(br.b - 1))
                            ELSE (0..(br.b - 1)) \X (0..(br.a - 1))

Rectangle(br) == br.a \in Nat \ {0} /\ br.b \in Nat \ {0}

LEMMA Parity ==
  ASSUME NEW j \in Nat \ {0}
  PROVE  /\ j % 2 \in {0, 1}
         /\ j % 2 = 1 => (j - 1) % 2 = 0
         /\ j % 2 = 0 => (j - 1) % 2 = 1
OBVIOUS

LEMMA MixFacts ==
  ASSUME ReadsNumbers, NEW br, Rectangle(br), NEW seed \in Seeds, NEW j \in Nat \ {0},
         NEW s \in Pair(br, j - 1)
  PROVE  Mix(br, seed, j, s) \in Pair(br, j) /\ Unmix(br, seed, j, Mix(br, seed, j, s)) = s
<1> DEFINE n == Round(br, j)
           x == READ(j, s[2], seed)
           r == (s[1] + x) % n
<1>1. /\ s[2] \in Nat /\ n \in Nat \ {0} /\ s[1] \in 0..(n - 1) /\ s = <<s[1], s[2]>>
      /\ \A t \in 0..(n - 1) : <<s[2], t>> \in Pair(br, j)
  BY Parity DEF Pair, Round, Rectangle
<1>2. x \in Nat
  BY <1>1 DEF ReadsNumbers
<1>3. Mix(br, seed, j, s) = <<s[2], r>> /\ Unmix(br, seed, j, <<s[2], r>>) = <<(r - x) % n, s[2]>>
  BY DEF Mix, Unmix
<1> HIDE DEF n, x
<1>4. r \in 0..(n - 1) /\ (r - x) % n = s[1]
  <2>1. s[1] + x \in Int /\ x \in Int
    BY <1>1, <1>2
  <2>2. r \in 0..(n - 1)
    BY <2>1, <1>1, IntDivMod
  <2> QED BY <2>1, <2>2, <1>1, AddSubtract
<1> QED BY <1>1, <1>3, <1>4

LEMMA UnmixFacts ==
  ASSUME ReadsNumbers, NEW br, Rectangle(br), NEW seed \in Seeds, NEW j \in Nat \ {0},
         NEW s \in Pair(br, j)
  PROVE  Unmix(br, seed, j, s) \in Pair(br, j - 1) /\ Mix(br, seed, j, Unmix(br, seed, j, s)) = s
<1> DEFINE n == Round(br, j)
           x == READ(j, s[1], seed)
           r == (s[2] - x) % n
<1>1. /\ s[1] \in Nat /\ n \in Nat \ {0} /\ s[2] \in 0..(n - 1) /\ s = <<s[1], s[2]>>
      /\ \A t \in 0..(n - 1) : <<t, s[1]>> \in Pair(br, j - 1)
  BY Parity DEF Pair, Round, Rectangle
<1>2. x \in Nat
  BY <1>1 DEF ReadsNumbers
<1>3. Unmix(br, seed, j, s) = <<r, s[1]>> /\ Mix(br, seed, j, <<r, s[1]>>) = <<s[1], (r + x) % n>>
  BY DEF Mix, Unmix
<1> HIDE DEF n, x
<1>4. r \in 0..(n - 1) /\ (r + x) % n = s[2]
  <2>1. s[2] - x \in Int /\ x \in Int
    BY <1>1, <1>2
  <2>2. r \in 0..(n - 1)
    BY <2>1, <1>1, IntDivMod
  <2> QED BY <2>1, <2>2, <1>1, AddSubtract
<1> QED BY <1>1, <1>3, <1>4

\* A number and the halves at either end of the rounds are the same.
LEMMA SplitPair ==
  ASSUME NEW br, Rectangle(br), NEW m \in Numbers(br)
  PROVE  Split(br, m) \in Pair(br, 0) /\ br.a * Split(br, m)[2] + Split(br, m)[1] = m
<1>1. m \in 0..(br.a * br.b - 1) /\ br.a \in Nat \ {0} /\ br.b \in Nat \ {0}
  BY DEF Numbers, Rectangle
<1>2. m % br.a \in 0..(br.a - 1) /\ m \div br.a \in 0..(br.b - 1)
      /\ br.a * (m \div br.a) + (m % br.a) = m
  BY <1>1, SplitFacts
<1>3. 0 % 2 = 0
  OBVIOUS
<1> QED BY <1>2, <1>3 DEF Split, Pair

LEMMA JoinedPair ==
  ASSUME NEW br, Rectangle(br), NEW s \in Pair(br, Rounds)
  PROVE  Joined(br, s) \in Numbers(br) /\ Unjoined(br, Joined(br, s)) = s
<1>1. br.a \in Nat \ {0} /\ br.b \in Nat \ {0} /\ Rounds \in Nat
  BY BlackrockAssumption DEF Rectangle
<1>2. CASE Rounds % 2 = 1
  <2>1. s[2] \in 0..(br.a - 1) /\ s[1] \in 0..(br.b - 1) /\ s = <<s[1], s[2]>>
    BY <1>2 DEF Pair
  <2>2. /\ br.a * s[1] + s[2] \in 0..(br.a * br.b - 1)
        /\ (br.a * s[1] + s[2]) % br.a = s[2] /\ (br.a * s[1] + s[2]) \div br.a = s[1]
    BY <1>1, <2>1, JoinFacts
  <2> QED BY <1>2, <2>1, <2>2 DEF Joined, Unjoined, Numbers
<1>3. CASE Rounds % 2 # 1
  <2>1. s[1] \in 0..(br.a - 1) /\ s[2] \in 0..(br.b - 1) /\ s = <<s[1], s[2]>>
    <3>1. Rounds % 2 = 0
      BY <1>1, <1>3
    <3> QED BY <3>1 DEF Pair
  <2>2. /\ br.a * s[2] + s[1] \in 0..(br.a * br.b - 1)
        /\ (br.a * s[2] + s[1]) % br.a = s[1] /\ (br.a * s[2] + s[1]) \div br.a = s[2]
    BY <1>1, <2>1, JoinFacts
  <2> QED BY <1>3, <2>1, <2>2 DEF Joined, Unjoined, Split, Numbers
<1> QED BY <1>2, <1>3

LEMMA UnjoinedPair ==
  ASSUME NEW br, Rectangle(br), NEW m \in Numbers(br)
  PROVE  Unjoined(br, m) \in Pair(br, Rounds) /\ Joined(br, Unjoined(br, m)) = m
<1>1. br.a \in Nat \ {0} /\ br.b \in Nat \ {0} /\ Rounds \in Nat /\ m \in 0..(br.a * br.b - 1)
  BY BlackrockAssumption DEF Rectangle, Numbers
<1>2. m % br.a \in 0..(br.a - 1) /\ m \div br.a \in 0..(br.b - 1)
      /\ br.a * (m \div br.a) + (m % br.a) = m
  BY <1>1, SplitFacts
<1>3. Rounds % 2 \in {0, 1}
  BY <1>1
<1> QED BY <1>2, <1>3 DEF Unjoined, Joined, Split, Pair

\* The halves after each round.
LEMMA EncryptSteps ==
  ASSUME ReadsNumbers, NEW br, Rectangle(br), NEW seed \in Seeds, NEW m \in Numbers(br)
  PROVE  \E f : /\ f[0] = Split(br, m)
                /\ \A j \in 1..Rounds : f[j] = Mix(br, seed, j, f[j - 1])
                /\ \A j \in 0..Rounds : f[j] \in Pair(br, j)
                /\ Encrypt(br, seed, m) = Joined(br, f[Rounds])
<1> DEFINE S == Nat \X Nat
           step == [j \in 1..Rounds |-> [s \in S |-> Mix(br, seed, j, s)]]
           Eq(f) == f = [j \in 0..Rounds |-> IF j = 0 THEN Split(br, m) ELSE Mix(br, seed, j, f[j - 1])]
<1>1. Rounds \in Nat /\ br.a \in Nat \ {0} /\ br.b \in Nat \ {0}
  BY BlackrockAssumption DEF Rectangle
<1>2. step \in [1..Rounds -> [S -> S]]
  <2> SUFFICES ASSUME NEW j \in 1..Rounds, NEW s \in S PROVE Mix(br, seed, j, s) \in S
    OBVIOUS
  <2> DEFINE n == Round(br, j)
             y == s[1] + READ(j, s[2], seed)
  <2>0. s[1] \in Nat /\ s[2] \in Nat /\ j \in Nat
    BY <1>1
  <2>1. s[1] \in Nat /\ s[2] \in Nat /\ n \in Nat \ {0} /\ READ(j, s[2], seed) \in Nat
    BY <2>0, <1>1 DEF ReadsNumbers, Round
  <2>2. y \in Int
    BY <2>1
  <2>3. Mix(br, seed, j, s) = <<s[2], y % n>>
    BY DEF Mix
  <2> HIDE DEF n, y
  <2>4. y % n \in Nat
    BY <2>1, <2>2, IntDivMod
  <2> QED BY <2>1, <2>3, <2>4
<1>3. Split(br, m) \in Pair(br, 0) /\ Split(br, m) \in S
  BY SplitPair, <1>1 DEF Pair
<1>4. PICK f : Iterates(f, Rounds, S, Split(br, m), step)
  <2> HIDE DEF step, S
  <2> QED BY <1>1, <1>2, <1>3, Recursion
<1>5. \A j \in 1..Rounds : j - 1 \in 0..Rounds /\ j \in 0..Rounds /\ j # 0
  BY <1>1
<1>6. /\ f \in [0..Rounds -> S] /\ f[0] = Split(br, m)
      /\ \A j \in 1..Rounds : f[j] = Mix(br, seed, j, f[j - 1])
  <2> HIDE DEF S
  <2> QED BY <1>4, <1>5 DEF Iterates
<1>7. Eq(f)
  <2>1. \A j \in 0..Rounds : j = 0 \/ j \in 1..Rounds
    BY <1>1
  <2> HIDE DEF S
  <2> QED BY <1>6, <2>1
<1>8. PICK g : Eq(g) /\ Encrypt(br, seed, m) = Joined(br, g[Rounds])
  <2> DEFINE g0 == CHOOSE h : Eq(h)
  <2>1. Eq(g0)
    BY <1>7
  <2>2. Encrypt(br, seed, m) = Joined(br, g0[Rounds])
    BY DEF Encrypt
  <2> HIDE DEF g0
  <2> QED BY <2>1, <2>2
<1>9. g[0] = Split(br, m) /\ \A j \in 1..Rounds : g[j] = Mix(br, seed, j, g[j - 1])
  <2>1. 0 \in 0..Rounds
    BY <1>1
  <2>2. \A l \in 0..Rounds : g[l] = IF l = 0 THEN Split(br, m) ELSE Mix(br, seed, l, g[l - 1])
    BY <1>8, Zenon
  <2> HIDE DEF Eq
  <2>3. g[0] = Split(br, m)
    BY <2>1, <2>2
  <2>4. ASSUME NEW j \in 1..Rounds PROVE g[j] = Mix(br, seed, j, g[j - 1])
    BY <1>5, <2>2
  <2> QED BY <2>3, <2>4
<1> HIDE DEF step, Eq
<1>10. \A j \in 0..Rounds : g[j] \in Pair(br, j)
  <2> DEFINE T == {j \in Nat : j <= Rounds => g[j] \in Pair(br, j)}
  <2>1. 0 \in T
    BY <1>3, <1>9
  <2>2. ASSUME NEW j \in T PROVE j + 1 \in T
    <3>1. j \in Nat /\ (j <= Rounds => g[j] \in Pair(br, j))
      OBVIOUS
    <3>2. CASE j + 1 <= Rounds
      <4>1. j + 1 \in 1..Rounds /\ (j + 1) - 1 = j /\ j <= Rounds /\ j + 1 \in Nat \ {0}
        BY <3>1, <3>2, <1>1
      <4>2. g[j + 1] = Mix(br, seed, j + 1, g[j]) /\ g[j] \in Pair(br, (j + 1) - 1)
        BY <4>1, <1>9, <3>1
      <4>3. g[j + 1] \in Pair(br, j + 1)
        BY <4>1, <4>2, MixFacts
      <4> QED BY <4>3, <3>1
    <3> QED BY <3>1, <3>2
  <2>3. \A j \in Nat : j \in T
    <3> HIDE DEF T
    <3> QED BY <2>1, <2>2, NatInductionSet DEF T
  <2> QED BY <2>3, <1>1
<1> QED BY <1>8, <1>9, <1>10

\* The halves before each round, from the last.
LEMMA DecryptSteps ==
  ASSUME ReadsNumbers, NEW br, Rectangle(br), NEW seed \in Seeds, NEW m \in Numbers(br)
  PROVE  \E f : /\ f[0] = Unjoined(br, m)
                /\ \A k \in 1..Rounds : f[k] = Unmix(br, seed, Rounds + 1 - k, f[k - 1])
                /\ \A k \in 0..Rounds : f[k] \in Pair(br, Rounds - k)
                /\ Decrypt(br, seed, m) = br.a * f[Rounds][2] + f[Rounds][1]
<1> DEFINE S == Nat \X Nat
           step == [k \in 1..Rounds |-> [s \in S |-> Unmix(br, seed, Rounds + 1 - k, s)]]
           Eq(f) == f = [k \in 0..Rounds |->
                            IF k = 0 THEN Unjoined(br, m) ELSE Unmix(br, seed, Rounds + 1 - k, f[k - 1])]
<1>1. Rounds \in Nat /\ br.a \in Nat \ {0} /\ br.b \in Nat \ {0}
  BY BlackrockAssumption DEF Rectangle
<1>2. step \in [1..Rounds -> [S -> S]]
  <2> SUFFICES ASSUME NEW k \in 1..Rounds, NEW s \in S PROVE Unmix(br, seed, Rounds + 1 - k, s) \in S
    OBVIOUS
  <2> DEFINE j == Rounds + 1 - k
             n == Round(br, j)
             y == s[2] - READ(j, s[1], seed)
  <2>0. j \in Nat
    BY <1>1
  <2> HIDE DEF j
  <2>1. s[1] \in Nat /\ s[2] \in Nat /\ n \in Nat \ {0} /\ READ(j, s[1], seed) \in Nat
    BY <1>1, <2>0 DEF ReadsNumbers, Round
  <2>2. y \in Int
    BY <2>1
  <2>3. Unmix(br, seed, j, s) = <<y % n, s[1]>>
    BY DEF Unmix
  <2> HIDE DEF n, y
  <2>4. y % n \in Nat
    BY <2>1, <2>2, IntDivMod
  <2> QED BY <2>1, <2>3, <2>4 DEF j
<1>3. Unjoined(br, m) \in Pair(br, Rounds) /\ Unjoined(br, m) \in S
  BY UnjoinedPair, <1>1 DEF Pair
<1>4. PICK f : Iterates(f, Rounds, S, Unjoined(br, m), step)
  <2> HIDE DEF step, S
  <2> QED BY <1>1, <1>2, <1>3, Recursion
<1>5. \A k \in 1..Rounds : k - 1 \in 0..Rounds /\ k \in 0..Rounds /\ k # 0
  BY <1>1
<1>6. /\ f \in [0..Rounds -> S] /\ f[0] = Unjoined(br, m)
      /\ \A k \in 1..Rounds : f[k] = Unmix(br, seed, Rounds + 1 - k, f[k - 1])
  <2> HIDE DEF S
  <2> QED BY <1>4, <1>5 DEF Iterates
<1>7. Eq(f)
  <2>1. \A k \in 0..Rounds : k = 0 \/ k \in 1..Rounds
    BY <1>1
  <2> HIDE DEF S
  <2> QED BY <1>6, <2>1
<1>8. PICK g : Eq(g) /\ Decrypt(br, seed, m) = br.a * g[Rounds][2] + g[Rounds][1]
  <2> DEFINE g0 == CHOOSE h : Eq(h)
  <2>1. Eq(g0)
    BY <1>7
  <2>2. Decrypt(br, seed, m) = br.a * g0[Rounds][2] + g0[Rounds][1]
    BY DEF Decrypt
  <2> HIDE DEF g0
  <2> QED BY <2>1, <2>2
<1>9. g[0] = Unjoined(br, m) /\ \A k \in 1..Rounds : g[k] = Unmix(br, seed, Rounds + 1 - k, g[k - 1])
  <2>1. 0 \in 0..Rounds
    BY <1>1
  <2>2. \A l \in 0..Rounds : g[l] = IF l = 0 THEN Unjoined(br, m) ELSE Unmix(br, seed, Rounds + 1 - l, g[l - 1])
    BY <1>8, Zenon
  <2> HIDE DEF Eq
  <2>3. g[0] = Unjoined(br, m)
    BY <2>1, <2>2
  <2>4. ASSUME NEW k \in 1..Rounds PROVE g[k] = Unmix(br, seed, Rounds + 1 - k, g[k - 1])
    BY <1>5, <2>2
  <2> QED BY <2>3, <2>4
<1> HIDE DEF step, Eq
<1>10. \A k \in 0..Rounds : g[k] \in Pair(br, Rounds - k)
  <2> DEFINE T == {k \in Nat : k <= Rounds => g[k] \in Pair(br, Rounds - k)}
  <2>1. 0 \in T
    <3>1. Rounds - 0 = Rounds
      BY <1>1
    <3> QED BY <1>3, <1>9, <3>1
  <2>2. ASSUME NEW k \in T PROVE k + 1 \in T
    <3>1. k \in Nat /\ (k <= Rounds => g[k] \in Pair(br, Rounds - k))
      OBVIOUS
    <3>2. CASE k + 1 <= Rounds
      <4>1. /\ k + 1 \in 1..Rounds /\ (k + 1) - 1 = k /\ k <= Rounds
            /\ Rounds + 1 - (k + 1) = Rounds - k /\ Rounds - k \in Nat \ {0}
            /\ (Rounds - k) - 1 = Rounds - (k + 1)
        BY <3>1, <3>2, <1>1
      <4>2. g[k + 1] = Unmix(br, seed, Rounds - k, g[k]) /\ g[k] \in Pair(br, Rounds - k)
        BY <4>1, <1>9, <3>1
      <4>3. g[k + 1] \in Pair(br, (Rounds - k) - 1)
        BY <4>1, <4>2, UnmixFacts
      <4> QED BY <4>1, <4>3, <3>1
    <3> QED BY <3>1, <3>2
  <2>3. \A k \in Nat : k \in T
    <3> HIDE DEF T
    <3> QED BY <2>1, <2>2, NatInductionSet DEF T
  <2> QED BY <2>3, <1>1
<1> QED BY <1>8, <1>9, <1>10

\* The rounds backwards undo the rounds, and the other way round.
LEMMA DecryptEncrypt ==
  ASSUME ReadsNumbers, NEW br, Rectangle(br), NEW seed \in Seeds, NEW m \in Numbers(br)
  PROVE  Encrypt(br, seed, m) \in Numbers(br) /\ Decrypt(br, seed, Encrypt(br, seed, m)) = m
<1>0. Rounds \in Nat
  BY BlackrockAssumption
<1>1. PICK f : /\ f[0] = Split(br, m)
               /\ \A j \in 1..Rounds : f[j] = Mix(br, seed, j, f[j - 1])
               /\ \A j \in 0..Rounds : f[j] \in Pair(br, j)
               /\ Encrypt(br, seed, m) = Joined(br, f[Rounds])
  BY EncryptSteps
<1>2. PICK e : e = Encrypt(br, seed, m)
  OBVIOUS
<1>3. e \in Numbers(br) /\ Unjoined(br, e) = f[Rounds]
  <2>1. f[Rounds] \in Pair(br, Rounds)
    BY <1>0, <1>1
  <2> QED BY <1>1, <1>2, <2>1, JoinedPair
<1>4. PICK g : /\ g[0] = Unjoined(br, e)
               /\ \A k \in 1..Rounds : g[k] = Unmix(br, seed, Rounds + 1 - k, g[k - 1])
               /\ Decrypt(br, seed, e) = br.a * g[Rounds][2] + g[Rounds][1]
  BY <1>3, DecryptSteps
<1>5. \A k \in 0..Rounds : g[k] = f[Rounds - k]
  <2> DEFINE T == {k \in Nat : k <= Rounds => g[k] = f[Rounds - k]}
  <2>1. 0 \in T
    <3>1. Rounds - 0 = Rounds
      BY <1>0
    <3> QED BY <1>3, <1>4, <3>1
  <2>2. ASSUME NEW k \in T PROVE k + 1 \in T
    <3>1. k \in Nat /\ (k <= Rounds => g[k] = f[Rounds - k])
      OBVIOUS
    <3>2. CASE k + 1 <= Rounds
      <4>1. PICK j \in Nat \ {0} : j = Rounds - k
        BY <3>1, <3>2, <1>0
      <4>2. /\ k + 1 \in 1..Rounds /\ (k + 1) - 1 = k /\ k <= Rounds
            /\ Rounds + 1 - (k + 1) = j /\ j \in 1..Rounds /\ j - 1 = Rounds - (k + 1)
            /\ j - 1 \in 0..Rounds
        BY <3>1, <3>2, <1>0, <4>1
      <4>3. g[k + 1] = Unmix(br, seed, j, g[k])
        BY <4>2, <1>4
      <4>4. g[k] = f[j]
        BY <4>1, <4>2, <3>1
      <4>5. f[j] = Mix(br, seed, j, f[j - 1]) /\ f[j - 1] \in Pair(br, j - 1)
        BY <4>2, <1>1
      <4>6. Unmix(br, seed, j, f[j]) = f[j - 1]
        BY <4>1, <4>5, MixFacts
      <4> QED BY <4>2, <4>3, <4>4, <4>6, <3>1
    <3> QED BY <3>1, <3>2
  <2>3. \A k \in Nat : k \in T
    <3> HIDE DEF T
    <3> QED BY <2>1, <2>2, NatInductionSet DEF T
  <2> QED BY <2>3, <1>0
<1>6. g[Rounds] = Split(br, m)
  <2>1. Rounds \in 0..Rounds /\ Rounds - Rounds = 0
    BY <1>0
  <2> QED BY <2>1, <1>5, <1>1
<1>7. Decrypt(br, seed, e) = m
  BY <1>4, <1>6, SplitPair
<1> QED BY <1>2, <1>3, <1>7

LEMMA EncryptDecrypt ==
  ASSUME ReadsNumbers, NEW br, Rectangle(br), NEW seed \in Seeds, NEW m \in Numbers(br)
  PROVE  Decrypt(br, seed, m) \in Numbers(br) /\ Encrypt(br, seed, Decrypt(br, seed, m)) = m
<1>0. Rounds \in Nat
  BY BlackrockAssumption
<1>1. PICK g : /\ g[0] = Unjoined(br, m)
               /\ \A k \in 1..Rounds : g[k] = Unmix(br, seed, Rounds + 1 - k, g[k - 1])
               /\ \A k \in 0..Rounds : g[k] \in Pair(br, Rounds - k)
               /\ Decrypt(br, seed, m) = br.a * g[Rounds][2] + g[Rounds][1]
  BY DecryptSteps
<1>2. PICK e : e = Decrypt(br, seed, m)
  OBVIOUS
<1>3. e \in Numbers(br) /\ Split(br, e) = g[Rounds]
  <2>1. Rounds \in 0..Rounds /\ Rounds - Rounds = 0 /\ 0 % 2 = 0
    BY <1>0
  <2>2. g[Rounds] \in (0..(br.a - 1)) \X (0..(br.b - 1))
    BY <2>1, <1>1 DEF Pair
  <2>3. PICK L \in 0..(br.a - 1), R \in 0..(br.b - 1) : g[Rounds] = <<L, R>>
    BY <2>2
  <2>4. PICK a \in Nat \ {0}, b \in Nat \ {0} : a = br.a /\ b = br.b
    BY DEF Rectangle
  <2>5. a * R + L \in 0..(a * b - 1) /\ (a * R + L) % a = L /\ (a * R + L) \div a = R
    <3>1. L \in 0..(a - 1) /\ R \in 0..(b - 1)
      BY <2>4
    <3> QED BY <3>1, JoinFacts
  <2>6. e = a * R + L
    BY <1>1, <1>2, <2>3, <2>4
  <2> QED BY <2>3, <2>4, <2>5, <2>6 DEF Numbers, Split
<1>4. PICK f : /\ f[0] = Split(br, e)
               /\ \A j \in 1..Rounds : f[j] = Mix(br, seed, j, f[j - 1])
               /\ Encrypt(br, seed, e) = Joined(br, f[Rounds])
  BY <1>3, EncryptSteps
<1>5. \A j \in 0..Rounds : f[j] = g[Rounds - j]
  <2> DEFINE T == {j \in Nat : j <= Rounds => f[j] = g[Rounds - j]}
  <2>1. 0 \in T
    <3>1. Rounds - 0 = Rounds
      BY <1>0
    <3> QED BY <1>3, <1>4, <3>1
  <2>2. ASSUME NEW j \in T PROVE j + 1 \in T
    <3>1. j \in Nat /\ (j <= Rounds => f[j] = g[Rounds - j])
      OBVIOUS
    <3>2. CASE j + 1 <= Rounds
      <4>1. PICK k \in Nat \ {0} : k = Rounds - j
        BY <3>1, <3>2, <1>0
      <4>2. /\ j + 1 \in 1..Rounds /\ (j + 1) - 1 = j /\ j <= Rounds /\ j + 1 \in Nat \ {0}
            /\ Rounds + 1 - k = j + 1 /\ k \in 1..Rounds /\ k - 1 = Rounds - (j + 1)
            /\ k - 1 \in 0..Rounds /\ Rounds - (k - 1) = j + 1
        BY <3>1, <3>2, <1>0, <4>1
      <4>3. f[j + 1] = Mix(br, seed, j + 1, f[j])
        BY <4>2, <1>4
      <4>4. f[j] = g[k]
        BY <4>1, <4>2, <3>1
      <4>5. g[k] = Unmix(br, seed, j + 1, g[k - 1]) /\ g[k - 1] \in Pair(br, j + 1)
        BY <4>2, <1>1
      <4>6. Mix(br, seed, j + 1, g[k]) = g[k - 1]
        BY <4>2, <4>5, UnmixFacts
      <4> QED BY <4>2, <4>3, <4>4, <4>6, <3>1
    <3> QED BY <3>1, <3>2
  <2>3. \A j \in Nat : j \in T
    <3> HIDE DEF T
    <3> QED BY <2>1, <2>2, NatInductionSet DEF T
  <2> QED BY <2>3, <1>0
<1>6. f[Rounds] = Unjoined(br, m)
  <2>1. Rounds \in 0..Rounds /\ Rounds - Rounds = 0
    BY <1>0
  <2> QED BY <2>1, <1>5, <1>1
<1>7. Encrypt(br, seed, e) = m
  BY <1>4, <1>6, UnjoinedPair
<1> QED BY <1>2, <1>3, <1>7

-----------------------------------------------------------------------------
(* The walk back into the range.                                           *)

LEMMA Least ==
  ASSUME NEW S \in SUBSET Nat, S # {}
  PROVE  \E x \in S : \A y \in S : x <= y
<1> DEFINE R == {ss \in Nat \X Nat : ss[1] < ss[2]}
<1>0. IsWellFoundedOn(R, Nat)
  BY NatLessThanWellFounded, Zenon DEF OpToRel
<1>1. PICK x \in S : \A y \in S : ~ (<<y, x>> \in R)
  <2> HIDE DEF R
  <2> QED BY <1>0, WFMin
<1>2. ASSUME NEW y \in S PROVE x <= y
  <2>1. x \in Nat /\ y \in Nat
    BY <1>1
  <2>2. y < x => <<y, x>> \in R
    BY <2>1
  <2> HIDE DEF R
  <2> QED BY <2>1, <2>2, <1>1
<1> QED BY <1>2

\* N numbers, a step that is a permutation of them, and its inverse.
Inverses(N, f, g) ==
    /\ f \in [0..(N - 1) -> 0..(N - 1)] /\ g \in [0..(N - 1) -> 0..(N - 1)]
    /\ \A x \in 0..(N - 1) : g[f[x]] = x /\ f[g[x]] = x

\* Where the walk of m is after each step.
Path(N, f, m, h) ==
    /\ h \in [0..N -> 0..(N - 1)]
    /\ h[0] = f[m] /\ \A k \in 1..N : h[k] = f[h[k - 1]]

\* A walk comes back to where it began.
LEMMA ComesBack ==
  ASSUME NEW N \in Nat \ {0}, NEW f, NEW g, Inverses(N, f, g), NEW m \in 0..(N - 1),
         NEW h, Path(N, f, m, h)
  PROVE  \E k \in 0..N : h[k] = m
<1> DEFINE X == 0..(N - 1)
           S == {l \in Nat : \E j \in 0..N : l < j /\ h[l] = h[j]}
<1>1. S # {}
  <2>1. IsFiniteSet(0..N) /\ IsFiniteSet(X) /\ Cardinality(0..N) = N + 1 /\ Cardinality(X) = N
    <3>1. 0 \in Int /\ N \in Int /\ N - 1 \in Int /\ 0 <= N /\ 0 <= N - 1
      OBVIOUS
    <3>2. IsFiniteSet(0..N) /\ Cardinality(0..N) = (IF 0 > N THEN 0 ELSE N - 0 + 1)
      BY <3>1, FS_Interval
    <3>3. IsFiniteSet(X) /\ Cardinality(X) = (IF 0 > N - 1 THEN 0 ELSE (N - 1) - 0 + 1)
      BY <3>1, FS_Interval
    <3> QED BY <3>2, <3>3
  <2>2. h \in [0..N -> X]
    BY DEF Path
  <2>3. \E x, y \in 0..N : x # y /\ h[x] = h[y]
    <3>1. Cardinality(X) < Cardinality(0..N)
      BY <2>1
    <3> HIDE DEF X
    <3> QED BY <2>1, <2>2, <3>1, FS_PigeonHole
  <2> QED BY <2>3
<1>2. PICK l \in S : \A y \in S : l <= y
  <2> HIDE DEF S
  <2>1. S \in SUBSET Nat
    BY DEF S
  <2> QED BY <1>1, <2>1, Least
<1>3. l \in Nat /\ \E j \in 0..N : l < j /\ h[l] = h[j]
  BY <1>2
<1>a. PICK j \in 0..N : l < j /\ h[l] = h[j]
  BY <1>3
<1>b. ASSUME NEW k \in 1..N
      PROVE  k - 1 \in 0..N /\ h[k] = f[h[k - 1]] /\ h[k - 1] \in X
  <2>1. k - 1 \in 0..N
    OBVIOUS
  <2> QED BY <2>1 DEF Path
<1>4. j \in 1..N /\ l \in 0..N /\ j - 1 \in 0..N /\ h[j] = f[h[j - 1]] /\ h[j - 1] \in X
  <2>1. j \in 1..N /\ l \in 0..N
    BY <1>3, <1>a
  <2> QED BY <2>1, <1>b
<1>c. \A x, y \in X : f[x] = f[y] => x = y
  BY DEF Inverses
<1>5. CASE l = 0
  <2>1. f[m] = f[h[j - 1]]
    BY <1>5, <1>a, <1>4 DEF Path
  <2>2. m = h[j - 1]
    <3> HIDE DEF X
    <3>1. m \in X
      BY DEF X
    <3> QED BY <2>1, <1>4, <1>c, <3>1
  <2> QED BY <2>2, <1>4
<1>6. CASE l # 0
  <2>0. l \in 1..N
    BY <1>6, <1>4
  <2>1. l - 1 \in 0..N /\ h[l] = f[h[l - 1]] /\ h[l - 1] \in X
    BY <2>0, <1>b
  <2>2. h[l - 1] = h[j - 1]
    <3>1. f[h[l - 1]] = f[h[j - 1]]
      BY <2>1, <1>a, <1>4
    <3> HIDE DEF X
    <3> QED BY <3>1, <2>1, <1>4, <1>c
  <2>3. l - 1 \in S
    <3>1. l - 1 \in Nat /\ l - 1 < j - 1
      BY <2>1, <1>3, <1>a, <1>4
    <3> QED BY <3>1, <2>2, <1>4
  <2>4. l <= l - 1
    <3> HIDE DEF S
    <3> QED BY <2>3, <1>2
  <2> QED BY <2>4, <1>3
<1> QED BY <1>5, <1>6

\* The path ends where it is below range for the first time.
Ends(h, range, last) == h[last] < range /\ \A l \in 0..(last - 1) : h[l] >= range

LEMMA WalkSteps ==
  ASSUME NEW N \in Nat \ {0}, NEW br, br.a * br.b = N, NEW range \in 1..N, br.range = range,
         NEW f, NEW g, Inverses(N, f, g), NEW m \in 0..(range - 1)
  PROVE  \E h : /\ Path(N, f, m, h)
                /\ \E last \in 0..N : Ends(h, range, last) /\ Walk(br, f, m) = h[last]
<1> DEFINE X == 0..(N - 1)
           step == [k \in 1..N |-> f]
           Eq(h) == h = [k \in 0..N |-> f[IF k = 0 THEN m ELSE h[k - 1]]]
<1>1. m \in X /\ f \in [X -> X] /\ f[m] \in X
  <2>1. m \in X
    OBVIOUS
  <2>2. f \in [X -> X]
    BY DEF Inverses
  <2> QED BY <2>1, <2>2
<1>2. step \in [1..N -> [X -> X]] /\ \A k \in 1..N : step[k] = f
  BY <1>1
<1>3. PICK h0 : Iterates(h0, N, X, f[m], step)
  <2> HIDE DEF step, X
  <2> QED BY <1>1, <1>2, Recursion
<1>4. Path(N, f, m, h0)
  BY <1>2, <1>3 DEF Iterates, Path
<1>5. \A k \in 0..N : k = 0 \/ k \in 1..N
  OBVIOUS
<1>6. Eq(h0)
  BY <1>4, <1>5 DEF Path
<1> DEFINE h == CHOOSE h : Eq(h)
           Final(last) == h[last] < br.range /\ \A l \in 0..(last - 1) : h[l] >= br.range
<1>7. Eq(h)
  BY <1>6
<1>8. Walk(br, f, m) = h[CHOOSE last \in DOMAIN h : Final(last)]
  BY DEF Walk
<1> HIDE DEF h
<1>9. /\ DOMAIN h = 0..N /\ h = [k \in 0..N |-> h[k]]
      /\ \A k \in 0..N : h[k] = f[IF k = 0 THEN m ELSE h[k - 1]]
  BY <1>7, Zenon
<1> HIDE DEF Eq
<1>10. h[0] = f[m] /\ \A k \in 1..N : k - 1 \in 0..N /\ h[k] = f[h[k - 1]]
  <2>1. h[0] = f[m]
    BY <1>9
  <2>2. ASSUME NEW k \in 1..N PROVE k - 1 \in 0..N /\ h[k] = f[h[k - 1]]
    <3>1. k \in 0..N /\ k # 0
      OBVIOUS
    <3> QED BY <3>1, <1>9
  <2> QED BY <2>1, <2>2
<1>11. \A k \in 0..N : h[k] \in X
  <2> DEFINE T == {k \in Nat : k <= N => h[k] \in X}
  <2>1. 0 \in T
    BY <1>1, <1>10
  <2>2. ASSUME NEW k \in T PROVE k + 1 \in T
    <3>1. k \in Nat /\ (k <= N => h[k] \in X)
      OBVIOUS
    <3>2. CASE k + 1 <= N
      <4>1. k + 1 \in 1..N /\ (k + 1) - 1 = k /\ k <= N
        BY <3>1, <3>2
      <4>2. h[k + 1] = f[h[k]]
        BY <4>1, <1>10
      <4>3. h[k] \in X
        BY <4>1, <3>1
      <4>4. h[k + 1] \in X
        <5> HIDE DEF X
        <5> QED BY <4>2, <4>3, <1>1
      <4> QED BY <4>4, <3>1
    <3> QED BY <3>1, <3>2
  <2>3. \A k \in Nat : k \in T
    <3> HIDE DEF T
    <3> QED BY <2>1, <2>2, NatInductionSet DEF T
  <2> QED BY <2>3
<1>12. Path(N, f, m, h)
  BY <1>9, <1>10, <1>11 DEF Path
<1>13. \E last \in DOMAIN h : Final(last)
  <2> DEFINE S == {k \in Nat : k <= N /\ h[k] < range}
  <2>1. S # {}
    <3>1. PICK k \in 0..N : h[k] = m
      BY <1>12, ComesBack
    <3> QED BY <3>1
  <2>2. PICK k \in S : \A y \in S : k <= y
    <3> HIDE DEF S
    <3>1. S \in SUBSET Nat
      BY DEF S
    <3> QED BY <2>1, <3>1, Least
  <2>3. k \in 0..N /\ h[k] < range
    BY <2>2
  <2>4. ASSUME NEW l \in 0..(k - 1) PROVE h[l] >= range
    <3>1. l \in 0..N /\ l \in Nat /\ ~ (k <= l)
      BY <2>3
    <3>2. l \notin S
      BY <3>1, <2>2
    <3>3. h[l] \in Nat
      BY <3>1, <1>11
    <3> QED BY <3>1, <3>2, <3>3
  <2> QED BY <2>3, <2>4, <1>9
<1>14. PICK last \in DOMAIN h : Final(last) /\ Walk(br, f, m) = h[last]
  <2> DEFINE e == CHOOSE last \in DOMAIN h : Final(last)
  <2>1. e \in DOMAIN h /\ Final(e)
    <3> HIDE DEF Final
    <3> QED BY <1>13
  <2> QED BY <2>1, <1>8
<1>15. last \in 0..N /\ Ends(h, range, last)
  BY <1>14, <1>9 DEF Ends
<1> QED BY <1>12, <1>14, <1>15

\* The walk with the inverse leads back.
LEMMA WalkBack ==
  ASSUME NEW N \in Nat \ {0}, NEW br, br.a * br.b = N, NEW range \in 1..N, br.range = range,
         NEW f, NEW g, Inverses(N, f, g), NEW m \in 0..(range - 1)
  PROVE  Walk(br, f, m) \in 0..(range - 1) /\ Walk(br, g, Walk(br, f, m)) = m
<1> DEFINE X == 0..(N - 1)
<1>0. m \in X /\ \A x \in X : g[f[x]] = x
  <2>1. m \in X
    OBVIOUS
  <2>2. \A x \in X : g[f[x]] = x
    BY DEF Inverses
  <2> QED BY <2>1, <2>2
<1>a. PICK h : /\ Path(N, f, m, h)
               /\ \E last \in 0..N : Ends(h, range, last) /\ Walk(br, f, m) = h[last]
  <2>1. \E h : /\ Path(N, f, m, h)
              /\ \E last \in 0..N : Ends(h, range, last) /\ Walk(br, f, m) = h[last]
    BY WalkSteps, SMTT(60)
  <2> QED BY <2>1
<1>1. PICK last \in 0..N : Path(N, f, m, h) /\ Ends(h, range, last) /\ Walk(br, f, m) = h[last]
  BY <1>a
<1>2. PICK y \in 0..(range - 1) : y = Walk(br, f, m) /\ y = h[last]
  <2>1. h[last] \in X /\ h[last] < range
    BY <1>1 DEF Path, Ends
  <2> QED BY <2>1, <1>1
<1>3. Inverses(N, g, f)
  BY DEF Inverses
<1>b. PICK e : /\ Path(N, g, y, e)
               /\ \E end \in 0..N : Ends(e, range, end) /\ Walk(br, g, y) = e[end]
  <2>1. \E w : /\ Path(N, g, y, w)
              /\ \E z \in 0..N : Ends(w, range, z) /\ Walk(br, g, y) = w[z]
    BY <1>3, WalkSteps, SMTT(60)
  <2> QED BY <2>1
<1>4. PICK end \in 0..N : Path(N, g, y, e) /\ Ends(e, range, end) /\ Walk(br, g, y) = e[end]
  BY <1>b
<1>5. \A k \in 0..last : e[k] = IF k = last THEN m ELSE h[last - 1 - k]
  <2>a. ASSUME NEW l \in 0..last
        PROVE  g[h[l]] = IF l = 0 THEN m ELSE h[l - 1]
    <3>1. CASE l = 0
      BY <3>1, <1>0, <1>1 DEF Path
    <3>2. CASE l # 0
      <4>1. l \in 1..N /\ l - 1 \in 0..N
        BY <3>2
      <4>2. h[l] = f[h[l - 1]] /\ h[l - 1] \in X
        BY <4>1, <1>1 DEF Path
      <4> HIDE DEF X
      <4> QED BY <4>2, <3>2, <1>0
    <3> QED BY <3>1, <3>2
  <2> DEFINE T == {k \in Nat : k <= last => e[k] = IF k = last THEN m ELSE h[last - 1 - k]}
  <2>1. 0 \in T
    <3>1. e[0] = g[h[last]]
      BY <1>2, <1>4 DEF Path
    <3>2. last \in 0..last /\ last - 1 - 0 = last - 1
      OBVIOUS
    <3> QED BY <3>1, <3>2, <2>a
  <2>2. ASSUME NEW k \in T PROVE k + 1 \in T
    <3>1. k \in Nat /\ (k <= last => e[k] = IF k = last THEN m ELSE h[last - 1 - k])
      OBVIOUS
    <3>2. CASE k + 1 <= last
      <4>1. /\ k + 1 \in 1..N /\ (k + 1) - 1 = k /\ k <= last /\ k # last
            /\ last - 1 - k \in 0..last /\ (last - 1 - k) - 1 = last - 1 - (k + 1)
            /\ (last - 1 - k = 0 <=> k + 1 = last)
        BY <3>1, <3>2
      <4>2. e[k + 1] = g[e[k]]
        BY <4>1, <1>4 DEF Path
      <4>3. e[k] = h[last - 1 - k]
        BY <4>1, <3>1
      <4>4. g[h[last - 1 - k]] = IF last - 1 - k = 0 THEN m ELSE h[(last - 1 - k) - 1]
        BY <4>1, <2>a
      <4> QED BY <4>1, <4>2, <4>3, <4>4, <3>1
    <3> QED BY <3>1, <3>2
  <2>3. \A k \in Nat : k \in T
    <3> HIDE DEF T
    <3> QED BY <2>1, <2>2, NatInductionSet DEF T
  <2> QED BY <2>3
<1>6. e[last] = m
  BY <1>5
<1>7. \A k \in 0..(last - 1) : e[k] >= range
  <2> SUFFICES ASSUME NEW k \in 0..(last - 1) PROVE e[k] >= range
    OBVIOUS
  <2>1. k \in 0..last /\ k # last /\ last - 1 - k \in 0..(last - 1)
    OBVIOUS
  <2>2. e[k] = h[last - 1 - k]
    BY <2>1, <1>5
  <2> QED BY <2>1, <2>2, <1>1 DEF Ends
<1>8. end = last
  <2>1. ~ (end < last)
    <3> SUFFICES ASSUME end < last PROVE FALSE
      OBVIOUS
    <3>1. end \in 0..(last - 1)
      OBVIOUS
    <3>2. e[end] \in X /\ e[end] < range /\ e[end] >= range
      BY <3>1, <1>4, <1>7 DEF Path, Ends
    <3> QED BY <3>2
  <2>2. ~ (last < end)
    <3> SUFFICES ASSUME last < end PROVE FALSE
      OBVIOUS
    <3>1. last \in 0..(end - 1)
      OBVIOUS
    <3>2. m >= range
      BY <3>1, <1>4, <1>6 DEF Ends
    <3> QED BY <3>2
  <2> QED BY <2>1, <2>2
<1> QED BY <1>2, <1>4, <1>6, <1>8

-----------------------------------------------------------------------------
(* The sides of the cipher.                                                *)

LEMMA SquareRootFacts ==
  ASSUME NEW n \in Nat, n >= 9
  PROVE  SquareRoot(n) \in Nat /\ SquareRoot(n) >= 3
<1> DEFINE S == {k \in Nat : (k + 1) * (k + 1) > n}
           Root(k) == k * k <= n /\ (k + 1) * (k + 1) > n
<1>1. n \in S
  <2>1. (n + 1) * (n + 1) >= n + 1
    OBVIOUS
  <2> QED BY <2>1
<1>2. PICK k \in S : \A y \in S : k <= y
  <2> HIDE DEF S
  <2>1. S \in SUBSET Nat /\ S # {}
    BY <1>1 DEF S
  <2> QED BY <2>1, Least
<1>3. k \in 0..n /\ (k + 1) * (k + 1) > n /\ k # 0
  <2>1. k \in Nat /\ (k + 1) * (k + 1) > n /\ k <= n
    BY <1>1, <1>2
  <2> QED BY <2>1
<1>4. k * k <= n
  <2>1. k - 1 \in Nat /\ (k - 1) + 1 = k /\ ~ (k <= k - 1)
    BY <1>3
  <2>2. k - 1 \notin S
    BY <2>1, <1>2
  <2>3. ~ (k * k > n)
    BY <2>1, <2>2
  <2>4. k * k \in Nat
    BY <1>3
  <2> QED BY <2>3, <2>4
<1>5. SquareRoot(n) \in 0..n /\ Root(SquareRoot(n))
  <2>1. Root(k) /\ k \in 0..n
    BY <1>3, <1>4
  <2> HIDE DEF Root
  <2>2. SquareRoot(n) = CHOOSE x \in 0..n : Root(x)
    BY DEF SquareRoot, Root
  <2> QED BY <2>1, <2>2
<1> DEFINE r == SquareRoot(n)
<1>6. r \in Nat /\ (r + 1) * (r + 1) > n
  BY <1>5
<1> HIDE DEF r
<1>7. ~ (r <= 2)
  <2> SUFFICES ASSUME r <= 2 PROVE FALSE
    OBVIOUS
  <2>1. r \in {0, 1, 2}
    BY <1>6
  <2> QED BY <2>1, <1>6
<1> QED BY <1>6, <1>7 DEF r

LEMMA SidesFacts ==
  ASSUME NEW range \in Nat \ {0}
  PROVE  /\ Rectangle(Sides(range)) /\ Sides(range).range = range
         /\ range < Sides(range).a * Sides(range).b
<1> DEFINE start == CASE range = 1 -> <<1, 1>>
                      [] range = 2 -> <<1, 2>>
                      [] range = 3 -> <<2, 2>>
                      [] range \in 4..6 -> <<2, 3>>
                      [] range \in 7..8 -> <<3, 3>>
                      [] OTHER -> <<SquareRoot(range) - 2, SquareRoot(range) + 3>>
           Enough(a, b, from) == a * b > range /\ \A c \in from..(b - 1) : a * c <= range
<1>1. \E a \in Nat \ {0}, from \in Nat \ {0} : start = <<a, from>>
  <2>1. CASE range >= 9
    <3>1. start = <<SquareRoot(range) - 2, SquareRoot(range) + 3>>
      BY <2>1
    <3> QED BY <2>1, <3>1, SquareRootFacts
  <2>2. CASE range < 9
    <3>1. range \in {1, 2, 3, 4, 5, 6, 7, 8}
      BY <2>2
    <3> QED BY <3>1
  <2> QED BY <2>1, <2>2
<1>2. PICK a \in Nat \ {0}, from \in Nat \ {0} : start = <<a, from>>
  BY <1>1
<1>s. Sides(range) = [a |-> start[1], b |-> CHOOSE b \in start[2]..(range + start[2]) :
                                               Enough(start[1], b, start[2]),
                      range |-> range]
  BY DEF Sides
<1> HIDE DEF start, Enough
<1>r. start[1] = a /\ start[2] = from
  BY <1>2
<1>3. Sides(range) = [a |-> a, b |-> CHOOSE b \in from..(range + from) : Enough(a, b, from),
                      range |-> range]
  BY <1>s, <1>r
<1> USE DEF Enough
<1>4. \E b \in from..(range + from) : Enough(a, b, from)
  <2> DEFINE S == {b \in Nat : b >= from /\ a * b > range}
  <2>1. range + from \in S
    <3>1. a * (range + from) >= range + from
      OBVIOUS
    <3>2. range + from \in Nat /\ range + from >= from /\ range + from > range
      OBVIOUS
    <3> QED BY <3>1, <3>2
  <2>2. PICK b \in S : \A y \in S : b <= y
    <3> HIDE DEF S
    <3>1. S \in SUBSET Nat /\ S # {}
      BY <2>1 DEF S
    <3> QED BY <3>1, Least
  <2>3. b \in from..(range + from) /\ a * b > range
    BY <2>1, <2>2
  <2>4. ASSUME NEW c \in from..(b - 1) PROVE a * c <= range
    <3>1. c \in Nat /\ c >= from /\ ~ (b <= c)
      BY <2>3
    <3>2. c \notin S
      BY <3>1, <2>2
    <3>3. ~ (a * c > range) /\ a * c \in Nat
      BY <3>1, <3>2
    <3> QED BY <3>3
  <2> QED BY <2>3, <2>4
<1>5. PICK b \in from..(range + from) : Enough(a, b, from)
                                        /\ Sides(range) = [a |-> a, b |-> b, range |-> range]
  <2> HIDE DEF Enough
  <2> QED BY <1>3, <1>4
<1> QED BY <1>5 DEF Rectangle

\* The shuffle is a permutation and unshuffle its inverse, for every range, round
\* function and seed (blackrock_verify, hostscan.c:775-778).
THEOREM ShuffleCorrect ==
  ASSUME ReadsNumbers, NEW range \in Nat \ {0}, NEW seed \in Seeds
  PROVE  Permutes(range, seed)
<1> DEFINE br == Sides(range)
           f == [n \in Numbers(br) |-> Encrypt(br, seed, n)]
           g == [n \in Numbers(br) |-> Decrypt(br, seed, n)]
<1>1. Rectangle(br) /\ br.range = range /\ range < br.a * br.b
  BY SidesFacts
<1>2. PICK N \in Nat \ {0} : N = br.a * br.b /\ Numbers(br) = 0..(N - 1) /\ range \in 1..N
  <2>1. br.a * br.b \in Nat \ {0}
    BY <1>1 DEF Rectangle
  <2> QED BY <2>1, <1>1 DEF Numbers
<1>3. Inverses(N, f, g)
  <2>1. \A n \in Numbers(br) : /\ Encrypt(br, seed, n) \in Numbers(br)
                               /\ Decrypt(br, seed, n) \in Numbers(br)
                               /\ Decrypt(br, seed, Encrypt(br, seed, n)) = n
                               /\ Encrypt(br, seed, Decrypt(br, seed, n)) = n
    <3> HIDE DEF br
    <3> QED BY <1>1, DecryptEncrypt, EncryptDecrypt
  <2> HIDE DEF br
  <2>2. /\ f \in [Numbers(br) -> Numbers(br)] /\ g \in [Numbers(br) -> Numbers(br)]
        /\ \A x \in Numbers(br) : g[f[x]] = x /\ f[g[x]] = x
    BY <2>1
  <2> HIDE DEF f, g
  <2> QED BY <2>2, <1>2 DEF Inverses
<1>4. Inverses(N, g, f)
  <2> HIDE DEF f, g
  <2> QED BY <1>3 DEF Inverses
<1>5. \A m : Shuffle(br, seed, m) = Walk(br, f, m) /\ Unshuffle(br, seed, m) = Walk(br, g, m)
  BY DEF Shuffle, Unshuffle
<1> HIDE DEF br, f, g
<1>6. ASSUME NEW m \in 0..(range - 1)
      PROVE  /\ Shuffle(br, seed, m) \in 0..(range - 1) /\ Unshuffle(br, seed, m) \in 0..(range - 1)
             /\ Unshuffle(br, seed, Shuffle(br, seed, m)) = m
             /\ Shuffle(br, seed, Unshuffle(br, seed, m)) = m
  <2>1. Walk(br, f, m) \in 0..(range - 1) /\ Walk(br, g, Walk(br, f, m)) = m
    BY <1>1, <1>2, <1>3, WalkBack
  <2>2. Walk(br, g, m) \in 0..(range - 1) /\ Walk(br, f, Walk(br, g, m)) = m
    BY <1>1, <1>2, <1>4, WalkBack
  <2> QED BY <2>1, <2>2, <1>5
<1> QED BY <1>6 DEF Permutes, br

-----------------------------------------------------------------------------
(* Ranges                                                                  *)

LEMMA RangeFacts ==
  ASSUME NEW r \in AddressRange
  PROVE  /\ r.begin \in 0..TopAddress /\ r.end \in 0..TopAddress /\ r.begin <= r.end
         /\ r.begin \in Nat /\ r.end \in Nat /\ TopAddress \in Nat
         /\ r.begin \in Members(r)
         /\ \A x : x \in Members(r) <=> x \in Int /\ r.begin <= x /\ x <= r.end
<1>1. r.begin \in 0..TopAddress /\ r.end \in 0..TopAddress /\ r.begin <= r.end
  BY DEF AddressRange
<1>2. r.begin \in Nat /\ r.end \in Nat /\ TopAddress \in Nat
  BY <1>1, TargetListAssumption
<1>3. \A x : x \in Members(r) <=> x \in Int /\ r.begin <= x /\ x <= r.end
  BY <1>2 DEF Members
<1> QED BY <1>1, <1>2, <1>3

LEMMA RangeMade ==
  ASSUME NEW b \in 0..TopAddress, NEW e \in 0..TopAddress, b <= e
  PROVE  [begin |-> b, end |-> e] \in AddressRange
BY DEF AddressRange

\* Two ranges that touch or overlap are combined into one with the members of both.
LEMMA CombinedFacts ==
  ASSUME NEW r \in AddressRange, NEW s \in AddressRange, Overlap(r, s)
  PROVE  /\ Combined(r, s) \in AddressRange
         /\ Members(Combined(r, s)) = Members(r) \cup Members(s)
         /\ r.begin <= s.begin => Combined(r, s).begin = r.begin
<1>1. /\ r.begin \in 0..TopAddress /\ r.end \in 0..TopAddress /\ r.begin <= r.end
      /\ s.begin \in 0..TopAddress /\ s.end \in 0..TopAddress /\ s.begin <= s.end
      /\ TopAddress \in Nat
  BY RangeFacts
<1> DEFINE c == Combined(r, s)
<1>2. /\ c = [begin |-> c.begin, end |-> c.end]
      /\ c.begin = IF r.begin > s.begin THEN s.begin ELSE r.begin
      /\ c.end = IF r.end < s.end THEN s.end ELSE r.end
  BY DEF Combined
<1>3. c.begin \in 0..TopAddress /\ c.end \in 0..TopAddress /\ c.begin <= c.end
  BY <1>1, <1>2
<1>4. c \in AddressRange
  BY <1>2, <1>3, RangeMade
<1>5. /\ \A x \in Int : c.begin <= x /\ x <= c.end <=>
            \/ r.begin <= x /\ x <= r.end
            \/ s.begin <= x /\ x <= s.end
  BY <1>1, <1>2 DEF Overlap, Reaches
<1>6. Members(c) = Members(r) \cup Members(s)
  <2> HIDE DEF c
  <2> QED BY <1>4, <1>5, RangeFacts
<1>7. r.begin <= s.begin => c.begin = r.begin
  BY <1>1, <1>2
<1> QED BY <1>4, <1>6, <1>7

LEMMA ApartFacts ==
  ASSUME NEW r \in AddressRange, NEW s \in AddressRange, ~ Overlap(r, s), r.begin <= s.begin
  PROVE  r.end < s.begin
<1>1. /\ r.begin \in 0..TopAddress /\ r.end \in 0..TopAddress /\ r.begin <= r.end
      /\ s.begin \in 0..TopAddress /\ s.end \in 0..TopAddress /\ s.begin <= s.end
      /\ TopAddress \in Nat
  BY RangeFacts
<1> QED BY <1>1 DEF Overlap, Reaches

-----------------------------------------------------------------------------
(* Lists of ranges                                                         *)

LEMMA NamedFacts ==
  ASSUME NEW ranges, NEW x
  PROVE  x \in Named(ranges) <=> \E k \in DOMAIN ranges : x \in Members(ranges[k])
BY DEF Named

RangeList == [list : Seq(AddressRange), is_sorted : BOOLEAN]

\* No two ranges meet, and they are in order; none begins behind r.
Separated(list) == \A j, k \in DOMAIN list : j < k => list[j].end < list[k].begin
BeginBy(list, r) == \A k \in DOMAIN list : list[k].begin <= r.begin

LEMMA AppendFacts ==
  ASSUME NEW S, NEW list \in Seq(S), NEW x \in S
  PROVE  /\ Append(list, x) \in Seq(S) /\ Len(Append(list, x)) = Len(list) + 1
         /\ DOMAIN Append(list, x) = 1..(Len(list) + 1)
         /\ \A k \in 1..Len(list) : Append(list, x)[k] = list[k]
         /\ Append(list, x)[Len(list) + 1] = x
OBVIOUS

LEMMA FrontFacts ==
  ASSUME NEW S, NEW list \in Seq(S), list # <<>>
  PROVE  /\ Front(list) \in Seq(S) /\ Len(Front(list)) = Len(list) - 1 /\ Len(list) \in Nat \ {0}
         /\ \A k \in 1..(Len(list) - 1) : Front(list)[k] = list[k]
         /\ Last(list) = list[Len(list)] /\ Last(list) \in S
<1>1. Len(list) \in Nat \ {0}
  OBVIOUS
<1>2. Last(list) = list[Len(list)] /\ Last(list) \in S
  BY <1>1 DEF Last
<1>3. PICK m \in Nat : m = Len(list) - 1 /\ \A k \in 1..m : list[k] \in S
  BY <1>1
<1>4. Front(list) = SubSeq(list, 1, m)
  BY <1>3 DEF Front
<1>5. /\ SubSeq(list, 1, m) \in Seq(S)
      /\ Len(SubSeq(list, 1, m)) = (IF 1 <= m THEN m - 1 + 1 ELSE 0)
      /\ \A k \in 1..(m - 1 + 1) : SubSeq(list, 1, m)[k] = list[1 + k - 1]
  BY <1>3, SubSeqProperties
<1> HIDE DEF Front
<1>6. /\ Front(list) \in Seq(S)
      /\ Len(Front(list)) = (IF 1 <= m THEN m - 1 + 1 ELSE 0)
      /\ \A k \in 1..(m - 1 + 1) : Front(list)[k] = list[1 + k - 1]
  BY <1>4, <1>5, Zenon
<1>7. (IF 1 <= m THEN m - 1 + 1 ELSE 0) = m
  OBVIOUS
<1>8. \A k \in 1..m : k \in 1..(m - 1 + 1) /\ 1 + k - 1 = k
  OBVIOUS
<1>9. \A k \in 1..m : Front(list)[k] = list[k]
  BY <1>6, <1>8
<1>10. Len(Front(list)) = m
  BY <1>6, <1>7
<1> QED BY <1>1, <1>2, <1>3, <1>6, <1>9, <1>10

\* The list after rangelist_add_range: one more range, or another last one.
LEMMA AddRangeCases ==
  ASSUME NEW targets \in RangeList, NEW r \in AddressRange
  PROVE  \E n \in Nat, c \in AddressRange :
           /\ AddRange(targets, r).list \in Seq(AddressRange)
           /\ AddRange(targets, r).is_sorted \in BOOLEAN
           /\ AddRange(targets, r) \in RangeList
           /\ Len(AddRange(targets, r).list) = n + 1
           /\ \A k \in 1..n : k \in DOMAIN targets.list /\ AddRange(targets, r).list[k] = targets.list[k]
           /\ AddRange(targets, r).list[n + 1] = c
           /\ AddRange(targets, r).is_sorted => n = 0
           /\ \/ /\ n = Len(targets.list) /\ c = r
                 /\ n > 0 => ~ Overlap(targets.list[n], r)
              \/ /\ n + 1 = Len(targets.list) /\ Overlap(targets.list[n + 1], r)
                 /\ c = Combined(targets.list[n + 1], r)
<1> DEFINE list == targets.list
           new == AddRange(targets, r)
<1>1. list \in Seq(AddressRange) /\ Len(list) \in Nat /\ DOMAIN list = 1..Len(list)
  BY DEF RangeList
<1>2. CASE list = <<>>
  <2>1. new = [list |-> <<r>>, is_sorted |-> TRUE]
    BY <1>2 DEF AddRange
  <2>2. <<r>> \in Seq(AddressRange) /\ Len(<<r>>) = 1 /\ <<r>>[1] = r
    OBVIOUS
  <2>3. new \in RangeList /\ new.list = <<r>> /\ new.is_sorted = TRUE
    BY <2>1, <2>2 DEF RangeList
  <2>4. Len(list) = 0 /\ 0 \in Nat /\ 0 + 1 = 1 /\ 1..0 = {}
    BY <1>2
  <2>5. new.list \in Seq(AddressRange) /\ Len(new.list) = 0 + 1 /\ new.list[0 + 1] = r
        /\ new.is_sorted \in BOOLEAN
    BY <2>2, <2>3, <2>4
  <2>6. \A k \in 1..0 : k \in DOMAIN list /\ new.list[k] = list[k]
    BY <2>4
  <2>7. 0 \in Nat /\ ~ (0 > 0)
    OBVIOUS
  <2> HIDE DEF new, list
  <2> QED BY <2>3, <2>4, <2>5, <2>6, <2>7 DEF list, new
<1>3. CASE list # <<>> /\ Overlap(Last(list), r)
  <2> DEFINE c == Combined(Last(list), r)
             n == Len(list) - 1
  <2>1. new = [list |-> Append(Front(list), c), is_sorted |-> FALSE]
    BY <1>3 DEF AddRange
  <2>2. /\ Front(list) \in Seq(AddressRange) /\ Len(Front(list)) = n /\ n \in Nat
        /\ \A k \in 1..n : Front(list)[k] = list[k]
        /\ Last(list) = list[n + 1] /\ Last(list) \in AddressRange
    BY <1>1, <1>3, FrontFacts
  <2>3. c \in AddressRange
    BY <1>3, <2>2, CombinedFacts
  <2>4. new \in RangeList /\ new.list = Append(Front(list), c) /\ new.is_sorted = FALSE
    BY <2>1, <2>2, <2>3, AppendFacts DEF RangeList
  <2>5. n + 1 = Len(list) /\ \A k \in 1..n : k \in DOMAIN list
    BY <1>1
  <2>6. /\ new.list \in Seq(AddressRange) /\ Len(new.list) = n + 1
        /\ \A k \in 1..n : new.list[k] = list[k]
        /\ new.list[n + 1] = c
    <3> HIDE DEF n, c, new, list
    <3> QED BY <2>2, <2>3, <2>4, AppendFacts
  <2> HIDE DEF n, new, list
  <2>7. c = Combined(list[n + 1], r) /\ Overlap(list[n + 1], r)
    BY <2>2, <1>3
  <2> HIDE DEF c
  <2> QED BY <2>2, <2>3, <2>4, <2>5, <2>6, <2>7 DEF list, new
<1>4. CASE list # <<>> /\ ~ Overlap(Last(list), r)
  <2> DEFINE n == Len(list)
  <2>1. new = [list |-> Append(list, r), is_sorted |-> FALSE]
    BY <1>4 DEF AddRange
  <2>2. new \in RangeList /\ new.list = Append(list, r) /\ new.is_sorted = FALSE
    BY <1>1, <2>1, AppendFacts DEF RangeList
  <2>3. /\ new.list \in Seq(AddressRange) /\ Len(new.list) = n + 1
        /\ \A k \in 1..n : k \in DOMAIN list /\ new.list[k] = list[k]
        /\ new.list[n + 1] = r
    <3> HIDE DEF new, list
    <3> QED BY <1>1, <2>2, AppendFacts
  <2>4. ~ Overlap(list[n], r) /\ n \in Nat
    BY <1>1, <1>4 DEF Last
  <2> HIDE DEF n, new, list
  <2> QED BY <2>2, <2>3, <2>4 DEF list, new, n
<1> QED BY <1>2, <1>3, <1>4

\* Adding a range adds its members.
LEMMA AddRangeFacts ==
  ASSUME NEW targets \in RangeList, NEW r \in AddressRange
  PROVE  /\ AddRange(targets, r) \in RangeList
         /\ AddRange(targets, r).is_sorted => Len(AddRange(targets, r).list) = 1
         /\ Named(AddRange(targets, r).list) = Named(targets.list) \cup Members(r)
<1> DEFINE list == targets.list
           new == AddRange(targets, r).list
<1>1. PICK n \in Nat, c \in AddressRange :
           /\ new \in Seq(AddressRange)
           /\ AddRange(targets, r) \in RangeList
           /\ Len(new) = n + 1
           /\ \A k \in 1..n : k \in DOMAIN list /\ new[k] = list[k]
           /\ new[n + 1] = c
           /\ AddRange(targets, r).is_sorted => n = 0
           /\ \/ n = Len(list) /\ c = r
              \/ /\ n + 1 = Len(list) /\ Overlap(list[n + 1], r)
                 /\ c = Combined(list[n + 1], r)
  BY AddRangeCases
<1>2. list \in Seq(AddressRange) /\ Len(list) \in Nat /\ DOMAIN list = 1..Len(list)
  BY DEF RangeList
<1>3. DOMAIN new = 1..(n + 1)
  BY <1>1
<1> HIDE DEF new, list
<1>4. \A x : x \in Named(new) <=> \/ \E k \in 1..n : x \in Members(list[k])
                                  \/ x \in Members(c)
  <2>1. \A k : k \in 1..(n + 1) <=> k \in 1..n \/ k = n + 1
    BY <1>1
  <2> QED BY <2>1, <1>1, <1>3, NamedFacts
<1>5. ASSUME n = Len(list), c = r
      PROVE  \A x : x \in Named(new) <=> x \in Named(list) \cup Members(r)
  BY <1>2, <1>4, <1>5, NamedFacts
<1>6. ASSUME n + 1 = Len(list), Overlap(list[n + 1], r), c = Combined(list[n + 1], r)
      PROVE  \A x : x \in Named(new) <=> x \in Named(list) \cup Members(r)
  <2>1. \A k : k \in 1..(n + 1) <=> k \in 1..n \/ k = n + 1
    BY <1>1
  <2>2. list[n + 1] \in AddressRange
    BY <1>2, <1>6, <2>1
  <2>3. Members(c) = Members(list[n + 1]) \cup Members(r)
    BY <1>6, <2>2, CombinedFacts
  <2>4. \A x : x \in Named(list) <=> \/ \E k \in 1..n : x \in Members(list[k])
                                     \/ x \in Members(list[n + 1])
    BY <2>1, <1>2, <1>6, NamedFacts
  <2> QED BY <2>3, <2>4, <1>4
<1>7. Named(new) = Named(list) \cup Members(r)
  <2>1. \A x : x \in Named(new) <=> x \in Named(list) \cup Members(r)
    BY <1>1, <1>5, <1>6
  <2> QED BY <2>1, SetExtensionality
<1>8. AddRange(targets, r).is_sorted => Len(new) = 1
  BY <1>1
<1> QED BY <1>1, <1>7, <1>8 DEF new, list

\* Adding ranges in the order they begin keeps the list separated.
LEMMA AddRangeSeparated ==
  ASSUME NEW targets \in RangeList, NEW r \in AddressRange,
         Separated(targets.list), BeginBy(targets.list, r)
  PROVE  Separated(AddRange(targets, r).list) /\ BeginBy(AddRange(targets, r).list, r)
<1> DEFINE list == targets.list
           new == AddRange(targets, r).list
<1>1. PICK n \in Nat, c \in AddressRange :
           /\ new \in Seq(AddressRange)
           /\ Len(new) = n + 1
           /\ \A k \in 1..n : k \in DOMAIN list /\ new[k] = list[k]
           /\ new[n + 1] = c
           /\ \/ /\ n = Len(list) /\ c = r
                 /\ n > 0 => ~ Overlap(list[n], r)
              \/ /\ n + 1 = Len(list) /\ Overlap(list[n + 1], r)
                 /\ c = Combined(list[n + 1], r)
  BY AddRangeCases
<1>2. list \in Seq(AddressRange) /\ Len(list) \in Nat /\ DOMAIN list = 1..Len(list)
  BY DEF RangeList
<1>3. DOMAIN new = 1..(n + 1)
  BY <1>1
<1> HIDE DEF new, list
<1>a. \A k \in 1..Len(list) : /\ list[k] \in AddressRange /\ list[k].begin <= r.begin
                              /\ list[k].begin \in Nat /\ list[k].end \in Nat
                              /\ list[k].begin <= list[k].end
  BY <1>2, RangeFacts DEF BeginBy, list
<1>b. c.begin \in Nat /\ r.begin \in Nat
  BY <1>1, RangeFacts
<1>4. c.begin <= r.begin /\ \A k \in 1..n : list[k].end < c.begin
  <2>1. CASE n = Len(list) /\ c = r /\ (n > 0 => ~ Overlap(list[n], r))
    <3>1. ASSUME NEW k \in 1..n PROVE list[k].end < r.begin
      <4>1. n \in 1..Len(list) /\ k \in 1..Len(list) /\ n > 0
        BY <2>1, <1>1
      <4>2. list[n].end < r.begin
        BY <4>1, <2>1, <1>a, ApartFacts
      <4>3. CASE k = n
        BY <4>2, <4>3
      <4>4. CASE k # n
        <5>1. k < n
          BY <4>4, <1>1
        <5>2. list[k].end < list[n].begin
          BY <4>1, <5>1, <1>2 DEF Separated, list
        <5> QED BY <4>1, <4>2, <5>2, <1>a, <1>b
      <4> QED BY <4>3, <4>4
    <3> QED BY <2>1, <3>1, <1>b
  <2>2. CASE /\ n + 1 = Len(list) /\ Overlap(list[n + 1], r)
             /\ c = Combined(list[n + 1], r)
    <3>1. n + 1 \in 1..Len(list)
      BY <2>2, <1>1
    <3>2. c.begin = list[n + 1].begin
      BY <2>2, <3>1, <1>a, CombinedFacts
    <3>3. \A k \in 1..n : k \in 1..Len(list) /\ k < n + 1
      BY <2>2, <1>1
    <3> QED BY <3>1, <3>2, <3>3, <1>a, <1>2 DEF Separated, list
  <2> QED BY <1>1, <2>1, <2>2
<1>5. Separated(new)
  <2>1. ASSUME NEW j \in 1..(n + 1), NEW k \in 1..(n + 1), j < k
        PROVE  new[j].end < new[k].begin
    <3>1. j \in 1..n /\ j \in DOMAIN list /\ new[j] = list[j]
      BY <1>1, <2>1
    <3>2. CASE k = n + 1
      BY <3>1, <3>2, <1>1, <1>4
    <3>3. CASE k # n + 1
      <4>1. k \in 1..n
        BY <3>3, <1>1
      <4>2. k \in DOMAIN list /\ new[k] = list[k]
        BY <4>1, <1>1
      <4> QED BY <3>1, <4>2, <2>1 DEF Separated, list
    <3> QED BY <3>2, <3>3
  <2> QED BY <2>1, <1>3 DEF Separated
<1>6. BeginBy(new, r)
  <2> SUFFICES ASSUME NEW k \in 1..(n + 1) PROVE new[k].begin <= r.begin
    BY <1>3 DEF BeginBy
  <2>1. CASE k = n + 1
    BY <2>1, <1>1, <1>4
  <2>2. CASE k # n + 1
    <3>1. k \in 1..n
      BY <2>2, <1>1
    <3>2. k \in DOMAIN list /\ new[k] = list[k]
      BY <3>1, <1>1
    <3> QED BY <3>2, <1>2, <1>a
  <2> QED BY <2>1, <2>2
<1> QED BY <1>5, <1>6 DEF new

\* The list after each range of AddAll.
LEMMA AddAllSteps ==
  ASSUME NEW ranges \in Seq(AddressRange)
  PROVE  \E f : /\ f \in [0..Len(ranges) -> RangeList]
                /\ f[0] = EmptyList
                /\ \A k \in 1..Len(ranges) : f[k] = AddRange(f[k - 1], ranges[k])
                /\ AddAll(ranges) = f[Len(ranges)]
<1> DEFINE N == Len(ranges)
           step == [k \in 1..N |-> [t \in RangeList |-> AddRange(t, ranges[k])]]
           Eq(f) == f = [k \in 0..N |-> IF k = 0 THEN EmptyList ELSE AddRange(f[k - 1], ranges[k])]
<1>1. N \in Nat /\ \A k \in 1..N : ranges[k] \in AddressRange
  OBVIOUS
<1>2. step \in [1..N -> [RangeList -> RangeList]]
  <2> SUFFICES ASSUME NEW k \in 1..N, NEW t \in RangeList PROVE AddRange(t, ranges[k]) \in RangeList
    OBVIOUS
  <2> QED BY <1>1, AddRangeFacts
<1>3. EmptyList \in RangeList
  BY DEF EmptyList, RangeList
<1> HIDE DEF N
<1>4. PICK f : Iterates(f, N, RangeList, EmptyList, step)
  <2> HIDE DEF step
  <2> QED BY <1>1, <1>2, <1>3, Recursion
<1>5. \A k \in 1..N : k - 1 \in 0..N /\ k \in 0..N /\ k # 0
  BY <1>1
<1>6. /\ f \in [0..N -> RangeList] /\ f[0] = EmptyList
      /\ \A k \in 1..N : f[k] = AddRange(f[k - 1], ranges[k])
  BY <1>4, <1>5 DEF Iterates
<1>7. Eq(f)
  <2>1. \A k \in 0..N : k = 0 \/ k \in 1..N
    BY <1>1
  <2> QED BY <1>6, <2>1
<1>8. PICK g : Eq(g) /\ AddAll(ranges) = g[N]
  <2> DEFINE g0 == CHOOSE h : Eq(h)
  <2>1. Eq(g0)
    BY <1>7
  <2>2. AddAll(ranges) = g0[N]
    BY DEF AddAll, N
  <2> HIDE DEF g0
  <2> QED BY <2>1, <2>2
<1>9. /\ DOMAIN g = 0..N /\ g = [k \in 0..N |-> g[k]]
      /\ \A k \in 0..N : g[k] = IF k = 0 THEN EmptyList ELSE AddRange(g[k - 1], ranges[k])
  BY <1>8, Zenon
<1> HIDE DEF Eq, step
<1>10. g[0] = EmptyList /\ \A k \in 1..N : g[k] = AddRange(g[k - 1], ranges[k])
  <2>1. 0 \in 0..N
    BY <1>1
  <2> QED BY <2>1, <1>5, <1>9
<1>11. \A k \in 0..N : g[k] \in RangeList
  <2> DEFINE T == {k \in Nat : k <= N => g[k] \in RangeList}
  <2>1. 0 \in T
    BY <1>3, <1>10
  <2>2. ASSUME NEW k \in T PROVE k + 1 \in T
    <3>1. k \in Nat /\ (k <= N => g[k] \in RangeList)
      OBVIOUS
    <3>2. CASE k + 1 <= N
      <4>1. k + 1 \in 1..N /\ (k + 1) - 1 = k /\ k <= N
        BY <3>1, <3>2, <1>1
      <4>2. g[k + 1] = AddRange(g[k], ranges[k + 1]) /\ g[k] \in RangeList
        BY <4>1, <1>10, <3>1
      <4>3. g[k + 1] \in RangeList
        BY <4>1, <4>2, <1>1, AddRangeFacts
      <4> QED BY <4>3, <3>1
    <3> QED BY <3>1, <3>2
  <2>3. \A k \in Nat : k \in T
    <3> HIDE DEF T
    <3> QED BY <2>1, <2>2, NatInductionSet DEF T
  <2> QED BY <2>3, <1>1
<1>12. g \in [0..N -> RangeList]
  BY <1>9, <1>11
<1> QED BY <1>8, <1>10, <1>12 DEF N

\* The order in which rangelist_sort adds the ranges again.
Ascending(ranges) == \A j, k \in DOMAIN ranges : j < k => ranges[j].begin <= ranges[k].begin

LEMMA AddAllFacts ==
  ASSUME NEW ranges \in Seq(AddressRange)
  PROVE  /\ AddAll(ranges) \in RangeList
         /\ Named(AddAll(ranges).list) = Named(ranges)
         /\ AddAll(ranges).is_sorted => Len(AddAll(ranges).list) = 1
         /\ Ascending(ranges) => Separated(AddAll(ranges).list)
<1> DEFINE N == Len(ranges)
<1>1. PICK f : /\ f \in [0..N -> RangeList]
               /\ f[0] = EmptyList
               /\ \A k \in 1..N : f[k] = AddRange(f[k - 1], ranges[k])
               /\ AddAll(ranges) = f[N]
  BY AddAllSteps
<1>2. N \in Nat /\ DOMAIN ranges = 1..N /\ \A k \in 1..N : ranges[k] \in AddressRange
  OBVIOUS
<1> HIDE DEF N
<1> DEFINE First(k) == {x \in Int : \E j \in 1..k : x \in Members(ranges[j])}
           Kept(k) == /\ Named(f[k].list) = First(k)
                      /\ f[k].is_sorted => Len(f[k].list) = 1
                      /\ Ascending(ranges) => /\ Separated(f[k].list)
                                              /\ \A j \in (k + 1)..N : BeginBy(f[k].list, ranges[j])
           T == {k \in Nat : k <= N => Kept(k)}
<1>3. Kept(0)
  <2>1. f[0].list = <<>> /\ f[0].is_sorted = FALSE /\ DOMAIN f[0].list = {}
    BY <1>1 DEF EmptyList
  <2>2. Named(f[0].list) = {} /\ First(0) = {}
    BY <2>1 DEF Named
  <2>3. Separated(f[0].list) /\ \A j : BeginBy(f[0].list, ranges[j])
    BY <2>1 DEF Separated, BeginBy
  <2> QED BY <2>1, <2>2, <2>3
<1>4. ASSUME NEW k \in Nat, k + 1 <= N, Kept(k) PROVE Kept(k + 1)
  <2> DEFINE r == ranges[k + 1]
  <2>1. /\ k \in 0..N /\ k + 1 \in 1..N /\ (k + 1) - 1 = k
        /\ f[k] \in RangeList /\ r \in AddressRange /\ f[k + 1] = AddRange(f[k], r)
    <3>1. k \in 0..N /\ k + 1 \in 1..N /\ (k + 1) - 1 = k
      BY <1>4, <1>2
    <3> QED BY <3>1, <1>1, <1>2
  <2> HIDE DEF Kept
  <2>2. /\ Named(f[k].list) = First(k)
        /\ Ascending(ranges) => /\ Separated(f[k].list)
                                /\ \A j \in (k + 1)..N : BeginBy(f[k].list, ranges[j])
    BY <1>4 DEF Kept
  <2>3. /\ f[k + 1].is_sorted => Len(f[k + 1].list) = 1
        /\ Named(f[k + 1].list) = Named(f[k].list) \cup Members(r)
    BY <2>1, AddRangeFacts
  <2>4. Named(f[k + 1].list) = First(k + 1)
    <3>1. \A x : x \in Members(r) => x \in Int
      BY <2>1, RangeFacts
    <3>2. \A j : j \in 1..(k + 1) <=> j \in 1..k \/ j = k + 1
      OBVIOUS
    <3>3. \A x : x \in First(k + 1) <=> x \in Named(f[k].list) \cup Members(r)
      BY <3>1, <3>2, <2>2
    <3> QED BY <3>3, <2>3, SetExtensionality
  <2>5. ASSUME Ascending(ranges)
        PROVE  /\ Separated(f[k + 1].list)
               /\ \A j \in ((k + 1) + 1)..N : BeginBy(f[k + 1].list, ranges[j])
    <3>1. Separated(f[k].list) /\ BeginBy(f[k].list, r)
      BY <2>1, <2>2, <2>5
    <3>2. Separated(f[k + 1].list) /\ BeginBy(f[k + 1].list, r)
      BY <2>1, <3>1, AddRangeSeparated
    <3>3. ASSUME NEW j \in ((k + 1) + 1)..N PROVE BeginBy(f[k + 1].list, ranges[j])
      <4>1. j \in 1..N /\ k + 1 < j
        BY <2>1
      <4>2. r.begin <= ranges[j].begin
        BY <4>1, <2>1, <2>5, <1>2 DEF Ascending
      <4>3. r.begin \in Nat /\ ranges[j].begin \in Nat
        BY <4>1, <2>1, <1>2, RangeFacts
      <4>4. \A l \in DOMAIN f[k + 1].list : f[k + 1].list[l].begin \in Nat
        <5>1. k + 1 \in 0..N
          BY <2>1, <1>2
        <5>2. f[k + 1].list \in Seq(AddressRange)
          BY <5>1, <1>1 DEF RangeList
        <5> QED BY <5>2, RangeFacts
      <4> QED BY <3>2, <4>2, <4>3, <4>4 DEF BeginBy
    <3> QED BY <3>2, <3>3
  <2> QED BY <2>3, <2>4, <2>5 DEF Kept
<1> HIDE DEF Kept
<1>5. \A k \in Nat : k \in T
  <2>1. 0 \in T
    BY <1>3
  <2>2. ASSUME NEW k \in T PROVE k + 1 \in T
    <3>1. k \in Nat /\ (k <= N => Kept(k))
      OBVIOUS
    <3>2. k + 1 <= N => k <= N
      BY <3>1, <1>2
    <3> QED BY <3>1, <3>2, <1>4
  <2> HIDE DEF T
  <2> QED BY <2>1, <2>2, NatInductionSet DEF T
<1>6. Kept(N)
  BY <1>2, <1>5
<1>7. First(N) = Named(ranges)
  <2>1. \A x : x \in Named(ranges) => x \in Int
    BY <1>2, RangeFacts, NamedFacts
  <2>2. \A x : x \in First(N) <=> x \in Named(ranges)
    BY <2>1, <1>2, NamedFacts
  <2> QED BY <2>2, SetExtensionality
<1>8. AddAll(ranges) \in RangeList
  BY <1>1, <1>2
<1> QED BY <1>1, <1>6, <1>7, <1>8 DEF Kept

\* There are n numbers from one to n.
LEMMA IntervalCard ==
  ASSUME NEW n \in Nat
  PROVE  IsFiniteSet(1..n) /\ Cardinality(1..n) = n
<1>1. 1 \in Int /\ n \in Int /\ (IF 1 > n THEN 0 ELSE n - 1 + 1) = n
  OBVIOUS
<1>2. IsFiniteSet(1..n) /\ Cardinality(1..n) = (IF 1 > n THEN 0 ELSE n - 1 + 1)
  BY <1>1, FS_Interval
<1> QED BY <1>1, <1>2

\* A list can be sorted: take the first of those left, until none is.
LEMMA SortExists ==
  ASSUME NEW list \in Seq(AddressRange)
  PROVE  \E p \in Bijection(DOMAIN list, DOMAIN list) :
            \A j, k \in DOMAIN list : j < k => list[p[j]].begin <= list[p[k]].begin
<1> DEFINE N == Len(list)
           D == 1..N
<1>1. N \in Nat /\ DOMAIN list = D /\ \A k \in D : list[k].begin \in Nat
  BY RangeFacts
<1> DEFINE Least1(n, q) ==
             /\ q \in [1..n -> D]
             /\ \A j, k \in 1..n : j # k => q[j] # q[k]
             /\ \A j, k \in 1..n : j < k => list[q[j]].begin <= list[q[k]].begin
             /\ \A k \in 1..n, d \in D : (\A j \in 1..n : q[j] # d) => list[q[k]].begin <= list[d].begin
           T == {n \in Nat : n <= N => \E q : Least1(n, q)}
<1> HIDE DEF N
<1>2. 0 \in T
  <2>1. 1..0 = {}
    OBVIOUS
  <2>2. Least1(0, [k \in 1..0 |-> 0])
    BY <2>1
  <2> HIDE DEF Least1
  <2> QED BY <2>2
<1>3. ASSUME NEW n \in Nat, n + 1 <= N, NEW q, Least1(n, q)
      PROVE  \E e : Least1(n + 1, e)
  <2> DEFINE R == {d \in D : \A j \in 1..n : q[j] # d}
             B == {list[d].begin : d \in R}
  <2>1. R # {}
    <3> SUFFICES ASSUME R = {} PROVE FALSE
      OBVIOUS
    <3>1. q \in Surjection(1..n, D)
      BY <1>3 DEF Surjection
    <3>2. IsFiniteSet(1..n) /\ Cardinality(1..n) = n /\ Cardinality(D) = N
      BY <1>1, IntervalCard
    <3> HIDE DEF D, R
    <3>3. Cardinality(D) <= Cardinality(1..n)
      BY <3>1, <3>2, FS_Surjection
    <3> QED BY <3>2, <3>3, <1>3, <1>1
  <2>2. B \in SUBSET Nat /\ B # {}
    <3>1. R \subseteq D
      OBVIOUS
    <3> HIDE DEF R
    <3> QED BY <2>1, <3>1, <1>1
  <2>3. PICK b \in B : \A y \in B : b <= y
    <3> HIDE DEF B
    <3> QED BY <2>2, Least
  <2>4. PICK m \in R : b = list[m].begin
    BY <2>3
  <2>5. m \in D /\ \A d \in R : list[m].begin <= list[d].begin
    BY <2>3, <2>4
  <2> HIDE DEF B
  <2> DEFINE e == [k \in 1..(n + 1) |-> IF k = n + 1 THEN m ELSE q[k]]
  <2>6. \A k : k \in 1..(n + 1) <=> k \in 1..n \/ k = n + 1
    OBVIOUS
  <2>7. e[n + 1] = m /\ \A k \in 1..n : e[k] = q[k] /\ k # n + 1 /\ q[k] # m /\ q[k] \in D
                                        /\ list[q[k]].begin <= list[m].begin
    <3>1. e[n + 1] = m
      OBVIOUS
    <3>2. \A k \in 1..n : k # n + 1 /\ k \in 1..(n + 1)
      OBVIOUS
    <3>3. \A k \in 1..n : e[k] = q[k]
      BY <3>2
    <3> QED BY <3>1, <3>2, <3>3, <2>4, <2>5, <1>3
  <2>8. e \in [1..(n + 1) -> D]
    BY <2>5, <2>6, <1>3
  <2> HIDE DEF e, D
  <2>9. \A j, k \in 1..(n + 1) : j # k => e[j] # e[k]
    BY <2>6, <2>7, <1>3
  <2>10. ASSUME NEW j \in 1..(n + 1), NEW k \in 1..(n + 1), j < k
         PROVE  list[e[j]].begin <= list[e[k]].begin
    <3>1. j \in 1..n /\ e[j] = q[j]
      <4>1. j \in 1..n
        BY <2>10
      <4> QED BY <4>1, <2>7
    <3>2. CASE k = n + 1
      BY <3>1, <3>2, <2>7
    <3>3. CASE k \in 1..n
      BY <3>1, <3>3, <2>7, <2>10, <1>3
    <3> QED BY <3>2, <3>3, <2>6
  <2>11. ASSUME NEW k \in 1..(n + 1), NEW d \in D, \A j \in 1..(n + 1) : e[j] # d
         PROVE  list[e[k]].begin <= list[d].begin
    <3>1. \A j \in 1..n : q[j] # d
      BY <2>6, <2>7, <2>11
    <3>2. CASE k = n + 1
      BY <3>1, <3>2, <2>5, <2>7
    <3>3. CASE k \in 1..n
      BY <3>1, <3>3, <2>7, <1>3
    <3> QED BY <3>2, <3>3, <2>6
  <2>12. Least1(n + 1, e)
    BY <2>8, <2>9, <2>10, <2>11
  <2> HIDE DEF Least1
  <2> QED BY <2>12
<1> HIDE DEF Least1, D
<1>4. N \in T
  <2>1. ASSUME NEW n \in T PROVE n + 1 \in T
    <3>1. n \in Nat /\ (n <= N => \E q : Least1(n, q))
      OBVIOUS
    <3>2. n + 1 <= N => n <= N
      BY <3>1, <1>1
    <3>3. n + 1 <= N => \E q : Least1(n + 1, q)
      BY <3>1, <3>2, <1>3
    <3> QED BY <3>1, <3>3
  <2>2. T \in SUBSET Nat
    OBVIOUS
  <2> HIDE DEF T
  <2> QED BY <1>1, <1>2, <2>1, <2>2, NatInductionSet
<1>5. PICK q : Least1(N, q)
  BY <1>1, <1>4
<1>6. q \in Injection(D, D) /\ \A j, k \in D : j < k => list[q[j]].begin <= list[q[k]].begin
  BY <1>5 DEF Least1, D, Injection, IsInjective
<1>7. q \in Bijection(D, D)
  <2>1. IsFiniteSet(D)
    BY <1>1, IntervalCard DEF D
  <2> QED BY <2>1, <1>6, FS_Injection DEF Bijection
<1> QED BY <1>1, <1>6, <1>7

LEMMA OrderedFacts ==
  ASSUME NEW list \in Seq(AddressRange)
  PROVE  /\ Ordered(list) \in Seq(AddressRange)
         /\ Named(Ordered(list)) = Named(list)
         /\ Ascending(Ordered(list))
<1> DEFINE D == DOMAIN list
           Place(p) == \A j, k \in D : j < k => list[p[j]].begin <= list[p[k]].begin
           p == CHOOSE p \in Bijection(D, D) : Place(p)
<1>1. p \in Bijection(D, D) /\ Place(p)
  <2>1. \E e \in Bijection(D, D) : Place(e)
    BY SortExists
  <2> HIDE DEF Place, D
  <2> QED BY <2>1
<1>2. Ordered(list) = [k \in D |-> list[p[k]]]
  BY DEF Ordered
<1> HIDE DEF p
<1>3. D = 1..Len(list) /\ Len(list) \in Nat /\ list \in [D -> AddressRange]
  OBVIOUS
<1>4. p \in [D -> D] /\ \A d \in D : \E k \in D : p[k] = d
  BY <1>1 DEF Bijection, Injection, Surjection
<1> HIDE DEF D
<1>5. Ordered(list) \in [D -> AddressRange] /\ DOMAIN Ordered(list) = D
  BY <1>2, <1>3, <1>4
<1>6. Ordered(list) \in Seq(AddressRange)
  BY <1>3, <1>5
<1>7. Named(Ordered(list)) = Named(list)
  <2>1. \A x : x \in Named(Ordered(list)) <=> x \in Named(list)
    BY <1>2, <1>4, <1>5, NamedFacts DEF D
  <2> QED BY <2>1, SetExtensionality
<1>8. Ascending(Ordered(list))
  BY <1>1, <1>2, <1>5 DEF Ascending
<1> QED BY <1>6, <1>7, <1>8

\* The list that is picked from has the addresses that were given, each in one range.
LEMMA SortedFacts ==
  ASSUME NEW ranges \in Seq(AddressRange)
  PROVE  /\ Sorted(AddAll(ranges)).list \in Seq(AddressRange)
         /\ Named(Sorted(AddAll(ranges)).list) = Named(ranges)
         /\ Separated(Sorted(AddAll(ranges)).list)
<1> DEFINE targets == AddAll(ranges)
<1>1. /\ targets \in RangeList /\ Named(targets.list) = Named(ranges)
      /\ targets.is_sorted => Len(targets.list) = 1
  BY AddAllFacts
<1> HIDE DEF targets
<1>2. targets.list \in Seq(AddressRange)
  BY <1>1 DEF RangeList
<1>3. CASE targets.list = <<>> \/ targets.is_sorted
  <2>1. Sorted(targets).list = targets.list
    BY <1>1, <1>3 DEF Sorted, RangeList
  <2>2. DOMAIN targets.list \subseteq {1}
    <3>1. Len(targets.list) \in {0, 1} /\ DOMAIN targets.list = 1..Len(targets.list)
      BY <1>1, <1>2, <1>3
    <3>2. 1..0 \subseteq {1} /\ 1..1 \subseteq {1}
      OBVIOUS
    <3> QED BY <3>1, <3>2
  <2>3. Separated(targets.list)
    BY <2>2 DEF Separated
  <2> QED BY <1>1, <1>2, <2>1, <2>3 DEF targets
<1>4. CASE ~ (targets.list = <<>> \/ targets.is_sorted)
  <2>1. Sorted(targets).list = AddAll(Ordered(targets.list)).list
    BY <1>4 DEF Sorted
  <2>2. /\ Ordered(targets.list) \in Seq(AddressRange)
        /\ Named(Ordered(targets.list)) = Named(targets.list)
        /\ Ascending(Ordered(targets.list))
    BY <1>2, OrderedFacts
  <2>3. /\ AddAll(Ordered(targets.list)) \in RangeList
        /\ Named(AddAll(Ordered(targets.list)).list) = Named(targets.list)
        /\ Separated(AddAll(Ordered(targets.list)).list)
    BY <2>2, AddAllFacts
  <2> QED BY <1>1, <2>1, <2>3 DEF targets, RangeList
<1> QED BY <1>3, <1>4

-----------------------------------------------------------------------------
(* Counting and picking                                                    *)

LEMMA Regroup ==
  ASSUME NEW a \in Nat, NEW b \in Nat, NEW c \in Nat, c <= b
  PROVE  a + ((b - c) + 1) = a + b - c + 1 /\ a + b - c + 1 \in Nat
OBVIOUS

LEMMA Offset ==
  ASSUME NEW a \in Nat, NEW b \in Nat, NEW c \in Nat, NEW x \in Nat, x - a \in 0..(b - c)
  PROVE  c + x - a \in c..b
OBVIOUS

LEMMA Onset ==
  ASSUME NEW a \in Nat, NEW b \in Nat, NEW c \in Nat, NEW y \in 0..(b - c), NEW n \in Nat,
         a + (b - c) + 1 <= n
  PROVE  a + y \in 0..(n - 1) /\ (a + y) - a = y
OBVIOUS

\* The members of the range k of a list have the indices from UpTo(list)[k - 1] on.
LEMMA UpToFacts ==
  ASSUME NEW list \in Seq(AddressRange)
  PROVE  /\ UpTo(list) \in [0..Len(list) -> Nat]
         /\ UpTo(list)[0] = 0
         /\ \A k \in 1..Len(list) :
               UpTo(list)[k] = UpTo(list)[k - 1] + (list[k].end - list[k].begin) + 1
         /\ \A j, k \in 0..Len(list) : j <= k => UpTo(list)[j] <= UpTo(list)[k]
<1> DEFINE N == Len(list)
           Size(k) == (list[k].end - list[k].begin) + 1
           step == [k \in 1..N |-> [t \in Nat |-> t + Size(k)]]
           Eq(f) == f = [k \in 0..N |-> IF k = 0 THEN 0 ELSE f[k - 1] + list[k].end - list[k].begin + 1]
<1>1. N \in Nat /\ \A k \in 1..N : list[k].begin \in Nat /\ list[k].end \in Nat
                                   /\ list[k].begin <= list[k].end /\ Size(k) \in Nat \ {0}
  <2>1. N \in Nat /\ \A k \in 1..N : list[k] \in AddressRange
    OBVIOUS
  <2>2. \A k \in 1..N : list[k].begin \in Nat /\ list[k].end \in Nat
                        /\ list[k].begin <= list[k].end
    BY <2>1, RangeFacts
  <2> QED BY <2>1, <2>2
<1> HIDE DEF N
<1>2. step \in [1..N -> [Nat -> Nat]]
  BY <1>1
<1>3. PICK f : Iterates(f, N, Nat, 0, step)
  <2> HIDE DEF step
  <2>1. 0 \in Nat
    OBVIOUS
  <2> QED BY <1>1, <1>2, <2>1, Recursion
<1>4. \A k \in 1..N : k - 1 \in 0..N /\ k \in 0..N /\ k # 0
  BY <1>1
<1>5. f \in [0..N -> Nat] /\ f[0] = 0 /\ \A k \in 1..N : f[k] = f[k - 1] + Size(k)
  BY <1>3, <1>4 DEF Iterates
<1>6. Eq(f)
  <2>1. \A k \in 0..N : k = 0 \/ k \in 1..N
    BY <1>1
  <2>2. \A k \in 1..N : f[k] = f[k - 1] + list[k].end - list[k].begin + 1
    <3> SUFFICES ASSUME NEW k \in 1..N PROVE f[k] = f[k - 1] + list[k].end - list[k].begin + 1
      OBVIOUS
    <3>1. PICK a \in Nat, b \in Nat, c \in Nat :
             a = f[k - 1] /\ b = list[k].end /\ c = list[k].begin
      BY <1>1, <1>4, <1>5
    <3>2. f[k] = a + ((b - c) + 1)
      BY <3>1, <1>5
    <3>3. a + ((b - c) + 1) = a + b - c + 1
      OBVIOUS
    <3> QED BY <3>1, <3>2, <3>3, Zenon
  <2> QED BY <1>5, <2>1, <2>2
<1> DEFINE g == CHOOSE h : Eq(h)
<1>7. Eq(g)
  BY <1>6
<1>8. UpTo(list) = g
  BY DEF UpTo, N
<1> HIDE DEF g
<1>9. /\ DOMAIN g = 0..N /\ g = [k \in 0..N |-> g[k]]
      /\ \A k \in 0..N : g[k] = IF k = 0 THEN 0 ELSE g[k - 1] + list[k].end - list[k].begin + 1
  BY <1>7, Zenon
<1> HIDE DEF Eq, step
<1>10. g[0] = 0 /\ \A k \in 1..N : g[k] = g[k - 1] + list[k].end - list[k].begin + 1
  <2>1. 0 \in 0..N
    BY <1>1
  <2> QED BY <2>1, <1>4, <1>9
<1>11. ASSUME NEW k \in 1..N, g[k - 1] \in Nat
       PROVE  g[k] = g[k - 1] + Size(k) /\ g[k] \in Nat
  <2>1. PICK a \in Nat, b \in Nat, c \in Nat :
           a = g[k - 1] /\ b = list[k].end /\ c = list[k].begin /\ c <= b
    BY <1>1, <1>11
  <2>2. g[k] = a + b - c + 1
    BY <2>1, <1>10, Zenon
  <2>3. a + ((b - c) + 1) = a + b - c + 1 /\ a + b - c + 1 \in Nat
    <3>1. c <= b
      BY <2>1
    <3> QED BY <3>1, Regroup
  <2>4. g[k] = g[k - 1] + Size(k)
    BY <2>1, <2>2, <2>3, Zenon
  <2> QED BY <2>2, <2>3, <2>4
<1>12. \A k \in 0..N : g[k] \in Nat
  <2> DEFINE T == {k \in Nat : k <= N => g[k] \in Nat}
  <2>1. 0 \in T
    BY <1>10
  <2>2. ASSUME NEW k \in T PROVE k + 1 \in T
    <3>1. k \in Nat /\ (k <= N => g[k] \in Nat)
      OBVIOUS
    <3>2. k + 1 <= N => k + 1 \in 1..N /\ (k + 1) - 1 = k /\ k <= N
      BY <3>1, <1>1
    <3>3. k + 1 <= N => g[k + 1] \in Nat
      BY <3>1, <3>2, <1>11
    <3> QED BY <3>1, <3>3
  <2>3. \A k \in Nat : k \in T
    <3> HIDE DEF T
    <3> QED BY <2>1, <2>2, NatInductionSet DEF T
  <2> QED BY <2>3, <1>1
<1>13. g \in [0..N -> Nat] /\ \A k \in 1..N : g[k] = g[k - 1] + Size(k) /\ g[k - 1] <= g[k]
  <2>1. g \in [0..N -> Nat]
    BY <1>9, <1>12
  <2>2. ASSUME NEW k \in 1..N PROVE g[k] = g[k - 1] + Size(k) /\ g[k - 1] <= g[k]
    <3>1. g[k - 1] \in Nat /\ Size(k) \in Nat \ {0}
      BY <1>1, <1>4, <1>12
    <3>2. g[k] = g[k - 1] + Size(k)
      BY <3>1, <1>11
    <3> HIDE DEF Size
    <3> QED BY <3>1, <3>2
  <2> QED BY <2>1, <2>2
<1>14. ASSUME NEW j \in 0..N, NEW k \in 0..N, j <= k PROVE g[j] <= g[k]
  <2> DEFINE T == {d \in Nat : j + d <= N => g[j] <= g[j + d]}
  <2>1. 0 \in T
    BY <1>12
  <2>2. ASSUME NEW d \in T PROVE d + 1 \in T
    <3>1. d \in Nat /\ (j + d <= N => g[j] <= g[j + d])
      OBVIOUS
    <3>2. CASE j + (d + 1) <= N
      <4>1. j + (d + 1) \in 1..N /\ (j + (d + 1)) - 1 = j + d /\ j + d <= N /\ j + d \in 0..N
            /\ j + (d + 1) \in 0..N
        BY <3>1, <3>2, <1>1
      <4>2. g[j + d] <= g[j + (d + 1)]
        BY <4>1, <1>13
      <4>3. g[j] \in Nat /\ g[j + d] \in Nat /\ g[j + (d + 1)] \in Nat
        BY <4>1, <1>12
      <4> QED BY <4>1, <4>2, <4>3, <3>1
    <3> QED BY <3>1, <3>2
  <2>3. \A d \in Nat : d \in T
    <3> HIDE DEF T
    <3> QED BY <2>1, <2>2, NatInductionSet DEF T
  <2>4. k - j \in Nat /\ j + (k - j) = k /\ k <= N
    BY <1>14
  <2> QED BY <2>3, <2>4
<1>15. \A k \in 1..N : g[k] = g[k - 1] + (list[k].end - list[k].begin) + 1
  <2> SUFFICES ASSUME NEW k \in 1..N PROVE g[k] = g[k - 1] + (list[k].end - list[k].begin) + 1
    OBVIOUS
  <2>1. g[k - 1] \in Nat /\ list[k].begin \in Nat /\ list[k].end \in Nat
    BY <1>1, <1>4, <1>12
  <2> QED BY <2>1, <1>13
<1> QED BY <1>8, <1>10, <1>13, <1>14, <1>15 DEF N

\* The range an index falls in.
In(list, index, k) == index - UpTo(list)[k - 1] \in 0..(list[k].end - list[k].begin)

LEMMA PickCases ==
  ASSUME NEW list \in Seq(AddressRange), NEW index \in 0..(Count([list |-> list]) - 1)
  PROVE  \E k \in DOMAIN list :
            /\ In(list, index, k)
            /\ \A j \in DOMAIN list : In(list, index, j) => j = k
            /\ PickLinear(list, index) = list[k].begin + index - UpTo(list)[k - 1]
            /\ PickLinear(list, index) \in Members(list[k])
<1> DEFINE N == Len(list)
           sum == UpTo(list)
<1>1. /\ N \in Nat /\ DOMAIN list = 1..N
      /\ \A k \in 1..N : list[k] \in AddressRange /\ list[k].begin \in Nat /\ list[k].end \in Nat
                         /\ list[k].begin <= list[k].end
  BY RangeFacts
<1>2. /\ sum \in [0..N -> Nat] /\ sum[0] = 0
      /\ \A k \in 1..N : sum[k] = sum[k - 1] + (list[k].end - list[k].begin) + 1
      /\ \A j, k \in 0..N : j <= k => sum[j] <= sum[k]
  BY UpToFacts
<1>3. index \in Nat /\ index < sum[N]
  <2>1. sum[N] \in Nat
    BY <1>1, <1>2
  <2> QED BY <2>1 DEF Count
<1> HIDE DEF N, sum
<1>4. \A k \in 1..N : In(list, index, k) <=> sum[k - 1] <= index /\ index < sum[k]
  <2> SUFFICES ASSUME NEW k \in 1..N
               PROVE  In(list, index, k) <=> sum[k - 1] <= index /\ index < sum[k]
    OBVIOUS
  <2>1. sum[k - 1] \in Nat /\ sum[k] = sum[k - 1] + (list[k].end - list[k].begin) + 1
    <3>1. k - 1 \in 0..N
      BY <1>1
    <3> QED BY <3>1, <1>2
  <2> QED BY <2>1, <1>1, <1>3 DEF In, sum
<1> DEFINE S == {k \in Nat : k <= N /\ index < sum[k]}
<1>5. PICK k \in S : \A y \in S : k <= y
  <2>1. S \in SUBSET Nat /\ N \in S
    BY <1>1, <1>3
  <2> HIDE DEF S
  <2> QED BY <2>1, Least
<1>6. k \in 1..N /\ In(list, index, k)
  <2>1. k \in Nat /\ k <= N /\ index < sum[k] /\ k # 0
    BY <1>2, <1>3, <1>5
  <2>2. k \in 1..N /\ k - 1 \in Nat /\ k - 1 <= N /\ ~ (k <= k - 1) /\ k - 1 \in 0..N
    BY <2>1, <1>1
  <2>3. ~ (index < sum[k - 1])
    BY <2>2, <1>5
  <2>4. sum[k - 1] \in Nat
    BY <2>2, <1>2
  <2> QED BY <2>1, <2>2, <2>3, <2>4, <1>3, <1>4
<1>7. ASSUME NEW j \in 1..N, NEW l \in 1..N, In(list, index, j), In(list, index, l) PROVE ~ (j < l)
  <2> SUFFICES ASSUME j < l PROVE FALSE
    OBVIOUS
  <2>1. j \in 0..N /\ l - 1 \in 0..N /\ j <= l - 1
    BY <1>1
  <2>2. sum[j] <= sum[l - 1] /\ sum[j] \in Nat /\ sum[l - 1] \in Nat
    BY <2>1, <1>2
  <2> QED BY <2>2, <1>3, <1>4, <1>7
<1>8. \A j \in 1..N : In(list, index, j) => j = k
  <2> SUFFICES ASSUME NEW j \in 1..N, In(list, index, j) PROVE j = k
    OBVIOUS
  <2>1. ~ (j < k) /\ ~ (k < j)
    BY <1>6, <1>7
  <2> QED BY <2>1, <1>6, <1>1
<1>9. PickLinear(list, index) = list[k].begin + index - UpTo(list)[k - 1]
  <2> DEFINE hits == {j \in DOMAIN list : index - UpTo(list)[j - 1] \in 0..(list[j].end - list[j].begin)}
  <2>1. hits = {k}
    BY <1>1, <1>6, <1>8 DEF In
  <2>2. PickLinear(list, index) =
          IF hits = {} THEN EndOfList
          ELSE LET j == CHOOSE j \in hits : TRUE IN list[j].begin + index - UpTo(list)[j - 1]
    BY DEF PickLinear
  <2> HIDE DEF hits
  <2>3. (CHOOSE j \in hits : TRUE) = k
    BY <2>1
  <2> QED BY <2>1, <2>2, <2>3
<1>10. list[k].begin + index - UpTo(list)[k - 1] \in Members(list[k])
  <2>1. k - 1 \in 0..N
    BY <1>1, <1>6
  <2>2. PICK a \in Nat, b \in Nat, c \in Nat :
           a = sum[k - 1] /\ b = list[k].end /\ c = list[k].begin
    BY <2>1, <1>1, <1>2, <1>6
  <2>3. index - a \in 0..(b - c)
    BY <2>2, <1>6, Zenon DEF In, sum
  <2>4. c + index - a \in c..b
    BY <2>3, <1>3, Offset, Zenon
  <2> QED BY <2>2, <2>4, Zenon DEF Members, sum
<1> QED BY <1>1, <1>6, <1>8, <1>9, <1>10

\* A member of a range has an index that picks it.
LEMMA PickReaches ==
  ASSUME NEW list \in Seq(AddressRange), NEW k \in DOMAIN list, NEW x \in Members(list[k])
  PROVE  \E index \in 0..(Count([list |-> list]) - 1) : PickLinear(list, index) = x
<1> DEFINE N == Len(list)
           sum == UpTo(list)
           index == sum[k - 1] + (x - list[k].begin)
<1>1. /\ N \in Nat /\ k \in 1..N /\ list[k].begin \in Nat /\ list[k].end \in Nat
      /\ x \in Int /\ list[k].begin <= x /\ x <= list[k].end
  BY RangeFacts
<1>2. k - 1 \in 0..N /\ k \in 0..N /\ N \in 0..N /\ k <= N
  BY <1>1
<1>3. /\ sum[k - 1] \in Nat /\ sum[N] \in Nat /\ sum[k] \in Nat
      /\ sum[k] = sum[k - 1] + (list[k].end - list[k].begin) + 1
      /\ sum[k] <= sum[N]
  BY <1>1, <1>2, UpToFacts
<1> HIDE DEF sum, N
<1>4. index \in 0..(sum[N] - 1) /\ In(list, index, k)
  <2>1. PICK a \in Nat, b \in Nat, c \in Nat, y \in Nat :
           a = sum[k - 1] /\ b = list[k].end /\ c = list[k].begin /\ y = x - c
    BY <1>1, <1>3
  <2>2. index = a + y /\ y \in 0..(b - c)
    BY <2>1, <1>1
  <2>a. a + (b - c) + 1 <= sum[N] /\ sum[N] \in Nat
    BY <2>1, <1>3, Zenon
  <2>4. a + y \in 0..(sum[N] - 1) /\ (a + y) - a = y
    BY <2>2, <2>a, Onset
  <2>3. index \in 0..(sum[N] - 1)
    BY <2>2, <2>4, Zenon
  <2>5. index - a \in 0..(b - c)
    BY <2>2, <2>4, Zenon
  <2>6. In(list, index, k)
    BY <2>1, <2>5, Zenon DEF In, sum
  <2> QED BY <2>3, <2>6
<1>5. Count([list |-> list]) = sum[N]
  BY DEF Count, sum, N
<1>6. PickLinear(list, index) = list[k].begin + index - sum[k - 1]
  <2> HIDE DEF index
  <2>1. index \in 0..(Count([list |-> list]) - 1)
    BY <1>4, <1>5
  <2> QED BY <2>1, <1>4, PickCases DEF sum
<1>7. list[k].begin + index - sum[k - 1] = x
  BY <1>1, <1>3
<1> HIDE DEF index
<1> QED BY <1>4, <1>5, <1>6, <1>7

LEMMA IndexCard ==
  ASSUME NEW n \in Nat
  PROVE  IsFiniteSet(0..(n - 1)) /\ Cardinality(0..(n - 1)) = n
<1>1. 0 \in Int /\ n - 1 \in Int /\ (IF 0 > n - 1 THEN 0 ELSE (n - 1) - 0 + 1) = n
  OBVIOUS
<1>2. /\ IsFiniteSet(0..(n - 1))
      /\ Cardinality(0..(n - 1)) = (IF 0 > n - 1 THEN 0 ELSE (n - 1) - 0 + 1)
  BY <1>1, FS_Interval
<1> QED BY <1>1, <1>2

\* A list has no more members than it counts, and just as many when it is separated.
LEMMA CountFacts ==
  ASSUME NEW list \in Seq(AddressRange), NEW n, n = Count([list |-> list])
  PROVE  /\ n \in Nat /\ IsFiniteSet(Named(list)) /\ Cardinality(Named(list)) <= n
         /\ \A k \in 0..(n - 1) : PickLinear(list, k) \in Named(list)
         /\ \A x \in Named(list) : \E k \in 0..(n - 1) : PickLinear(list, k) = x
         /\ Separated(list) => Cardinality(Named(list)) = n
<1> DEFINE D == 0..(n - 1)
           p == [k \in D |-> PickLinear(list, k)]
<1>1. n \in Nat
  <2>1. Len(list) \in Nat /\ Len(list) \in 0..Len(list)
    OBVIOUS
  <2> QED BY <2>1, UpToFacts DEF Count
<1>2. \A k \in D : \E j \in DOMAIN list : /\ In(list, k, j)
                                          /\ PickLinear(list, k) = list[j].begin + k - UpTo(list)[j - 1]
                                          /\ PickLinear(list, k) \in Members(list[j])
  BY PickCases
<1>3. \A k \in D : PickLinear(list, k) \in Named(list)
  BY <1>2, NamedFacts
<1>4. \A x \in Named(list) : \E k \in D : PickLinear(list, k) = x
  <2> SUFFICES ASSUME NEW x \in Named(list) PROVE \E k \in D : PickLinear(list, k) = x
    OBVIOUS
  <2>1. PICK j \in DOMAIN list : x \in Members(list[j])
    BY NamedFacts
  <2> QED BY <2>1, PickReaches
<1>5. IsFiniteSet(D) /\ Cardinality(D) = n
  BY <1>1, IndexCard
<1> HIDE DEF D
<1>6. p \in Surjection(D, Named(list))
  BY <1>3, <1>4 DEF Surjection
<1>7. /\ IsFiniteSet(Named(list)) /\ Cardinality(Named(list)) <= n
      /\ p \in Injection(D, Named(list)) => Cardinality(Named(list)) = n
  <2> HIDE DEF p
  <2> QED BY <1>5, <1>6, FS_Surjection
<1>8. ASSUME Separated(list) PROVE Cardinality(Named(list)) = n
  <2>1. ASSUME NEW x \in D, NEW y \in D, PickLinear(list, x) = PickLinear(list, y) PROVE x = y
    <3>1. PICK j \in DOMAIN list : /\ PickLinear(list, x) = list[j].begin + x - UpTo(list)[j - 1]
                                   /\ PickLinear(list, x) \in Members(list[j])
      BY <1>2
    <3>2. PICK k \in DOMAIN list : /\ PickLinear(list, y) = list[k].begin + y - UpTo(list)[k - 1]
                                   /\ PickLinear(list, y) \in Members(list[k])
      BY <1>2
    <3>3. ASSUME NEW l \in DOMAIN list, NEW m \in DOMAIN list, l < m,
                 PickLinear(list, x) \in Members(list[l]), PickLinear(list, x) \in Members(list[m])
          PROVE  FALSE
      <4>1. list[l].end < list[m].begin
        BY <1>8, <3>3 DEF Separated
      <4>2. list[l] \in AddressRange /\ list[m] \in AddressRange
        OBVIOUS
      <4> QED BY <4>1, <4>2, <3>3, RangeFacts
    <3>4. j = k
      <4>1. ~ (j < k) /\ ~ (k < j)
        BY <2>1, <3>1, <3>2, <3>3
      <4>2. j \in Nat /\ k \in Nat
        OBVIOUS
      <4> QED BY <4>1, <4>2
    <3>5. x \in Nat /\ y \in Nat
      BY <1>1 DEF D
    <3>6. list[j].begin \in Nat /\ UpTo(list)[j - 1] \in Nat
      <4>1. list[j] \in AddressRange /\ j - 1 \in 0..Len(list)
        OBVIOUS
      <4> QED BY <4>1, RangeFacts, UpToFacts
    <3>7. list[j].begin + x - UpTo(list)[j - 1] = list[j].begin + y - UpTo(list)[j - 1]
      BY <2>1, <3>1, <3>2, <3>4
    <3>8. \A a, b \in Nat : a + x - b = a + y - b => x = y
      BY <3>5
    <3> QED BY <3>6, <3>7, <3>8
  <2>2. p \in Injection(D, Named(list))
    BY <1>3, <2>1 DEF Injection, IsInjective
  <2> QED BY <1>7, <2>2
<1> QED BY <1>1, <1>3, <1>4, <1>7, <1>8 DEF D

\* If no address is counted twice, the indices pick the addresses that were given, and
\* nothing else.
LEMMA PickFacts ==
  ASSUME NEW ranges \in Seq(AddressRange), NEW n, n = Count(AddAll(ranges))
  PROVE  /\ n \in Nat
         /\ n <= Cardinality(Named(ranges)) =>
              /\ \A k \in 0..(n - 1) : Pick(AddAll(ranges), k) \in Named(ranges)
              /\ \A x \in Named(ranges) : \E k \in 0..(n - 1) : Pick(AddAll(ranges), k) = x
<1> DEFINE given == AddAll(ranges).list
           list == Sorted(AddAll(ranges)).list
           c == Count([list |-> list])
<1>1. given \in Seq(AddressRange) /\ Named(given) = Named(ranges)
  BY AddAllFacts DEF RangeList
<1>2. list \in Seq(AddressRange) /\ Named(list) = Named(ranges) /\ Separated(list)
  BY SortedFacts
<1>3. n = Count([list |-> given])
  BY DEF Count
<1>4. \A k : Pick(AddAll(ranges), k) = PickLinear(list, k)
  BY DEF Pick
<1> HIDE DEF given, list
<1>5. n \in Nat /\ Cardinality(Named(ranges)) <= n
  BY <1>1, <1>3, CountFacts
<1>6. /\ c \in Nat /\ Cardinality(Named(ranges)) = c
      /\ \A k \in 0..(c - 1) : PickLinear(list, k) \in Named(ranges)
      /\ \A x \in Named(ranges) : \E k \in 0..(c - 1) : PickLinear(list, k) = x
  BY <1>2, CountFacts
<1> HIDE DEF c
<1>7. n <= Cardinality(Named(ranges)) => n = c
  BY <1>5, <1>6
<1> QED BY <1>4, <1>5, <1>6, <1>7

-----------------------------------------------------------------------------
(* How often a target is probed.                                           *)

LEMMA HitsFacts ==
  ASSUME NEW n \in Networks, NEW t \in Slots(n), NEW k \in Nat
  PROVE  /\ Hits(n, k, t) \in Nat /\ Hits(n, 0, t) = 0
         /\ Hits(n, k + 1, t) = Hits(n, k, t) + (IF Target(n, k) = t THEN 1 ELSE 0)
<1> DEFINE S(m) == {j \in 0..(m - 1) : Target(n, j) = t}
<1>1. IsFiniteSet(S(k))
  <2>1. IsFiniteSet(0..(k - 1))
    BY IndexCard
  <2> QED BY <2>1, FS_Subset
<1>2. S(0) = {}
  OBVIOUS
<1>3. S(k + 1) = IF Target(n, k) = t THEN S(k) \cup {k} ELSE S(k)
  <2>1. \A j : j \in 0..((k + 1) - 1) <=> j \in 0..(k - 1) \/ j = k
    OBVIOUS
  <2>2. \A j : j \in S(k + 1) <=> j \in S(k) \/ (j = k /\ Target(n, k) = t)
    BY <2>1
  <2>3. CASE Target(n, k) = t
    <3>1. \A j : j \in S(k + 1) <=> j \in S(k) \cup {k}
      BY <2>2, <2>3
    <3> HIDE DEF S
    <3> QED BY <3>1, <2>3, SetExtensionality
  <2>4. CASE Target(n, k) # t
    <3>1. \A j : j \in S(k + 1) <=> j \in S(k)
      BY <2>2, <2>4
    <3> HIDE DEF S
    <3> QED BY <3>1, <2>4, SetExtensionality
  <2> QED BY <2>3, <2>4
<1>4. k \notin S(k)
  OBVIOUS
<1>5. Hits(n, k, t) = Cardinality(S(k)) /\ Hits(n, 0, t) = Cardinality(S(0))
      /\ Hits(n, k + 1, t) = Cardinality(S(k + 1))
  BY DEF Hits
<1> HIDE DEF S
<1>6. Cardinality(S(k)) \in Nat /\ Cardinality(S(0)) = 0
  BY <1>1, <1>2, FS_CardinalityType, FS_EmptySet
<1>7. Cardinality(S(k + 1)) = Cardinality(S(k)) + (IF Target(n, k) = t THEN 1 ELSE 0)
  <2>1. CASE Target(n, k) = t
    BY <2>1, <1>1, <1>3, <1>4, FS_AddElement
  <2>2. CASE Target(n, k) # t
    BY <2>2, <1>3, <1>6
  <2> QED BY <2>1, <2>2
<1> QED BY <1>5, <1>6, <1>7

\* Two indices of the same target are a whole range apart.
LEMMA SameTarget ==
  ASSUME NEW n \in Networks, NEW j \in 0..(Total(n) - 1), NEW k \in 0..(Total(n) - 1),
         j <= k, Target(n, j) = Target(n, k)
  PROVE  k = j \/ (k = j + n.range /\ n.range6 # 0)
<1> DEFINE R == n.range
           a == j + n.rate
           b == k + n.rate
<1>1. /\ R \in Nat \ {0} /\ n.range6 \in 0..R /\ n.rate \in Nat
      /\ n.shuffle \in Injection(0..(R - 1), 0..(R - 1))
  BY HostScanAssumption DEF NetworkAssumption, Bijection, Slots
<1>2. Total(n) = R + n.range6 /\ j \in Nat /\ k \in Nat /\ a \in Nat /\ b \in Nat
  BY <1>1 DEF Total
<1>3. a % R \in 0..(R - 1) /\ b % R \in 0..(R - 1) /\ n.shuffle[a % R] = n.shuffle[b % R]
  <2>1. n.shuffle[a % R] = n.shuffle[b % R]
    BY DEF Target
  <2> HIDE DEF a, b, R
  <2>2. a \in Int /\ b \in Int
    BY <1>2
  <2> QED BY <2>1, <2>2, <1>1, IntDivMod
<1>4. a % R = b % R
  <2>1. \A x, y \in 0..(R - 1) : n.shuffle[x] = n.shuffle[y] => x = y
    BY <1>1 DEF Injection, IsInjective
  <2> HIDE DEF a, b, R
  <2> QED BY <1>3, <2>1
<1>5. PICK p \in Int, q \in Int : a = R * p + (a % R) /\ b = R * q + (a % R)
  <2> HIDE DEF a, b, R
  <2>1. a \in Int /\ b \in Int
    BY <1>2
  <2>2. /\ a \div R \in Int /\ a = R * (a \div R) + (a % R)
        /\ b \div R \in Int /\ b = R * (b \div R) + (b % R)
    BY <2>1, <1>1, IntDivMod
  <2> QED BY <2>2, <1>4
<1>6. PICK d \in Int : d = q - p /\ k - j = R * d
  <2>1. b - a = k - j
    BY <1>1, <1>2
  <2>2. b - a = R * q - R * p
    <3> HIDE DEF a, b, R
    <3>1. R * p \in Int /\ R * q \in Int /\ a % R \in Int
      BY <1>1, <1>3, <1>5
    <3> QED BY <3>1, <1>5
  <2>3. R * q - R * p = R * (q - p)
    BY <1>1, <1>5
  <2> QED BY <2>1, <2>2, <2>3, <1>5
<1> HIDE DEF R, a, b
<1>7. ~ (d <= -1)
  <2> SUFFICES ASSUME d <= -1 PROVE FALSE
    OBVIOUS
  <2>1. R * d <= -R
    BY <1>1
  <2> QED BY <2>1, <1>1, <1>2, <1>6
<1>8. ~ (d >= 2)
  <2> SUFFICES ASSUME d >= 2 PROVE FALSE
    OBVIOUS
  <2>1. R * d >= R + R
    BY <1>1
  <2> QED BY <2>1, <1>1, <1>2, <1>6
<1>9. CASE d = 0
  BY <1>1, <1>2, <1>6, <1>9
<1>10. CASE d = 1
  <2>1. k = j + R
    BY <1>1, <1>2, <1>6, <1>10
  <2>2. n.range6 # 0
    BY <2>1, <1>1, <1>2
  <2> QED BY <2>1, <2>2 DEF R
<1> QED BY <1>7, <1>8, <1>9, <1>10, <1>6

\* A pass hits a target once, or twice when it goes past the range.
LEMMA PassHits ==
  ASSUME NEW n \in Networks, NEW t \in Slots(n)
  PROVE  Hits(n, Total(n), t) <= IF n.range6 = 0 THEN 1 ELSE 2
<1> DEFINE S == {j \in 0..(Total(n) - 1) : Target(n, j) = t}
<1>1. Total(n) \in Nat /\ S \in SUBSET Nat
  BY NetType
<1>2. PICK k \in S : \A y \in S : k <= y
  <2>1. S # {}
    BY PassCovers
  <2> HIDE DEF S
  <2> QED BY <2>1, <1>1, Least
<1>3. \A y \in S : y = k \/ (y = k + n.range /\ n.range6 # 0)
  <2> SUFFICES ASSUME NEW y \in S PROVE y = k \/ (y = k + n.range /\ n.range6 # 0)
    OBVIOUS
  <2> QED BY <1>2, SameTarget
<1>4. Hits(n, Total(n), t) = Cardinality(S)
  BY DEF Hits
<1> HIDE DEF S
<1>5. IsFiniteSet({k}) /\ Cardinality({k}) = 1
  BY FS_Singleton
<1>6. CASE n.range6 = 0
  <2>1. S \subseteq {k}
    BY <1>3, <1>6
  <2> QED BY <2>1, <1>4, <1>5, <1>6, FS_Subset
<1>7. CASE n.range6 # 0
  <2>1. S \subseteq {k} \cup {k + n.range}
    <3> SUFFICES ASSUME NEW y \in S PROVE y = k \/ y = k + n.range
      BY Zenon
    <3> QED BY <1>3, Zenon
  <2>2. IsFiniteSet({k} \cup {k + n.range}) /\ Cardinality({k} \cup {k + n.range}) <= 2
    <3> DEFINE one == {k}
               two == k + n.range
    <3>1. IsFiniteSet(one) /\ Cardinality(one) = 1
      BY <1>5
    <3> HIDE DEF one, two
    <3>2. IsFiniteSet(one \cup {two})
          /\ Cardinality(one \cup {two}) = IF two \in one THEN Cardinality(one) ELSE Cardinality(one) + 1
      BY <3>1, FS_AddElement, Zenon
    <3>3. Cardinality(one \cup {two}) <= 2
      BY <3>1, <3>2
    <3> QED BY <3>2, <3>3 DEF one, two
  <2>3. Cardinality(S) <= Cardinality({k} \cup {k + n.range})
    BY <2>1, <2>2, FS_Subset
  <2>4. Cardinality(S) \in Nat /\ Cardinality({k} \cup {k + n.range}) \in Nat
    BY <2>1, <2>2, FS_Subset, FS_CardinalityType
  <2> QED BY <2>2, <2>3, <2>4, <1>4, <1>7
<1> QED BY <1>6, <1>7

LEMMA HitStep == ASSUME IndInv, HitInv, [Next]_vars PROVE HitInv'
<1>0. /\ net \in Networks /\ i \in Nat /\ pass \in Nat /\ probes \in [Slots(net) -> Nat]
      /\ i \in 0..Total(net) /\ Total(net) \in Nat
  <2>1. net \in Networks /\ i \in 0..Total(net) /\ pass \in Nat /\ probes \in [Slots(net) -> Nat]
    BY DEF IndInv, TypeOK
  <2> QED BY <2>1, NetType
<1>M. PICK M \in {1, 2} : M = MaxHits
  BY DEF MaxHits
<1>1. ASSUME UNCHANGED <<net, i, pass, probes>>, spc' = spc \/ (spc # "probe" /\ spc' # "probe")
      PROVE  HitInv'
  BY <1>1 DEF HitInv, MaxHits
<1>2. CASE Quiet
  BY <1>2, <1>1 DEF Quiet
<1>3. CASE StartPass
  <2>1. /\ UNCHANGED <<net, probes>> /\ spc = "test" /\ spc' = "probe" /\ i' = 0 /\ pass' = pass + 1
    BY <1>3 DEF StartPass, SendTest, netVars
  <2>2. ASSUME NEW t \in Slots(net) PROVE probes[t] <= ((pass + 1) - 1) * M + Hits(net, 0, t)
    <3>1. probes[t] <= pass * M
      BY <2>1, <1>M DEF HitInv
    <3>2. Hits(net, 0, t) = 0
      BY <1>0, HitsFacts
    <3>3. ((pass + 1) - 1) * M + 0 = pass * M
      BY <1>0, <1>M
    <3> QED BY <3>1, <3>2, <3>3
  <2> QED BY <2>1, <2>2, <1>M DEF HitInv, MaxHits
<1>4. CASE Probe
  <2>1. /\ UNCHANGED <<net, pass, spc>> /\ spc = "probe" /\ i' = i + 1
        /\ probes' = [probes EXCEPT ![Target(net, i)] = @ + 1]
    BY <1>4 DEF Probe, netVars
  <2>2. ASSUME NEW t \in Slots(net) PROVE probes'[t] <= (pass - 1) * M + Hits(net, i + 1, t)
    <3>1. probes[t] <= (pass - 1) * M + Hits(net, i, t)
      BY <2>1, <1>M DEF HitInv
    <3>2. probes'[t] = probes[t] + (IF Target(net, i) = t THEN 1 ELSE 0)
      BY <2>1, <1>0
    <3>3. /\ Hits(net, i + 1, t) = Hits(net, i, t) + (IF Target(net, i) = t THEN 1 ELSE 0)
          /\ Hits(net, i, t) \in Nat
      BY <1>0, HitsFacts
    <3>4. (pass - 1) * M \in Int /\ probes[t] \in Nat
      BY <1>0, <1>M
    <3> QED BY <3>1, <3>2, <3>3, <3>4
  <2> QED BY <2>1, <2>2, <1>M DEF HitInv, MaxHits
<1>5. CASE SendLoad
  <2>1. UNCHANGED <<net, pass, probes>> /\ spc = "probe" /\ spc' = "store" /\ i = Total(net)
    BY <1>5 DEF SendLoad, netVars
  <2>2. ASSUME NEW t \in Slots(net) PROVE probes[t] <= pass * M
    <3>1. probes[t] <= (pass - 1) * M + Hits(net, Total(net), t)
      BY <2>1, <1>M DEF HitInv
    <3>2. Hits(net, Total(net), t) <= M /\ Hits(net, Total(net), t) \in Nat
      BY <1>0, <1>M, HitsFacts, PassHits DEF MaxHits
    <3>3. (pass - 1) * M = pass * M - M /\ pass * M \in Nat /\ probes[t] \in Nat
      BY <1>0, <1>M
    <3> QED BY <3>1, <3>2, <3>3, <1>M
  <2> QED BY <2>1, <2>2, <1>M DEF HitInv, MaxHits
<1>6. CASE SendStore
  BY <1>6, <1>1 DEF SendStore, netVars
<1>7. CASE Answer
  BY <1>7, <1>1 DEF Answer, sendVars
<1>8. CASE RecvLoad
  BY <1>8, <1>1 DEF RecvLoad, sendVars, netVars
<1>9. CASE RecvStore
  BY <1>9, <1>1 DEF RecvStore, sendVars, netVars
<1>10. TypeOK
  BY DEF IndInv
<1> QED BY <1>2, <1>3, <1>4, <1>5, <1>6, <1>7, <1>8, <1>9, <1>10, StepKinds

\* Nor does the part of a pass hit it more often.
LEMMA HitsBound ==
  ASSUME NEW n \in Networks, NEW t \in Slots(n), NEW k \in 0..Total(n)
  PROVE  /\ Hits(n, k, t) \in Nat
         /\ Hits(n, k, t) <= IF n.range6 = 0 THEN 1 ELSE 2
<1> DEFINE S(m) == {j \in 0..(m - 1) : Target(n, j) = t}
<1>1. k \in Nat /\ Total(n) \in Nat
  BY NetType
<1>2. IsFiniteSet(S(Total(n))) /\ S(k) \subseteq S(Total(n))
  <2>1. IsFiniteSet(0..(Total(n) - 1))
    BY <1>1, IndexCard
  <2>2. S(Total(n)) \subseteq 0..(Total(n) - 1)
    OBVIOUS
  <2>3. S(k) \subseteq S(Total(n))
    BY <1>1
  <2> HIDE DEF S
  <2> QED BY <2>1, <2>2, <2>3, FS_Subset
<1>3. Hits(n, k, t) = Cardinality(S(k)) /\ Hits(n, Total(n), t) = Cardinality(S(Total(n)))
  BY DEF Hits
<1> HIDE DEF S
<1>4. Cardinality(S(k)) <= Cardinality(S(Total(n)))
  BY <1>2, FS_Subset
<1>5. Hits(n, k, t) \in Nat /\ Hits(n, Total(n), t) \in Nat
  BY <1>1, HitsFacts
<1> QED BY <1>3, <1>4, <1>5, PassHits

-----------------------------------------------------------------------------
(* Where the probes go.                                                    *)

\* The numbers of addresses and ports of a task, and what is made of them.
LEMMA TaskFacts ==
  ASSUME NEW n \in Networks
  PROVE  /\ n.lists.ipv4 \in Seq(AddressRange) /\ n.lists.ipv6 \in Seq(AddressRange)
         /\ n.lists.ports \in Seq(AddressRange)
         /\ Counts(n.lists).ipv4 \in Nat /\ Counts(n.lists).ipv6 \in Nat
         /\ Counts(n.lists).ports \in Nat
         /\ n.range = Counts(n.lists).ipv4 * Counts(n.lists).ports
                      + Counts(n.lists).ipv6 * Counts(n.lists).ports
<1>1. /\ n.lists.ipv4 \in Seq(AddressRange) /\ n.lists.ipv6 \in Seq(AddressRange)
      /\ n.lists.ports \in Seq(AddressRange)
  BY TargetScanAssumption DEF MadeFromLists
<1>2. n = InitTask(n.lists, n.arp, n.rate, n.shuffle, n.hash)
  BY TargetScanAssumption DEF MadeFromLists
<1>3. InitTask(n.lists, n.arp, n.rate, n.shuffle, n.hash).range
        = Counts(n.lists).ipv4 * Counts(n.lists).ports
          + Counts(n.lists).ipv6 * Counts(n.lists).ports
  BY DEF InitTask
<1>4. /\ Counts(n.lists).ipv4 = Count(AddAll(n.lists.ipv4))
      /\ Counts(n.lists).ipv6 = Count(AddAll(n.lists.ipv6))
      /\ Counts(n.lists).ports = Count(AddAll(n.lists.ports))
  BY DEF Counts
<1> QED BY <1>1, <1>2, <1>3, <1>4, PickFacts

AllResolved(lists) == Resolved(lists.ipv4) /\ Resolved(lists.ipv6) /\ Resolved(lists.ports)

\* The addresses and ports of one family, by the index of the probe.
Covers(ranges, ports, a, b) ==
    /\ \A k \in 0..(a * b - 1) : /\ Pick(AddAll(ranges), k % a) \in Named(ranges)
                                 /\ Pick(AddAll(ports), k \div a) \in Named(ports)
    /\ \A x \in Named(ranges), y \in Named(ports) :
          \E k \in 0..(a * b - 1) : /\ Pick(AddAll(ranges), k % a) = x
                                    /\ Pick(AddAll(ports), k \div a) = y

LEMMA FamilyFacts ==
  ASSUME NEW ranges \in Seq(AddressRange), NEW ports \in Seq(AddressRange),
         Resolved(ranges), Resolved(ports)
  PROVE  Covers(ranges, ports, Count(AddAll(ranges)), Count(AddAll(ports)))
<1> DEFINE a == Count(AddAll(ranges))
           b == Count(AddAll(ports))
<1>1. /\ a \in Nat
      /\ \A k \in 0..(a - 1) : Pick(AddAll(ranges), k) \in Named(ranges)
      /\ \A x \in Named(ranges) : \E k \in 0..(a - 1) : Pick(AddAll(ranges), k) = x
  BY PickFacts DEF Resolved
<1>2. /\ b \in Nat
      /\ \A k \in 0..(b - 1) : Pick(AddAll(ports), k) \in Named(ports)
      /\ \A x \in Named(ports) : \E k \in 0..(b - 1) : Pick(AddAll(ports), k) = x
  BY PickFacts DEF Resolved
<1> HIDE DEF a, b
<1>3. ASSUME NEW k \in 0..(a * b - 1)
      PROVE  k % a \in 0..(a - 1) /\ k \div a \in 0..(b - 1)
  <2>1. a # 0 /\ b # 0
    <3>1. a * b - 1 >= 0
      BY <1>1, <1>2
    <3> QED BY <3>1, <1>1, <1>2
  <2> QED BY <2>1, <1>1, <1>2, SplitFacts
<1>4. ASSUME NEW x \in Named(ranges), NEW y \in Named(ports)
      PROVE  \E k \in 0..(a * b - 1) : /\ Pick(AddAll(ranges), k % a) = x
                                       /\ Pick(AddAll(ports), k \div a) = y
  <2>1. PICK kx \in 0..(a - 1) : Pick(AddAll(ranges), kx) = x
    BY <1>1
  <2>2. PICK ky \in 0..(b - 1) : Pick(AddAll(ports), ky) = y
    BY <1>2
  <2>3. a \in Nat \ {0} /\ b \in Nat \ {0}
    BY <1>1, <1>2
  <2>4. \A L \in 0..(a - 1), R \in 0..(b - 1) :
           /\ a * R + L \in 0..(a * b - 1)
           /\ (a * R + L) % a = L /\ (a * R + L) \div a = R
    BY <2>3, JoinFacts
  <2>5. PICK k \in 0..(a * b - 1) : k % a = kx /\ k \div a = ky
    BY <2>4
  <2> QED BY <2>1, <2>2, <2>5
<1> QED BY <1>1, <1>2, <1>3, <1>4 DEF Covers, a, b

\* The indices of a task reach what the user named, and nothing else.
LEMMA DestinationFacts ==
  ASSUME NEW n \in Networks, AllResolved(n.lists)
  PROVE  /\ \A t \in Slots(n) : Destination(n.lists, t) \in Wanted(n.lists)
         /\ \A d \in Wanted(n.lists) : \E t \in Slots(n) : Destination(n.lists, t) = d
<1> DEFINE l4 == n.lists.ipv4
           l6 == n.lists.ipv6
           lp == n.lists.ports
<1>1. PICK c4 \in Nat, c6 \in Nat, P \in Nat :
          /\ c4 = Counts(n.lists).ipv4 /\ c6 = Counts(n.lists).ipv6 /\ P = Counts(n.lists).ports
          /\ l4 \in Seq(AddressRange) /\ l6 \in Seq(AddressRange) /\ lp \in Seq(AddressRange)
          /\ n.range = c4 * P + c6 * P
  BY TaskFacts
<1>2. c4 = Count(AddAll(l4)) /\ c6 = Count(AddAll(l6)) /\ P = Count(AddAll(lp))
  BY <1>1 DEF Counts
<1>3. PICK m4 \in Nat, m6 \in Nat : m4 = c4 * P /\ m6 = c6 * P
  BY <1>1
<1>4. Slots(n) = 0..(m4 + m6 - 1)
  BY <1>1, <1>3 DEF Slots
<1>5. ASSUME NEW t
      PROVE  Destination(n.lists, t) =
               IF t < m6
               THEN [family |-> 6, address |-> Pick(AddAll(l6), t % c6),
                     port |-> Pick(AddAll(lp), t \div c6)]
               ELSE [family |-> 4, address |-> Pick(AddAll(l4), (t - m6) % c4),
                     port |-> Pick(AddAll(lp), (t - m6) \div c4)]
  BY <1>1, <1>3 DEF Destination
<1>6. /\ \A k \in 0..(m4 - 1) : /\ Pick(AddAll(l4), k % c4) \in Named(l4)
                                /\ Pick(AddAll(lp), k \div c4) \in Named(lp)
      /\ \A x \in Named(l4), y \in Named(lp) :
            \E k \in 0..(m4 - 1) : Pick(AddAll(l4), k % c4) = x /\ Pick(AddAll(lp), k \div c4) = y
  <2>1. Resolved(l4) /\ Resolved(lp)
    BY DEF AllResolved
  <2> HIDE DEF l4, l6, lp
  <2>2. Covers(l4, lp, c4, P)
    BY <2>1, <1>1, <1>2, FamilyFacts
  <2> QED BY <2>2, <1>3 DEF Covers
<1>7. /\ \A k \in 0..(m6 - 1) : /\ Pick(AddAll(l6), k % c6) \in Named(l6)
                                /\ Pick(AddAll(lp), k \div c6) \in Named(lp)
      /\ \A x \in Named(l6), y \in Named(lp) :
            \E k \in 0..(m6 - 1) : Pick(AddAll(l6), k % c6) = x /\ Pick(AddAll(lp), k \div c6) = y
  <2>1. Resolved(l6) /\ Resolved(lp)
    BY DEF AllResolved
  <2> HIDE DEF l4, l6, lp
  <2>2. Covers(l6, lp, c6, P)
    BY <2>1, <1>1, <1>2, FamilyFacts
  <2> QED BY <2>2, <1>3 DEF Covers
<1>8. Wanted(n.lists) = [family : {4}, address : Named(l4), port : Named(lp)]
                        \cup [family : {6}, address : Named(l6), port : Named(lp)]
  BY DEF Wanted
<1> HIDE DEF l4, l6, lp
<1>9. ASSUME NEW t \in Slots(n) PROVE Destination(n.lists, t) \in Wanted(n.lists)
  <2>1. CASE t < m6
    <3>1. t \in 0..(m6 - 1)
      BY <2>1, <1>4
    <3>2. /\ Pick(AddAll(l6), t % c6) \in Named(l6)
          /\ Pick(AddAll(lp), t \div c6) \in Named(lp)
      BY <3>1, <1>7
    <3>3. Destination(n.lists, t) = [family |-> 6, address |-> Pick(AddAll(l6), t % c6),
                                     port |-> Pick(AddAll(lp), t \div c6)]
      BY <2>1, <1>5
    <3> QED BY <3>2, <3>3, <1>8
  <2>2. CASE ~ (t < m6)
    <3>1. t - m6 \in 0..(m4 - 1)
      BY <2>2, <1>4
    <3>2. /\ Pick(AddAll(l4), (t - m6) % c4) \in Named(l4)
          /\ Pick(AddAll(lp), (t - m6) \div c4) \in Named(lp)
      BY <3>1, <1>6
    <3>3. Destination(n.lists, t) = [family |-> 4, address |-> Pick(AddAll(l4), (t - m6) % c4),
                                     port |-> Pick(AddAll(lp), (t - m6) \div c4)]
      BY <2>2, <1>5
    <3> QED BY <3>2, <3>3, <1>8
  <2> QED BY <2>1, <2>2
<1>10. ASSUME NEW d \in Wanted(n.lists) PROVE \E t \in Slots(n) : Destination(n.lists, t) = d
  <2>1. CASE d \in [family : {6}, address : Named(l6), port : Named(lp)]
    <3>1. PICK k \in 0..(m6 - 1) : /\ Pick(AddAll(l6), k % c6) = d.address
                                   /\ Pick(AddAll(lp), k \div c6) = d.port
      BY <2>1, <1>7
    <3>2. k \in Slots(n) /\ k < m6
      BY <1>4
    <3>3. d = [family |-> 6, address |-> d.address, port |-> d.port]
      BY <2>1
    <3> QED BY <3>1, <3>2, <3>3, <1>5
  <2>2. CASE d \in [family : {4}, address : Named(l4), port : Named(lp)]
    <3>1. PICK k \in 0..(m4 - 1) : /\ Pick(AddAll(l4), k % c4) = d.address
                                   /\ Pick(AddAll(lp), k \div c4) = d.port
      BY <2>2, <1>6
    <3>2. k + m6 \in Slots(n) /\ ~ (k + m6 < m6) /\ (k + m6) - m6 = k
      BY <1>4
    <3>3. d = [family |-> 4, address |-> d.address, port |-> d.port]
      BY <2>2
    <3> QED BY <3>1, <3>2, <3>3, <1>5
  <2> QED BY <2>1, <2>2, <1>8
<1> QED BY <1>9, <1>10

\* What the user named is probed, all of it when send_done is seen, and nothing else;
\* in a pass once, or twice with IPv6; by a shuffle that is one for every seed, however
\* many the targets, whatever the round function (hostscan.c:352-357, 748-859).
THEOREM ProbesAsAsked == ASSUME ReadsNumbers PROVE Spec => []ProbesExact
<1>1. Init => HitInv
  <2> SUFFICES ASSUME Init PROVE HitInv
    OBVIOUS
  <2>1. /\ net \in Networks /\ spc = "loop" /\ pass = 0 /\ probes = [t \in Slots(net) |-> 0]
        /\ MaxHits \in {1, 2}
    BY DEF Init, MaxHits
  <2> QED BY <2>1 DEF HitInv
<1>2. IndInv /\ HitInv /\ [Next]_vars => HitInv'
  BY HitStep
<1>3. ASSUME IndInv, HitInv PROVE ProbesExact
  <2>1. net \in Networks /\ pass \in Nat /\ probes \in [Slots(net) -> Nat]
    BY <1>3 DEF IndInv, TypeOK
  <2>2. ASSUME AllResolved(net.lists)
        PROVE  /\ Probed \subseteq Wanted(net.lists)
               /\ AllSlotsProbed => Probed = Wanted(net.lists)
    BY <2>1, <2>2, DestinationFacts DEF Probed, AllSlotsProbed
  <2>3. ASSUME NEW t \in Slots(net) PROVE probes[t] <= pass * MaxHits
    <3>1. PICK M \in {1, 2} : M = MaxHits
      BY DEF MaxHits
    <3>2. CASE spc # "probe"
      BY <3>2, <1>3 DEF HitInv
    <3>3. CASE spc = "probe"
      <4>1. probes[t] <= (pass - 1) * M + Hits(net, i, t)
        BY <3>1, <3>3, <1>3 DEF HitInv
      <4>2. Hits(net, i, t) <= M /\ Hits(net, i, t) \in Nat
        BY <2>1, <3>1, <1>3, HitsBound DEF IndInv, TypeOK, MaxHits
      <4>3. (pass - 1) * M = pass * M - M /\ pass * M \in Nat /\ probes[t] \in Nat
        BY <2>1, <3>1
      <4> QED BY <3>1, <4>1, <4>2, <4>3
    <3> QED BY <3>2, <3>3
  <2>4. "send_done" \in bits => AllSlotsProbed
    BY <1>3 DEF IndInv, ProbeInv, Done
  <2>5. ShufflePermutes
    <3> SUFFICES ASSUME NEW factor \in 1..MaxFactor, NEW seed \in Seeds
                 PROVE  Permutes(factor * net.range, seed)
      BY DEF ShufflePermutes
    <3>1. factor \in Nat \ {0} /\ net.range \in Nat \ {0}
      BY <2>1, NetType, TargetScanAssumption
    <3>2. factor * net.range \in Nat \ {0}
      BY <3>1
    <3> QED BY <3>2, ShuffleCorrect
  <2> QED BY <2>2, <2>3, <2>4, <2>5 DEF ProbesExact, AllResolved, MaxHits
<1>4. Spec => []HitInv
  <2>1. Spec => []IndInv
    BY IndInvariant
  <2> QED BY <2>1, <1>1, <1>2, PTL DEF Spec
<1> QED BY <1>3, <1>4, IndInvariant, PTL

=============================================================================
