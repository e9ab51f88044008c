----------------------------- MODULE Blackrock ------------------------------
(***************************************************************************)
(* Operators: the shuffle of thirdpart/masscan/rand-blackrock.c, an        *)
(* encryption of the numbers below range by a Feistel network on a * b     *)
(* numbers, repeated until the result is below range.  The round function  *)
(* READ, an s-box, is any function of the round and of half the number;    *)
(* its sums are not taken to wrap at 2^64, which one in 2^64 / range does.  *)
(***************************************************************************)
EXTENDS Integers

CONSTANTS
    Rounds,     \* 14 in send_thread
    Seeds,
    READ(_, _, _)

ASSUME BlackrockAssumption == Rounds \in Nat /\ Seeds \subseteq Nat

\* READ returns an unsigned integer (for TLC there are too many arguments to try).
ReadsNumbers == \A j, R \in Nat, seed \in Seeds : READ(j, R, seed) \in Nat

SquareRoot(n) == CHOOSE k \in 0..n : k * k <= n /\ (k + 1) * (k + 1) > n

\* blackrock_init: the sides of the network, for a range of at least one.
Sides(range) ==
    LET start == CASE range = 1 -> <<1, 1>>
                   [] range = 2 -> <<1, 2>>
                   [] range = 3 -> <<2, 2>>
                   [] range \in 4..6 -> <<2, 3>>
                   [] range \in 7..8 -> <<3, 3>>
                   [] OTHER -> <<SquareRoot(range) - 2, SquareRoot(range) + 3>>
        a == start[1]
        b == CHOOSE b \in start[2]..(range + start[2]) :
                a * b > range /\ \A c \in start[2]..(b - 1) : a * c <= range
    IN  [a |-> a, b |-> b, range |-> range]

Round(br, j) == IF j % 2 = 1 THEN br.a ELSE br.b

\* A number as two halves; the two after all rounds as a number, and back.
Split(br, m) == <<m % br.a, m \div br.a>>
Joined(br, s) == IF Rounds % 2 = 1 THEN br.a * s[1] + s[2] ELSE br.a * s[2] + s[1]
Unjoined(br, m) == IF Rounds % 2 = 1 THEN <<m \div br.a, m % br.a>> ELSE Split(br, m)

\* A round of ENCRYPT, and of UNENCRYPT, on the two halves s.
Mix(br, seed, j, s) == <<s[2], (s[1] + READ(j, s[2], seed)) % Round(br, j)>>
Unmix(br, seed, j, s) == <<(s[2] - READ(j, s[1], seed)) % Round(br, j), s[1]>>

\* Faulty: every round has the same modulus.
MixNarrow(br, seed, j, s) == <<s[2], (s[1] + READ(j, s[2], seed)) % br.a>>

\* ENCRYPT
Encrypt(br, seed, m) ==
    LET after[j \in 0..Rounds] ==
            IF j = 0 THEN Split(br, m) ELSE Mix(br, seed, j, after[j - 1])
    IN  Joined(br, after[Rounds])

\* UNENCRYPT, the rounds backwards.
Decrypt(br, seed, m) ==
    LET before[k \in 0..Rounds] ==
            IF k = 0 THEN Unjoined(br, m) ELSE Unmix(br, seed, Rounds + 1 - k, before[k - 1])
    IN  br.a * before[Rounds][2] + before[Rounds][1]

Numbers(br) == 0..(br.a * br.b - 1)

\* The loop of the two: a step, and another until the number is below range.
Walk(br, step, m) ==
    LET after[k \in 0..(br.a * br.b)] == step[IF k = 0 THEN m ELSE after[k - 1]]
        last == CHOOSE k \in DOMAIN after :
                    after[k] < br.range /\ \A l \in 0..(k - 1) : after[l] >= br.range
    IN  after[last]

\* blackrock_shuffle
Shuffle(br, seed, m) == Walk(br, [n \in Numbers(br) |-> Encrypt(br, seed, n)], m)

\* blackrock_unshuffle
Unshuffle(br, seed, m) == Walk(br, [n \in Numbers(br) |-> Decrypt(br, seed, n)], m)

\* What blackrock_verify tests, and that unshuffle is the inverse.
Permutes(range, seed) ==
    LET br == Sides(range)
    IN  /\ {Shuffle(br, seed, m) : m \in 0..(range - 1)} = 0..(range - 1)
        /\ \A m \in 0..(range - 1) : Unshuffle(br, seed, Shuffle(br, seed, m)) = m

=============================================================================
