-------------------------- MODULE DFCorrectionArrays --------------------------
(***************************************************************************)
(* src/tools/df-correction-arrays.py: two tables of 32-bit bitsets, one    *)
(* entry per error-correction level, where bit d says that the 5-bit       *)
(* downlink format d is within that many bit errors of a valid short       *)
(* (DF11) or long (DF17, DF18) format.  The script's six bitset() calls    *)
(* run one after another; each is a loop over range(32), modelled one      *)
(* iteration per step.  A bitset is represented by the set of its bit     *)
(* positions (TLC's integers stop short of bit 31 of a uint32): 1 << i is  *)
(* {i} and |= is union.  The printing of the tables is text formatting and *)
(* is left out.                                                            *)
(***************************************************************************)
EXTENDS Naturals, Sequences, FiniteSets, Bitwise

\* Mutant: the count stops one bit early (as bin(x)[3:] would).
RECURSIVE PopCountShort(_)
PopCountShort(x) == IF x < 2 THEN 0 ELSE (x % 2) + PopCountShort(x \div 2)

\* popcount(x): bin(x).count('1').
RECURSIVE PopCount(_)
PopCount(x) == IF x = 0 THEN 0 ELSE (x % 2) + PopCount(x \div 2)

correctable_long(df, max_errors) ==
    PopCount(df ^^ 17) <= max_errors \/ PopCount(df ^^ 18) <= max_errors

correctable_short(df, max_errors) == PopCount(df ^^ 11) <= max_errors

\* Mutant: 1 << (i + 1).
BitShifted(i) == {i + 1}

\* 1 << i, as a set of bit positions.
Bit(i) == {i}

\* The six bitset() calls in program order: shorts at levels 0, 1 and
\* ("deliberately not 2") 1, then longs at levels 0, 1 and 2.
Jobs == << [table |-> "short", level |-> 0], [table |-> "short", level |-> 1],
           [table |-> "short", level |-> 1], [table |-> "long", level |-> 0],
           [table |-> "long", level |-> 1],  [table |-> "long", level |-> 2] >>

predicate(job, x) ==
    IF job.table = "short" THEN correctable_short(x, job.level)
                           ELSE correctable_long(x, job.level)

VARIABLES
    job,     \* which bitset() call is running (Len(Jobs) + 1: all done)
    i,       \* its loop index
    result,  \* its accumulator, as a set of bit positions
    shorts,  \* the list `shorts` built so far
    longs    \* the list `longs` built so far

vars == <<job, i, result, shorts, longs>>

Init == job = 1 /\ i = 0 /\ result = {} /\ shorts = <<>> /\ longs = <<>>

\* One iteration of `for i in range(32)`.
BitsetStep ==
    /\ job <= Len(Jobs)
    /\ i < 32
    /\ result' = IF predicate(Jobs[job], i) THEN result \cup Bit(i) ELSE result
    /\ i' = i + 1
    /\ UNCHANGED <<job, shorts, longs>>

\* `return result`: the value becomes the next element of its list.
BitsetReturn ==
    /\ job <= Len(Jobs)
    /\ i = 32
    /\ IF Jobs[job].table = "short"
       THEN shorts' = Append(shorts, result) /\ UNCHANGED longs
       ELSE longs' = Append(longs, result) /\ UNCHANGED shorts
    /\ job' = job + 1
    /\ i' = 0
    /\ result' = {}

Next == BitsetStep \/ BitsetReturn

Spec == Init /\ [][Next]_vars

-----------------------------------------------------------------------------
\* The reference meaning: Hamming distance on sets of bit positions.
RECURSIVE BitsFrom(_, _)
BitsFrom(x, b) ==
    IF x = 0 THEN {}
    ELSE (IF x % 2 = 1 THEN {b} ELSE {}) \cup BitsFrom(x \div 2, b + 1)
Bits(x) == BitsFrom(x, 0)
Distance(a, b) == Cardinality((Bits(a) \ Bits(b)) \cup (Bits(b) \ Bits(a)))
Ball(targets, radius) == {d \in 0..31 : \E t \in targets : Distance(d, t) <= radius}

\* The error radius of each table entry: the short table stops at one bit
\* error (the script's comment on shorts[2]).
ShortRadius == <<0, 1, 1>>
LongRadius == <<0, 1, 2>>

(***************************************************************************)
(* Every loop of bitset(): after i iterations the accumulator holds exactly *)
(* the bits below i of the formats within the job's radius of its targets, *)
(* as a set-of-positions Hamming distance defines them.                    *)
(***************************************************************************)
BitsetPrefix ==
    job <= Len(Jobs) =>
        result = Ball(IF Jobs[job].table = "short" THEN {11} ELSE {17, 18},
                            Jobs[job].level) \cap 0..(i - 1)

(***************************************************************************)
(* When the script has built both lists, each has three entries, and entry *)
(* e of each holds the Hamming ball of its radius around DF11, respectively   *)
(* DF17 and DF18: popcount, xor and the shift loop compute the distance    *)
(* they stand for.                                                         *)
(***************************************************************************)
TablesAreHammingBalls ==
    job > Len(Jobs) =>
        /\ Len(shorts) = 3 /\ Len(longs) = 3
        /\ \A e \in 1..3 : /\ shorts[e] = Ball({11}, ShortRadius[e])
                           /\ longs[e] = Ball({17, 18}, LongRadius[e])

=============================================================================
