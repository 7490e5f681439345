---------------------------- MODULE SwapDecoding ----------------------------
(***************************************************************************)
(* How a swap event becomes an entry of a bucket                           *)
(* (internal/aggregate/aggregate.go): the layouts of the pool types, two   *)
(* packed amounts in one word, two's complement, and the bucket that adds   *)
(* the entries up.  A word is a number below Half * Half, where the EVM has  *)
(* Half = 2^128.  Everything here is a function of its arguments.            *)
(***************************************************************************)
EXTENDS Integers, Sequences, SequencesExt

CONSTANT Half       \* the number of values of half a word

ASSUME HalfAssumption == Half \in Nat /\ Half > 1

Word == Half * Half

(* The topics of the four Swap events. *)
SwapTopics == {"v2", "v3", "agni", "lb"}

IsSwapTopic(topic) == topic \in SwapTopics

(* A word read as a signed number. *)
decodeInt256(word) == IF 2 * word < Word THEN word ELSE word - Word

(* Token 0 is in the low half of a packed word, token 1 in the high half. *)
splitPackedAmounts(word) == <<word % Half, word \div Half>>

Magnitude(x) == IF x < 0 THEN -x ELSE x

(* What one event adds: gross volume and flow out of the pool, per token. *)
NoAmounts == [vol0 |-> 0, vol1 |-> 0, netflow0 |-> 0, netflow1 |-> 0]

Amounts(in, out) ==
    [vol0 |-> in[1] + out[1], vol1 |-> in[2] + out[2],
     netflow0 |-> out[1] - in[1], netflow1 |-> out[2] - in[2]]

SignedAmounts(delta) ==
    [vol0 |-> Magnitude(delta[1]), vol1 |-> Magnitude(delta[2]),
     netflow0 |-> -delta[1], netflow1 |-> -delta[2]]

(* The words each layout needs. *)
Needs(topic) == CASE topic = "v2" -> 4
                  [] topic \in {"v3", "agni"} -> 2
                  [] topic = "lb" -> 3

Complete(log) == Len(log.words) >= Needs(log.topic)

\* Fault: the halves of a packed word are taken in the order they are written.
DecodeSwapHighFirst(log) ==
    LET w == log.words
        Swapped(word) == <<word \div Half, word % Half>> IN
    CASE log.topic = "v2" -> Amounts(<<w[1], w[2]>>, <<w[3], w[4]>>)
      [] log.topic \in {"v3", "agni"} -> SignedAmounts(<<decodeInt256(w[1]), decodeInt256(w[2])>>)
      [] log.topic = "lb" -> Amounts(Swapped(w[2]), Swapped(w[3]))

(* The entry of a log that has the words its layout needs.  The three       *)
(* layouts state the swap from different sides; the result is the trader's. *)
DecodeSwap(log) ==
    LET w == log.words IN
    CASE log.topic = "v2" -> Amounts(<<w[1], w[2]>>, <<w[3], w[4]>>)
      [] log.topic \in {"v3", "agni"} -> SignedAmounts(<<decodeInt256(w[1]), decodeInt256(w[2])>>)
      [] log.topic = "lb" -> Amounts(splitPackedAmounts(w[2]), splitPackedAmounts(w[3]))

NoSwaps == [swap_count |-> 0, vol0 |-> 0, vol1 |-> 0, netflow0 |-> 0, netflow1 |-> 0]

(* A bucket with one more swap: one that cannot be decoded counts, but has *)
(* no amounts.                                                             *)
Counted(bucket, log) ==
    LET d == IF Complete(log) THEN DecodeSwap(log) ELSE NoAmounts IN
    [swap_count |-> bucket.swap_count + 1,
     vol0 |-> bucket.vol0 + d.vol0, vol1 |-> bucket.vol1 + d.vol1,
     netflow0 |-> bucket.netflow0 + d.netflow0, netflow1 |-> bucket.netflow1 + d.netflow1]

(* The bucket of the logs of one window: a log that is no swap is skipped. *)
(* NoSwaps stands for no row.                                              *)
bucketize(logs) ==
    FoldLeft(LAMBDA b, log : IF IsSwapTopic(log.topic) THEN Counted(b, log) ELSE b, NoSwaps, logs)
=============================================================================
