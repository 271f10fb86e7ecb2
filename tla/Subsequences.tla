---------------------------- MODULE Subsequences ----------------------------
(* Parts of sequences, sorting and sums, by rank and size.                   *)
EXTENDS Naturals, Sequences, FiniteSets

(* What stands in s at the places in I, in the order of s.                   *)
Subsequence(s, I) == [k \in 1 .. Cardinality(I) |-> s[CHOOSE i \in I : Cardinality({j \in I : j <= i}) = k]]

(* Tuples of numbers go by the first number in which they differ.            *)
LexLess(s, t) == \E k \in DOMAIN s : (\A j \in 1 .. k - 1 : s[j] = t[j]) /\ s[k] < t[k]

(* The tuples in S, the lowest first.                                        *)
Ascending(S) == [k \in 1 .. Cardinality(S) |-> CHOOSE t \in S : Cardinality({s \in S : LexLess(s, t)}) = k - 1]

(* The sum of the numbers f has.                                             *)
Total(f) == Cardinality(UNION {{x} \X (1 .. f[x]) : x \in DOMAIN f})
=============================================================================
