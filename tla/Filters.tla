------------------------------ MODULE Filters ------------------------------
(* Sequences and sets of their elements.                                   *)
EXTENDS Naturals, Sequences

(* The elements of s (Range of the community modules, which brings in the  *)
(* definitions that no proof can use).                                     *)
Elems(s) == {s[i] : i \in DOMAIN s}

NoTwice(s) == \A i, j \in DOMAIN s : s[i] = s[j] => i = j

(* The elements of s that are in S, in their order: what SelectSeq does,   *)
(* for a set instead of an operator, as a function that can be reasoned    *)
(* about.                                                                  *)
Those(s, S) ==
  LET f[i \in 0..Len(s)] ==
        IF i = 0 THEN <<>> ELSE IF s[i] \in S THEN Append(f[i - 1], s[i]) ELSE f[i - 1]
  IN  f[Len(s)]

(* The sequences of ss one after the other. *)
Flat(ss) ==
  LET f[i \in 0..Len(ss)] == IF i = 0 THEN <<>> ELSE f[i - 1] \o ss[i]
  IN  f[Len(ss)]

(* The greatest of a set of numbers. *)
Greatest(S) == CHOOSE x \in S : \A y \in S : y <= x
============================================================================
