----------------------------- MODULE DataLemmas -----------------------------
(***************************************************************************)
(* Induction over the naturals, stated for a set (the library states it    *)
(* for an operator), and with it what Those returns.                       *)
(***************************************************************************)
EXTENDS Filters, TLAPS, WellFoundedInduction, SequenceTheorems

(* The order of the naturals, as a relation. *)
Less == OpToRel(<, Nat)

(* Every set of naturals that is not empty has a least element. *)
LEMMA Least ==
  ASSUME NEW T, T \subseteq Nat, T # {}
  PROVE  \E x \in T : \A y \in T : x <= y
<1>1. \E x \in T : \A y \in T : ~(<<y, x>> \in Less)
  <2>1. IsWellFoundedOn(Less, Nat)
    BY NatLessThanWellFounded DEF Less
  <2> HIDE DEF Less
  <2> QED
    BY <2>1, WFMin
<1>2. PICK x \in T : \A y \in T : ~(<<y, x>> \in Less)
  BY <1>1
<1>3. ASSUME NEW y \in T PROVE x <= y
  <2>1. ~(<<y, x>> \in Less)
    BY <1>2
  <2>2. <<y, x>> \in Nat \X Nat
    OBVIOUS
  <2>3. ~(y < x)
    BY <2>1, <2>2 DEF Less, OpToRel
  <2> QED
    BY <2>3
<1> QED
  BY <1>3

(* Induction: a set with 0 and with the successors of its elements has     *)
(* every natural number.                                                   *)
LEMMA Induction ==
  ASSUME NEW T, 0 \in T, \A n \in Nat : n \in T => n + 1 \in T
  PROVE  Nat \subseteq T
<1>1. SUFFICES ASSUME Nat \ T # {} PROVE FALSE
  OBVIOUS
<1>2. PICK x \in Nat \ T : \A y \in Nat \ T : x <= y
  BY <1>1, Least
<1> QED
  BY <1>2

(* The prefixes of Those, as the function that the definition recurses on. *)
Picked(s, S) ==
  LET f[i \in 0..Len(s)] ==
        IF i = 0 THEN <<>> ELSE IF s[i] \in S THEN Append(f[i - 1], s[i]) ELSE f[i - 1]
  IN  f

Body(s, S, f, i) ==
  IF i = 0 THEN <<>> ELSE IF s[i] \in S THEN Append(f[i - 1], s[i]) ELSE f[i - 1]

(* The recursion of Those has a solution: by induction over the length of  *)
(* the prefix.                                                             *)
LEMMA PickedDef ==
  ASSUME NEW T, NEW s \in Seq(T), NEW S
  PROVE  /\ Picked(s, S) \in [0..Len(s) -> Seq(T)]
         /\ \A i \in 0..Len(s) : Picked(s, S)[i] = Body(s, S, Picked(s, S), i)
<1> DEFINE Good(n) == \E g \in [0..n -> Seq(T)] : \A i \in 0..n : g[i] = Body(s, S, g, i)
           P == {n \in Nat : n <= Len(s) => Good(n)}
<1>0. Len(s) \in Nat /\ \A i \in 1..Len(s) : s[i] \in T
  OBVIOUS
<1>1. 0 \in P
  <2>1. [i \in 0..0 |-> <<>>] \in [0..0 -> Seq(T)]
    OBVIOUS
  <2>2. \A i \in 0..0 : [k \in 0..0 |-> <<>>][i] = Body(s, S, [k \in 0..0 |-> <<>>], i)
    BY DEF Body
  <2>3. Good(0)
    BY <2>1, <2>2
  <2> QED
    BY <2>3
<1>2. ASSUME NEW n \in Nat, n \in P PROVE n + 1 \in P
  <2> HIDE DEF Good
  <2>1. SUFFICES ASSUME n + 1 <= Len(s) PROVE Good(n + 1)
    OBVIOUS
  <2> USE DEF Good
  <2>2. PICK g \in [0..n -> Seq(T)] : \A i \in 0..n : g[i] = Body(s, S, g, i)
    BY <1>0, <1>2, <2>1
  <2> DEFINE v == IF s[n + 1] \in S THEN Append(g[n], s[n + 1]) ELSE g[n]
             h == [i \in 0..(n + 1) |-> IF i = n + 1 THEN v ELSE g[i]]
  <2>3. v \in Seq(T)
    BY <1>0, <2>1
  <2>4. h \in [0..(n + 1) -> Seq(T)]
    BY <2>3
  <2>5. ASSUME NEW i \in 0..(n + 1) PROVE h[i] = Body(s, S, h, i)
    <3>1. CASE i = n + 1
      BY <3>1 DEF Body
    <3>2. CASE i \in 0..n
      <4>1. h[i] = g[i] /\ (i # 0 => h[i - 1] = g[i - 1])
        BY <3>2
      <4>2. g[i] = Body(s, S, g, i)
        BY <2>2, <3>2
      <4> QED
        BY <4>1, <4>2 DEF Body
    <3> QED
      BY <3>1, <3>2
  <2> QED
    BY <2>4, <2>5
<1> HIDE DEF P
<1>3. Len(s) \in P
  BY <1>0, <1>1, <1>2, Induction
<1>4. Good(Len(s))
  BY <1>0, <1>3 DEF P
<1>5. PICK g \in [0..Len(s) -> Seq(T)] : \A i \in 0..Len(s) : g[i] = Body(s, S, g, i)
  BY <1>4
<1>6. g = [i \in 0..Len(s) |-> Body(s, S, g, i)]
  BY <1>5
<1>7. Picked(s, S) = CHOOSE f : f = [i \in 0..Len(s) |-> Body(s, S, f, i)]
  BY DEF Picked, Body
<1>8. Picked(s, S) = [i \in 0..Len(s) |-> Body(s, S, Picked(s, S), i)]
  BY <1>6, <1>7
<1> DEFINE p == Picked(s, S)
           Q == {n \in Nat : n <= Len(s) => p[n] \in Seq(T)}
<1> HIDE DEF p
<1>9. \A i \in 0..Len(s) : p[i] = Body(s, S, p, i)
  BY <1>8 DEF p
<1>10. 0 \in Q
  <2>1. p[0] = <<>>
    BY <1>0, <1>9 DEF Body
  <2>2. p[0] \in Seq(T)
    BY <2>1
  <2> QED
    BY <2>2
<1>11. ASSUME NEW n \in Nat, n \in Q PROVE n + 1 \in Q
  <2>1. SUFFICES ASSUME n + 1 <= Len(s) PROVE p[n + 1] \in Seq(T)
    OBVIOUS
  <2>2. p[n] \in Seq(T) /\ p[n + 1] = Body(s, S, p, n + 1) /\ s[n + 1] \in T
    BY <1>0, <1>9, <1>11, <2>1
  <2> QED
    BY <2>2 DEF Body
<1> HIDE DEF Q
<1>12. Nat \subseteq Q
  BY <1>10, <1>11, Induction
<1>13. \A n \in 0..Len(s) : p[n] \in Seq(T)
  BY <1>0, <1>12 DEF Q
<1>14. p \in [0..Len(s) -> Seq(T)]
  BY <1>8, <1>13 DEF p
<1> QED
  BY <1>9, <1>14 DEF p

(* What a prefix of the filtered sequence holds: the elements of S, from   *)
(* the first i of s, and each once if s has none twice.                    *)
LEMMA PickedElems ==
  ASSUME NEW T, NEW s \in Seq(T), NEW S, NEW i \in 0..Len(s)
  PROVE  /\ Elems(Picked(s, S)[i]) = {s[j] : j \in 1..i} \cap S
         /\ NoTwice(s) => NoTwice(Picked(s, S)[i])
<1> DEFINE p == Picked(s, S)
           P == {n \in Nat : n <= Len(s) =>
                   /\ Elems(p[n]) = {s[j] : j \in 1..n} \cap S
                   /\ NoTwice(s) => NoTwice(p[n])}
<1>0. Len(s) \in Nat /\ DOMAIN s = 1..Len(s)
  OBVIOUS
<1>1. /\ \A n \in 0..Len(s) : p[n] \in Seq(T)
      /\ \A n \in 0..Len(s) : p[n] = Body(s, S, p, n)
  BY PickedDef
<1> HIDE DEF p
<1>2. 0 \in P
  <2>1. p[0] = <<>>
    BY <1>0, <1>1 DEF Body
  <2> QED
    BY <2>1 DEF Elems, NoTwice
<1>3. ASSUME NEW n \in Nat, n \in P PROVE n + 1 \in P
  <2>1. SUFFICES ASSUME n + 1 <= Len(s)
                 PROVE  /\ Elems(p[n + 1]) = {s[j] : j \in 1..(n + 1)} \cap S
                        /\ NoTwice(s) => NoTwice(p[n + 1])
    OBVIOUS
  <2>2. /\ p[n] \in Seq(T) /\ s[n + 1] \in T
        /\ p[n + 1] = IF s[n + 1] \in S THEN Append(p[n], s[n + 1]) ELSE p[n]
    BY <1>0, <1>1, <2>1 DEF Body
  <2>3. /\ Elems(p[n]) = {s[j] : j \in 1..n} \cap S
        /\ NoTwice(s) => NoTwice(p[n])
    BY <1>0, <1>3, <2>1
  <2>4. {s[j] : j \in 1..(n + 1)} = {s[j] : j \in 1..n} \cup {s[n + 1]}
    <3>1. 1..(n + 1) = (1..n) \cup {n + 1}
      OBVIOUS
    <3> QED
      BY <3>1
  <2>5. CASE s[n + 1] \in S
    <3> DEFINE q == p[n]
               x == s[n + 1]
    <3>1. q \in Seq(T) /\ x \in T /\ p[n + 1] = Append(q, x)
      BY <2>2, <2>5
    <3>2. /\ DOMAIN q = 1..Len(q) /\ Len(q) \in Nat
          /\ DOMAIN Append(q, x) = 1..(Len(q) + 1)
          /\ \A k \in 1..Len(q) : Append(q, x)[k] = q[k]
          /\ Append(q, x)[Len(q) + 1] = x
      BY <3>1
    <3>3. Elems(q) = {s[j] : j \in 1..n} \cap S /\ (NoTwice(s) => NoTwice(q))
      BY <2>3
    <3>4. NoTwice(s) => x \notin Elems(q)
      BY <1>0, <2>1, <3>3 DEF NoTwice
    <3> HIDE DEF q, x
    <3>5. Elems(Append(q, x)) = Elems(q) \cup {x}
      BY <3>2 DEF Elems
    <3>6. NoTwice(q) /\ x \notin Elems(q) => NoTwice(Append(q, x))
      BY <3>2 DEF NoTwice, Elems
    <3> QED
      BY <2>4, <2>5, <3>1, <3>3, <3>4, <3>5, <3>6 DEF x
  <2>6. CASE s[n + 1] \notin S
    BY <2>2, <2>3, <2>4, <2>6
  <2> QED
    BY <2>5, <2>6
<1> HIDE DEF P
<1>4. i \in P
  BY <1>0, <1>2, <1>3, Induction
<1> QED
  BY <1>0, <1>4 DEF P, p

(* Those gives a sequence of the elements of s that are in S, and none     *)
(* twice if s has none twice.                                              *)
LEMMA ThoseFacts ==
  ASSUME NEW T, NEW s \in Seq(T), NEW S
  PROVE  /\ Those(s, S) \in Seq(T)
         /\ Elems(Those(s, S)) = Elems(s) \cap S
         /\ NoTwice(s) => NoTwice(Those(s, S))
<1>1. Those(s, S) = Picked(s, S)[Len(s)]
  BY DEF Those, Picked
<1>2. Len(s) \in 0..Len(s) /\ {s[j] : j \in 1..Len(s)} = Elems(s)
  BY DEF Elems
<1> QED
  <2>1. Picked(s, S)[Len(s)] \in Seq(T)
    BY <1>2, PickedDef
  <2>2. /\ Elems(Picked(s, S)[Len(s)]) = {s[j] : j \in 1..Len(s)} \cap S
        /\ NoTwice(s) => NoTwice(Picked(s, S)[Len(s)])
    BY <1>2, PickedElems
  <2> QED
    BY <1>1, <1>2, <2>1, <2>2

(* The head of Those is the first element of s that is in S. *)
LEMMA ThoseFirst ==
  ASSUME NEW T, NEW s \in Seq(T), NEW S, NEW i \in 1..Len(s),
         s[i] \in S, \A k \in 1..(i - 1) : s[k] \notin S
  PROVE  Those(s, S) # <<>> /\ Head(Those(s, S)) = s[i]
<1> DEFINE p == Picked(s, S)
           P == {n \in Nat : n <= Len(s) =>
                   /\ n < i => p[n] = <<>>
                   /\ n >= i => Len(p[n]) > 0 /\ p[n][1] = s[i]}
<1>0. Len(s) \in Nat /\ i \in Nat /\ i >= 1 /\ i <= Len(s)
  OBVIOUS
<1>1. /\ \A n \in 0..Len(s) : p[n] \in Seq(T)
      /\ \A n \in 0..Len(s) : p[n] = Body(s, S, p, n)
  BY PickedDef
<1>2. Those(s, S) = p[Len(s)]
  BY DEF Those, Picked
<1> HIDE DEF p
<1>3. 0 \in P
  <2>1. p[0] = <<>>
    BY <1>0, <1>1 DEF Body
  <2> QED
    BY <1>0, <2>1
<1>4. ASSUME NEW n \in Nat, n \in P PROVE n + 1 \in P
  <2>1. SUFFICES ASSUME n + 1 <= Len(s)
                 PROVE  /\ n + 1 < i => p[n + 1] = <<>>
                        /\ n + 1 >= i => Len(p[n + 1]) > 0 /\ p[n + 1][1] = s[i]
    OBVIOUS
  <2>2. /\ p[n] \in Seq(T) /\ s[n + 1] \in T
        /\ p[n + 1] = IF s[n + 1] \in S THEN Append(p[n], s[n + 1]) ELSE p[n]
    BY <1>0, <1>1, <2>1 DEF Body
  <2>3. /\ n < i => p[n] = <<>>
        /\ n >= i => Len(p[n]) > 0 /\ p[n][1] = s[i]
    BY <1>0, <1>4, <2>1
  <2>4. CASE n + 1 < i
    <3>1. n + 1 \in 1..(i - 1)
      BY <1>0, <2>4
    <3> QED
      BY <1>0, <2>2, <2>3, <2>4, <3>1
  <2>5. CASE n + 1 = i
    <3>1. p[n] = <<>> /\ s[n + 1] = s[i] /\ s[n + 1] \in S
      BY <1>0, <2>3, <2>5
    <3>2. p[n + 1] = <<s[i]>>
      <4>1. p[n + 1] = Append(p[n], s[n + 1])
        BY <2>2, <3>1
      <4>2. Append(<<>>, s[i]) = <<s[i]>>
        OBVIOUS
      <4> QED
        BY <3>1, <4>1, <4>2
    <3>3. Len(p[n + 1]) > 0 /\ p[n + 1][1] = s[i]
      BY <3>2
    <3> QED
      BY <1>0, <2>5, <3>3
  <2>6. CASE n >= i
    <3> DEFINE q == p[n]
               x == s[n + 1]
    <3>1. q \in Seq(T) /\ x \in T /\ Len(q) > 0 /\ q[1] = s[i]
      BY <2>2, <2>3, <2>6
    <3>2. p[n + 1] = Append(q, x) \/ p[n + 1] = q
      BY <2>2
    <3> HIDE DEF q, x
    <3>3. Len(Append(q, x)) > 0 /\ Append(q, x)[1] = q[1]
      BY <3>1
    <3>4. Len(p[n + 1]) > 0 /\ p[n + 1][1] = s[i]
      <4>1. CASE p[n + 1] = q
        BY <3>1, <4>1
      <4>2. CASE p[n + 1] = Append(q, x)
        BY <3>1, <3>3, <4>2
      <4> QED
        BY <3>2, <4>1, <4>2
    <3>5. ~(n + 1 < i)
      BY <1>0, <2>6
    <3> QED
      BY <3>4, <3>5
  <2> QED
    BY <1>0, <2>4, <2>5, <2>6
<1> HIDE DEF P
<1>5. Len(s) \in P
  BY <1>0, <1>3, <1>4, Induction
<1>6. Len(p[Len(s)]) > 0 /\ p[Len(s)][1] = s[i] /\ p[Len(s)] \in Seq(T)
  BY <1>0, <1>1, <1>5 DEF P
<1> QED
  BY <1>2, <1>6

(* Elements of a sequence, of the empty one and of a concatenation. *)
LEMMA ElemsFacts ==
  ASSUME NEW T, NEW s \in Seq(T), NEW t \in Seq(T)
  PROVE  /\ Elems(s) \subseteq T
         /\ Elems(s) = {} <=> s = <<>>
         /\ s \o t \in Seq(T)
         /\ Elems(s \o t) = Elems(s) \cup Elems(t)
         /\ NoTwice(s) /\ NoTwice(t) /\ Elems(s) \cap Elems(t) = {} => NoTwice(s \o t)
<1> DEFINE u == s \o t
           m == Len(s)
           n == Len(t)
<1>1. /\ DOMAIN s = 1..m /\ DOMAIN t = 1..n /\ m \in Nat /\ n \in Nat
      /\ u \in Seq(T) /\ DOMAIN u = 1..(m + n)
      /\ \A i \in 1..m : u[i] = s[i]
      /\ \A i \in 1..n : u[i + m] = t[i]
  OBVIOUS
<1>2. \A i \in 1..m : s[i] \in T
  OBVIOUS
<1>3. m = 0 <=> s = <<>>
  OBVIOUS
<1> HIDE DEF u, m, n
<1>4. \A i \in 1..(m + n) : i \in 1..m \/ (i - m \in 1..n /\ u[i] = t[i - m])
  <2>1. SUFFICES ASSUME NEW i \in 1..(m + n), i \notin 1..m
                 PROVE  i - m \in 1..n /\ u[i] = t[i - m]
    OBVIOUS
  <2>2. i - m \in 1..n /\ i = (i - m) + m
    BY <1>1, <2>1
  <2> QED
    BY <1>1, <2>2
<1>5. Elems(s) \subseteq T
  BY <1>1, <1>2 DEF Elems
<1>6. Elems(s) = {} <=> s = <<>>
  <2>1. m # 0 => s[1] \in Elems(s)
    BY <1>1 DEF Elems
  <2>2. m = 0 => DOMAIN s = {}
    BY <1>1
  <2> QED
    BY <1>3, <2>1, <2>2 DEF Elems
<1>7. Elems(u) = Elems(s) \cup Elems(t)
  <2>1. Elems(u) \subseteq Elems(s) \cup Elems(t)
    BY <1>1, <1>4 DEF Elems
  <2>2. Elems(s) \subseteq Elems(u)
    BY <1>1 DEF Elems
  <2>3. Elems(t) \subseteq Elems(u)
    <3>1. \A i \in 1..n : i + m \in 1..(m + n)
      BY <1>1
    <3> QED
      BY <1>1, <3>1 DEF Elems
  <2> QED
    BY <2>1, <2>2, <2>3
<1>8. NoTwice(s) /\ NoTwice(t) /\ Elems(s) \cap Elems(t) = {} => NoTwice(u)
  <2>1. SUFFICES ASSUME NoTwice(s), NoTwice(t), Elems(s) \cap Elems(t) = {},
                        NEW i \in 1..(m + n), NEW j \in 1..(m + n), u[i] = u[j]
                 PROVE  i = j
    BY <1>1 DEF NoTwice
  <2>2. CASE i \in 1..m /\ j \in 1..m
    BY <1>1, <2>1, <2>2 DEF NoTwice
  <2>3. CASE i \notin 1..m /\ j \notin 1..m
    <3>1. i - m \in 1..n /\ j - m \in 1..n /\ t[i - m] = t[j - m]
      BY <1>4, <2>1, <2>3
    <3>2. i - m = j - m
      BY <1>1, <2>1, <3>1 DEF NoTwice
    <3> QED
      BY <1>1, <3>2
  <2>4. ~(i \in 1..m /\ j \notin 1..m) /\ ~(i \notin 1..m /\ j \in 1..m)
    <3>1. \A k \in 1..(m + n) : k \in 1..m => u[k] \in Elems(s)
      BY <1>1, <1>4 DEF Elems
    <3>2. \A k \in 1..(m + n) : k \notin 1..m => u[k] \in Elems(t)
      <4> SUFFICES ASSUME NEW k \in 1..(m + n), k \notin 1..m PROVE u[k] \in Elems(t)
        OBVIOUS
      <4>1. k - m \in 1..n /\ u[k] = t[k - m]
        BY <1>1, <1>4
      <4> QED
        BY <1>1, <4>1 DEF Elems
    <3> QED
      BY ONLY <2>1, <3>1, <3>2
  <2> QED
    BY <2>2, <2>3, <2>4
<1> QED
  BY <1>1, <1>5, <1>6, <1>7, <1>8 DEF u

(* A longer sequence is filtered by filtering its last element as well. *)
LEMMA ThoseAppend ==
  ASSUME NEW T, NEW s \in Seq(T), NEW x \in T, NEW S
  PROVE  Those(Append(s, x), S) = IF x \in S THEN Append(Those(s, S), x) ELSE Those(s, S)
<1> DEFINE t == Append(s, x)
           p == Picked(s, S)
           q == Picked(t, S)
           P == {n \in Nat : n <= Len(s) => q[n] = p[n]}
<1>0. /\ t \in Seq(T) /\ Len(s) \in Nat /\ Len(t) = Len(s) + 1 /\ t[Len(s) + 1] = x
      /\ \A i \in 1..Len(s) : t[i] = s[i]
  OBVIOUS
<1> HIDE DEF t
<1>1. \A i \in 0..Len(s) : p[i] = Body(s, S, p, i)
  BY PickedDef
<1>2. \A i \in 0..Len(t) : q[i] = Body(t, S, q, i)
  BY <1>0, PickedDef
<1>3. Those(s, S) = p[Len(s)] /\ Those(t, S) = q[Len(t)]
  BY DEF Those, Picked
<1> HIDE DEF p, q
<1>4. 0 \in P
  <2>1. p[0] = <<>> /\ q[0] = <<>>
    BY <1>0, <1>1, <1>2 DEF Body
  <2> QED
    BY <2>1
<1>5. ASSUME NEW n \in Nat, n \in P PROVE n + 1 \in P
  <2>1. SUFFICES ASSUME n + 1 <= Len(s) PROVE q[n + 1] = p[n + 1]
    OBVIOUS
  <2>2. q[n] = p[n] /\ t[n + 1] = s[n + 1]
    BY <1>0, <1>5, <2>1
  <2>3. p[n + 1] = Body(s, S, p, n + 1) /\ q[n + 1] = Body(t, S, q, n + 1)
    BY <1>0, <1>1, <1>2, <2>1
  <2> QED
    BY <2>2, <2>3 DEF Body
<1> HIDE DEF P
<1>6. q[Len(s)] = p[Len(s)]
  <2>1. Len(s) \in P
    BY <1>0, <1>4, <1>5, Induction
  <2> QED
    BY <1>0, <2>1 DEF P
<1>7. q[Len(t)] = IF x \in S THEN Append(q[Len(s)], x) ELSE q[Len(s)]
  <2>1. q[Len(t)] = Body(t, S, q, Len(t))
    BY <1>0, <1>2
  <2> QED
    BY <1>0, <2>1 DEF Body
<1>8. Those(t, S) = IF x \in S THEN Append(Those(s, S), x) ELSE Those(s, S)
  BY <1>3, <1>6, <1>7
<1> QED
  BY <1>8 DEF t

(* Taking the head of a sequence to the end of another one, and an element *)
(* that is appended: the concatenation has the same order.                 *)
LEMMA Concatenated ==
  ASSUME NEW T, NEW s \in Seq(T), NEW t \in Seq(T), NEW x \in T
  PROVE  /\ s \o Append(t, x) = Append(s \o t, x)
         /\ t # <<>> => Append(s, Head(t)) \o Tail(t) = s \o t
         /\ s \o <<>> = s /\ <<>> \o s = s
<1>1. s \o Append(t, x) = Append(s \o t, x)
  OBVIOUS
<1>2. ASSUME t # <<>> PROVE Append(s, Head(t)) \o Tail(t) = s \o t
  BY <1>2
<1>3. s \o <<>> = s /\ <<>> \o s = s
  OBVIOUS
<1> QED
  BY <1>1, <1>2, <1>3

(* A function on 0..n that is given at 0 and from each argument for the    *)
(* next one exists.                                                        *)
Steps(T, n) == [1..n -> [T -> T]]
Solved(T, n, a, step) ==
  \E g \in [0..n -> T] : g[0] = a /\ \A i \in 1..n : g[i] = step[i][g[i - 1]]

LEMMA Recursion ==
  ASSUME NEW T, NEW n \in Nat, NEW a \in T, NEW step \in Steps(T, n)
  PROVE  Solved(T, n, a, step)
<1> USE DEF Steps, Solved
<1> DEFINE Good(m) == \E g \in [0..m -> T] : g[0] = a /\ \A i \in 1..m : g[i] = step[i][g[i - 1]]
           P == {m \in Nat : m <= n => Good(m)}
<1>1. 0 \in P
  <2> DEFINE h == [i \in 0..0 |-> a]
  <2>1. h \in [0..0 -> T] /\ h[0] = a /\ 1..0 = {}
    OBVIOUS
  <2> HIDE DEF h
  <2>2. Good(0)
    BY <2>1
  <2> QED
    BY <2>2
<1>2. ASSUME NEW m \in Nat, m \in P PROVE m + 1 \in P
  <2>1. SUFFICES ASSUME m + 1 <= n PROVE Good(m + 1)
    OBVIOUS
  <2>2. PICK g \in [0..m -> T] : g[0] = a /\ \A i \in 1..m : g[i] = step[i][g[i - 1]]
    BY <1>2, <2>1
  <2> DEFINE v == step[m + 1][g[m]]
             h == [i \in 0..(m + 1) |-> IF i = m + 1 THEN v ELSE g[i]]
  <2>3. v \in T
    <3>1. g[m] \in T /\ m + 1 \in 1..n
      BY <2>1
    <3> QED
      BY <3>1
  <2>4. h \in [0..(m + 1) -> T]
    <3> HIDE DEF v
    <3> QED
      BY <2>3
  <2>5. h[0] = a
    BY <2>2
  <2>6. ASSUME NEW i \in 1..(m + 1) PROVE h[i] = step[i][h[i - 1]]
    <3>1. CASE i = m + 1
      BY <3>1
    <3>2. CASE i \in 1..m
      <4>1. h[i] = g[i] /\ h[i - 1] = g[i - 1]
        BY <3>2
      <4> QED
        BY <2>2, <3>2, <4>1
    <3> QED
      BY <3>1, <3>2
  <2> HIDE DEF h
  <2> QED
    BY <2>4, <2>5, <2>6
<1> HIDE DEF P
<1>3. n \in P
  BY <1>1, <1>2, Induction
<1> QED
  BY <1>3 DEF P

(* What is true at 0 and carried on is true up to n. *)
LEMMA UpTo ==
  ASSUME NEW n \in Nat, NEW P, 0 \in P, \A i \in 0..n : i < n /\ i \in P => i + 1 \in P
  PROVE  \A i \in 0..n : i \in P
<1> DEFINE Q == {m \in Nat : m <= n => m \in P}
<1>1. 0 \in Q
  OBVIOUS
<1>2. ASSUME NEW m \in Nat, m \in Q PROVE m + 1 \in Q
  BY <1>2
<1> HIDE DEF Q
<1>3. Nat \subseteq Q
  BY <1>1, <1>2, Induction
<1> QED
  BY <1>3 DEF Q

(* The prefixes of Flat, as the function its definition recurses on. *)
FlatTo(ss) ==
  LET f[i \in 0..Len(ss)] == IF i = 0 THEN <<>> ELSE f[i - 1] \o ss[i]
  IN  f

LEMMA FlatDef ==
  ASSUME NEW T, NEW ss \in Seq(Seq(T))
  PROVE  /\ Flat(ss) = FlatTo(ss)[Len(ss)]
         /\ FlatTo(ss) \in [0..Len(ss) -> Seq(T)]
         /\ FlatTo(ss)[0] = <<>>
         /\ \A i \in 1..Len(ss) : FlatTo(ss)[i] = FlatTo(ss)[i - 1] \o ss[i]
<1> DEFINE n == Len(ss)
           step == [i \in 1..n |-> [x \in Seq(T) |-> x \o ss[i]]]
<1>1. n \in Nat /\ \A i \in 1..n : ss[i] \in Seq(T)
  OBVIOUS
<1> HIDE DEF n
<1>2. step \in [1..n -> [Seq(T) -> Seq(T)]] /\ <<>> \in Seq(T)
  BY <1>1
<1>3. \A i \in 1..n : \A x \in Seq(T) : step[i][x] = x \o ss[i]
  OBVIOUS
<1> HIDE DEF step
<1>4. PICK g \in [0..n -> Seq(T)] : g[0] = <<>> /\ \A i \in 1..n : g[i] = step[i][g[i - 1]]
  <2>1. step \in Steps(Seq(T), n)
    BY <1>2 DEF Steps
  <2>2. Solved(Seq(T), n, <<>>, step)
    BY <1>1, <1>2, <2>1, Recursion
  <2> QED
    BY <2>2 DEF Solved
<1>5. \A i \in 1..n : g[i] = g[i - 1] \o ss[i]
  <2>1. \A i \in 1..n : g[i - 1] \in Seq(T)
    BY <1>1
  <2> QED
    BY <1>3, <1>4, <2>1
<1>6. g = [i \in 0..n |-> IF i = 0 THEN <<>> ELSE g[i - 1] \o ss[i]]
  <2>1. \A i \in 0..n : g[i] = IF i = 0 THEN <<>> ELSE g[i - 1] \o ss[i]
    <3>1. \A i \in 0..n : i # 0 => i \in 1..n
      BY <1>1
    <3> QED
      BY <1>4, <1>5, <3>1
  <2> QED
    BY <2>1
<1> DEFINE p == FlatTo(ss)
<1>7. p = [i \in 0..n |-> IF i = 0 THEN <<>> ELSE p[i - 1] \o ss[i]]
  <2>1. p = CHOOSE f : f = [i \in 0..n |-> IF i = 0 THEN <<>> ELSE f[i - 1] \o ss[i]]
    BY DEF FlatTo, n
  <2> HIDE DEF p
  <2> QED
    BY <1>6, <2>1
<1>8. Flat(ss) = p[n]
  BY DEF Flat, FlatTo, n
<1> HIDE DEF p
<1>9. p[0] = <<>> /\ \A i \in 1..n : p[i] = p[i - 1] \o ss[i]
  <2>1. \A i \in 0..n : p[i] = IF i = 0 THEN <<>> ELSE p[i - 1] \o ss[i]
    BY <1>7
  <2>2. 0 \in 0..n /\ \A i \in 1..n : i \in 0..n /\ i # 0
    BY <1>1
  <2> QED
    BY <2>1, <2>2
<1>10. \A i \in 0..n : p[i] \in Seq(T)
  <2> DEFINE P == {i \in 0..n : p[i] \in Seq(T)}
  <2>1. 0 \in P
    <3>1. 0 \in 0..n /\ p[0] = <<>> /\ <<>> \in Seq(T)
      BY <1>1, <1>2, <1>9
    <3> QED
      BY <3>1
  <2>2. \A i \in 0..n : i < n /\ i \in P => i + 1 \in P
    <3>1. SUFFICES ASSUME NEW i \in 0..n, i < n, p[i] \in Seq(T)
                   PROVE  i + 1 \in 0..n /\ p[i + 1] \in Seq(T)
      OBVIOUS
    <3>2. i + 1 \in 1..n /\ (i + 1) - 1 = i
      BY <1>1, <3>1
    <3>3. p[i + 1] = p[i] \o ss[i + 1] /\ ss[i + 1] \in Seq(T)
      BY <1>1, <1>9, <3>2
    <3> QED
      BY <1>1, <3>1, <3>2, <3>3
  <2> HIDE DEF P
  <2>3. \A i \in 0..n : i \in P
    BY <1>1, <2>1, <2>2, UpTo
  <2> QED
    BY <2>3 DEF P
<1>11. p \in [0..n -> Seq(T)]
  BY <1>7, <1>10
<1> QED
  BY <1>8, <1>9, <1>11 DEF p, n

(* The greatest of a set of numbers below a bound. *)
LEMMA GreatestFacts ==
  ASSUME NEW n \in Nat, NEW S, S \subseteq 0..n, S # {}
  PROVE  Greatest(S) \in S /\ \A y \in S : y <= Greatest(S)
<1> DEFINE T == {k \in 0..n : n - k \in S}
<1>1. T \subseteq Nat /\ T # {}
  <2>1. PICK y \in S : TRUE
    OBVIOUS
  <2>2. n - y \in 0..n /\ n - (n - y) = y
    BY <2>1
  <2>3. n - y \in T
    BY <2>1, <2>2
  <2>4. T \subseteq Nat
    OBVIOUS
  <2> HIDE DEF T
  <2> QED
    BY <2>3, <2>4
<1>2. PICK x \in T : \A y \in T : x <= y
  <2> HIDE DEF T
  <2> QED
    BY <1>1, Least
<1>3. n - x \in S /\ \A y \in S : y <= n - x
  <2>1. \A y \in S : n - y \in T /\ y \in 0..n
    OBVIOUS
  <2>2. x \in 0..n /\ n - x \in S
    OBVIOUS
  <2>3. \A y \in S : x <= n - y
    BY <1>2, <2>1
  <2> QED
    BY <2>1, <2>2, <2>3
<1> QED
  BY <1>3 DEF Greatest

(* There is only one greatest element. *)
LEMMA GreatestIs ==
  ASSUME NEW S, S \subseteq Nat, NEW x \in S, \A y \in S : y <= x
  PROVE  Greatest(S) = x
<1>1. \A z \in S : (\A y \in S : y <= z) => z = x
  OBVIOUS
<1> QED
  BY <1>1 DEF Greatest

(* Sequences of sequences. *)
Lists(T) == Seq(Seq(T))

(* Concatenation as an operator of its own, so that facts about it match.  *)
Cat(x, y) == x \o y

LEMMA CatFacts ==
  ASSUME NEW T, NEW x \in Seq(T), NEW y \in Seq(T)
  PROVE  /\ Cat(x, y) \in Seq(T) /\ Cat(x, <<>>) = x
         /\ Cat(x, y) = <<>> => x = <<>> /\ y = <<>>
         /\ \A z \in Seq(T) : Cat(Cat(x, y), z) = Cat(x, Cat(y, z))
<1>1. x \o y \in Seq(T) /\ x \o <<>> = x
  OBVIOUS
<1>2. x \o y = <<>> => x = <<>> /\ y = <<>>
  OBVIOUS
<1>3. \A z \in Seq(T) : (x \o y) \o z = x \o (y \o z)
  BY ConcatAssociative
<1> QED
  BY <1>1, <1>2, <1>3, Zenon DEF Cat

(* p gives what the first sequences of ss have together. *)
Unfolds(p, ss, n, T) ==
  /\ p[0] = <<>>
  /\ \A i \in 0..n : /\ p[i] \in Seq(T)
                     /\ i < n => ss[i + 1] \in Seq(T) /\ p[i + 1] = Cat(p[i], ss[i + 1])

LEMMA FlatUnfolds ==
  ASSUME NEW T, NEW ss \in Lists(T)
  PROVE  /\ Len(ss) \in Nat /\ DOMAIN ss = 1..Len(ss)
         /\ Flat(ss) = FlatTo(ss)[Len(ss)] /\ Unfolds(FlatTo(ss), ss, Len(ss), T)
<1> DEFINE n == Len(ss)
           p == FlatTo(ss)
<1>1. n \in Nat /\ DOMAIN ss = 1..n /\ \A i \in 1..n : ss[i] \in Seq(T)
  BY DEF Lists
<1>2. /\ Flat(ss) = p[n]
      /\ p \in [0..n -> Seq(T)]
      /\ p[0] = <<>>
      /\ \A i \in 1..n : p[i] = Cat(p[i - 1], ss[i])
  BY FlatDef DEF Lists, Cat
<1> HIDE DEF n, p
<1>3. ASSUME NEW i \in 0..n
      PROVE  p[i] \in Seq(T) /\ (i < n => ss[i + 1] \in Seq(T) /\ p[i + 1] = Cat(p[i], ss[i + 1]))
  <2>1. i < n => i + 1 \in 1..n /\ (i + 1) - 1 = i
    BY <1>1
  <2>2. p[i] \in Seq(T)
    BY <1>2
  <2>3. i < n => p[i + 1] = Cat(p[(i + 1) - 1], ss[i + 1]) /\ ss[i + 1] \in Seq(T)
    BY <1>1, <1>2, <2>1
  <2> QED
    BY <2>1, <2>2, <2>3
<1> QED
  BY <1>1, <1>2, <1>3 DEF Unfolds, n, p

(* Two prefixes that hold the same sequences. *)
Agree(ss, tt, n) == \A i \in 1..n : ss[i] = tt[i]

LEMMA UnfoldsPrefix ==
  ASSUME NEW T, NEW m \in Nat, NEW k \in Nat, NEW p, NEW ss, NEW q, NEW tt,
         Unfolds(p, ss, m, T), Unfolds(q, tt, k, T),
         NEW n \in Nat, n <= m, n <= k, Agree(ss, tt, n)
  PROVE  p[n] = q[n]
<1> DEFINE P == {i \in 0..n : p[i] = q[i]}
<1>1. 0 \in P
  BY DEF Unfolds
<1>2. ASSUME NEW i \in 0..n, i < n, i \in P PROVE i + 1 \in P
  <2>1. i \in 0..m /\ i < m /\ i \in 0..k /\ i < k /\ i + 1 \in 1..n /\ i + 1 \in 0..n
    BY <1>2
  <2>2. p[i + 1] = Cat(p[i], ss[i + 1]) /\ q[i + 1] = Cat(q[i], tt[i + 1])
    BY <2>1 DEF Unfolds
  <2>3. ss[i + 1] = tt[i + 1] /\ p[i] = q[i]
    BY <1>2, <2>1 DEF Agree
  <2> QED
    BY <2>1, <2>2, <2>3
<1> HIDE DEF P
<1>3. \A i \in 0..n : i \in P
  BY <1>1, <1>2, UpTo
<1> QED
  BY <1>3 DEF P

(* Nothing is added by sequences that are empty. *)
Silent(ss, c, n) == \A i \in c + 1..n : ss[i] = <<>>

LEMMA UnfoldsRest ==
  ASSUME NEW T, NEW n \in Nat, NEW p, NEW ss, Unfolds(p, ss, n, T), NEW c \in 0..n,
         Silent(ss, c, n)
  PROVE  p[n] = p[c]
<1> DEFINE P == {i \in 0..n : i >= c => p[i] = p[c]}
<1>1. 0 \in P
  OBVIOUS
<1>2. ASSUME NEW i \in 0..n, i < n, i \in P PROVE i + 1 \in P
  <2>1. p[i + 1] = Cat(p[i], ss[i + 1]) /\ p[i] \in Seq(T) /\ i + 1 \in 0..n
    BY <1>2 DEF Unfolds
  <2>2. CASE i + 1 <= c
    BY <2>1, <2>2
  <2>3. CASE i >= c
    <3>1. ss[i + 1] = <<>> /\ p[i] = p[c]
      BY <1>2, <2>1, <2>3 DEF Silent
    <3>2. Cat(p[i], <<>>) = p[i]
      BY <2>1, CatFacts
    <3> QED
      BY <2>1, <3>1, <3>2
  <2> QED
    BY <1>2, <2>2, <2>3
<1> HIDE DEF P
<1>3. \A i \in 0..n : i \in P
  BY <1>1, <1>2, UpTo
<1> QED
  BY <1>3 DEF P

(* What is not empty comes from a sequence that is not empty. *)
LEMMA UnfoldsEmpty ==
  ASSUME NEW T, NEW n \in Nat, NEW p, NEW ss, Unfolds(p, ss, n, T), p[n] = <<>>
  PROVE  \A i \in 1..n : ss[i] = <<>>
<1> DEFINE P == {i \in 0..n : p[i] = <<>> => \A j \in 1..i : ss[j] = <<>>}
<1>1. 0 \in P
  OBVIOUS
<1>2. ASSUME NEW i \in 0..n, i < n, i \in P PROVE i + 1 \in P
  <2>1. p[i + 1] = Cat(p[i], ss[i + 1]) /\ p[i] \in Seq(T) /\ ss[i + 1] \in Seq(T) /\ i + 1 \in 0..n
    BY <1>2 DEF Unfolds
  <2>2. p[i + 1] = <<>> => p[i] = <<>> /\ ss[i + 1] = <<>>
    <3> DEFINE x == p[i]
               y == ss[i + 1]
    <3>1. x \in Seq(T) /\ y \in Seq(T) /\ p[i + 1] = Cat(x, y)
      BY <2>1
    <3> HIDE DEF x, y
    <3>2. Cat(x, y) = <<>> => x = <<>> /\ y = <<>>
      BY ONLY <3>1, CatFacts
    <3> QED
      BY <3>1, <3>2, Zenon DEF x, y
  <2>3. 1..(i + 1) = (1..i) \cup {i + 1}
    OBVIOUS
  <2>4. p[i] = <<>> => \A j \in 1..i : ss[j] = <<>>
    BY <1>2
  <2>5. p[i + 1] = <<>> => \A j \in 1..(i + 1) : ss[j] = <<>>
    BY <2>2, <2>3, <2>4, Zenon
  <2> QED
    BY <2>1, <2>5
<1> HIDE DEF P
<1>3. \A i \in 0..n : i \in P
  BY <1>1, <1>2, UpTo
<1> QED
  BY <1>3 DEF P

(* What Flat gives when a sequence comes last, when the last sequence that *)
(* is not empty gets longer, and when all are empty.                       *)
LEMMA FlatType ==
  ASSUME NEW T, NEW ss \in Lists(T)
  PROVE  Flat(ss) \in Seq(T)
<1>1. Len(ss) \in Nat /\ Flat(ss) = FlatTo(ss)[Len(ss)] /\ Unfolds(FlatTo(ss), ss, Len(ss), T)
  BY FlatUnfolds
<1>2. Len(ss) \in 0..Len(ss)
  BY <1>1
<1> QED
  BY <1>1, <1>2 DEF Unfolds

LEMMA UnfoldsGrows ==
  ASSUME NEW T, NEW n \in Nat, NEW p, NEW ss, NEW q, NEW tt,
         Unfolds(p, ss, n, T), Unfolds(q, tt, n, T),
         NEW b \in Nat, b < n, NEW s \in Seq(T), tt[b + 1] = Cat(ss[b + 1], s),
         Agree(ss, tt, b), Silent(ss, b + 1, n), Silent(tt, b + 1, n)
  PROVE  q[n] = Cat(p[n], s)
<1>1. n <= n /\ b <= n /\ b \in 0..n /\ b + 1 \in 0..n
  OBVIOUS
<1>2. p[b] = q[b]
  BY <1>1, UnfoldsPrefix
<1>3. p[n] = p[b + 1] /\ q[n] = q[b + 1]
  BY <1>1, UnfoldsRest
<1> DEFINE x == p[b]
           y == ss[b + 1]
<1>4. /\ x \in Seq(T) /\ y \in Seq(T) /\ p[n] = Cat(x, y)
      /\ q[n] = Cat(x, Cat(y, s))
  BY <1>1, <1>2, <1>3 DEF Unfolds
<1> HIDE DEF x, y
<1>5. \A z \in Seq(T) : Cat(Cat(x, y), z) = Cat(x, Cat(y, z))
  BY ONLY <1>4, CatFacts
<1> QED
  BY ONLY <1>4, <1>5, s \in Seq(T)

LEMMA FlatGrows ==
  ASSUME NEW T, NEW ss \in Lists(T), NEW tt \in Lists(T), Len(ss) = Len(tt),
         NEW c \in 1..Len(ss), NEW s \in Seq(T), tt[c] = ss[c] \o s,
         \A i \in 1..Len(ss) : i # c => tt[i] = ss[i],
         \A i \in c + 1..Len(ss) : ss[i] = <<>>
  PROVE  Flat(tt) = Flat(ss) \o s
<1> DEFINE n == Len(ss)
           p == FlatTo(ss)
           q == FlatTo(tt)
           b == c - 1
<1>1. /\ n \in Nat /\ Unfolds(p, ss, n, T) /\ Unfolds(q, tt, n, T)
      /\ Flat(ss) = p[n] /\ Flat(tt) = q[n]
  BY FlatUnfolds
<1>2. b \in Nat /\ b < n /\ b + 1 = c
  BY <1>1
<1>3. tt[b + 1] = Cat(ss[b + 1], s) /\ s \in Seq(T)
  BY <1>2 DEF Cat
<1>4. Agree(ss, tt, b)
  BY <1>1, <1>2 DEF Agree
<1>5. Silent(ss, b + 1, n) /\ Silent(tt, b + 1, n)
  BY <1>1, <1>2 DEF Silent
<1> HIDE DEF n, p, q, b
<1>6. q[n] = Cat(p[n], s)
  BY ONLY <1>1, <1>2, <1>3, <1>4, <1>5, UnfoldsGrows
<1> QED
  BY <1>1, <1>6 DEF Cat

LEMMA FlatAppend ==
  ASSUME NEW T, NEW ss \in Lists(T), NEW s \in Seq(T)
  PROVE  Flat(Append(ss, s)) = Flat(ss) \o s
<1> DEFINE tt == Append(ss, s)
           n == Len(ss)
           p == FlatTo(ss)
           q == FlatTo(tt)
<1>1. /\ tt \in Lists(T) /\ n \in Nat /\ Len(tt) = n + 1 /\ tt[n + 1] = s
      /\ Agree(ss, tt, n)
  BY DEF Lists, Agree
<1> HIDE DEF tt
<1>2. Unfolds(p, ss, n, T) /\ Unfolds(q, tt, n + 1, T) /\ Flat(ss) = p[n] /\ Flat(tt) = q[n + 1]
  BY <1>1, FlatUnfolds
<1> HIDE DEF n, p, q
<1>3. n + 1 \in Nat /\ n <= n /\ n <= n + 1 /\ n \in 0..(n + 1) /\ n < n + 1
  BY ONLY <1>1
<1>4. p[n] = q[n]
  BY ONLY <1>1, <1>2, <1>3, UnfoldsPrefix
<1>5. q[n + 1] = Cat(q[n], tt[n + 1])
  BY ONLY <1>2, <1>3 DEF Unfolds
<1>6. Flat(tt) = Cat(Flat(ss), s)
  BY ONLY <1>1, <1>2, <1>4, <1>5
<1> QED
  BY <1>6, Zenon DEF tt, Cat

LEMMA FlatEmpty ==
  ASSUME NEW T, NEW ss \in Lists(T)
  PROVE  Flat(ss) = <<>> <=> \A i \in DOMAIN ss : ss[i] = <<>>
<1> DEFINE n == Len(ss)
           p == FlatTo(ss)
<1>1. /\ n \in Nat /\ DOMAIN ss = 1..n /\ Flat(ss) = p[n] /\ Unfolds(p, ss, n, T)
  BY FlatUnfolds
<1> HIDE DEF n, p
<1>2. p[n] = <<>> => \A i \in 1..n : ss[i] = <<>>
  BY ONLY <1>1, UnfoldsEmpty
<1>3. ASSUME \A i \in 1..n : ss[i] = <<>> PROVE p[n] = <<>>
  <2>1. 0 \in 0..n /\ Silent(ss, 0, n)
    BY ONLY <1>1, <1>3 DEF Silent
  <2>2. p[n] = p[0]
    BY ONLY <1>1, <2>1, UnfoldsRest
  <2>3. p[0] = <<>>
    BY ONLY <1>1 DEF Unfolds
  <2> QED
    BY <2>2, <2>3
<1> QED
  BY ONLY <1>1, <1>2, <1>3

(* What is in a set that concatenation stays in, together. *)
LEMMA FlatKeeps ==
  ASSUME NEW T, NEW P, P \subseteq Seq(T), <<>> \in P, \A x, y \in P : x \o y \in P,
         NEW ss \in Lists(T), \A i \in DOMAIN ss : ss[i] \in P
  PROVE  Flat(ss) \in P
<1> DEFINE n == Len(ss)
           p == FlatTo(ss)
           Q == {i \in 0..n : p[i] \in P}
<1>1. /\ n \in Nat /\ DOMAIN ss = 1..n /\ Flat(ss) = p[n] /\ Unfolds(p, ss, n, T)
  BY FlatUnfolds
<1>2. \A x, y \in P : Cat(x, y) \in P
  BY DEF Cat
<1> HIDE DEF n, p
<1>3. 0 \in Q
  BY <1>1 DEF Unfolds
<1>4. ASSUME NEW i \in 0..n, i < n, i \in Q PROVE i + 1 \in Q
  <2>1. p[i + 1] = Cat(p[i], ss[i + 1]) /\ p[i] \in P
    BY ONLY <1>1, <1>4 DEF Unfolds
  <2>2. i + 1 \in 1..n /\ i + 1 \in 0..n
    BY ONLY <1>1, <1>4
  <2>3. ss[i + 1] \in P
    BY <1>1, <2>2
  <2>4. p[i + 1] \in P
    BY ONLY <1>2, <2>1, <2>3
  <2> QED
    BY <2>2, <2>4
<1> HIDE DEF Q
<1>5. \A i \in 0..n : i \in Q
  BY ONLY <1>1, <1>3, <1>4, UpTo
<1> QED
  BY <1>1, <1>5 DEF Q

(* A sequence cut in two. *)
LEMMA Cuts ==
  ASSUME NEW T, NEW s \in Seq(T), NEW k \in 0..Len(s)
  PROVE  /\ SubSeq(s, 1, k) \in Seq(T) /\ Len(SubSeq(s, 1, k)) = k
         /\ \A i \in 1..k : SubSeq(s, 1, k)[i] = s[i]
         /\ SubSeq(s, k + 1, Len(s)) \in Seq(T) /\ Len(SubSeq(s, k + 1, Len(s))) = Len(s) - k
         /\ \A i \in 1..Len(s) - k : SubSeq(s, k + 1, Len(s))[i] = s[k + i]
<1> DEFINE n == Len(s)
<1>1. n \in Nat /\ k \in Int /\ n \in Int /\ 1 \in Int /\ k + 1 \in Int /\ k <= n /\ 0 <= k
  OBVIOUS
<1>2. (\A i \in 1..k : s[i] \in T) /\ \A i \in k + 1..n : s[i] \in T
  OBVIOUS
<1> HIDE DEF n
<1>3. /\ SubSeq(s, 1, k) \in Seq(T) /\ Len(SubSeq(s, 1, k)) = (IF 1 <= k THEN k - 1 + 1 ELSE 0)
      /\ \A i \in 1..k - 1 + 1 : SubSeq(s, 1, k)[i] = s[1 + i - 1]
  BY ONLY <1>1, <1>2, SubSeqProperties
<1>4. /\ SubSeq(s, k + 1, n) \in Seq(T)
      /\ Len(SubSeq(s, k + 1, n)) = (IF k + 1 <= n THEN n - (k + 1) + 1 ELSE 0)
      /\ \A i \in 1..n - (k + 1) + 1 : SubSeq(s, k + 1, n)[i] = s[k + 1 + i - 1]
  BY ONLY <1>1, <1>2, SubSeqProperties
<1>5. /\ k - 1 + 1 = k /\ n - (k + 1) + 1 = n - k
      /\ \A i \in 1..k : 1 + i - 1 = i
      /\ \A i \in 1..n - k : k + 1 + i - 1 = k + i
  BY ONLY <1>1
<1>6. (IF 1 <= k THEN k - 1 + 1 ELSE 0) = k /\ (IF k + 1 <= n THEN n - (k + 1) + 1 ELSE 0) = n - k
  BY ONLY <1>1
<1> QED
  BY <1>3, <1>4, <1>5, <1>6 DEF n

(* Flat of sequences put together. *)
LEMMA FlatConcat ==
  ASSUME NEW T, NEW ss \in Lists(T), NEW tt \in Lists(T)
  PROVE  Flat(ss \o tt) = Flat(ss) \o Flat(tt)
<1> DEFINE uu == ss \o tt
           m == Len(ss)
           k == Len(tt)
           p == FlatTo(uu)
           q == FlatTo(ss)
           r == FlatTo(tt)
<1>1. /\ uu \in Lists(T) /\ Len(uu) = m + k /\ Agree(ss, uu, m)
      /\ \A i \in 1..k : uu[m + i] = tt[i]
  BY DEF Lists, Agree
<1> HIDE DEF uu
<1>2. /\ m \in Nat /\ Unfolds(q, ss, m, T) /\ Flat(ss) = q[m]
      /\ k \in Nat /\ Unfolds(r, tt, k, T) /\ Flat(tt) = r[k]
  BY FlatUnfolds
<1>3. Unfolds(p, uu, m + k, T) /\ Flat(uu) = p[m + k]
  BY <1>1, FlatUnfolds
<1> HIDE DEF m, k, p, q, r
<1>4. m + k \in Nat /\ m <= m + k /\ m <= m /\ m + 0 = m /\ 0 \in 0..k /\ m \in 0..m
  BY ONLY <1>2
<1>5. q[m] = p[m]
  BY ONLY <1>1, <1>2, <1>3, <1>4, UnfoldsPrefix
<1> DEFINE P == {i \in 0..k : p[m + i] = Cat(q[m], r[i])}
<1>6. 0 \in P
  <2>1. q[m] \in Seq(T) /\ r[0] = <<>>
    BY <1>2, <1>4 DEF Unfolds
  <2>2. Cat(q[m], <<>>) = q[m]
    BY ONLY <2>1, CatFacts
  <2> QED
    BY <1>4, <1>5, <2>1, <2>2
<1>7. ASSUME NEW i \in 0..k, i < k, i \in P PROVE i + 1 \in P
  <2> DEFINE x == q[m]
             y == r[i]
             z == tt[i + 1]
  <2>1. /\ m + i \in 0..(m + k) /\ m + i < m + k /\ (m + i) + 1 = m + (i + 1)
        /\ i + 1 \in 1..k /\ i + 1 \in 0..k
    BY ONLY <1>2, <1>7
  <2>2. p[m + (i + 1)] = Cat(p[m + i], uu[m + (i + 1)])
    <3>1. p[(m + i) + 1] = Cat(p[m + i], uu[(m + i) + 1])
      BY ONLY <1>3, <2>1 DEF Unfolds
    <3> QED
      BY <2>1, <3>1
  <2>3. uu[m + (i + 1)] = z
    BY ONLY <1>1, <2>1
  <2>4. y \in Seq(T) /\ z \in Seq(T) /\ r[i + 1] = Cat(y, z)
    BY ONLY <1>2, <1>7 DEF Unfolds
  <2>5. x \in Seq(T) /\ p[m + i] = Cat(x, y)
    BY <1>2, <1>4, <1>7 DEF Unfolds
  <2> HIDE DEF x, y, z
  <2>6. Cat(Cat(x, y), z) = Cat(x, Cat(y, z))
    BY ONLY <2>4, <2>5, CatFacts
  <2>7. p[m + (i + 1)] = Cat(x, r[i + 1])
    BY ONLY <2>2, <2>3, <2>4, <2>5, <2>6
  <2> QED
    BY <2>1, <2>7 DEF x
<1> HIDE DEF P
<1>8. \A i \in 0..k : i \in P
  BY ONLY <1>2, <1>6, <1>7, UpTo
<1>9. p[m + k] = Cat(q[m], r[k])
  BY <1>2, <1>8 DEF P
<1>10. Flat(uu) = Cat(Flat(ss), Flat(tt))
  BY ONLY <1>2, <1>3, <1>9
<1> QED
  BY <1>10, Zenon DEF uu, Cat

(* Flat of nothing, of one sequence, and when only the last one counts. *)
LEMMA FlatOnly ==
  ASSUME NEW T, NEW s \in Seq(T)
  PROVE  Flat(<<>>) = <<>> /\ Flat(<<s>>) = s
<1>1. <<>> \in Lists(T) /\ (\A i \in DOMAIN <<>> : <<>>[i] = <<>>) /\ Append(<<>>, s) = <<s>>
  BY DEF Lists
<1>2. Flat(<<>>) = <<>>
  BY <1>1, FlatEmpty
<1>3. Flat(Append(<<>>, s)) = Flat(<<>>) \o s
  BY ONLY <1>1, s \in Seq(T), FlatAppend
<1>4. Flat(<<s>>) = <<>> \o s
  BY ONLY <1>1, <1>2, <1>3
<1>5. <<>> \o s = s
  BY ONLY s \in Seq(T)
<1> QED
  BY ONLY <1>2, <1>4, <1>5

LEMMA FlatLast ==
  ASSUME NEW T, NEW ss \in Lists(T), NEW n \in Nat, Len(ss) = n + 1, \A i \in 1..n : ss[i] = <<>>
  PROVE  Flat(ss) = ss[n + 1]
<1> DEFINE p == FlatTo(ss)
<1>1. Flat(ss) = p[n + 1] /\ Unfolds(p, ss, n + 1, T)
  BY FlatUnfolds
<1> HIDE DEF p
<1>2. n \in 0..(n + 1) /\ n < n + 1 /\ 0 \in 0..n /\ Silent(ss, 0, n) /\ n + 1 \in Nat
  BY DEF Silent
<1>3. ss[n + 1] \in Seq(T) /\ p[n + 1] = Cat(p[n], ss[n + 1])
  BY ONLY <1>1, <1>2 DEF Unfolds
<1>4. Unfolds(p, ss, n, T)
  BY <1>1 DEF Unfolds
<1>5. p[n] = p[0] /\ p[0] = <<>>
  <2>1. p[n] = p[0]
    BY ONLY <1>2, <1>4, n \in Nat, UnfoldsRest
  <2> QED
    BY <2>1, <1>4 DEF Unfolds
<1>6. Cat(<<>>, ss[n + 1]) = ss[n + 1]
  <2> DEFINE s == ss[n + 1]
  <2>1. s \in Seq(T)
    BY <1>3
  <2> HIDE DEF s
  <2>2. <<>> \o s = s
    BY ONLY <2>1
  <2> QED
    BY <2>2 DEF Cat, s
<1> QED
  BY ONLY <1>1, <1>3, <1>5, <1>6

(* The first sequence comes first. *)
LEMMA FlatFirst ==
  ASSUME NEW T, NEW ss \in Lists(T), ss # <<>>
  PROVE  Flat(ss) = Head(ss) \o Flat(Tail(ss))
<1> DEFINE h == Head(ss)
           t == Tail(ss)
<1>1. h \in Seq(T) /\ t \in Lists(T) /\ <<h>> \in Lists(T) /\ ss = <<h>> \o t
  BY DEF Lists
<1> HIDE DEF h, t
<1>2. Flat(<<h>> \o t) = Flat(<<h>>) \o Flat(t)
  BY ONLY <1>1, FlatConcat
<1>3. Flat(<<h>>) = h
  BY ONLY <1>1, FlatOnly
<1>4. Flat(ss) = h \o Flat(t)
  BY ONLY <1>1, <1>2, <1>3
<1> QED
  BY <1>4, Zenon DEF h, t

(* Elements one by one. *)
LEMMA FlatSingles ==
  ASSUME NEW T, NEW s \in Seq(T), NEW ss, DOMAIN ss = DOMAIN s, ss \in Lists(T),
         \A i \in DOMAIN s : ss[i] = <<s[i]>>
  PROVE  Flat(ss) = s
<1> DEFINE n == Len(s)
           p == FlatTo(ss)
           P == {i \in 0..n : p[i] = SubSeq(s, 1, i)}
<1>1. n \in Nat /\ Len(ss) = n /\ DOMAIN s = 1..n /\ \A i \in 1..n : s[i] \in T
  BY DEF Lists
<1>2. Flat(ss) = p[n] /\ Unfolds(p, ss, n, T)
  BY <1>1, FlatUnfolds
<1> HIDE DEF n, p
<1>3. 0 \in P
  <2>1. SubSeq(s, 1, 0) = <<>> /\ 0 \in 0..n
    BY <1>1
  <2> QED
    BY <1>2, <2>1 DEF Unfolds
<1>4. ASSUME NEW i \in 0..n, i < n, i \in P PROVE i + 1 \in P
  <2>1. i + 1 \in 1..n /\ i + 1 \in 0..n
    BY <1>1, <1>4
  <2>2. p[i + 1] = Cat(SubSeq(s, 1, i), <<s[i + 1]>>)
    <3>1. p[i + 1] = Cat(p[i], ss[i + 1])
      BY ONLY <1>2, <1>4 DEF Unfolds
    <3>2. p[i] = SubSeq(s, 1, i) /\ ss[i + 1] = <<s[i + 1]>>
      BY <1>1, <1>4, <2>1
    <3> QED
      BY ONLY <3>1, <3>2
  <2>3. SubSeq(s, 1, i) \o <<s[i + 1]>> = SubSeq(s, 1, i + 1)
    BY <1>1, <1>4, <2>1 DEF n
  <2> QED
    BY <2>1, <2>2, <2>3 DEF Cat
<1> HIDE DEF P
<1>5. \A i \in 0..n : i \in P
  BY ONLY <1>1, <1>3, <1>4, UpTo
<1>6. p[n] = SubSeq(s, 1, n)
  BY <1>1, <1>5 DEF P
<1>7. SubSeq(s, 1, n) = s
  BY <1>1 DEF n
<1> QED
  BY ONLY <1>2, <1>6, <1>7

(* When two sequences are the same, and what a sequence of sequences is.   *)
LEMMA SameSeq ==
  ASSUME NEW T, NEW s \in Seq(T), NEW t \in Seq(T), Len(s) = Len(t),
         \A i \in 1..Len(s) : s[i] = t[i]
  PROVE  s = t
<1>1. DOMAIN s = 1..Len(s) /\ s = [i \in DOMAIN s |-> s[i]]
  OBVIOUS
<1>2. DOMAIN t = 1..Len(t) /\ t = [i \in DOMAIN t |-> t[i]]
  OBVIOUS
<1>3. [i \in DOMAIN s |-> s[i]] = [i \in DOMAIN s |-> t[i]]
  BY <1>1
<1>4. DOMAIN s = DOMAIN t
  BY <1>1, <1>2
<1> QED
  BY <1>1, <1>2, <1>3, <1>4, Zenon

LEMMA SplitSeq ==
  ASSUME NEW T, NEW s \in Seq(T), NEW t \in Seq(T), NEW u \in Seq(T), Len(u) = Len(s) + Len(t),
         \A i \in 1..Len(s) : u[i] = s[i], \A i \in 1..Len(t) : u[Len(s) + i] = t[i]
  PROVE  u = s \o t
<1> DEFINE v == s \o t
<1>1. /\ v \in Seq(T) /\ Len(v) = Len(s) + Len(t) /\ Len(s) \in Nat /\ Len(t) \in Nat
      /\ \A i \in 1..Len(s) : v[i] = s[i]
      /\ \A i \in 1..Len(t) : v[Len(s) + i] = t[i]
  OBVIOUS
<1> HIDE DEF v
<1>2. ASSUME NEW i \in 1..Len(u) PROVE u[i] = v[i]
  <2>1. CASE i \in 1..Len(s)
    BY <1>1, <2>1
  <2>2. CASE i \notin 1..Len(s)
    <3>1. i - Len(s) \in 1..Len(t) /\ Len(s) + (i - Len(s)) = i
      BY <1>1, <2>2
    <3> QED
      BY <1>1, <3>1
  <2> QED
    BY <2>1, <2>2
<1>3. u = v
  BY ONLY u \in Seq(T), Len(u) = Len(s) + Len(t), <1>1, <1>2, SameSeq
<1> QED
  BY <1>3 DEF v

LEMMA ListsFacts ==
  ASSUME NEW T, NEW ss \in Lists(T)
  PROVE  /\ Len(ss) \in Nat /\ DOMAIN ss = 1..Len(ss) /\ \A i \in 1..Len(ss) : ss[i] \in Seq(T)
         /\ ss # <<>> => Head(ss) = ss[1] /\ Tail(ss) \in Lists(T) /\ Len(ss) > 0
BY DEF Lists
=============================================================================
