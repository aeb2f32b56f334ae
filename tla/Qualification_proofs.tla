------------------------ MODULE Qualification_proofs ------------------------
(* What ranking, reseeding and cutting compute, for every list of groups. *)
EXTENDS Qualification, FiniteSetTheorems, FunctionTheorems, SequenceTheorems, TLAPS

-----------------------------------------------------------------------------
(* Induction over the natural numbers, from the least counterexample.      *)

LEMMA Least ==
    ASSUME NEW T \in SUBSET Nat, T # {}
    PROVE  \E n \in T : \A m \in T : n <= m
<1>. DEFINE R == OpToRel(<, Nat)
<1>1. \A x, y \in Nat : <<x, y>> \in R <=> x < y
  BY DEF OpToRel
<1>2. IsWellFoundedOn(R, Nat)
  BY NatLessThanWellFounded
<1>. HIDE DEF R
<1>3. PICK n \in T : \A m \in T : <<m, n>> \notin R
  BY <1>2, WFMin
<1>4. ASSUME NEW m \in T
      PROVE  n <= m
  <2>1. m \in Nat /\ n \in Nat
    OBVIOUS
  <2>2. ~(m < n)
    BY <1>1, <1>3, <2>1
  <2>. QED  BY <2>1, <2>2
<1>. QED  BY <1>4

\* T holds the numbers for which what is to be shown holds.
LEMMA Induction ==
    ASSUME NEW T, 0 \in T, \A n \in Nat : n \in T => n + 1 \in T
    PROVE  \A n \in Nat : n \in T
<1>. DEFINE Missing == Nat \ T
<1>. SUFFICES ASSUME Missing # {} PROVE FALSE
  OBVIOUS
<1>1. PICK n \in Missing : \A m \in Missing : n <= m
  BY Least
<1>2. n # 0 /\ n - 1 \in Nat
  BY <1>1
<1>3. n - 1 \in T
  BY <1>1, <1>2
<1>. QED  BY <1>1, <1>2, <1>3

\* A function f on 0..n defined by recursion: next[i] makes f[i] of f[i - 1].
Steps(n, S) == [1..n -> [S -> S]]

Follows(f, n, S, base, next) ==
    f \in [0..n -> S] /\ f[0] = base /\ \A i \in 1..n : f[i] = next[i][f[i - 1]]

\* What a recursive definition defines exists.
LEMMA Recursion ==
    ASSUME NEW n \in Nat, NEW S, NEW base \in S, NEW next \in Steps(n, S)
    PROVE  \E f : Follows(f, n, S, base, next)
<1>. DEFINE Good(f, m) ==
                f \in [0..m -> S] /\ f[0] = base /\ \A i \in 1..m : f[i] = next[i][f[i - 1]]
            T == {m \in Nat : m <= n => \E f : Good(f, m)}
<1>1. 0 \in T
  <2>. DEFINE f == [i \in 0..0 |-> base]
  <2>1. Good(f, 0)
    OBVIOUS
  <2>. QED  BY <2>1
<1>2. ASSUME NEW m \in Nat, m \in T
      PROVE  m + 1 \in T
  <2>. SUFFICES ASSUME m + 1 <= n PROVE \E f : Good(f, m + 1)
    OBVIOUS
  <2>1. PICK f : Good(f, m)
    BY <1>2
  <2>. DEFINE h == [i \in 0..(m + 1) |-> IF i = m + 1 THEN next[m + 1][f[m]] ELSE f[i]]
  <2>2. next[m + 1][f[m]] \in S
    <3>1. f[m] \in S /\ m + 1 \in 1..n
      BY <2>1
    <3>. QED  BY <3>1 DEF Steps
  <2>3. h \in [0..(m + 1) -> S] /\ h[0] = base
    BY <2>1, <2>2
  <2>4. ASSUME NEW i \in 1..(m + 1)
        PROVE  h[i] = next[i][h[i - 1]]
    <3>1. i - 1 \in 0..m /\ h[i - 1] = f[i - 1]
      OBVIOUS
    <3>2. CASE i = m + 1
      BY <3>1, <3>2
    <3>3. CASE i # m + 1
      BY <3>1, <3>3, <2>1
    <3>. QED  BY <3>2, <3>3
  <2>. QED  BY <2>3, <2>4
<1>. HIDE DEF T
<1>3. n \in T
  BY <1>1, <1>2, Induction
<1>. QED  BY <1>3 DEF T, Follows

-----------------------------------------------------------------------------
(* Flattening.                                                             *)

\* The lists from 1 to n have nothing in common, and nothing twice.
Apart(seqs, n) ==
    /\ \A i \in 1..n : IsInjective(seqs[i])
    /\ \A i, j \in 1..n : i # j => ToSet(seqs[i]) \cap ToSet(seqs[j]) = {}

LEMMA ConcatSet ==
    ASSUME NEW S, NEW s \in Seq(S), NEW t \in Seq(S)
    PROVE  /\ ToSet(s \o t) = ToSet(s) \cup ToSet(t)
           /\ IsInjective(s \o t) <=>
                 IsInjective(s) /\ IsInjective(t) /\ ToSet(s) \cap ToSet(t) = {}
<1>. DEFINE st == s \o t
            m == Len(s)
            n == Len(t)
<1>1. /\ m \in Nat /\ n \in Nat /\ DOMAIN s = 1..m /\ DOMAIN t = 1..n /\ DOMAIN st = 1..(m + n)
      /\ \A i \in 1..m : i \in DOMAIN st /\ st[i] = s[i]
      /\ \A i \in 1..n : m + i \in DOMAIN st /\ st[m + i] = t[i]
  OBVIOUS
<1>2. \A i \in DOMAIN st : i \in 1..m \/ i - m \in 1..n
  BY <1>1
<1>. HIDE DEF m, n, st
<1>3. ToSet(st) = ToSet(s) \cup ToSet(t)
  <2>1. ASSUME NEW i \in DOMAIN st
        PROVE  st[i] \in ToSet(s) \cup ToSet(t)
    <3>1. CASE i \in 1..m
      BY <1>1, <3>1 DEF ToSet
    <3>2. CASE i - m \in 1..n
      <4>1. i = m + (i - m)
        BY <1>1
      <4>. QED  BY <1>1, <3>2, <4>1 DEF ToSet
    <3>. QED  BY <1>2, <3>1, <3>2
  <2>2. ToSet(s) \subseteq ToSet(st) /\ ToSet(t) \subseteq ToSet(st)
    BY <1>1 DEF ToSet
  <2>. QED  BY <2>1, <2>2 DEF ToSet
<1>4. ASSUME IsInjective(st)
      PROVE  IsInjective(s) /\ IsInjective(t) /\ ToSet(s) \cap ToSet(t) = {}
  <2>1. IsInjective(s)
    BY <1>1, <1>4 DEF IsInjective
  <2>2. ASSUME NEW i \in 1..n, NEW j \in 1..n, t[i] = t[j]
        PROVE  i = j
    <3>1. m + i = m + j
      BY <1>1, <1>4, <2>2 DEF IsInjective
    <3>. QED  BY <1>1, <3>1
  <2>3. ASSUME NEW i \in 1..m, NEW j \in 1..n
        PROVE  s[i] # t[j]
    BY <1>1, <1>4 DEF IsInjective
  <2>4. IsInjective(t)
    BY <1>1, <2>2 DEF IsInjective
  <2>5. ToSet(s) \cap ToSet(t) = {}
    BY <1>1, <2>3 DEF ToSet
  <2>. QED  BY <2>1, <2>4, <2>5
<1>5. ASSUME IsInjective(s), IsInjective(t), ToSet(s) \cap ToSet(t) = {},
             NEW i \in DOMAIN st, NEW j \in DOMAIN st, st[i] = st[j]
      PROVE  i = j
  <2>1. \A k \in DOMAIN st :
          (k \in 1..m /\ st[k] = s[k]) \/ (k - m \in 1..n /\ st[k] = t[k - m])
    <3>1. \A k \in DOMAIN st : k = m + (k - m)
      BY <1>1
    <3>. QED  BY <1>1, <1>2, <3>1
  <2>2. \A k \in 1..m, l \in 1..n : s[k] # t[l]
    BY <1>1, <1>5 DEF ToSet
  <2>3. CASE i \in 1..m /\ st[i] = s[i]
    <3>1. j \in 1..m /\ st[j] = s[j]
      BY <1>5, <2>1, <2>2, <2>3
    <3>. QED  BY <1>1, <1>5, <2>3, <3>1 DEF IsInjective
  <2>4. CASE i - m \in 1..n /\ st[i] = t[i - m]
    <3>1. j - m \in 1..n /\ st[j] = t[j - m]
      BY <1>5, <2>1, <2>2, <2>4
    <3>2. i - m = j - m
      BY <1>1, <1>5, <2>4, <3>1 DEF IsInjective
    <3>. QED  BY <1>1, <3>2
  <2>. QED  BY <2>1, <2>3, <2>4
<1>. QED  BY <1>3, <1>4, <1>5 DEF st, IsInjective

\* The function inside FlattenSeq.
Joined(s, t) == s \o t

Flattens(fl, seqs, S) ==
    /\ FlattenSeq(seqs) = fl[Len(seqs)]
    /\ fl[1] = seqs[1]
    /\ \A i \in 1..Len(seqs) : fl[i] \in Seq(S)
    /\ \A i \in 2..Len(seqs) : fl[i] = Joined(fl[i - 1], seqs[i])

LEMMA FlattenDef ==
    ASSUME NEW S, NEW seqs \in Seq(Seq(S)), Len(seqs) # 0
    PROVE  \E fl : Flattens(fl, seqs, S)
<1>. DEFINE n == Len(seqs)
            Q == Seq(S)
            next == [i \in 1..n |-> [x \in Q |-> Joined(x, seqs[i])]]
            body(g, i) == IF i = 1 THEN seqs[i] ELSE Joined(g[i - 1], seqs[i])
            Is(g) == g = [i \in 1..n |-> body(g, i)]
            fl == CHOOSE g : Is(g)
<1>1. n \in Nat /\ n # 0 /\ <<>> \in Q /\ \A i \in 1..n : seqs[i] \in Q
  OBVIOUS
<1>2. \A x, y \in Q : Joined(x, y) \in Q
  BY DEF Joined
<1>3. \A x \in Q : Joined(<<>>, x) = x
  BY DEF Joined
<1>4. FlattenSeq(seqs) = fl[n]
  BY DEF FlattenSeq, Joined
<1>. HIDE DEF n, Q
<1>5. next \in Steps(n, Q)
  BY <1>1, <1>2 DEF Steps
<1>6. \A i \in 1..n, x \in Q : next[i][x] = Joined(x, seqs[i])
  OBVIOUS
<1>. HIDE DEF next
<1>7. PICK h : Follows(h, n, Q, <<>>, next)
  BY <1>1, <1>5, Recursion
<1>. DEFINE g == [i \in 1..n |-> h[i]]
<1>8. ASSUME NEW i \in 1..n
      PROVE  g[i] = body(g, i) /\ g[i] \in Q
  <2>1. /\ i - 1 \in 0..n /\ h[i - 1] \in Q /\ h[0] = <<>> /\ h[i] \in Q
        /\ h[i] = Joined(h[i - 1], seqs[i])
    <3>1. h \in [0..n -> Q] /\ h[0] = <<>> /\ h[i] = next[i][h[i - 1]]
      BY <1>7 DEF Follows
    <3>2. i - 1 \in 0..n /\ i \in 0..n
      BY <1>1
    <3>3. h[i - 1] \in Q /\ h[i] \in Q
      BY <3>1, <3>2
    <3>. QED  BY <1>6, <3>1, <3>2, <3>3
  <2>2. CASE i = 1
    BY <1>1, <1>3, <2>1, <2>2
  <2>3. CASE i # 1
    <3>1. i - 1 \in 1..n
      BY <1>1, <2>3
    <3>. QED  BY <2>1, <2>3, <3>1
  <2>. QED  BY <2>2, <2>3
<1>9. Is(g)
  BY <1>8
<1>10. Is(fl)
  <2>. HIDE DEF g, Is
  <2>. QED  BY <1>9
<1>. HIDE DEF fl
<1>11. \A i \in 1..n : fl[i] = body(fl, i)
  <2>. HIDE DEF body
  <2>. QED  BY <1>10
<1>12. fl[1] = seqs[1] /\ \A i \in 2..n : fl[i] = Joined(fl[i - 1], seqs[i])
  <2>1. 1 \in 1..n
    BY <1>1
  <2>2. \A i \in 2..n : i \in 1..n /\ i # 1
    BY <1>1
  <2>. QED  BY <1>11, <2>1, <2>2
<1>13. \A i \in 1..n : fl[i] \in Q
  <2>. DEFINE T == {m \in Nat : m \in 1..n => fl[m] \in Q}
  <2>1. 0 \in T
    OBVIOUS
  <2>2. ASSUME NEW m \in Nat, m \in T, m + 1 \in 1..n
        PROVE  fl[m + 1] \in Q
    <3>1. CASE m = 0
      BY <1>1, <1>12, <2>2, <3>1
    <3>2. CASE m # 0
      <4>1. m + 1 \in 2..n /\ m \in 1..n /\ (m + 1) - 1 = m
        BY <1>1, <2>2, <3>2
      <4>. QED  BY <1>1, <1>2, <1>12, <2>2, <4>1
    <3>. QED  BY <3>1, <3>2
  <2>3. \A m \in Nat : m \in T => m + 1 \in T
    BY <2>2
  <2>4. \A m \in Nat : m \in T
    <3>. HIDE DEF T
    <3>. QED  BY <2>1, <2>3, Induction
  <2>. QED  BY <2>4
<1>. QED  BY <1>4, <1>12, <1>13 DEF n, Q, Flattens

\* A list that is flattened has the elements of its lists, and none of them twice if the
\* lists are apart.
LEMMA Flatten ==
    ASSUME NEW S, NEW seqs \in Seq(Seq(S))
    PROVE  /\ FlattenSeq(seqs) \in Seq(S)
           /\ ToSet(FlattenSeq(seqs)) = UNION {ToSet(seqs[i]) : i \in DOMAIN seqs}
           /\ IsInjective(FlattenSeq(seqs)) <=> Apart(seqs, Len(seqs))
<1>. DEFINE n == Len(seqs)
            Q == Seq(S)
            Upto(m) == UNION {ToSet(seqs[i]) : i \in 1..m}
<1>1. n \in Nat /\ DOMAIN seqs = 1..n /\ \A i \in 1..n : seqs[i] \in Q
  OBVIOUS
<1>2. CASE n = 0
  <2>1. FlattenSeq(seqs) = <<>> /\ seqs = <<>>
    BY <1>2 DEF FlattenSeq
  <2>. QED  BY <1>2, <2>1 DEF ToSet, IsInjective, Apart
<1>3. CASE n # 0
  <2>1. PICK fl : /\ FlattenSeq(seqs) = fl[n]
                  /\ fl[1] = seqs[1]
                  /\ \A i \in 1..n : fl[i] \in Q
                  /\ \A i \in 2..n : fl[i] = Joined(fl[i - 1], seqs[i])
    BY <1>3, FlattenDef DEF Flattens
  <2>2. ASSUME NEW x \in Q, NEW y \in Q
        PROVE  /\ ToSet(Joined(x, y)) = ToSet(x) \cup ToSet(y)
               /\ IsInjective(Joined(x, y)) <=>
                     IsInjective(x) /\ IsInjective(y) /\ ToSet(x) \cap ToSet(y) = {}
    BY ConcatSet DEF Joined
  <2>. HIDE DEF n, Q
  <2>. DEFINE Holds(m) == /\ ToSet(fl[m]) = Upto(m)
                          /\ IsInjective(fl[m]) <=> Apart(seqs, m)
              T == {m \in Nat : m \in 1..n => Holds(m)}
  <2>3. 0 \in T
    OBVIOUS
  <2>4. ASSUME NEW m \in Nat, m \in T, m + 1 \in 1..n
        PROVE  Holds(m + 1)
    <3>1. CASE m = 0
      <4>1. m + 1 = 1 /\ 1..1 = {1}
        BY <3>1
      <4>2. Upto(1) = ToSet(seqs[1])
        BY <4>1
      <4>3. Apart(seqs, 1) <=> IsInjective(seqs[1])
        BY <4>1 DEF Apart
      <4>. QED  BY <2>1, <4>1, <4>2, <4>3
    <3>2. CASE m # 0
      <4>1. m + 1 \in 2..n /\ m \in 1..n /\ (m + 1) - 1 = m
        BY <1>1, <2>4, <3>2
      <4>2. Holds(m)
        BY <2>4, <4>1
      <4>3. /\ fl[m + 1] = Joined(fl[m], seqs[m + 1])
            /\ fl[m] \in Q /\ seqs[m + 1] \in Q
        BY <1>1, <2>1, <2>4, <4>1
      <4>4. /\ ToSet(fl[m + 1]) = Upto(m) \cup ToSet(seqs[m + 1])
            /\ IsInjective(fl[m + 1]) <=>
                  Apart(seqs, m) /\ IsInjective(seqs[m + 1]) /\ Upto(m) \cap ToSet(seqs[m + 1]) = {}
        <5>. HIDE DEF Upto
        <5>. QED  BY <2>2, <4>2, <4>3
      <4>5. \A i : i \in 1..(m + 1) <=> i \in 1..m \/ i = m + 1
        OBVIOUS
      <4>6. Upto(m + 1) = Upto(m) \cup ToSet(seqs[m + 1])
        BY <4>5
      <4>7. Upto(m) \cap ToSet(seqs[m + 1]) = {} <=>
               \A i \in 1..m : ToSet(seqs[i]) \cap ToSet(seqs[m + 1]) = {}
        OBVIOUS
      <4>8. m + 1 \notin 1..m
        OBVIOUS
      <4>9. Apart(seqs, m + 1) <=> /\ Apart(seqs, m) /\ IsInjective(seqs[m + 1])
                                   /\ Upto(m) \cap ToSet(seqs[m + 1]) = {}
        <5>. DEFINE Disjoint(i, j) == ToSet(seqs[i]) \cap ToSet(seqs[j]) = {}
        <5>1. \A i, j : Disjoint(i, j) <=> Disjoint(j, i)
          OBVIOUS
        <5>2. Upto(m) \cap ToSet(seqs[m + 1]) = {} <=> \A i \in 1..m : Disjoint(i, m + 1)
          BY <4>7
        <5>3. \A k \in {m, m + 1} :
                 Apart(seqs, k) <=> /\ \A i \in 1..k : IsInjective(seqs[i])
                                    /\ \A i, j \in 1..k : i # j => Disjoint(i, j)
          BY DEF Apart
        <5>. HIDE DEF Upto, Disjoint
        <5>4. Apart(seqs, m + 1) <=>
                 /\ \A i \in 1..m : IsInjective(seqs[i])
                 /\ IsInjective(seqs[m + 1])
                 /\ \A i, j \in 1..m : i # j => Disjoint(i, j)
                 /\ \A i \in 1..m : Disjoint(i, m + 1)
          BY <4>5, <4>8, <5>1, <5>3
        <5>. QED  BY <5>2, <5>3, <5>4
      <4>. QED  BY <4>4, <4>6, <4>9
    <3>. QED  BY <3>1, <3>2
  <2>5. \A m \in Nat : m \in T => m + 1 \in T
    <3>. HIDE DEF Holds
    <3>. QED  BY <2>4
  <2>6. \A m \in Nat : m \in T
    <3>. HIDE DEF T
    <3>. QED  BY <2>3, <2>5, Induction
  <2>7. Holds(n)
    BY <1>1, <1>3, <2>6 DEF n
  <2>8. FlattenSeq(seqs) \in Q
    BY <1>1, <1>3, <2>1
  <2>. QED  BY <1>1, <2>1, <2>7, <2>8 DEF Q, n
<1>. QED  BY <1>2, <1>3

-----------------------------------------------------------------------------
(* Ranking.                                                                *)

AnyResult == [time : Nat \cup {NoTime}, status : Status]

\* Results are compared by a total preorder.
LEMMA LessOrders ==
    ASSUME NEW r \in AnyResult, NEW s \in AnyResult, NEW t \in AnyResult
    PROVE  /\ ~Less(r, r)
           /\ Less(r, s) => ~Less(s, r)
           /\ Less(r, s) /\ Less(s, t) => Less(r, t)
           /\ ~Less(s, r) /\ ~Less(t, s) => ~Less(t, r)
<1>. DEFINE order(x) == StatusOrder[x.status]
<1>1. \A x \in AnyResult : x.time \in Int /\ order(x) \in Int
  <2>1. /\ StatusOrder["DNF"] = 1 /\ StatusOrder["DSQ"] = 2 /\ StatusOrder["DNS"] = 3
        /\ StatusOrder[""] = 4
    BY DEF StatusOrder, Status
  <2>2. \A x \in AnyResult : x.time \in Int /\ x.status \in Status
    BY DEF AnyResult, NoTime
  <2>3. ASSUME NEW status \in Status
        PROVE  StatusOrder[status] \in Int
    <3>1. StatusOrder[status] \in {1, 2, 3, 4}
      BY <2>1, Zenon DEF Status
    <3>. QED  BY <3>1
  <2>. QED  BY <2>2, <2>3
<1>. HIDE DEF order
<1>2. \A x, y \in AnyResult : Less(x, y) <=>
         \/ HasTime(x) /\ HasTime(y) /\ x.time < y.time
         \/ HasTime(x) /\ ~HasTime(y)
         \/ ~HasTime(x) /\ ~HasTime(y) /\ order(x) < order(y)
  BY DEF Less, order
<1>3. ~Less(r, r)
  BY <1>1, <1>2
<1>4. Less(r, s) => ~Less(s, r)
  BY <1>1, <1>2
<1>5. Less(r, s) /\ Less(s, t) => Less(r, t)
  BY <1>1, <1>2
<1>6. ~Less(s, r) /\ ~Less(t, s) => ~Less(t, r)
  BY <1>1, <1>2
<1>. QED  BY <1>3, <1>4, <1>5, <1>6

\* res has a result for every team of list.
Known(list, res) == \A i \in DOMAIN list : res[list[i]] \in AnyResult

\* Of two places of a list exactly one is before the other.
LEMMA BeforeOrders ==
    ASSUME NEW S, NEW list \in Seq(S), NEW res, Known(list, res)
    PROVE  /\ \A i \in DOMAIN list : ~Before(list, res, i, i)
           /\ \A i, j \in DOMAIN list : i # j => Before(list, res, i, j) \/ Before(list, res, j, i)
           /\ \A i, j, k \in DOMAIN list :
                 Before(list, res, i, j) /\ Before(list, res, j, k) => Before(list, res, i, k)
<1>. DEFINE D == DOMAIN list
            less(i, j) == Less(res[list[i]], res[list[j]])
<1>1. \A i \in D : i \in Int /\ ~less(i, i)
  BY LessOrders DEF Known
<1>2. \A i, j \in D : less(i, j) => ~less(j, i)
  BY LessOrders DEF Known
<1>3. \A i, j, k \in D : less(i, j) /\ less(j, k) => less(i, k)
  BY LessOrders DEF Known
<1>4. \A i, j, k \in D : ~less(j, i) /\ ~less(k, j) => ~less(k, i)
  BY LessOrders DEF Known
<1>5. \A i, j : Before(list, res, i, j) <=> less(i, j) \/ (i < j /\ ~less(j, i))
  BY DEF Before
<1>. HIDE DEF D, less
<1>6. ASSUME NEW i \in D, NEW j \in D, i # j
      PROVE  Before(list, res, i, j) \/ Before(list, res, j, i)
  <2>1. i < j \/ j < i
    BY <1>1, <1>6
  <2>. QED  BY <1>5, <2>1
<1>7. ASSUME NEW i \in D, NEW j \in D, NEW k \in D,
             Before(list, res, i, j), Before(list, res, j, k)
      PROVE  Before(list, res, i, k)
  <2>1. less(i, j) \/ (i < j /\ ~less(j, i))
    BY <1>5, <1>7
  <2>2. less(j, k) \/ (j < k /\ ~less(k, j))
    BY <1>5, <1>7
  <2>3. i < j /\ j < k => i < k
    BY <1>1
  <2>4. less(i, k) \/ (i < k /\ ~less(k, i))
    BY <1>2, <1>3, <1>4, <2>1, <2>2, <2>3
  <2>. QED  BY <1>5, <2>4
<1>8. \A i \in D : ~Before(list, res, i, i)
  BY <1>1, <1>5
<1>. QED  BY <1>6, <1>7, <1>8 DEF D

\* Every place from 1 to n is taken when n are, each once.
LEMMA AllTaken ==
    ASSUME NEW n \in Nat, NEW f \in [1..n -> 1..n],
           \A i, j \in 1..n : f[i] = f[j] => i = j
    PROVE  \A p \in 1..n : \E i \in 1..n : f[i] = p
<1>. DEFINE D == 1..n
<1>1. IsFiniteSet(D)
  BY FS_Interval
<1>2. f \in Injection(D, D)
  BY DEF Injection, IsInjective
<1>. HIDE DEF D
<1>3. f \in Surjection(D, D)
  BY <1>1, <1>2, FS_Injection
<1>. QED  BY <1>3 DEF Surjection, D

\* A team's place is the number of a place, and of no two teams.
LEMMA Places ==
    ASSUME NEW S, NEW list \in Seq(S), NEW res, Known(list, res)
    PROVE  /\ \A i \in DOMAIN list : Place(list, res, i) \in DOMAIN list
           /\ \A i, j \in DOMAIN list :
                 Before(list, res, i, j) <=> Place(list, res, i) < Place(list, res, j)
           /\ \A p \in DOMAIN list : \E i \in DOMAIN list : Place(list, res, i) = p
<1>. DEFINE n == Len(list)
            D == 1..n
            before(i, j) == Before(list, res, i, j)
            Ahead(i) == {j \in D : before(j, i)}
            place(i) == Place(list, res, i)
<1>1. n \in Nat /\ DOMAIN list = D
  OBVIOUS
<1>2. IsFiniteSet(D) /\ Cardinality(D) = n
  BY <1>1, FS_Interval
<1>3. /\ \A i \in D : ~before(i, i)
      /\ \A i, j \in D : i # j => before(i, j) \/ before(j, i)
      /\ \A i, j, k \in D : before(i, j) /\ before(j, k) => before(i, k)
  BY <1>1, BeforeOrders
<1>4. ASSUME NEW i
      PROVE  place(i) = Cardinality(Ahead(i)) + 1
  <2>1. {j \in DOMAIN list : Before(list, res, j, i)} = Ahead(i)
    BY <1>1
  <2>. QED  BY <2>1 DEF Place
<1>. HIDE DEF n, D, before, place
<1>5. ASSUME NEW i \in D
      PROVE  place(i) \in D /\ place(i) \in Int
  <2>1. IsFiniteSet(D \ {i}) /\ Cardinality(D \ {i}) = n - 1
    BY <1>2, FS_RemoveElement
  <2>2. Ahead(i) \in SUBSET (D \ {i})
    BY <1>3
  <2>3. IsFiniteSet(Ahead(i)) /\ Cardinality(Ahead(i)) <= n - 1
    <3>. HIDE DEF Ahead
    <3>. QED  BY <2>1, <2>2, FS_Subset
  <2>4. Cardinality(Ahead(i)) \in Nat
    <3>. HIDE DEF Ahead
    <3>. QED  BY <2>3, FS_CardinalityType
  <2>. QED  BY <1>1, <1>4, <2>3, <2>4 DEF D
<1>6. ASSUME NEW i \in D, NEW j \in D, before(i, j)
      PROVE  place(i) < place(j)
  <2>1. i \notin Ahead(i) /\ Ahead(i) \cup {i} \in SUBSET Ahead(j)
    BY <1>3, <1>6
  <2>2. Ahead(i) \in SUBSET D /\ Ahead(j) \in SUBSET D
    OBVIOUS
  <2>3. place(i) = Cardinality(Ahead(i)) + 1 /\ place(j) = Cardinality(Ahead(j)) + 1
    BY <1>4
  <2>. HIDE DEF Ahead
  <2>4. IsFiniteSet(Ahead(i)) /\ IsFiniteSet(Ahead(j))
    BY <1>2, <2>2, FS_Subset
  <2>5. Cardinality(Ahead(i) \cup {i}) = Cardinality(Ahead(i)) + 1
    BY <2>1, <2>4, FS_AddElement
  <2>6. Cardinality(Ahead(i) \cup {i}) <= Cardinality(Ahead(j))
    BY <2>1, <2>4, FS_Subset
  <2>7. Cardinality(Ahead(i)) \in Nat /\ Cardinality(Ahead(j)) \in Nat
    BY <2>4, FS_CardinalityType
  <2>. QED  BY <2>3, <2>5, <2>6, <2>7
<1>7. ASSUME NEW i \in D, NEW j \in D, place(i) < place(j)
      PROVE  before(i, j)
  <2>1. CASE i = j
    BY <1>5, <1>7, <2>1
  <2>2. CASE before(j, i)
    <3>1. place(j) < place(i)
      BY <1>6, <2>2
    <3>. QED  BY <1>5, <1>7, <3>1
  <2>. QED  BY <1>3, <2>1, <2>2
<1>8. ASSUME NEW p \in D
      PROVE  \E i \in D : place(i) = p
  <2>. DEFINE f == [i \in D |-> place(i)]
  <2>1. f \in [D -> D]
    BY <1>5
  <2>2. ASSUME NEW i \in D, NEW j \in D, f[i] = f[j]
        PROVE  i = j
    <3>1. CASE before(i, j)
      BY <1>5, <1>6, <2>2, <3>1
    <3>2. CASE before(j, i)
      BY <1>5, <1>6, <2>2, <3>2
    <3>. QED  BY <1>3, <3>1, <3>2
  <2>3. \E i \in D : f[i] = p
    <3>1. f \in [1..n -> 1..n] /\ p \in 1..n
      BY <1>8, <2>1 DEF D
    <3>2. ASSUME NEW i \in 1..n, NEW j \in 1..n, f[i] = f[j]
          PROVE  i = j
      <4>1. i \in D /\ j \in D
        BY DEF D
      <4>. HIDE DEF f, D
      <4>. QED  BY <2>2, <3>2, <4>1
    <3>. HIDE DEF f, n
    <3>3. \A q \in 1..n : \E i \in 1..n : f[i] = q
      BY <1>1, <3>1, <3>2, AllTaken, Zenon
    <3>. QED  BY <3>1, <3>3 DEF D
  <2>. QED  BY <2>3
<1>. QED  BY <1>1, <1>5, <1>6, <1>7, <1>8 DEF before, place

\* The ranking is a permutation of the list, in the order of Before.
LEMMA RankPermutes ==
    ASSUME NEW S, NEW list \in Seq(S), NEW res, Known(list, res)
    PROVE  \E f \in [DOMAIN list -> DOMAIN list] :
              /\ Rank(list, res) = [p \in DOMAIN list |-> list[f[p]]]
              /\ \A p, q \in DOMAIN list : p < q => Before(list, res, f[p], f[q])
              /\ \A i \in DOMAIN list : f[Place(list, res, i)] = i
<1>. DEFINE D == DOMAIN list
            place(i) == Place(list, res, i)
            before(i, j) == Before(list, res, i, j)
            f == [p \in D |-> CHOOSE i \in D : place(i) = p]
<1>1. \A i \in D : i \in Int
  OBVIOUS
<1>2. /\ \A i \in D : place(i) \in D
      /\ \A i, j \in D : before(i, j) <=> place(i) < place(j)
      /\ \A p \in D : \E i \in D : place(i) = p
  BY Places
<1>3. \A i, j \in D : i # j => before(i, j) \/ before(j, i)
  BY BeforeOrders
<1>4. Rank(list, res) = [p \in D |-> list[f[p]]]
  BY DEF Rank
<1>. HIDE DEF D, place, before
<1>5. \A p \in D : f[p] \in D /\ place(f[p]) = p
  BY <1>2
<1>6. f \in [D -> D]
  BY <1>5
<1>. HIDE DEF f
<1>7. \A p, q \in D : p < q => before(f[p], f[q])
  BY <1>2, <1>5
<1>8. ASSUME NEW i \in D
      PROVE  f[place(i)] = i
  <2>. DEFINE j == f[place(i)]
  <2>1. j \in D /\ place(j) = place(i)
    BY <1>2, <1>5
  <2>2. place(i) \in Int
    BY <1>1, <1>2
  <2>3. ~(place(i) < place(i))
    BY <2>2
  <2>4. ~before(i, j) /\ ~before(j, i)
    BY <1>2, <2>1, <2>3
  <2>. QED  BY <1>3, <2>1, <2>4
<1>. QED  BY <1>4, <1>6, <1>7, <1>8 DEF D, place, before

\* What the rest needs of a ranking: the same teams, each as often, best first.
LEMMA RankOrders ==
    ASSUME NEW S, NEW list \in Seq(S), NEW res, Known(list, res)
    PROVE  LET ranked == Rank(list, res)
           IN  /\ ranked \in Seq(S) /\ Len(ranked) = Len(list)
               /\ ToSet(ranked) = ToSet(list)
               /\ IsInjective(list) => IsInjective(ranked)
               /\ \A p, q \in DOMAIN ranked : p < q => ~Less(res[ranked[q]], res[ranked[p]])
<1>. DEFINE n == Len(list)
            D == 1..n
            ranked == Rank(list, res)
            place(i) == Place(list, res, i)
            before(i, j) == Before(list, res, i, j)
<1>1. n \in Nat /\ DOMAIN list = D /\ \A i \in D : list[i] \in S
  OBVIOUS
<1>2. PICK f \in [D -> D] : /\ ranked = [p \in D |-> list[f[p]]]
                            /\ \A p, q \in D : p < q => before(f[p], f[q])
                            /\ \A i \in D : f[place(i)] = i
  BY <1>1, RankPermutes
<1>3. \A i \in D : place(i) \in D
  BY <1>1, Places
<1>4. \A i \in D : ~before(i, i)
  BY <1>1, BeforeOrders
<1>5. \A i, j \in D : before(i, j) => ~Less(res[list[j]], res[list[i]])
  BY <1>1, LessOrders DEF Before, Known
<1>. HIDE DEF ranked, place, before
<1>6. ranked \in Seq(S) /\ Len(ranked) = n /\ DOMAIN ranked = D
  <2>1. ranked \in [1..n -> S]
    BY <1>1, <1>2
  <2>2. ranked \in Seq(S)
    BY <1>1, <2>1
  <2>. QED  BY <1>1, <2>1, <2>2
<1>. HIDE DEF n, D
<1>7. ToSet(ranked) = ToSet(list)
  <2>1. \A p \in D : ranked[p] \in ToSet(list)
    BY <1>1, <1>2 DEF ToSet
  <2>2. ASSUME NEW i \in D
        PROVE  list[i] \in ToSet(ranked)
    <3>1. ranked[place(i)] = list[i]
      BY <1>2, <1>3
    <3>. QED  BY <1>3, <1>6, <3>1 DEF ToSet
  <2>. QED  BY <1>1, <1>6, <2>1, <2>2 DEF ToSet
<1>8. ASSUME IsInjective(list), NEW p \in D, NEW q \in D, ranked[p] = ranked[q]
      PROVE  p = q
  <2>1. f[p] \in D /\ f[q] \in D
    BY <1>2
  <2>2. list[f[p]] = list[f[q]]
    BY <1>2, <1>8
  <2>3. f[p] = f[q]
    BY <1>1, <1>8, <2>1, <2>2 DEF IsInjective
  <2>4. ~(p < q) /\ ~(q < p)
    BY <1>2, <1>4, <2>1, <2>3
  <2>5. p \in Int /\ q \in Int
    BY <1>1 DEF D
  <2>. QED  BY <2>4, <2>5
<1>9. \A p, q \in D : p < q => ~Less(res[ranked[q]], res[ranked[p]])
  BY <1>2, <1>5
<1>. QED  BY <1>6, <1>7, <1>8, <1>9 DEF ranked, IsInjective, n

-----------------------------------------------------------------------------
(* Reseeding.                                                              *)

\* What is between two places of a list.
LEMMA Slice ==
    ASSUME NEW S, NEW s \in Seq(S), NEW a \in Nat, NEW b \in Nat, a <= b, b <= Len(s)
    PROVE  LET slice == SubSeq(s, a + 1, b)
           IN  /\ slice \in Seq(S) /\ Len(slice) = b - a
               /\ \A i \in 1..(b - a) : slice[i] = s[a + i]
               /\ ToSet(slice) = {s[i] : i \in (a + 1)..b}
               /\ IsInjective(s) => IsInjective(slice)
<1>. DEFINE slice == SubSeq(s, a + 1, b)
<1>1. Len(s) \in Nat /\ DOMAIN s = 1..Len(s) /\ \A i \in (a + 1)..b : i \in DOMAIN s
  OBVIOUS
<1>2. slice \in Seq(S) /\ Len(slice) = b - a /\ DOMAIN slice = 1..(b - a)
  OBVIOUS
<1>3. \A i \in 1..(b - a) : slice[i] = s[a + i] /\ a + i \in (a + 1)..b
  OBVIOUS
<1>. HIDE DEF slice
<1>4. ToSet(slice) = {s[i] : i \in (a + 1)..b}
  <2>1. \A i \in (a + 1)..b : i - a \in 1..(b - a) /\ slice[i - a] = s[i]
    <3>1. \A i \in (a + 1)..b : i - a \in 1..(b - a) /\ a + (i - a) = i
      OBVIOUS
    <3>. QED  BY <1>3, <3>1
  <2>2. ToSet(slice) \subseteq {s[i] : i \in (a + 1)..b}
    BY <1>2, <1>3 DEF ToSet
  <2>3. {s[i] : i \in (a + 1)..b} \subseteq ToSet(slice)
    BY <1>2, <2>1 DEF ToSet
  <2>. QED  BY <2>2, <2>3
<1>5. ASSUME IsInjective(s), NEW i \in 1..(b - a), NEW j \in 1..(b - a), slice[i] = slice[j]
      PROVE  i = j
  <2>1. a + i \in DOMAIN s /\ a + j \in DOMAIN s /\ s[a + i] = s[a + j]
    BY <1>1, <1>3, <1>5
  <2>2. a + i = a + j
    BY <1>5, <2>1 DEF IsInjective
  <2>. QED  BY <2>2
<1>. QED  BY <1>2, <1>3, <1>4, <1>5 DEF slice, IsInjective

\* The size of a tier but the last one: k of them fit, and what remains is less than k.
LEMMA TierSize ==
    ASSUME NEW n \in Nat, NEW k \in Nat \ {0}
    PROVE  LET size == n \div k
           IN  /\ size \in Nat
               /\ \A i, j \in 0..k : i * size \in Nat /\ (i <= j => i * size <= j * size)
               /\ \A j \in 0..k : j * size <= n
               /\ \A j \in Int : (j + 1) * size = j * size + size
               /\ k <= n => size >= 1
<1>. DEFINE size == n \div k
<1>1. size \in Nat /\ k * size <= n
  OBVIOUS
<1>2. k <= n => size >= 1
  OBVIOUS
<1>. HIDE DEF size
<1>3. ASSUME NEW i \in 0..k, NEW j \in 0..k
      PROVE  i * size \in Nat /\ (i <= j => i * size <= j * size)
  BY <1>1
<1>4. ASSUME NEW j \in 0..k
      PROVE  j * size <= n
  <2>1. j * size <= k * size /\ j * size \in Nat /\ k * size \in Nat
    BY <1>1, <1>3
  <2>. QED  BY <1>1, <2>1
<1>5. \A j \in Int : (j + 1) * size = j * size + size
  BY <1>1
<1>. QED  BY <1>1, <1>2, <1>3, <1>4, <1>5 DEF size

\* Where tier j of n teams begins and ends.
First(n, k, j) == j * (n \div k)
End(n, k, j) == IF j = k - 1 THEN n ELSE (j + 1) * (n \div k)

LEMMA TierBounds ==
    ASSUME NEW n \in Nat, NEW k \in Nat \ {0}
    PROVE  /\ \A j \in 0..(k - 1) : /\ First(n, k, j) \in Nat /\ End(n, k, j) \in Nat
                                    /\ First(n, k, j) <= End(n, k, j) /\ End(n, k, j) <= n
           /\ \A i, j \in 0..(k - 1) : i < j => End(n, k, i) <= First(n, k, j)
           /\ \A x \in 1..n : \E j \in 0..(k - 1) : x \in (First(n, k, j) + 1)..End(n, k, j)
           /\ First(n, k, 0) = 0 /\ End(n, k, k - 1) = n
<1>. DEFINE size == n \div k
            first(j) == First(n, k, j)
            end(j) == End(n, k, j)
<1>1. /\ size \in Nat
      /\ \A i, j \in 0..k : i * size \in Nat /\ (i <= j => i * size <= j * size)
      /\ \A j \in 0..k : j * size <= n
      /\ \A j \in Int : (j + 1) * size = j * size + size
  BY TierSize
<1>2. \A j : first(j) = j * size /\ end(j) = IF j = k - 1 THEN n ELSE (j + 1) * size
  BY DEF First, End
<1>3. \A j \in 0..(k - 1) : j \in 0..k /\ j + 1 \in 0..k
  OBVIOUS
<1>. HIDE DEF size, first, end
<1>4. ASSUME NEW j \in 0..(k - 1)
      PROVE  first(j) \in Nat /\ end(j) \in Nat /\ first(j) <= end(j) /\ end(j) <= n
  <2>1. /\ j * size \in Nat /\ (j + 1) * size \in Nat
        /\ j * size <= (j + 1) * size /\ j * size <= n /\ (j + 1) * size <= n
    BY <1>1, <1>3
  <2>. QED  BY <1>2, <2>1
<1>5. ASSUME NEW i \in 0..(k - 1), NEW j \in 0..(k - 1), i < j
      PROVE  end(i) <= first(j)
  <2>1. i # k - 1 /\ i + 1 <= j
    BY <1>5
  <2>2. (i + 1) * size <= j * size
    BY <1>1, <1>3, <2>1
  <2>. QED  BY <1>2, <2>1, <2>2
<1>6. ASSUME NEW x \in 1..n
      PROVE  \E j \in 0..(k - 1) : x \in (first(j) + 1)..end(j)
  <2>. DEFINE Reached == {j \in 0..(k - 1) : x <= end(j)}
  <2>1. k - 1 \in 0..(k - 1) /\ end(k - 1) = n
    BY <1>2
  <2>2. k - 1 \in Reached /\ Reached \in SUBSET Nat
    BY <2>1
  <2>3. PICK j \in Reached : \A i \in Reached : j <= i
    BY <2>2, Least
  <2>4. CASE j = 0
    <3>1. first(0) = 0
      BY <1>1, <1>2
    <3>. QED  BY <1>4, <2>4, <3>1
  <2>5. CASE j # 0
    <3>1. j - 1 \in 0..(k - 1) /\ j - 1 \notin Reached /\ j - 1 # k - 1
      BY <2>3, <2>5
    <3>2. ~(x <= end(j - 1)) /\ end(j - 1) \in Nat
      BY <1>4, <3>1
    <3>3. end(j - 1) = first(j)
      BY <1>2, <3>1
    <3>. QED  BY <3>2, <3>3, <1>4
  <2>. QED  BY <2>4, <2>5
<1>7. first(0) = 0 /\ end(k - 1) = n
  BY <1>1, <1>2
<1>. QED  BY <1>4, <1>5, <1>6, <1>7 DEF first, end

\* The tiers of a group: every team is in one of them, and in no two.
LEMMA Tiers ==
    ASSUME NEW S, NEW group \in Seq(S), NEW k \in Nat \ {0}
    PROVE  /\ \A j \in 0..(k - 1) : /\ Tier(group, k, j) \in Seq(S)
                                    /\ ToSet(Tier(group, k, j)) \subseteq ToSet(group)
                                    /\ IsInjective(group) => IsInjective(Tier(group, k, j))
           /\ ToSet(group) \subseteq UNION {ToSet(Tier(group, k, j)) : j \in 0..(k - 1)}
           /\ IsInjective(group) => \A i, j \in 0..(k - 1) : i # j =>
                 ToSet(Tier(group, k, i)) \cap ToSet(Tier(group, k, j)) = {}
<1>. DEFINE n == Len(group)
            first(j) == First(n, k, j)
            end(j) == End(n, k, j)
            tier(j) == Tier(group, k, j)
            Span(j) == (first(j) + 1)..end(j)
<1>1. n \in Nat /\ DOMAIN group = 1..n
  OBVIOUS
<1>2. /\ \A j \in 0..(k - 1) : first(j) \in Nat /\ end(j) \in Nat /\ first(j) <= end(j) /\ end(j) <= n
      /\ \A i, j \in 0..(k - 1) : i < j => end(i) <= first(j)
      /\ \A x \in 1..n : \E j \in 0..(k - 1) : x \in Span(j)
  BY <1>1, TierBounds
<1>3. \A j : tier(j) = SubSeq(group, first(j) + 1, end(j))
  BY DEF Tier, First, End
<1>. HIDE DEF n, first, end, tier
<1>4. ASSUME NEW j \in 0..(k - 1)
      PROVE  /\ tier(j) \in Seq(S)
             /\ ToSet(tier(j)) = {group[x] : x \in Span(j)}
             /\ IsInjective(group) => IsInjective(tier(j))
             /\ Span(j) \subseteq 1..n
  <2>1. first(j) \in Nat /\ end(j) \in Nat /\ first(j) <= end(j) /\ end(j) <= n
    BY <1>2
  <2>2. tier(j) = SubSeq(group, first(j) + 1, end(j))
    BY <1>3
  <2>. DEFINE a == first(j)
              b == end(j)
  <2>3. a \in Nat /\ b \in Nat /\ a <= b /\ b <= Len(group)
    BY <2>1 DEF n
  <2>. HIDE DEF a, b
  <2>4. LET slice == SubSeq(group, a + 1, b)
        IN  /\ slice \in Seq(S)
            /\ ToSet(slice) = {group[x] : x \in (a + 1)..b}
            /\ IsInjective(group) => IsInjective(slice)
    BY <2>3, Slice
  <2>5. (a + 1)..b \subseteq 1..n
    BY <2>3 DEF n
  <2>. QED  BY <2>2, <2>4, <2>5 DEF a, b
<1>5. ASSUME NEW i \in 0..(k - 1), NEW j \in 0..(k - 1), i # j
      PROVE  Span(i) \cap Span(j) = {}
  <2>1. /\ first(i) \in Nat /\ end(i) \in Nat /\ first(j) \in Nat /\ end(j) \in Nat
        /\ end(i) <= first(j) \/ end(j) <= first(i)
    BY <1>2, <1>5
  <2>. QED  BY <2>1
<1>. HIDE DEF Span
<1>6. ASSUME NEW j \in 0..(k - 1)
      PROVE  ToSet(tier(j)) \subseteq ToSet(group)
  <2>1. ToSet(group) = {group[x] : x \in 1..n}
    BY <1>1 DEF ToSet
  <2>. QED  BY <1>4, <2>1
<1>7. ToSet(group) \subseteq UNION {ToSet(tier(j)) : j \in 0..(k - 1)}
  <2>. SUFFICES ASSUME NEW x \in 1..n
                PROVE  \E j \in 0..(k - 1) : group[x] \in ToSet(tier(j))
    BY <1>1 DEF ToSet
  <2>1. PICK j \in 0..(k - 1) : x \in Span(j)
    BY <1>2
  <2>. QED  BY <1>4, <2>1
<1>8. ASSUME IsInjective(group), NEW i \in 0..(k - 1), NEW j \in 0..(k - 1), i # j
      PROVE  ToSet(tier(i)) \cap ToSet(tier(j)) = {}
  <2>1. \A x \in Span(i), y \in Span(j) : x \in DOMAIN group /\ y \in DOMAIN group /\ x # y
    BY <1>1, <1>4, <1>5, <1>8
  <2>2. \A x \in Span(i), y \in Span(j) : group[x] # group[y]
    BY <1>8, <2>1 DEF IsInjective
  <2>. QED  BY <1>4, <2>2
<1>. QED  BY <1>4, <1>6, <1>7, <1>8 DEF tier

\* The tier that new group n takes from old group i: another one for every other new
\* group, and for every other old group.
Turn(k, n, i) == (n - 1 + i - 1) % k

LEMMA Turns ==
    ASSUME NEW k \in Nat \ {0}
    PROVE  /\ \A n, i \in 1..k : Turn(k, n, i) \in 0..(k - 1)
           /\ \A m, n, i \in 1..k : Turn(k, m, i) = Turn(k, n, i) => m = n
           /\ \A n, i, j \in 1..k : Turn(k, n, i) = Turn(k, n, j) => i = j
           /\ \A i \in 1..k, t \in 0..(k - 1) : \E n \in 1..k : Turn(k, n, i) = t
<1>1. ASSUME NEW n \in 1..k, NEW i \in 1..k
      PROVE  Turn(k, n, i) = IF n + i - 2 < k THEN n + i - 2 ELSE n + i - 2 - k
  <2>1. CASE n + i - 2 < k
    <3>1. n - 1 + i - 1 \in 0..(k - 1)
      BY <2>1
    <3>. QED  BY <2>1, <3>1 DEF Turn
  <2>2. CASE n + i - 2 >= k
    <3>. DEFINE a == n + i - 2 - k
    <3>1. a \in 0..(k - 1) /\ n - 1 + i - 1 = a + k
      BY <2>2
    <3>. HIDE DEF a
    <3>2. (a + k) % k = a
      BY <3>1
    <3>3. Turn(k, n, i) = a
      BY <3>1, <3>2 DEF Turn
    <3>. QED  BY <2>2, <3>3 DEF a
  <2>. QED  BY <2>1, <2>2
<1>2. \A n, i \in 1..k : Turn(k, n, i) \in 0..(k - 1)
  BY <1>1
<1>3. \A m, n, i \in 1..k : Turn(k, m, i) = Turn(k, n, i) => m = n
  BY <1>1
<1>4. \A n, i, j \in 1..k : Turn(k, n, i) = Turn(k, n, j) => i = j
  BY <1>1
<1>5. ASSUME NEW i \in 1..k, NEW t \in 0..(k - 1)
      PROVE  \E n \in 1..k : Turn(k, n, i) = t
  <2>. DEFINE n == IF i - 1 <= t THEN t - i + 2 ELSE t - i + 2 + k
  <2>1. n \in 1..k /\ (IF n + i - 2 < k THEN n + i - 2 ELSE n + i - 2 - k) = t
    OBVIOUS
  <2>. QED  BY <1>1, <2>1
<1>. QED  BY <1>2, <1>3, <1>4, <1>5

\* The new groups: new group n has one tier of every old group.
Part(ranked, n, i) == Tier(ranked[i], Len(ranked), Turn(Len(ranked), n, i))

LEMMA Reseeded ==
    ASSUME NEW S, NEW ranked \in Seq(Seq(S)), Apart(ranked, Len(ranked))
    PROVE  LET new == NextRoundGroups(ranked)
               k == Len(ranked)
           IN  /\ new \in Seq(Seq(S)) /\ Len(new) = k
               /\ \A n \in 1..k : ToSet(new[n]) = UNION {ToSet(Part(ranked, n, i)) : i \in 1..k}
               /\ Apart(new, k)
               /\ UNION {ToSet(new[n]) : n \in 1..k} = UNION {ToSet(ranked[i]) : i \in 1..k}
<1>. DEFINE k == Len(ranked)
            new == NextRoundGroups(ranked)
            Q == Seq(S)
            K == 1..k
            Numbers == 0..(k - 1)
            part(n, i) == Part(ranked, n, i)
            parts(n) == [i \in K |-> part(n, i)]
            tier(i, t) == Tier(ranked[i], k, t)
            turn(n, i) == Turn(k, n, i)
<1>1. k \in Nat /\ DOMAIN ranked = K /\ \A i \in K : ranked[i] \in Q
  OBVIOUS
<1>2. new = [n \in K |-> FlattenSeq(parts(n))]
  BY DEF NextRoundGroups, Part, Turn
<1>3. \A n, i : part(n, i) = tier(i, turn(n, i))
  BY DEF Part
<1>4. CASE k = 0
  <2>1. new = <<>>
    BY <1>2, <1>4
  <2>. QED  BY <1>4, <2>1 DEF Apart
<1>5. CASE k # 0
  <2>1. /\ \A n, i \in K : turn(n, i) \in Numbers
        /\ \A m, n, i \in K : turn(m, i) = turn(n, i) => m = n
        /\ \A i \in K, t \in Numbers : \E n \in K : turn(n, i) = t
    BY <1>1, <1>5, Turns
  <2>2. /\ \A i \in K : IsInjective(ranked[i])
        /\ \A i, j \in K : i # j => ToSet(ranked[i]) \cap ToSet(ranked[j]) = {}
    BY DEF Apart
  <2>3. k \in Nat \ {0}
    BY <1>1, <1>5
  <2>4. ASSUME NEW i \in K
        PROVE  /\ \A t \in Numbers : tier(i, t) \in Q /\ ToSet(tier(i, t)) \subseteq ToSet(ranked[i])
                                    /\ IsInjective(tier(i, t))
               /\ ToSet(ranked[i]) \subseteq UNION {ToSet(tier(i, t)) : t \in Numbers}
               /\ \A t, u \in Numbers : t # u => ToSet(tier(i, t)) \cap ToSet(tier(i, u)) = {}
    <3>. DEFINE group == ranked[i]
    <3>1. IsInjective(group) /\ group \in Seq(S)
      BY <1>1, <2>2
    <3>. HIDE DEF group, k
    <3>2. k \in Nat \ {0}
      BY <2>3
    <3>3. \A t \in 0..(k - 1) : /\ Tier(group, k, t) \in Seq(S)
                                /\ ToSet(Tier(group, k, t)) \subseteq ToSet(group)
                                /\ IsInjective(Tier(group, k, t))
      BY <3>1, <3>2, Tiers
    <3>4. ToSet(group) \subseteq UNION {ToSet(Tier(group, k, t)) : t \in 0..(k - 1)}
      BY <3>1, <3>2, Tiers
    <3>5. \A t, u \in 0..(k - 1) : t # u =>
             ToSet(Tier(group, k, t)) \cap ToSet(Tier(group, k, u)) = {}
      BY <3>1, <3>2, Tiers
    <3>. QED  BY <3>3, <3>4, <3>5, Zenon DEF group
  <2>. HIDE DEF new, Q, K, Numbers, part, tier, turn
  <2>5. ASSUME NEW n \in K, NEW i \in K
        PROVE  /\ part(n, i) \in Q /\ IsInjective(part(n, i))
               /\ ToSet(part(n, i)) \subseteq ToSet(ranked[i])
    BY <1>3, <2>1, <2>4
  <2>6. ASSUME NEW n \in K
        PROVE  /\ new[n] \in Q
               /\ ToSet(new[n]) = UNION {ToSet(part(n, i)) : i \in K}
               /\ IsInjective(new[n])
    <3>. DEFINE seqs == parts(n)
    <3>1. seqs \in Seq(Q) /\ Len(seqs) = k /\ DOMAIN seqs = K
      BY <1>1, <2>5 DEF K
    <3>2. \A i \in K : seqs[i] = part(n, i)
      OBVIOUS
    <3>3. new[n] = FlattenSeq(seqs)
      BY <1>2
    <3>. HIDE DEF seqs, k
    <3>4. /\ FlattenSeq(seqs) \in Q
          /\ ToSet(FlattenSeq(seqs)) = UNION {ToSet(seqs[i]) : i \in K}
          /\ IsInjective(FlattenSeq(seqs)) <=> Apart(seqs, k)
      BY <3>1, Flatten DEF Q
    <3>5. Apart(seqs, k)
      <4>1. \A i \in K : IsInjective(seqs[i])
        BY <2>5, <3>2
      <4>2. \A i \in K : ToSet(seqs[i]) \subseteq ToSet(ranked[i])
        BY <2>5, <3>2
      <4>3. \A i, j \in K : i # j => ToSet(seqs[i]) \cap ToSet(seqs[j]) = {}
        BY <2>2, <4>2
      <4>. QED  BY <4>1, <4>3 DEF Apart, K
    <3>6. {ToSet(seqs[i]) : i \in K} = {ToSet(part(n, i)) : i \in K}
      BY <3>2
    <3>. QED  BY <3>3, <3>4, <3>5, <3>6
  <2>7. new \in Seq(Q) /\ Len(new) = k
    <3>1. new \in [K -> Q]
      BY <1>2, <2>6
    <3>2. k \in Nat /\ new \in [1..k -> Q]
      BY <1>1, <3>1 DEF K
    <3>. HIDE DEF k
    <3>. QED  BY <3>2
  <2>8. ASSUME NEW m \in K, NEW n \in K, m # n
        PROVE  ToSet(new[m]) \cap ToSet(new[n]) = {}
    <3>1. ASSUME NEW i \in K, NEW j \in K
          PROVE  ToSet(part(m, i)) \cap ToSet(part(n, j)) = {}
      <4>1. CASE i = j
        <5>1. turn(m, i) \in Numbers /\ turn(n, i) \in Numbers /\ turn(m, i) # turn(n, i)
          BY <2>1, <2>8
        <5>. QED  BY <1>3, <2>4, <4>1, <5>1
      <4>2. CASE i # j
        BY <2>2, <2>5, <4>2
      <4>. QED  BY <4>1, <4>2
    <3>2. ToSet(new[m]) = UNION {ToSet(part(m, i)) : i \in K}
      BY <2>6
    <3>3. ToSet(new[n]) = UNION {ToSet(part(n, i)) : i \in K}
      BY <2>6
    <3>. QED  BY <3>1, <3>2, <3>3
  <2>9. Apart(new, k)
    BY <2>6, <2>8 DEF Apart, K
  <2>10. ASSUME NEW n \in K
         PROVE  ToSet(new[n]) \subseteq UNION {ToSet(ranked[i]) : i \in K}
    <3>1. ToSet(new[n]) = UNION {ToSet(part(n, i)) : i \in K}
      BY <2>6
    <3>. QED  BY <2>5, <3>1
  <2>11. ASSUME NEW i \in K, NEW x \in ToSet(ranked[i])
         PROVE  \E n \in K : x \in ToSet(new[n])
    <3>1. PICK t \in Numbers : x \in ToSet(tier(i, t))
      <4>1. x \in UNION {ToSet(tier(i, t)) : t \in Numbers}
        BY <2>4
      <4>. QED  BY <4>1
    <3>2. PICK n \in K : turn(n, i) = t
      BY <2>1
    <3>3. x \in ToSet(part(n, i))
      BY <1>3, <3>1, <3>2
    <3>4. ToSet(new[n]) = UNION {ToSet(part(n, j)) : j \in K}
      BY <2>6
    <3>. QED  BY <3>3, <3>4
  <2>12. UNION {ToSet(new[n]) : n \in K} = UNION {ToSet(ranked[i]) : i \in K}
    BY <2>10, <2>11
  <2>. QED  BY <2>6, <2>7, <2>9, <2>12 DEF Q, K, new, part
<1>. QED  BY <1>1, <1>4, <1>5

-----------------------------------------------------------------------------
(* Round after round every team is in exactly one group.                   *)

\* TeamsConserved, with the types that ranking and reseeding need.
IndInv ==
    /\ TeamsConserved
    /\ groups \in Seq(Seq(Team))
    /\ results \in [DOMAIN results -> Result]

\* The groups of a round that is finished, each ranked: the same teams in each.
LEMMA RankedGroups ==
    ASSUME IndInv, Finished
    PROVE  LET ranked == Ranked(results)
           IN  /\ ranked \in Seq(Seq(Team)) /\ Len(ranked) = Len(groups)
               /\ \A i \in DOMAIN groups : /\ ToSet(ranked[i]) = ToSet(groups[i])
                                           /\ Len(ranked[i]) = Len(groups[i])
               /\ Apart(ranked, Len(ranked))
<1>. DEFINE ranked == Ranked(results)
            n == Len(groups)
            Q == Seq(Team)
<1>1. n \in Nat /\ DOMAIN groups = 1..n /\ \A i \in 1..n : groups[i] \in Q
  BY DEF IndInv
<1>2. results \in [Team -> AnyResult]
  BY QualificationAssumption DEF IndInv, Finished, AnyResult
<1>3. ranked = [i \in 1..n |-> Rank(groups[i], results)]
  BY <1>1 DEF Ranked
<1>4. Apart(groups, n)
  BY Flatten DEF IndInv, TeamsConserved, Everybody
<1>. HIDE DEF ranked, n
<1>5. ASSUME NEW i \in 1..n
      PROVE  /\ ranked[i] \in Q /\ ToSet(ranked[i]) = ToSet(groups[i])
             /\ Len(ranked[i]) = Len(groups[i]) /\ IsInjective(ranked[i])
  <2>. DEFINE group == groups[i]
  <2>1. group \in Seq(Team)
    BY <1>1
  <2>2. IsInjective(group)
    BY <1>4 DEF Apart
  <2>3. ranked[i] = Rank(group, results)
    BY <1>3
  <2>. HIDE DEF group
  <2>4. Known(group, results)
    BY <1>2, <2>1 DEF Known
  <2>5. /\ Rank(group, results) \in Q /\ ToSet(Rank(group, results)) = ToSet(group)
        /\ Len(Rank(group, results)) = Len(group) /\ IsInjective(Rank(group, results))
    BY <2>1, <2>2, <2>4, RankOrders
  <2>. QED  BY <2>3, <2>5 DEF group
<1>6. ranked \in Seq(Q) /\ Len(ranked) = n
  <2>. HIDE DEF Q
  <2>1. ranked \in [1..n -> Q]
    BY <1>3, <1>5
  <2>. QED  BY <1>1, <2>1
<1>7. Apart(ranked, n)
  BY <1>4, <1>5 DEF Apart
<1>. QED  BY <1>1, <1>5, <1>6, <1>7 DEF ranked, n

LEMMA InitIndInv == Init => IndInv
<1>. SUFFICES ASSUME Init PROVE IndInv
  OBVIOUS
<1>1. groups \in Seq(Seq(Team)) /\ IsInjective(Everybody) /\ ToSet(Everybody) = Team
  BY QualificationAssumption DEF Init, Everybody
<1>2. number \in 1..MaxRounds
  BY QualificationAssumption DEF Init
<1>3. results = <<>> /\ DOMAIN results = {}
  BY DEF Init
<1>4. DOMAIN results \subseteq Team /\ results \in [DOMAIN results -> Result]
  BY <1>3
<1>. QED  BY <1>1, <1>2, <1>4 DEF IndInv, TeamsConserved

\* One step per action: only NextRound moves teams.
LEMMA NextIndInv == IndInv /\ [Next]_vars => IndInv'
<1>. SUFFICES ASSUME IndInv, [Next]_vars PROVE IndInv'
  OBVIOUS
<1>1. ASSUME NEW t \in Team, NEW r \in Result, Record(t, r)
      PROVE  IndInv'
  <2>1. number' = number /\ groups' = groups
    BY <1>1 DEF Record
  <2>2. DOMAIN results' = DOMAIN results \cup {t} /\ results' \in [DOMAIN results' -> Result]
    BY <1>1 DEF Record, IndInv
  <2>. QED  BY <2>1, <2>2 DEF IndInv, TeamsConserved, Everybody
<1>2. CASE NextRound
  <2>. DEFINE ranked == Ranked(results)
              new == NextRoundGroups(ranked)
              k == Len(ranked)
  <2>1. Finished /\ number' = number + 1 /\ number < MaxRounds /\ groups' = new /\ results' = <<>>
    BY <1>2 DEF NextRound
  <2>2. /\ ranked \in Seq(Seq(Team)) /\ Len(ranked) = Len(groups) /\ Apart(ranked, k)
        /\ \A i \in DOMAIN groups : ToSet(ranked[i]) = ToSet(groups[i])
    BY <2>1, RankedGroups
  <2>. HIDE DEF ranked
  <2>3. /\ new \in Seq(Seq(Team)) /\ Len(new) = k /\ Apart(new, k)
        /\ UNION {ToSet(new[n]) : n \in 1..k} = UNION {ToSet(ranked[i]) : i \in 1..k}
    BY <2>2, Reseeded, Zenon
  <2>4. k \in Nat /\ DOMAIN new = 1..k /\ DOMAIN groups = 1..k
    <3>1. groups \in Seq(Seq(Team))
      BY DEF IndInv
    <3>2. k \in Nat /\ k = Len(groups)
      BY <2>2, <3>1
    <3>. HIDE DEF new, k
    <3>. QED  BY <2>3, <3>1, <3>2
  <2>. HIDE DEF new, k
  <2>5. IsInjective(FlattenSeq(new))
    BY <2>3, Flatten
  <2>6. ToSet(FlattenSeq(new)) = UNION {ToSet(new[n]) : n \in 1..k}
    BY <2>3, <2>4, Flatten
  <2>7. Team = UNION {ToSet(groups[i]) : i \in 1..k}
    BY <2>4, Flatten DEF IndInv, TeamsConserved, Everybody
  <2>8. {ToSet(groups[i]) : i \in 1..k} = {ToSet(ranked[i]) : i \in 1..k}
    BY <2>2, <2>4
  <2>9. ToSet(FlattenSeq(new)) = Team
    BY <2>3, <2>6, <2>7, <2>8
  <2>10. number' \in 1..MaxRounds
    BY <2>1, QualificationAssumption DEF IndInv, TeamsConserved
  <2>11. DOMAIN results' = {} /\ results' \in [DOMAIN results' -> Result]
    BY <2>1
  <2>. QED  BY <2>1, <2>3, <2>5, <2>9, <2>10, <2>11 DEF IndInv, TeamsConserved, Everybody
<1>3. ASSUME NEW cuts \in CutLists, ComputeDivisions(cuts)
      PROVE  IndInv'
  BY <1>3 DEF ComputeDivisions, IndInv, TeamsConserved, Everybody
<1>4. CASE UNCHANGED vars
  BY <1>4 DEF vars, IndInv, TeamsConserved, Everybody
<1>. QED  BY <1>1, <1>2, <1>3, <1>4 DEF Next

LEMMA IndInvCorrect == Spec => []IndInv
<1>. QED  BY InitIndInv, NextIndInv, PTL DEF Spec

\* In every round every team of the tournament is in exactly one group and once in it:
\* next_round_groups of the plugin loses none and doubles none, whatever the number of
\* groups, their sizes and their remainders.
THEOREM TeamsConservedCorrect == Spec => []TeamsConserved
<1>1. IndInv => TeamsConserved
  BY DEF IndInv
<1>. QED  BY <1>1, IndInvCorrect, PTL

-----------------------------------------------------------------------------
(* Reseeding mixes.                                                        *)

\* A team of a new group comes from the tier that is this group's turn.
LEMMA ComesInTurn ==
    ASSUME NEW S, NEW ranked \in Seq(Seq(S)), Apart(ranked, Len(ranked)),
           NEW n \in 1..Len(ranked), NEW i \in 1..Len(ranked), NEW t \in 0..(Len(ranked) - 1),
           NEW x, x \in ToSet(Tier(ranked[i], Len(ranked), t)),
           x \in ToSet(NextRoundGroups(ranked)[n])
    PROVE  Turn(Len(ranked), n, i) = t
<1>. DEFINE k == Len(ranked)
            K == 1..k
            Numbers == 0..(k - 1)
            part(m, j) == Part(ranked, m, j)
            tier(j, u) == Tier(ranked[j], k, u)
<1>1. k \in Nat \ {0} /\ \A j \in K : ranked[j] \in Seq(S)
  OBVIOUS
<1>2. ToSet(NextRoundGroups(ranked)[n]) = UNION {ToSet(part(n, j)) : j \in K}
  BY Reseeded
<1>3. \A j : part(n, j) = tier(j, Turn(k, n, j))
  BY DEF Part
<1>4. \A j \in K : Turn(k, n, j) \in Numbers
  BY <1>1, Turns
<1>5. /\ \A j \in K : IsInjective(ranked[j])
      /\ \A j, l \in K : j # l => ToSet(ranked[j]) \cap ToSet(ranked[l]) = {}
  BY DEF Apart
<1>6. \A j \in K : /\ \A u \in Numbers : ToSet(tier(j, u)) \subseteq ToSet(ranked[j])
                   /\ \A u, v \in Numbers : u # v => ToSet(tier(j, u)) \cap ToSet(tier(j, v)) = {}
  BY <1>1, <1>5, Tiers
<1>7. x \in ToSet(tier(i, t)) /\ i \in K /\ t \in Numbers
  OBVIOUS
<1>8. x \in UNION {ToSet(part(n, j)) : j \in K}
  BY <1>2
<1>. HIDE DEF k, K, Numbers, part, tier
<1>9. PICK j \in K : x \in ToSet(part(n, j))
  BY <1>8
<1>10. x \in ToSet(tier(j, Turn(k, n, j)))
  BY <1>3, <1>9
<1>11. i = j
  BY <1>4, <1>5, <1>6, <1>7, <1>10
<1>12. Turn(k, n, i) = t
  BY <1>4, <1>6, <1>7, <1>10, <1>11
<1>. QED  BY <1>12 DEF k

\* The best team is in the first tier and the last one in the last tier.
LEMMA TierEnds ==
    ASSUME NEW S, NEW group \in Seq(S), NEW k \in Nat \ {0}, Len(group) >= k
    PROVE  Head(group) \in ToSet(Tier(group, k, 0)) /\ Last(group) \in ToSet(Tier(group, k, k - 1))
<1>. DEFINE n == Len(group)
            size == n \div k
            first(j) == First(n, k, j)
            end(j) == End(n, k, j)
<1>1. n \in Nat /\ n >= k /\ n >= 1
  OBVIOUS
<1>2. /\ size \in Nat /\ size >= 1
      /\ \A j \in 0..k : j * size \in Nat /\ j * size <= n
      /\ \A j \in Int : (j + 1) * size = j * size + size
  BY <1>1, TierSize
<1>3. /\ \A j \in 0..(k - 1) : /\ first(j) \in Nat /\ end(j) \in Nat
                               /\ first(j) <= end(j) /\ end(j) <= n
      /\ first(0) = 0 /\ end(k - 1) = n
  BY <1>1, TierBounds
<1>4. \A j : first(j) = j * size /\ end(j) = IF j = k - 1 THEN n ELSE (j + 1) * size
  BY DEF First, End
<1>5. \A j : Tier(group, k, j) = SubSeq(group, first(j) + 1, end(j))
  BY DEF Tier, First, End
<1>6. Head(group) = group[1] /\ Last(group) = group[n]
  BY <1>1 DEF Last
<1>. HIDE DEF size, first, end
<1>7. ASSUME NEW j \in 0..(k - 1)
      PROVE  ToSet(Tier(group, k, j)) = {group[x] : x \in (first(j) + 1)..end(j)}
  <2>. DEFINE a == first(j)
              b == end(j)
  <2>1. a \in Nat /\ b \in Nat /\ a <= b /\ b <= Len(group)
    BY <1>3
  <2>2. Tier(group, k, j) = SubSeq(group, a + 1, b)
    BY <1>5
  <2>. HIDE DEF a, b
  <2>3. ToSet(SubSeq(group, a + 1, b)) = {group[x] : x \in (a + 1)..b}
    BY <2>1, Slice
  <2>. QED  BY <2>2, <2>3 DEF a, b
<1>8. 1 \in (first(0) + 1)..end(0)
  <2>1. end(0) >= 1
    <3>1. (0 + 1) * size >= 1
      BY <1>2
    <3>. QED  BY <1>1, <1>4, <3>1
  <2>2. end(0) \in Nat
    BY <1>3
  <2>. QED  BY <1>3, <2>1, <2>2
<1>9. n \in (first(k - 1) + 1)..end(k - 1)
  <2>1. first(k - 1) + size <= n
    <3>1. ((k - 1) + 1) * size = (k - 1) * size + size /\ (k - 1) + 1 = k
      BY <1>2
    <3>2. k * size <= n
      BY <1>2
    <3>. QED  BY <1>4, <3>1, <3>2
  <2>2. first(k - 1) \in Nat
    BY <1>3
  <2>. QED  BY <1>1, <1>2, <1>3, <2>1, <2>2
<1>. QED  BY <1>6, <1>7, <1>8, <1>9

\* Two group winners never meet in the next round, two last ones neither, and the winner
\* of a group does not meet its last one again, when there are teams enough in every group.
THEOREM HeatsMixedCorrect == Spec => HeatsMixed
<1>. DEFINE Mixed ==
        number' # number /\ (\A i \in DOMAIN groups : Len(groups[i]) >= Len(groups)) =>
          \A i, j \in DOMAIN groups, n \in DOMAIN groups' : i # j =>
             LET old == Ranked(results)
                 together(t, u) == {t, u} \subseteq ToSet(groups'[n])
             IN  /\ ~together(Head(old[i]), Head(old[j]))
                 /\ ~together(Last(old[i]), Last(old[j]))
                 /\ ~together(Head(old[i]), Last(old[i]))
<1>1. ASSUME IndInv, [Next]_vars
      PROVE  [Mixed]_vars
  <2>. DEFINE ranked == Ranked(results)
              k == Len(ranked)
              new == NextRoundGroups(ranked)
  <2>. SUFFICES ASSUME number' # number,
                       \A i \in DOMAIN groups : Len(groups[i]) >= Len(groups),
                       NEW i \in DOMAIN groups, NEW j \in DOMAIN groups,
                       NEW n \in DOMAIN groups', i # j
                PROVE  /\ ~({Head(ranked[i]), Head(ranked[j])} \subseteq ToSet(groups'[n]))
                       /\ ~({Last(ranked[i]), Last(ranked[j])} \subseteq ToSet(groups'[n]))
                       /\ ~({Head(ranked[i]), Last(ranked[i])} \subseteq ToSet(groups'[n]))
    BY Zenon
  <2>1. Finished /\ groups' = new
    BY <1>1 DEF Next, vars, Record, NextRound, ComputeDivisions
  <2>2. /\ ranked \in Seq(Seq(Team)) /\ k = Len(groups) /\ Apart(ranked, k)
        /\ \A l \in DOMAIN groups : Len(ranked[l]) = Len(groups[l])
    BY <1>1, <2>1, RankedGroups
  <2>. HIDE DEF ranked
  <2>3. new \in Seq(Seq(Team)) /\ Len(new) = k
    BY <2>2, Reseeded
  <2>4. k \in Nat /\ DOMAIN groups = 1..k
    BY <1>1, <2>2 DEF IndInv
  <2>5. n \in 1..k
    BY <2>1, <2>3, <2>4
  <2>6. /\ i \in 1..k /\ j \in 1..k /\ k \in Nat \ {0} /\ k - 1 # 0
        /\ 0 \in 0..(k - 1) /\ k - 1 \in 0..(k - 1)
    <3>. HIDE DEF k
    <3>1. i \in 1..k /\ j \in 1..k /\ i # j
      BY <2>4
    <3>. QED  BY <2>4, <3>1
  <2>7. ASSUME NEW l \in 1..k
        PROVE  /\ Head(ranked[l]) \in ToSet(Tier(ranked[l], k, 0))
               /\ Last(ranked[l]) \in ToSet(Tier(ranked[l], k, k - 1))
    <3>1. ranked[l] \in Seq(Team)
      BY <2>2
    <3>2. Len(ranked[l]) >= k
      <4>1. l \in DOMAIN groups /\ k = Len(groups)
        BY <2>2, <2>4
      <4>2. Len(ranked[l]) = Len(groups[l]) /\ Len(groups[l]) >= Len(groups)
        BY <2>2, <4>1
      <4>. HIDE DEF k
      <4>. QED  BY <4>1, <4>2
    <3>. HIDE DEF k
    <3>. QED  BY <2>6, <3>1, <3>2, TierEnds
  <2>8. ASSUME NEW l \in 1..k, NEW t \in 0..(k - 1), NEW x,
               x \in ToSet(Tier(ranked[l], k, t)), x \in ToSet(groups'[n])
        PROVE  Turn(k, n, l) = t
    BY <2>1, <2>2, <2>5, <2>8, ComesInTurn
  <2>9. Turn(k, n, i) = Turn(k, n, j) => i = j
    BY <2>5, <2>6, Turns
  <2>. HIDE DEF k, new
  <2>10. ASSUME Head(ranked[i]) \in ToSet(groups'[n]), Head(ranked[j]) \in ToSet(groups'[n])
         PROVE  FALSE
    <3>1. Turn(k, n, i) = 0 /\ Turn(k, n, j) = 0
      BY <2>6, <2>7, <2>8, <2>10
    <3>. QED  BY <2>9, <3>1
  <2>11. ASSUME Last(ranked[i]) \in ToSet(groups'[n]), Last(ranked[j]) \in ToSet(groups'[n])
         PROVE  FALSE
    <3>1. Turn(k, n, i) = k - 1 /\ Turn(k, n, j) = k - 1
      BY <2>6, <2>7, <2>8, <2>11
    <3>. QED  BY <2>9, <3>1
  <2>12. ASSUME Head(ranked[i]) \in ToSet(groups'[n]), Last(ranked[i]) \in ToSet(groups'[n])
         PROVE  FALSE
    <3>1. Turn(k, n, i) = 0 /\ Turn(k, n, i) = k - 1
      BY <2>6, <2>7, <2>8, <2>12
    <3>. QED  BY <2>6, <3>1
  <2>. QED  BY <2>10, <2>11, <2>12
<1>. QED  BY <1>1, IndInvCorrect, PTL DEF Spec, HeatsMixed

-----------------------------------------------------------------------------
(* A correction moves one team.                                            *)

\* Correcting the result of one team of a finished round leaves the others in their order,
\* those with equal results too: ranking.Rank is a stable sort.
THEOREM StandingsKeepOrderCorrect == Spec => StandingsKeepOrder
<1>. DEFINE Kept(old, new) ==
               \A p, q \in DOMAIN old :
                  p < q /\ results'[old[p]] = results[old[p]] /\ results'[old[q]] = results[old[q]] =>
                     Above(new, old[p], old[q])
            Keep == Finished /\ number' = number /\ results' # results =>
                       \E old \in {Rank(Everybody, results)}, new \in {Rank(Everybody, results')} :
                          Kept(old, new)
<1>1. ASSUME IndInv, IndInv', [Next]_vars
      PROVE  [Keep]_vars
  <2>. DEFINE list == Everybody
              D == DOMAIN list
              old == Rank(list, results)
              new == Rank(list, results')
  <2>. SUFFICES ASSUME Finished, number' = number, results' # results
                PROVE  Kept(old, new)
    BY Zenon
  <2>1. list \in Seq(Team) /\ ToSet(list) = Team
    BY <1>1, Flatten DEF IndInv, TeamsConserved, Everybody
  <2>2. results \in [Team -> AnyResult]
    BY <1>1, QualificationAssumption DEF IndInv, Finished, AnyResult
  <2>3. results' \in [Team -> AnyResult]
    <3>1. PICK t \in Team, r \in Result : Record(t, r)
      BY <1>1, QualificationAssumption DEF Next, vars, NextRound, ComputeDivisions, IndInv, TeamsConserved
    <3>. QED  BY <2>2, <3>1, QualificationAssumption DEF Record, Finished, AnyResult
  <2>4. \A i \in D : list[i] \in Team
    BY <2>1
  <2>5. Known(list, results) /\ Known(list, results')
    BY <2>2, <2>3, <2>4 DEF Known
  <2>. HIDE DEF list
  <2>6. PICK f \in [D -> D] : /\ old = [p \in D |-> list[f[p]]]
                              /\ \A p, q \in D : p < q => Before(list, results, f[p], f[q])
    BY <2>1, <2>5, RankPermutes
  <2>7. PICK g \in [D -> D] : /\ new = [p \in D |-> list[g[p]]]
                              /\ \A i \in D : g[Place(list, results', i)] = i
    BY <2>1, <2>5, RankPermutes
  <2>8. /\ \A i \in D : Place(list, results', i) \in D
        /\ \A i, j \in D : Before(list, results', i, j) =>
              Place(list, results', i) < Place(list, results', j)
    BY <2>1, <2>5, Places
  <2>. HIDE DEF D, old, new
  <2>9. DOMAIN old = D /\ DOMAIN new = D
    BY <2>6, <2>7
  <2>10. ASSUME NEW p \in D, NEW q \in D, p < q,
                results'[old[p]] = results[old[p]], results'[old[q]] = results[old[q]]
         PROVE  Above(new, old[p], old[q])
    <3>. DEFINE i == f[p]
                j == f[q]
                x == Place(list, results', i)
                y == Place(list, results', j)
    <3>1. i \in D /\ j \in D /\ old[p] = list[i] /\ old[q] = list[j] /\ Before(list, results, i, j)
      BY <2>6, <2>10
    <3>. HIDE DEF i, j
    <3>2. Before(list, results', i, j)
      BY <2>10, <3>1 DEF Before
    <3>3. x \in D /\ y \in D /\ x < y
      BY <2>8, <3>1, <3>2
    <3>4. new[x] = list[i] /\ new[y] = list[j]
      BY <2>7, <3>1, <3>3
    <3>. HIDE DEF x, y
    <3>. QED  BY <2>9, <3>1, <3>3, <3>4 DEF Above
  <2>. QED  BY <2>9, <2>10
<1>. QED  BY <1>1, IndInvCorrect, PTL DEF Spec, StandingsKeepOrder

-----------------------------------------------------------------------------
(* Cutting deals the ranking out.                                          *)

Cut == [name : Nat, size : Int]

\* The recursion of Dealt, and what it returns: it never goes back and never beyond total.
LEMMA DealtGrows ==
    ASSUME NEW cuts \in Seq(Cut), NEW total \in Nat
    PROVE  LET d == Dealt(cuts, total)
           IN  /\ d[0] = 0 /\ \A j \in 0..Len(cuts) : d[j] \in 0..total
               /\ \A j \in 1..Len(cuts) : d[j - 1] <= d[j]
<1>. DEFINE n == Len(cuts)
            S == 0..total
            size(j) == IF cuts[j].size < 0 THEN 0 ELSE cuts[j].size
            add(j, x) == IF size(j) < total - x THEN x + size(j) ELSE total
            next == [j \in 1..n |-> [x \in S |-> add(j, x)]]
            Is(g) == g = [j \in 0..n |-> IF j = 0 THEN 0 ELSE add(j, g[j - 1])]
            d == CHOOSE g : Is(g)
<1>1. n \in Nat /\ 0 \in S
  OBVIOUS
<1>2. Dealt(cuts, total) = d
  BY DEF Dealt
<1>3. ASSUME NEW j \in 1..n
      PROVE  size(j) \in Nat
  <2>1. cuts[j] \in Cut
    OBVIOUS
  <2>2. cuts[j].size \in Int
    BY <2>1 DEF Cut
  <2>. QED  BY <2>2
<1>. HIDE DEF n, size
<1>4. ASSUME NEW j \in 1..n, NEW x \in S
      PROVE  add(j, x) \in S /\ x <= add(j, x)
  <2>. DEFINE more == size(j)
  <2>1. more \in Nat /\ x \in 0..total
    BY <1>3
  <2>. HIDE DEF more
  <2>2. /\ (IF more < total - x THEN x + more ELSE total) \in 0..total
        /\ x <= (IF more < total - x THEN x + more ELSE total)
    BY <2>1
  <2>. QED  BY <2>2 DEF more
<1>. HIDE DEF add, S
<1>5. next \in Steps(n, S)
  BY <1>4 DEF Steps
<1>6. \A j \in 1..n, x \in S : next[j][x] = add(j, x)
  OBVIOUS
<1>. HIDE DEF next
<1>7. PICK g : Follows(g, n, S, 0, next)
  BY <1>1, <1>5, Recursion
<1>8. g \in [0..n -> S] /\ g[0] = 0
  BY <1>7 DEF Follows
<1>9. ASSUME NEW j \in 1..n
      PROVE  g[j] = add(j, g[j - 1])
  <2>1. j - 1 \in 0..n
    BY <1>1
  <2>2. g[j] = next[j][g[j - 1]]
    BY <1>7 DEF Follows
  <2>. QED  BY <1>6, <1>8, <2>1, <2>2
<1>10. Is(g)
  <2>1. \A j \in 0..n : j # 0 => j \in 1..n
    BY <1>1
  <2>. QED  BY <1>8, <1>9, <2>1
<1>11. Is(d)
  <2>. HIDE DEF Is
  <2>. QED  BY <1>10
<1>. HIDE DEF d
<1>12. ASSUME NEW j \in 0..n
       PROVE  d[j] = IF j = 0 THEN 0 ELSE add(j, d[j - 1])
  BY <1>11
<1>13. d[0] = 0
  BY <1>1, <1>12
<1>14. ASSUME NEW j \in 1..n
       PROVE  d[j] = add(j, d[j - 1]) /\ j - 1 \in 0..n
  <2>1. j \in 0..n /\ j # 0 /\ j - 1 \in 0..n
    BY <1>1
  <2>. QED  BY <1>12, <2>1
<1>15. \A j \in 0..n : d[j] \in S
  <2>. DEFINE T == {m \in Nat : m \in 0..n => d[m] \in S}
  <2>1. 0 \in T
    BY <1>1, <1>13
  <2>2. ASSUME NEW m \in Nat, m \in T, m + 1 \in 0..n
        PROVE  d[m + 1] \in S
    <3>. HIDE DEF T
    <3>1. m + 1 \in 1..n /\ (m + 1) - 1 = m /\ m \in 0..n
      BY <1>1, <2>2
    <3>. USE DEF T
    <3>2. d[m + 1] = add(m + 1, d[m])
      BY <1>14, <3>1
    <3>. QED  BY <1>4, <2>2, <3>1, <3>2
  <2>3. \A m \in Nat : m \in T => m + 1 \in T
    BY <2>2
  <2>4. \A m \in Nat : m \in T
    <3>. HIDE DEF T
    <3>. QED  BY <2>1, <2>3, Induction
  <2>. QED  BY <2>4
<1>16. \A j \in 1..n : d[j - 1] <= d[j]
  BY <1>4, <1>14, <1>15
<1>. QED  BY <1>2, <1>13, <1>15, <1>16 DEF n, S

\* Consecutive slices of a list, from its beginning: flattened they are what they cover.
LEMMA FlattenSlices ==
    ASSUME NEW S, NEW list \in Seq(S), NEW n \in Nat, NEW b,
           b[0] = 0, \A j \in 0..n : b[j] \in 0..Len(list),
           \A j \in 1..n : b[j - 1] <= b[j],
           NEW seqs, seqs = [j \in 1..n |-> SubSeq(list, b[j - 1] + 1, b[j])],
           b[n] = Len(list)
    PROVE  FlattenSeq(seqs) = list
<1>. DEFINE slice(j) == SubSeq(list, b[j - 1] + 1, b[j])
            upto(j) == SubSeq(list, 1, b[j])
            Q == Seq(S)
            total == Len(list)
<1>1. total \in Nat /\ list \in Q
  OBVIOUS
<1>2. ASSUME NEW j \in 1..n
      PROVE  /\ j - 1 \in 0..n /\ b[j - 1] \in Nat /\ b[j] \in Nat
             /\ b[j - 1] <= b[j] /\ b[j] <= total
  <2>1. j - 1 \in 0..n /\ j \in 0..n
    OBVIOUS
  <2>2. b[j - 1] \in 0..total /\ b[j] \in 0..total
    BY <2>1
  <2>. QED  BY <1>1, <2>1, <2>2
<1>3. ASSUME NEW j \in 1..n
      PROVE  slice(j) \in Q /\ seqs[j] = slice(j)
  <2>. DEFINE lo == b[j - 1]
              hi == b[j]
  <2>1. lo \in Nat /\ hi \in Nat /\ lo <= hi /\ hi <= total
    BY <1>2
  <2>2. slice(j) = SubSeq(list, lo + 1, hi)
    OBVIOUS
  <2>3. seqs[j] = slice(j)
    OBVIOUS
  <2>. HIDE DEF lo, hi, slice
  <2>4. SubSeq(list, lo + 1, hi) \in Q
    BY <2>1, Slice
  <2>. QED  BY <2>2, <2>3, <2>4
<1>4. ASSUME NEW j \in 1..n
      PROVE  Joined(upto(j - 1), slice(j)) = upto(j)
  <2>. DEFINE lo == b[j - 1]
              hi == b[j]
  <2>1. lo \in Nat /\ hi \in Nat /\ lo <= hi /\ hi <= Len(list)
    BY <1>2
  <2>2. upto(j - 1) = SubSeq(list, 1, lo) /\ slice(j) = SubSeq(list, lo + 1, hi) /\ upto(j) = SubSeq(list, 1, hi)
    OBVIOUS
  <2>. HIDE DEF lo, hi, upto, slice
  <2>3. SubSeq(list, 1, lo) \o SubSeq(list, lo + 1, hi) = SubSeq(list, 1, hi)
    BY <2>1
  <2>. QED  BY <2>2, <2>3 DEF Joined
<1>5. upto(0) = <<>> /\ upto(n) = list
  BY <1>1
<1>. HIDE DEF slice, upto, Q
<1>6. seqs \in Seq(Q) /\ Len(seqs) = n
  <2>1. seqs \in [1..n -> Q]
    BY <1>3
  <2>. QED  BY <2>1
<1>7. CASE n = 0
  <2>1. seqs = <<>>
    BY <1>7
  <2>. QED  BY <1>5, <1>7, <2>1 DEF FlattenSeq
<1>8. CASE n # 0
  <2>1. PICK fl : /\ FlattenSeq(seqs) = fl[n]
                  /\ fl[1] = seqs[1]
                  /\ \A i \in 2..n : fl[i] = Joined(fl[i - 1], seqs[i])
    <3>1. seqs \in Seq(Seq(S)) /\ Len(seqs) # 0
      BY <1>6, <1>8 DEF Q
    <3>2. PICK fl : Flattens(fl, seqs, S)
      BY <3>1, FlattenDef
    <3>3. Len(seqs) = n
      BY <1>6
    <3>4. FlattenSeq(seqs) = fl[n] /\ fl[1] = seqs[1]
      BY <3>2, <3>3 DEF Flattens
    <3>5. \A i \in 2..n : fl[i] = Joined(fl[i - 1], seqs[i])
      BY <3>2, <3>3 DEF Flattens
    <3>. QED  BY <3>4, <3>5, Zenon
  <2>. DEFINE T == {m \in Nat : m \in 1..n => fl[m] = upto(m)}
  <2>2. 0 \in T
    OBVIOUS
  <2>3. ASSUME NEW m \in Nat, m \in T, m + 1 \in 1..n
        PROVE  fl[m + 1] = upto(m + 1)
    <3>1. (m + 1) - 1 = m
      OBVIOUS
    <3>2. Joined(upto(m), slice(m + 1)) = upto(m + 1) /\ seqs[m + 1] = slice(m + 1) /\ slice(m + 1) \in Q
      BY <1>3, <1>4, <2>3, <3>1
    <3>3. CASE m = 0
      <4>1. \A s \in Q : Joined(<<>>, s) = s
        BY DEF Joined, Q
      <4>2. Joined(upto(0), slice(1)) = upto(1) /\ fl[1] = slice(1) /\ slice(1) \in Q
        BY <2>1, <3>2, <3>3
      <4>. QED  BY <1>5, <3>3, <4>1, <4>2
    <3>4. CASE m # 0
      <4>1. m + 1 \in 2..n /\ m \in 1..n
        BY <2>3, <3>4
      <4>. QED  BY <2>1, <2>3, <3>1, <3>2, <4>1
    <3>. QED  BY <3>3, <3>4
  <2>4. \A m \in Nat : m \in T => m + 1 \in T
    BY <2>3
  <2>5. \A m \in Nat : m \in T
    <3>. HIDE DEF T
    <3>. QED  BY <2>2, <2>4, Induction
  <2>6. fl[n] = upto(n)
    BY <1>8, <2>5
  <2>. QED  BY <1>5, <2>1, <2>6
<1>. QED  BY <1>7, <1>8

\* Once the teams have run out they stay so, and until then every cut is reached.
LEMMA DealtReaches ==
    ASSUME NEW cuts \in Seq(Cut), NEW total \in Nat
    PROVE  LET d == Dealt(cuts, total)
               reached == {j \in DOMAIN cuts : d[j - 1] < total}
           IN  \E m \in 0..Len(cuts) : /\ reached = 1..m
                                       /\ d[Len(cuts)] = total => d[m] = total
                                       /\ d[Len(cuts)] # total => m = Len(cuts)
<1>. DEFINE n == Len(cuts)
            d == Dealt(cuts, total)
            reached == {j \in 1..n : d[j - 1] < total}
            Out == {j \in 0..n : d[j] = total}
<1>1. n \in Nat /\ DOMAIN cuts = 1..n
  OBVIOUS
<1>2. /\ \A j \in 0..n : d[j] \in 0..total
      /\ \A j \in 1..n : d[j - 1] <= d[j]
  BY DealtGrows
<1>. HIDE DEF n, d
<1>3. CASE Out = {}
  <2>1. ASSUME NEW j \in 1..n
        PROVE  d[j - 1] < total
    <3>1. j - 1 \in 0..n
      BY <1>1
    <3>2. d[j - 1] \in 0..total /\ d[j - 1] # total
      BY <1>2, <1>3, <3>1
    <3>. QED  BY <3>2
  <2>2. reached = 1..n
    BY <2>1
  <2>3. n \in 0..n /\ d[n] # total
    BY <1>1, <1>3
  <2>. QED  BY <1>1, <2>2, <2>3 DEF n, d
<1>4. CASE Out # {}
  <2>1. PICK m \in Out : \A j \in Out : m <= j
    <3>1. Out \in SUBSET Nat
      OBVIOUS
    <3>. HIDE DEF Out
    <3>. QED  BY <1>4, <3>1, Least
  <2>2. m \in 0..n /\ d[m] = total
    OBVIOUS
  <2>3. ASSUME NEW j \in 0..n, m <= j
        PROVE  d[j] = total
    <3>. DEFINE Back == {i \in 0..n : m <= i /\ d[i] # total}
    <3>. SUFFICES ASSUME Back # {} PROVE FALSE
      BY <2>3
    <3>1. PICK i \in Back : \A l \in Back : i <= l
      <4>1. Back \in SUBSET Nat
        OBVIOUS
      <4>. HIDE DEF Back
      <4>. QED  BY <4>1, Least
    <3>2. i \in 1..n /\ m <= i - 1 /\ i - 1 \in 0..n
      <4>1. i # m
        BY <2>2
      <4>2. i \in 0..n /\ m <= i
        OBVIOUS
      <4>. HIDE DEF Back
      <4>. QED  BY <1>1, <2>2, <4>1, <4>2
    <3>3. d[i - 1] = total
      <4>1. i - 1 \notin Back
        BY <3>1, <3>2
      <4>. QED  BY <3>2, <4>1
    <3>4. d[i] \in 0..total /\ d[i - 1] <= d[i] /\ d[i] # total
      BY <1>2, <3>2
    <3>. QED  BY <3>3, <3>4
  <2>4. ASSUME NEW j \in 1..n
        PROVE  d[j - 1] < total <=> j <= m
    <3>1. j - 1 \in 0..n
      BY <1>1
    <3>2. CASE j <= m
      <4>1. j - 1 \notin Out
        BY <2>1, <2>2, <3>1, <3>2
      <4>2. d[j - 1] \in 0..total /\ d[j - 1] # total
        BY <1>2, <3>1, <4>1
      <4>. QED  BY <3>2, <4>2
    <3>3. CASE ~(j <= m)
      <4>1. m <= j - 1
        BY <2>2, <3>3
      <4>2. d[j - 1] = total
        BY <2>3, <3>1, <4>1
      <4>. QED  BY <3>3, <4>2
    <3>. QED  BY <3>2, <3>3
  <2>5. reached = 1..m
    <3>1. \A j \in 1..m : j \in 1..n /\ j <= m
      BY <1>1, <2>2
    <3>2. \A j \in 1..n : j <= m => j \in 1..m
      BY <1>1, <2>2
    <3>. QED  BY <2>4, <3>1, <3>2
  <2>6. d[n] = total
    BY <1>1, <2>2, <2>3
  <2>. QED  BY <1>1, <2>2, <2>5, <2>6 DEF n, d
<1>. QED  BY <1>3, <1>4

\* The divisions, one after the other, are the ranking.
LEMMA CutsDealAll ==
    ASSUME NEW S, NEW ranked \in Seq(S), NEW cuts \in Seq(Cut)
    PROVE  LET divs == DivisionCuts(ranked, cuts)
           IN  FlattenSeq([d \in DOMAIN divs |-> divs[d].teams]) = ranked
<1>. DEFINE n == Len(cuts)
            total == Len(ranked)
            d == Dealt(cuts, total)
            reached == {j \in DOMAIN cuts : d[j - 1] < total}
            slice(j) == SubSeq(ranked, d[j - 1] + 1, d[j])
            served == [j \in reached |-> [name |-> cuts[j].name, teams |-> slice(j)]]
            rest == [name |-> FreeName({cuts[j].name : j \in reached}),
                     teams |-> SubSeq(ranked, d[n] + 1, total)]
            divs == DivisionCuts(ranked, cuts)
            lists == [j \in DOMAIN divs |-> divs[j].teams]
<1>1. n \in Nat /\ total \in Nat /\ DOMAIN cuts = 1..n
  OBVIOUS
<1>2. d[0] = 0 /\ \A j \in 0..n : d[j] \in 0..total
  BY <1>1, DealtGrows
<1>3. \A j \in 1..n : d[j - 1] <= d[j]
  BY <1>1, DealtGrows
<1>4. PICK m \in 0..n : reached = 1..m /\ (d[n] = total => d[m] = total) /\ (d[n] # total => m = n)
  BY <1>1, DealtReaches
<1>5. divs = IF d[n] = total THEN served ELSE Append(served, rest)
  BY DEF DivisionCuts
<1>. HIDE DEF d, divs, rest
<1>6. \A j \in 1..m : j \in 1..n
  BY <1>1
<1>7. CASE d[n] = total
  <2>. DEFINE b == d
  <2>1. lists = [j \in 1..m |-> slice(j)]
    <3>1. divs = [j \in 1..m |-> [name |-> cuts[j].name, teams |-> slice(j)]]
      BY <1>4, <1>5, <1>7
    <3>. HIDE DEF slice
    <3>. QED  BY <3>1
  <2>2. /\ b[0] = 0 /\ \A j \in 0..m : b[j] \in 0..total
        /\ \A j \in 1..m : b[j - 1] <= b[j]
        /\ b[m] = total /\ m \in Nat
    BY <1>1, <1>2, <1>3, <1>4, <1>7
  <2>3. lists = [j \in 1..m |-> SubSeq(ranked, b[j - 1] + 1, b[j])]
    BY <2>1
  <2>. HIDE DEF b, lists
  <2>4. FlattenSeq(lists) = ranked
    BY <2>2, <2>3, FlattenSlices
  <2>. QED  BY <2>4 DEF lists, divs
<1>8. CASE d[n] # total
  <2>. DEFINE b == [j \in 0..(n + 1) |-> IF j = n + 1 THEN total ELSE d[j]]
  <2>1. reached = 1..n
    BY <1>4, <1>8
  <2>2. /\ DOMAIN divs = 1..(n + 1)
        /\ \A j \in 1..n : divs[j].teams = slice(j)
        /\ divs[n + 1].teams = SubSeq(ranked, d[n] + 1, total)
    <3>. DEFINE element(j) == [name |-> cuts[j].name, teams |-> slice(j)]
    <3>1. served = [j \in 1..n |-> element(j)] /\ \A j : element(j).teams = slice(j)
      BY <2>1
    <3>2. divs = Append(served, rest) /\ rest.teams = SubSeq(ranked, d[n] + 1, total)
      BY <1>5, <1>8 DEF rest
    <3>. HIDE DEF element, served, slice
    <3>3. served \in Seq({element(j) : j \in 1..n}) /\ Len(served) = n
      BY <1>1, <3>1
    <3>4. /\ DOMAIN divs = 1..(n + 1) /\ divs[n + 1] = rest
          /\ \A j \in 1..n : divs[j] = served[j]
      BY <1>1, <3>2, <3>3
    <3>. QED  BY <3>1, <3>2, <3>4
  <2>3. /\ b[0] = 0 /\ \A j \in 0..(n + 1) : b[j] \in 0..total
        /\ b[n + 1] = total
    BY <1>1, <1>2
  <2>4. ASSUME NEW j \in 1..(n + 1)
        PROVE  /\ b[j - 1] = d[j - 1] /\ b[j - 1] <= b[j]
               /\ divs[j].teams = SubSeq(ranked, b[j - 1] + 1, b[j])
    <3>1. j - 1 \in 0..n /\ j \in 0..(n + 1)
      BY <1>1
    <3>2. b[j - 1] = d[j - 1] /\ d[j - 1] \in 0..total
      BY <1>1, <1>2, <3>1
    <3>3. CASE j = n + 1
      <4>1. j - 1 = n /\ b[j] = total
        BY <1>1, <3>1, <3>3
      <4>2. divs[j].teams = SubSeq(ranked, d[n] + 1, total)
        BY <2>2, <3>3, Zenon
      <4>3. d[n] = b[j - 1]
        BY <3>2, <4>1, Zenon
      <4>4. divs[j].teams = SubSeq(ranked, b[j - 1] + 1, b[j])
        BY <4>1, <4>2, <4>3, Zenon
      <4>5. b[j - 1] <= b[j]
        <5>. HIDE DEF b
        <5>. QED  BY <1>1, <3>2, <4>1
      <4>. QED  BY <3>2, <4>4, <4>5, Zenon
    <3>4. CASE j # n + 1
      <4>1. j \in 1..n /\ b[j] = d[j]
        BY <1>1, <3>1, <3>4
      <4>. QED  BY <1>3, <2>2, <3>2, <4>1
    <3>. QED  BY <3>3, <3>4
  <2>5. lists = [j \in 1..(n + 1) |-> SubSeq(ranked, b[j - 1] + 1, b[j])]
    BY <2>2, <2>4
  <2>6. FlattenSeq(lists) = ranked
    <3>. DEFINE k == n + 1
    <3>1. k \in Nat
      BY <1>1
    <3>2. /\ b[0] = 0 /\ \A j \in 0..k : b[j] \in 0..total
          /\ \A j \in 1..k : b[j - 1] <= b[j]
          /\ lists = [j \in 1..k |-> SubSeq(ranked, b[j - 1] + 1, b[j])] /\ b[k] = total
      BY <2>3, <2>4, <2>5
    <3>. HIDE DEF b, lists, k
    <3>. QED  BY <3>1, <3>2, FlattenSlices
  <2>. QED  BY <2>6 DEF lists, divs
<1>. QED  BY <1>7, <1>8

\* The divisions of a finished round are its ranking cut into pieces: every team is dealt
\* once, and no team of a later division beat one of an earlier division.
THEOREM CutsDealRankingOutCorrect == Spec => CutsDealRankingOut
<1>. DEFINE Dealing == divisions' # divisions /\ divisions' # <<>> =>
          LET dealt == FlattenSeq([d \in DOMAIN divisions' |-> divisions'[d].teams])
          IN  /\ IsInjective(dealt) /\ ToSet(dealt) = Team
              /\ \A i, j \in DOMAIN dealt : i < j => ~Less(results[dealt[j]], results[dealt[i]])
<1>1. ASSUME IndInv, [Next]_vars
      PROVE  [Dealing]_vars
  <2>. DEFINE list == Everybody
              ranked == Rank(list, results)
  <2>. SUFFICES ASSUME divisions' # divisions, divisions' # <<>>
                PROVE  LET dealt == FlattenSeq([d \in DOMAIN divisions' |-> divisions'[d].teams])
                       IN  /\ IsInjective(dealt) /\ ToSet(dealt) = Team
                           /\ \A i, j \in DOMAIN dealt :
                                 i < j => ~Less(results[dealt[j]], results[dealt[i]])
    BY Zenon
  <2>1. PICK cuts \in CutLists : ComputeDivisions(cuts)
    BY <1>1 DEF Next, vars, Record, NextRound
  <2>2. Finished /\ divisions' = DivisionCuts(ranked, cuts)
    BY <2>1 DEF ComputeDivisions
  <2>3. cuts \in Seq(Cut)
    BY QualificationAssumption DEF Cut
  <2>4. list \in Seq(Team) /\ ToSet(list) = Team /\ IsInjective(list)
    BY <1>1, Flatten DEF IndInv, TeamsConserved, Everybody
  <2>5. Known(list, results)
    <3>1. results \in [Team -> AnyResult]
      BY <1>1, <2>2, QualificationAssumption DEF IndInv, Finished, AnyResult
    <3>2. \A i \in DOMAIN list : list[i] \in Team
      BY <2>4
    <3>. QED  BY <3>1, <3>2 DEF Known
  <2>. HIDE DEF list
  <2>6. /\ ranked \in Seq(Team) /\ ToSet(ranked) = Team /\ IsInjective(ranked)
        /\ \A p, q \in DOMAIN ranked : p < q => ~Less(results[ranked[q]], results[ranked[p]])
    BY <2>4, <2>5, RankOrders
  <2>. HIDE DEF ranked
  <2>7. FlattenSeq([d \in DOMAIN divisions' |-> divisions'[d].teams]) = ranked
    BY <2>2, <2>3, <2>6, CutsDealAll
  <2>. QED  BY <2>6, <2>7
<1>. QED  BY <1>1, IndInvCorrect, PTL DEF Spec, CutsDealRankingOut
=============================================================================
