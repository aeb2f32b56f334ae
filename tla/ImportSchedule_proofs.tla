------------------------ MODULE ImportSchedule_proofs ------------------------
(* The import of teams and the schedule of heats, for every file and every course. *)
EXTENDS TeamImport, CourseSchedule, TLAPS, WellFoundedInduction, FiniteSetTheorems

-----------------------------------------------------------------------------
(* Induction over the natural numbers, from the least counterexample.      *)

LEMMA Least ==
    ASSUME NEW T \in SUBSET Nat, T # {}
    PROVE  \E n \in T : \A m \in T : n <= m
<1>. DEFINE R == OpToRel(<, Nat)
<1>1. \A x, y \in Nat : <<x, y>> \in R <=> x < y
  BY DEF OpToRel
<1>2. IsWellFoundedOn(R, Nat)
  BY NatLessThanWellFounded
<1>. HIDE DEF R
<1>3. PICK n \in T : \A m \in T : <<m, n>> \notin R
  BY <1>2, WFMin
<1>4. ASSUME NEW m \in T
      PROVE  n <= m
  <2>1. m \in Nat /\ n \in Nat
    OBVIOUS
  <2>2. ~(m < n)
    BY <1>1, <1>3, <2>1
  <2>. QED  BY <2>1, <2>2
<1>. QED  BY <1>4

\* T holds the numbers for which what is to be shown holds.
LEMMA Induction ==
    ASSUME NEW T, 0 \in T, \A n \in Nat : n \in T => n + 1 \in T
    PROVE  \A n \in Nat : n \in T
<1>. DEFINE Missing == Nat \ T
<1>. SUFFICES ASSUME Missing # {} PROVE FALSE
  OBVIOUS
<1>1. PICK n \in Missing : \A m \in Missing : n <= m
  BY Least
<1>2. n # 0 /\ n - 1 \in Nat
  BY <1>1
<1>3. n - 1 \in T
  BY <1>1, <1>2
<1>. QED  BY <1>1, <1>2, <1>3

\* A function f on 0..n defined by recursion: next[i] makes f[i] of f[i - 1].
Steps(n, S) == [1..n -> [S -> S]]

Follows(f, n, S, base, next) ==
    f \in [0..n -> S] /\ f[0] = base /\ \A i \in 1..n : f[i] = next[i][f[i - 1]]

\* What a recursive definition defines exists.
LEMMA Recursion ==
    ASSUME NEW n \in Nat, NEW S, NEW base \in S, NEW next \in Steps(n, S)
    PROVE  \E f : Follows(f, n, S, base, next)
<1>. DEFINE Good(f, m) ==
                f \in [0..m -> S] /\ f[0] = base /\ \A i \in 1..m : f[i] = next[i][f[i - 1]]
            T == {m \in Nat : m <= n => \E f : Good(f, m)}
<1>1. 0 \in T
  <2>. DEFINE f == [i \in 0..0 |-> base]
  <2>1. Good(f, 0)
    OBVIOUS
  <2>. QED  BY <2>1
<1>2. ASSUME NEW m \in Nat, m \in T
      PROVE  m + 1 \in T
  <2>. SUFFICES ASSUME m + 1 <= n PROVE \E f : Good(f, m + 1)
    OBVIOUS
  <2>1. PICK f : Good(f, m)
    BY <1>2
  <2>. DEFINE h == [i \in 0..(m + 1) |-> IF i = m + 1 THEN next[m + 1][f[m]] ELSE f[i]]
  <2>2. next[m + 1][f[m]] \in S
    <3>1. f[m] \in S /\ m + 1 \in 1..n
      BY <2>1
    <3>. QED  BY <3>1 DEF Steps
  <2>3. h \in [0..(m + 1) -> S] /\ h[0] = base
    BY <2>1, <2>2
  <2>4. ASSUME NEW i \in 1..(m + 1)
        PROVE  h[i] = next[i][h[i - 1]]
    <3>1. i - 1 \in 0..m /\ h[i - 1] = f[i - 1]
      OBVIOUS
    <3>2. CASE i = m + 1
      BY <3>1, <3>2
    <3>3. CASE i # m + 1
      BY <3>1, <3>3, <2>1
    <3>. QED  BY <3>2, <3>3
  <2>. QED  BY <2>3, <2>4
<1>. HIDE DEF T
<1>3. n \in T
  BY <1>1, <1>2, Induction
<1>. QED  BY <1>3 DEF T, Follows

-----------------------------------------------------------------------------
(* Sorting out the rows of a file.                                         *)

Named(f, i) == NameOf(f, f.records[i]) # Blank

Problem == [row : Nat, failed : Nat]

Sorting == [teams : Seq(Nat), problems : Seq(Problem)]

\* What the first n rows have become: the rows with names in their order, one problem for
\* each of the others, and no shift of the numbers before the first row without a name.
TeamsSorted(f, n, teamRows) ==
    /\ Len(teamRows) <= n
    /\ \A p \in DOMAIN teamRows : teamRows[p] \in 1..n /\ Named(f, teamRows[p])
    /\ \A p, q \in DOMAIN teamRows : p < q => teamRows[p] < teamRows[q]
    /\ \A r \in 1..n : Named(f, r) => \E p \in DOMAIN teamRows : teamRows[p] = r
    /\ \A r \in 1..n : (\A s \in 1..r : Named(f, s)) => r \in DOMAIN teamRows /\ teamRows[r] = r

ProblemsSorted(f, n, problems) ==
    /\ \A k \in DOMAIN problems : /\ problems[k].failed \in 1..n
                                  /\ problems[k].row = problems[k].failed
                                  /\ ~Named(f, problems[k].failed)
    /\ \A k, l \in DOMAIN problems : problems[k].failed = problems[l].failed => k = l
    /\ \A r \in 1..n : ~Named(f, r) => \E k \in DOMAIN problems : problems[k].failed = r

LEMMA TeamsSortedStep ==
    ASSUME NEW f, NEW n \in Nat, NEW old \in Seq(Nat), TeamsSorted(f, n, old)
    PROVE  /\ Named(f, n + 1) => TeamsSorted(f, n + 1, Append(old, n + 1))
           /\ ~Named(f, n + 1) => TeamsSorted(f, n + 1, old)
<1>. DEFINE new == Append(old, n + 1)
            m == Len(old)
<1>1. m \in Nat /\ DOMAIN old = 1..m /\ m <= n /\ \A p \in 1..m : old[p] \in Nat
  BY DEF TeamsSorted
<1>2. /\ DOMAIN new = 1..(m + 1) /\ Len(new) = m + 1
      /\ new[m + 1] = n + 1 /\ \A p \in 1..m : new[p] = old[p]
  OBVIOUS
<1>3. \A r \in 1..(n + 1) : r \in 1..n \/ r = n + 1
  OBVIOUS
<1>4. \A p \in 1..(m + 1) : p \in 1..m \/ p = m + 1
  BY <1>1
<1>5. /\ \A p \in 1..m : old[p] \in 1..n /\ Named(f, old[p])
      /\ \A p, q \in 1..m : p < q => old[p] < old[q]
      /\ \A r \in 1..n : Named(f, r) => \E p \in 1..m : old[p] = r
      /\ \A r \in 1..n : (\A s \in 1..r : Named(f, s)) => r \in 1..m /\ old[r] = r
  BY <1>1 DEF TeamsSorted
<1>. HIDE DEF new, m
<1>6. ASSUME Named(f, n + 1)
      PROVE  TeamsSorted(f, n + 1, new)
  <2>1. \A p \in 1..(m + 1) : new[p] \in 1..(n + 1) /\ Named(f, new[p])
    BY <1>2, <1>4, <1>5, <1>6
  <2>2. ASSUME NEW p \in 1..(m + 1), NEW q \in 1..(m + 1), p < q
        PROVE  new[p] < new[q]
    <3>1. p \in 1..m /\ new[p] = old[p] /\ old[p] \in 1..n
      BY <1>1, <1>2, <1>5, <2>2
    <3>2. CASE q \in 1..m
      BY <1>2, <1>5, <2>2, <3>1, <3>2
    <3>3. CASE q = m + 1
      BY <1>2, <3>1, <3>3
    <3>. QED  BY <1>4, <3>2, <3>3
  <2>3. ASSUME NEW r \in 1..(n + 1), Named(f, r)
        PROVE  \E p \in 1..(m + 1) : new[p] = r
    <3>1. CASE r = n + 1
      BY <1>1, <1>2, <3>1
    <3>2. CASE r \in 1..n
      <4>1. PICK p \in 1..m : old[p] = r
        BY <1>5, <2>3, <3>2
      <4>2. p \in 1..(m + 1)
        BY <1>1
      <4>. QED  BY <1>2, <4>1, <4>2
    <3>. QED  BY <1>3, <3>1, <3>2
  <2>4. ASSUME NEW r \in 1..(n + 1), \A s \in 1..r : Named(f, s)
        PROVE  r \in 1..(m + 1) /\ new[r] = r
    <3>1. CASE r \in 1..n
      <4>1. r \in 1..m /\ old[r] = r
        BY <1>5, <2>4, <3>1
      <4>. QED  BY <1>1, <1>2, <4>1
    <3>2. CASE r = n + 1
      <4>1. CASE n = 0
        BY <1>1, <1>2, <3>2, <4>1
      <4>2. CASE n # 0
        <5>1. n \in 1..n /\ \A s \in 1..n : s \in 1..r
          BY <3>2, <4>2
        <5>2. n \in 1..m
          BY <1>5, <2>4, <5>1
        <5>. QED  BY <1>1, <1>2, <3>2, <5>2
      <4>. QED  BY <4>1, <4>2
    <3>. QED  BY <1>3, <3>1, <3>2
  <2>5. Len(new) <= n + 1
    BY <1>1, <1>2
  <2>. DEFINE D == 1..(m + 1)
              I == 1..(n + 1)
  <2>6. DOMAIN new = D /\ \A p, q \in D : p < q => new[p] < new[q]
    BY <1>2, <2>2
  <2>7. \A r \in I : Named(f, r) => \E p \in D : new[p] = r
    BY <2>3
  <2>8. \A r \in I : (\A s \in 1..r : Named(f, s)) => r \in D /\ new[r] = r
    BY <2>4
  <2>. HIDE DEF D, I
  <2>. QED  BY <2>1, <2>5, <2>6, <2>7, <2>8 DEF TeamsSorted, D, I
<1>7. ASSUME ~Named(f, n + 1)
      PROVE  TeamsSorted(f, n + 1, old)
  <2>1. \A p \in 1..m : old[p] \in 1..(n + 1) /\ Named(f, old[p])
    BY <1>5
  <2>2. \A r \in 1..(n + 1) : Named(f, r) => r \in 1..n
    BY <1>3, <1>7
  <2>3. \A r \in 1..(n + 1) : (\A s \in 1..r : Named(f, s)) => r \in 1..n
    <3>1. n + 1 \in 1..(n + 1)
      OBVIOUS
    <3>. QED  BY <1>3, <1>7, <3>1
  <2>4. Len(old) <= n + 1
    BY <1>1 DEF m
  <2>5. \A r \in 1..(n + 1) : Named(f, r) => \E p \in 1..m : old[p] = r
    BY <1>5, <2>2
  <2>6. \A r \in 1..(n + 1) : (\A s \in 1..r : Named(f, s)) => r \in 1..m /\ old[r] = r
    BY <1>5, <2>3
  <2>7. DOMAIN old = 1..m /\ \A p, q \in 1..m : p < q => old[p] < old[q]
    BY <1>1, <1>5
  <2>. DEFINE D == 1..m
              I == 1..(n + 1)
  <2>. HIDE DEF D, I
  <2>. QED  BY <2>1, <2>4, <2>5, <2>6, <2>7 DEF TeamsSorted, D, I
<1>. QED  BY <1>6, <1>7 DEF new

LEMMA ProblemsSortedStep ==
    ASSUME NEW f, NEW n \in Nat, NEW old \in Seq(Problem), ProblemsSorted(f, n, old)
    PROVE  /\ ~Named(f, n + 1) =>
                 ProblemsSorted(f, n + 1, Append(old, [row |-> n + 1, failed |-> n + 1]))
           /\ Named(f, n + 1) => ProblemsSorted(f, n + 1, old)
<1>. DEFINE problem == [row |-> n + 1, failed |-> n + 1]
            new == Append(old, problem)
            m == Len(old)
<1>1. m \in Nat /\ DOMAIN old = 1..m
  OBVIOUS
<1>2. /\ DOMAIN new = 1..(m + 1)
      /\ new[m + 1] = problem /\ \A k \in 1..m : new[k] = old[k]
  OBVIOUS
<1>3. problem.row = n + 1 /\ problem.failed = n + 1
  OBVIOUS
<1>4. \A r \in 1..(n + 1) : r \in 1..n \/ r = n + 1
  OBVIOUS
<1>5. \A k \in 1..(m + 1) : k \in 1..m \/ k = m + 1
  BY <1>1
<1>6. \A k \in 1..m : k \in 1..(m + 1)
  BY <1>1
<1>7. /\ \A k \in 1..m : old[k].failed \in 1..n /\ old[k].row = old[k].failed /\ ~Named(f, old[k].failed)
      /\ \A k, l \in 1..m : old[k].failed = old[l].failed => k = l
      /\ \A r \in 1..n : ~Named(f, r) => \E k \in 1..m : old[k].failed = r
  BY <1>1 DEF ProblemsSorted
<1>8. \A r \in 1..n : r \in 1..(n + 1) /\ r # n + 1
  OBVIOUS
<1>. HIDE DEF new, m, problem
<1>9. ASSUME ~Named(f, n + 1)
      PROVE  ProblemsSorted(f, n + 1, new)
  <2>1. \A k \in 1..(m + 1) : /\ new[k].failed \in 1..(n + 1) /\ new[k].row = new[k].failed
                               /\ ~Named(f, new[k].failed)
    BY <1>2, <1>3, <1>5, <1>7, <1>9
  <2>2. \A k, l \in 1..(m + 1) : new[k].failed = new[l].failed => k = l
    BY <1>2, <1>3, <1>5, <1>7, <1>8
  <2>3. ASSUME NEW r \in 1..(n + 1), ~Named(f, r)
        PROVE  \E k \in 1..(m + 1) : new[k].failed = r
    <3>1. CASE r = n + 1
      <4>1. m + 1 \in 1..(m + 1)
        BY <1>1
      <4>. QED  BY <1>2, <1>3, <3>1, <4>1
    <3>2. CASE r \in 1..n
      BY <1>2, <1>6, <1>7, <2>3, <3>2
    <3>. QED  BY <1>4, <3>1, <3>2
  <2>. QED  BY <1>2, <2>1, <2>2, <2>3 DEF ProblemsSorted
<1>10. ASSUME Named(f, n + 1)
       PROVE  ProblemsSorted(f, n + 1, old)
  <2>1. \A r \in 1..(n + 1) : ~Named(f, r) => r \in 1..n
    BY <1>4, <1>10
  <2>. QED  BY <1>1, <1>7, <1>8, <2>1 DEF ProblemsSorted
<1>. QED  BY <1>9, <1>10 DEF new, problem

\* A row becomes a team or a problem.
WithTeam(s, i) == [s EXCEPT !.teams = Append(@, i)]

WithProblem(s, i) == [s EXCEPT !.problems = Append(@, [row |-> i, failed |-> i])]

Sorts(f, i, s) == IF Named(f, i) THEN WithTeam(s, i) ELSE WithProblem(s, i)

NothingSorted == [teams |-> <<>>, problems |-> <<>>]

\* The recursion in Validate.
SortsRows(sorted, f) ==
    LET n == Len(f.records)
    IN  /\ Validate(f) = sorted[n]
        /\ sorted[0] = NothingSorted
        /\ \A i \in 1..n : sorted[i] = Sorts(f, i, sorted[i - 1])

LEMMA SortingStep ==
    ASSUME NEW f, NEW i \in Nat, NEW s \in Sorting
    PROVE  /\ Sorts(f, i, s) \in Sorting
           /\ Sorts(f, i, s).teams = IF Named(f, i) THEN Append(s.teams, i) ELSE s.teams
           /\ Sorts(f, i, s).problems = IF Named(f, i) THEN s.problems
                                        ELSE Append(s.problems, [row |-> i, failed |-> i])
<1>1. s.teams \in Seq(Nat) /\ s.problems \in Seq(Problem)
  BY DEF Sorting
<1>2. /\ WithTeam(s, i) \in Sorting
      /\ WithTeam(s, i).teams = Append(s.teams, i)
      /\ WithTeam(s, i).problems = s.problems
  <2>. DEFINE new == Append(s.teams, i)
  <2>1. new \in Seq(Nat)
    BY <1>1
  <2>2. WithTeam(s, i) = [s EXCEPT !.teams = new]
    BY DEF WithTeam
  <2>. HIDE DEF new, Problem
  <2>3. /\ WithTeam(s, i) \in Sorting
        /\ WithTeam(s, i).teams = new
        /\ WithTeam(s, i).problems = s.problems
    BY <1>1, <2>1, <2>2 DEF Sorting
  <2>. QED  BY <2>3 DEF new
<1>3. /\ WithProblem(s, i) \in Sorting
      /\ WithProblem(s, i).teams = s.teams
      /\ WithProblem(s, i).problems = Append(s.problems, [row |-> i, failed |-> i])
  <2>. DEFINE p == [row |-> i, failed |-> i]
  <2>1. p \in Problem
    BY DEF Problem
  <2>. HIDE DEF p
  <2>2. WithProblem(s, i) = [s EXCEPT !.problems = Append(@, p)]
    BY DEF WithProblem, p
  <2>. HIDE DEF Problem
  <2>3. Append(s.problems, p) \in Seq(Problem)
    BY <1>1, <2>1
  <2>4. /\ WithProblem(s, i) \in Sorting
        /\ WithProblem(s, i).teams = s.teams
        /\ WithProblem(s, i).problems = Append(s.problems, p)
    BY <1>1, <2>2, <2>3 DEF Sorting
  <2>. QED  BY <2>4 DEF p
<1>. QED  BY <1>2, <1>3 DEF Sorts

LEMMA ValidateDef ==
    ASSUME NEW f \in File
    PROVE  \E sorted : SortsRows(sorted, f)
<1>. DEFINE n == Len(f.records)
            next == [i \in 1..n |-> [s \in Sorting |-> Sorts(f, i, s)]]
            body(g, i) == IF i = 0 THEN NothingSorted ELSE Sorts(f, i, g[i - 1])
            Is(g) == g = [i \in 0..n |-> body(g, i)]
            sorted == CHOOSE g : Is(g)
<1>1. n \in Nat
  BY ImportAssumption
<1>2. Validate(f) = sorted[n]
  BY DEF Validate, Sorts, WithTeam, WithProblem, NothingSorted, Named
<1>3. NothingSorted \in Sorting
  BY DEF NothingSorted, Sorting
<1>. HIDE DEF n
<1>4. next \in Steps(n, Sorting)
  <2>. DEFINE D == 1..n
  <2>1. \A i \in D : i \in Nat
    BY <1>1
  <2>2. \A i \in D, s \in Sorting : Sorts(f, i, s) \in Sorting
    BY <2>1, SortingStep
  <2>. HIDE DEF D
  <2>3. [i \in D |-> [s \in Sorting |-> Sorts(f, i, s)]] \in [D -> [Sorting -> Sorting]]
    BY <2>2
  <2>. QED  BY <2>3 DEF D, Steps
<1>5. \A i \in 1..n, s \in Sorting : next[i][s] = Sorts(f, i, s)
  OBVIOUS
<1>. HIDE DEF next
<1>6. PICK g : Follows(g, n, Sorting, NothingSorted, next)
  BY <1>1, <1>3, <1>4, Recursion
<1>7. g \in [0..n -> Sorting]
  BY <1>6 DEF Follows
<1>8. ASSUME NEW i \in 0..n
      PROVE  g[i] = body(g, i)
  <2>1. CASE i = 0
    BY <1>6, <2>1 DEF Follows
  <2>2. CASE i # 0
    <3>1. i \in 1..n /\ i - 1 \in 0..n
      BY <1>1, <2>2
    <3>2. g[i - 1] \in Sorting
      BY <1>7, <3>1
    <3>3. g[i] = next[i][g[i - 1]]
      BY <1>6, <3>1 DEF Follows
    <3>. QED  BY <1>5, <2>2, <3>1, <3>2, <3>3
  <2>. QED  BY <2>1, <2>2
<1>9. Is(g)
  BY <1>7, <1>8
<1>10. Is(sorted)
  <2>. HIDE DEF Is
  <2>. QED  BY <1>9
<1>. HIDE DEF sorted
<1>11. \A i \in 0..n : sorted[i] = body(sorted, i)
  <2>. HIDE DEF body
  <2>. QED  BY <1>10
<1>12. sorted[0] = NothingSorted
  BY <1>1, <1>11
<1>13. \A i \in 1..n : sorted[i] = Sorts(f, i, sorted[i - 1])
  <2>1. \A i \in 1..n : i \in 0..n /\ i # 0
    BY <1>1
  <2>. QED  BY <1>11, <2>1
<1>. QED  BY <1>2, <1>12, <1>13 DEF SortsRows, n

\* What a handler has before it: all rows with names in their order, and one problem for
\* each of the others.
LEMMA ValidateSorts ==
    ASSUME NEW f \in File
    PROVE  /\ Validate(f) \in Sorting
           /\ TeamsSorted(f, Len(f.records), Validate(f).teams)
           /\ ProblemsSorted(f, Len(f.records), Validate(f).problems)
<1>. DEFINE n == Len(f.records)
<1>1. PICK sorted : SortsRows(sorted, f)
  BY ValidateDef
<1>2. n \in Nat
  BY ImportAssumption
<1>3. /\ Validate(f) = sorted[n]
      /\ sorted[0] = NothingSorted
      /\ \A i \in 1..n : sorted[i] = Sorts(f, i, sorted[i - 1])
  BY <1>1 DEF SortsRows
<1>. HIDE DEF n
<1>. DEFINE Done(i) == /\ sorted[i] \in Sorting
                       /\ TeamsSorted(f, i, sorted[i].teams)
                       /\ ProblemsSorted(f, i, sorted[i].problems)
            T == {i \in Nat : i <= n => Done(i)}
<1>4. 0 \in T
  <2>1. NothingSorted \in Sorting /\ NothingSorted.teams = <<>> /\ NothingSorted.problems = <<>>
    BY DEF NothingSorted, Sorting
  <2>2. TeamsSorted(f, 0, <<>>)
    BY DEF TeamsSorted
  <2>3. ProblemsSorted(f, 0, <<>>)
    BY DEF ProblemsSorted
  <2>. QED  BY <1>3, <2>1, <2>2, <2>3
<1>5. ASSUME NEW i \in Nat, i \in T, i + 1 <= n
      PROVE  Done(i + 1)
  <2>. DEFINE s == sorted[i]
  <2>1. Done(i)
    BY <1>2, <1>5
  <2>2. s \in Sorting /\ TeamsSorted(f, i, s.teams) /\ ProblemsSorted(f, i, s.problems)
    BY <2>1
  <2>3. i + 1 \in 1..n /\ (i + 1) - 1 = i /\ i + 1 \in Nat
    BY <1>2, <1>5
  <2>4. sorted[i + 1] = Sorts(f, i + 1, s)
    BY <1>3, <2>3
  <2>5. s.teams \in Seq(Nat) /\ s.problems \in Seq(Problem)
    BY <2>2 DEF Sorting
  <2>. HIDE DEF s
  <2>6. TeamsSorted(f, i + 1, Sorts(f, i + 1, s).teams)
    BY <2>2, <2>3, <2>5, SortingStep, TeamsSortedStep
  <2>7. ProblemsSorted(f, i + 1, Sorts(f, i + 1, s).problems)
    BY <2>2, <2>3, <2>5, SortingStep, ProblemsSortedStep
  <2>8. Sorts(f, i + 1, s) \in Sorting
    BY <2>2, <2>3, SortingStep
  <2>. QED  BY <2>4, <2>6, <2>7, <2>8
<1>6. \A i \in Nat : i \in T => i + 1 \in T
  <2>. HIDE DEF Done
  <2>. QED  BY <1>5
<1>7. n \in T
  <2>. HIDE DEF T
  <2>. QED  BY <1>2, <1>4, <1>6, Induction
<1>. QED  BY <1>2, <1>3, <1>7 DEF n

-----------------------------------------------------------------------------
(* The import: what the handlers have done, at every moment.               *)

Work == [file : File, todo : Seq(Nat), at : Nat, imported : Nat, problems : Seq(Problem),
         state : {"saving", "refused", "answered", "ended"}]

Team == [upload : Nat, row : Nat]

\* The rows that a handler has been at.
Past(x) == 1..(x.at - 1)

\* What is true of a handler whatever is stored.
Sound(x) ==
    /\ x.at \in 1..(Len(x.todo) + 1)
    /\ x.state = "answered" => x.at = Len(x.todo) + 1
    /\ ~Parses(x.file) => x.todo = <<>> /\ x.problems = <<>>
    /\ x.state = "refused" => ~Parses(x.file)
    /\ Parses(x.file) => TeamsSorted(x.file, Len(x.file.records), x.todo)
    /\ Parses(x.file) =>
          \A r \in 1..Len(x.file.records) : ~Named(x.file, r) =>
             \E k \in DOMAIN x.problems : x.problems[k].failed = r
    /\ \A k \in DOMAIN x.problems :
          \/ x.problems[k].row = x.problems[k].failed /\ ~Named(x.file, x.problems[k].failed)
          \/ x.problems[k].row \in Past(x) /\ x.problems[k].failed = x.todo[x.problems[k].row]
    /\ \A k, l \in DOMAIN x.problems : x.problems[k].failed = x.problems[l].failed => k = l

\* What has been stored for upload u, of which x is known: the rows in their order, none that
\* has a problem, and each that the handler is past unless it has one.
Accounts(u, x, ts) ==
    /\ \A t \in DOMAIN ts : ts[t].upload = u => \E p \in Past(x) : x.todo[p] = ts[t].row
    /\ \A s, t \in DOMAIN ts :
          s < t /\ ts[s].upload = u /\ ts[t].upload = u => ts[s].row < ts[t].row
    /\ \A t \in DOMAIN ts, k \in DOMAIN x.problems :
          ts[t].upload = u => ts[t].row # x.problems[k].failed
    /\ \A p \in Past(x) :
          \/ \E t \in DOMAIN ts : ts[t].upload = u /\ ts[t].row = x.todo[p]
          \/ \E k \in DOMAIN x.problems : x.problems[k].failed = x.todo[p]
    /\ x.imported = Cardinality({t \in DOMAIN ts : ts[t].upload = u})

ImportType ==
    /\ teams \in Seq(Team)
    /\ uploads \in Seq(Work)
    /\ page \in [Client -> [shows : {"form", "pending", "error", "result", "nothing"},
                            upload : Nat]]

\* Every team is of an upload that was made, or was added by hand.
Origins ==
    \A t \in DOMAIN teams : /\ teams[t].upload \in 0..Len(uploads)
                            /\ teams[t].upload = 0 => teams[t].row = 0

\* A page waits for an upload that was made; one that was answered with an error did not parse.
Pages ==
    \A c \in Client :
       /\ page[c].shows = "pending" => page[c].upload \in DOMAIN uploads
       /\ page[c].shows = "error" /\ page[c].upload # 0 =>
             /\ page[c].upload \in DOMAIN uploads
             /\ ~Parses(uploads[page[c].upload].file)

ImportInv ==
    /\ ImportType /\ Origins /\ Pages
    /\ \A u \in DOMAIN uploads : Sound(uploads[u]) /\ Accounts(u, uploads[u], teams)

LEMMA StartSound ==
    ASSUME NEW f \in File
    PROVE  /\ Parses(f) => Handling(f) \in Work /\ Sound(Handling(f))
           /\ ~Parses(f) => Refused(f) \in Work /\ Sound(Refused(f))
<1>. DEFINE teamRows == Validate(f).teams
            problems == Validate(f).problems
            n == Len(f.records)
            x == Handling(f)
            y == Refused(f)
<1>1. /\ teamRows \in Seq(Nat) /\ problems \in Seq(Problem)
      /\ TeamsSorted(f, n, teamRows) /\ ProblemsSorted(f, n, problems)
  BY ValidateSorts DEF Sorting
<1>2. /\ x.file = f /\ x.todo = teamRows /\ x.at = 1 /\ x.problems = problems
      /\ x.state = "saving"
  BY DEF Handling
<1>3. x = [file |-> f, todo |-> teamRows, at |-> 1, imported |-> 0, problems |-> problems,
           state |-> "saving"]
  BY DEF Handling
<1>4. y \in Work /\ y.file = f /\ y.todo = <<>> /\ y.at = 1 /\ y.problems = <<>> /\ y.state = "refused"
  BY DEF Refused, Work
<1>. HIDE DEF teamRows, problems, n, x, y
<1>5. x \in Work
  BY <1>1, <1>3 DEF Work
<1>6. 1 \in 1..(Len(teamRows) + 1)
  BY <1>1
<1>7. ASSUME Parses(f)
      PROVE  Sound(x)
  <2>1. /\ \A k \in DOMAIN problems : problems[k].row = problems[k].failed /\ ~Named(f, problems[k].failed)
        /\ \A k, l \in DOMAIN problems : problems[k].failed = problems[l].failed => k = l
        /\ \A r \in 1..n : ~Named(f, r) => \E k \in DOMAIN problems : problems[k].failed = r
    BY <1>1 DEF ProblemsSorted
  <2>. QED  BY <1>1, <1>2, <1>6, <1>7, <2>1 DEF Sound, n
<1>8. ASSUME ~Parses(f)
      PROVE  Sound(y)
  BY <1>4, <1>8 DEF Sound
<1>. QED  BY <1>4, <1>5, <1>7, <1>8 DEF x, y

\* The row that a handler is at comes after those it is past and has no problem yet.
LEMMA RowAtHand ==
    ASSUME NEW x \in Work, Sound(x), x.at <= Len(x.todo)
    PROVE  /\ Parses(x.file)
           /\ x.at \in Nat /\ x.at \in DOMAIN x.todo /\ x.at \notin Past(x)
           /\ x.todo[x.at] \in Nat
           /\ \A p \in Past(x) : p \in DOMAIN x.todo /\ x.todo[p] < x.todo[x.at]
           /\ \A k \in DOMAIN x.problems : x.problems[k].failed # x.todo[x.at]
<1>. DEFINE todo == x.todo
            at == x.at
<1>1. /\ x.todo \in Seq(Nat) /\ x.at \in Nat /\ x.file \in File /\ x.problems \in Seq(Problem)
      /\ x.at \in 1..(Len(x.todo) + 1)
  BY DEF Work, Sound
<1>2. Len(x.todo) \in Nat /\ DOMAIN x.todo = 1..Len(x.todo)
  BY <1>1
<1>3. Len(x.todo) # 0
  BY <1>1, <1>2
<1>4. Parses(x.file)
  BY <1>3 DEF Sound
<1>5. x.at \in DOMAIN x.todo /\ x.at \notin Past(x) /\ \A p \in Past(x) : p \in DOMAIN x.todo /\ p < x.at
  BY <1>1, <1>2 DEF Past
<1>6. /\ \A p \in DOMAIN x.todo : Named(x.file, x.todo[p])
      /\ \A p, q \in DOMAIN x.todo : p < q => x.todo[p] < x.todo[q]
  BY <1>4 DEF Sound, TeamsSorted
<1>7. \A p \in DOMAIN x.todo : x.todo[p] \in Nat
  BY <1>1
<1>8. \A p \in Past(x) : x.todo[p] < x.todo[x.at]
  BY <1>5, <1>6
<1>9. ASSUME NEW k \in DOMAIN x.problems
      PROVE  x.problems[k].failed # x.todo[x.at]
  <2>1. CASE ~Named(x.file, x.problems[k].failed)
    BY <1>5, <1>6, <2>1
  <2>2. CASE x.problems[k].row \in Past(x) /\ x.problems[k].failed = x.todo[x.problems[k].row]
    <3>1. /\ x.todo[x.problems[k].row] < x.todo[x.at]
          /\ x.todo[x.problems[k].row] \in Nat /\ x.todo[x.at] \in Nat
      BY <1>5, <1>7, <1>8, <2>2
    <3>. QED  BY <2>2, <3>1
  <2>. QED  BY <2>1, <2>2 DEF Sound
<1>. QED  BY <1>1, <1>4, <1>5, <1>7, <1>8, <1>9

LEMMA WorkFields ==
    ASSUME NEW x \in Work
    PROVE  /\ x.file \in File /\ x.todo \in Seq(Nat) /\ x.at \in Nat /\ x.imported \in Nat
           /\ x.problems \in Seq(Problem)
           /\ x.state \in {"saving", "refused", "answered", "ended"}
           /\ x = [file |-> x.file, todo |-> x.todo, at |-> x.at, imported |-> x.imported,
                   problems |-> x.problems, state |-> x.state]
BY DEF Work

\* A handler goes on by a row.
PastRow(x, y) ==
    /\ y.file = x.file /\ y.todo = x.todo /\ y.state = x.state
    /\ y.at = x.at + 1

LEMMA PastGrows ==
    ASSUME NEW x \in Work, NEW y, Sound(x), x.at <= Len(x.todo), PastRow(x, y)
    PROVE  /\ y.at \in 1..(Len(y.todo) + 1)
           /\ \A p \in Past(x) : p \in Past(y)
           /\ x.at \in Past(y)
           /\ \A p \in Past(y) : p \in Past(x) \/ p = x.at
<1>1. x.todo \in Seq(Nat) /\ x.at \in Nat /\ x.at \in 1..(Len(x.todo) + 1)
  BY DEF Work, Sound
<1>2. Len(x.todo) \in Nat
  BY <1>1
<1>. QED  BY <1>1, <1>2 DEF PastRow, Past

LEMMA SaveSound ==
    ASSUME NEW x \in Work, NEW y \in Work, Sound(x), x.state = "saving", x.at <= Len(x.todo),
           PastRow(x, y), y.problems = x.problems
    PROVE  Sound(y)
<1>1. y.at \in 1..(Len(y.todo) + 1) /\ \A p \in Past(x) : p \in Past(y)
  BY PastGrows
<1>2. Parses(x.file)
  BY RowAtHand
<1>3. y.file = x.file /\ y.todo = x.todo /\ y.state = "saving"
  BY DEF PastRow
<1>4. \A k \in DOMAIN x.problems :
         \/ x.problems[k].row = x.problems[k].failed /\ ~Named(x.file, x.problems[k].failed)
         \/ x.problems[k].row \in Past(y) /\ x.problems[k].failed = x.todo[x.problems[k].row]
  BY <1>1 DEF Sound
<1>. QED  BY <1>1, <1>2, <1>3, <1>4 DEF Sound

LEMMA FailureSound ==
    ASSUME NEW x \in Work, NEW y \in Work, Sound(x), x.state = "saving", x.at <= Len(x.todo),
           PastRow(x, y),
           y.problems = Append(x.problems, [row |-> x.at, failed |-> x.todo[x.at]])
    PROVE  Sound(y)
<1>. DEFINE problem == [row |-> x.at, failed |-> x.todo[x.at]]
            m == Len(x.problems)
            old == x.problems
            new == y.problems
<1>1. /\ y.at \in 1..(Len(y.todo) + 1) /\ x.at \in Past(y)
      /\ \A p \in Past(x) : p \in Past(y)
  BY PastGrows
<1>2. Parses(x.file) /\ \A k \in DOMAIN old : old[k].failed # x.todo[x.at]
  BY RowAtHand
<1>3. y.file = x.file /\ y.todo = x.todo /\ y.state = "saving"
  BY DEF PastRow
<1>4. old \in Seq(Problem)
  BY DEF Work
<1>5. /\ m \in Nat /\ DOMAIN old = 1..m /\ DOMAIN new = 1..(m + 1)
      /\ new[m + 1] = problem /\ \A k \in 1..m : new[k] = old[k]
  BY <1>4
<1>6. \A k \in 1..(m + 1) : k \in 1..m \/ k = m + 1
  BY <1>5
<1>7. \A k \in 1..m : k \in 1..(m + 1)
  BY <1>5
<1>8. problem.row = x.at /\ problem.failed = x.todo[x.at]
  OBVIOUS
<1>. HIDE DEF problem, m, old, new
<1>9. \A k \in 1..m : \/ old[k].row = old[k].failed /\ ~Named(x.file, old[k].failed)
                      \/ old[k].row \in Past(y) /\ old[k].failed = x.todo[old[k].row]
  <2>1. \A k \in DOMAIN old : \/ old[k].row = old[k].failed /\ ~Named(x.file, old[k].failed)
                              \/ old[k].row \in Past(x) /\ old[k].failed = x.todo[old[k].row]
    BY Zenon DEF Sound, old
  <2>. QED  BY <1>1, <1>5, <2>1
<1>10. \A k \in 1..(m + 1) : \/ new[k].row = new[k].failed /\ ~Named(x.file, new[k].failed)
                             \/ new[k].row \in Past(y) /\ new[k].failed = x.todo[new[k].row]
  BY <1>1, <1>5, <1>6, <1>8, <1>9
<1>11. \A k, l \in 1..m : old[k].failed = old[l].failed => k = l
  BY <1>5 DEF Sound, old
<1>12. ASSUME NEW k \in 1..(m + 1), NEW l \in 1..(m + 1), new[k].failed = new[l].failed
       PROVE  k = l
  <2>1. \A j \in 1..m : new[j].failed # new[m + 1].failed
    BY <1>2, <1>5, <1>8
  <2>2. CASE k \in 1..m /\ l \in 1..m
    BY <1>5, <1>11, <1>12, <2>2
  <2>3. CASE k = m + 1 \/ l = m + 1
    BY <1>6, <1>12, <2>1, <2>3
  <2>. QED  BY <1>6, <2>2, <2>3
<1>13. \A r \in 1..Len(x.file.records) : ~Named(x.file, r) => \E k \in 1..m : old[k].failed = r
  BY <1>2, <1>5 DEF Sound, old
<1>14. \A r \in 1..Len(x.file.records) : ~Named(x.file, r) => \E k \in 1..(m + 1) : new[k].failed = r
  BY <1>5, <1>7, <1>13
<1>15. TeamsSorted(x.file, Len(x.file.records), x.todo)
  BY <1>2 DEF Sound
<1>. QED  BY <1>1, <1>2, <1>3, <1>5, <1>10, <1>12, <1>14, <1>15 DEF Sound, new

\* The teams of upload u.
Of(u, ts) == {t \in DOMAIN ts : ts[t].upload = u}

LEMMA OfAppend ==
    ASSUME NEW u, NEW ts \in Seq(Team), NEW team \in Team
    PROVE  LET new == Append(ts, team)
               n == Len(ts)
           IN  /\ n \in Nat /\ DOMAIN ts = 1..n /\ DOMAIN new = 1..(n + 1)
               /\ new \in Seq(Team) /\ new[n + 1] = team /\ \A t \in 1..n : new[t] = ts[t]
               /\ IsFiniteSet(Of(u, ts)) /\ Cardinality(Of(u, ts)) \in Nat
               /\ team.upload # u => Of(u, new) = Of(u, ts)
               /\ team.upload = u => Cardinality(Of(u, new)) = Cardinality(Of(u, ts)) + 1
<1>. DEFINE new == Append(ts, team)
            n == Len(ts)
<1>1. /\ n \in Nat /\ DOMAIN ts = 1..n /\ DOMAIN new = 1..(n + 1)
      /\ new \in Seq(Team) /\ new[n + 1] = team /\ \A t \in 1..n : new[t] = ts[t]
  OBVIOUS
<1>. HIDE DEF new, n
<1>2. \A t \in 1..(n + 1) : t \in 1..n \/ t = n + 1
  BY <1>1
<1>3. /\ n + 1 \notin 1..n /\ n + 1 \in 1..(n + 1)
      /\ \A t \in 1..n : t \in 1..(n + 1)
  BY <1>1
<1>4. IsFiniteSet(1..n)
  BY <1>1, FS_Interval
<1>5. IsFiniteSet(Of(u, ts)) /\ Cardinality(Of(u, ts)) \in Nat
  <2>1. Of(u, ts) \subseteq 1..n
    BY <1>1 DEF Of
  <2>. QED  BY <1>4, <2>1, FS_Subset, FS_CardinalityType
<1>6. ASSUME team.upload # u
      PROVE  Of(u, new) = Of(u, ts)
  BY <1>1, <1>2, <1>3, <1>6 DEF Of
<1>7. ASSUME team.upload = u
      PROVE  Cardinality(Of(u, new)) = Cardinality(Of(u, ts)) + 1
  <2>1. Of(u, new) = Of(u, ts) \cup {n + 1} /\ n + 1 \notin Of(u, ts)
    BY <1>1, <1>2, <1>3, <1>7 DEF Of
  <2>. QED  BY <1>5, <2>1, FS_AddElement
<1>. QED  BY <1>1, <1>5, <1>6, <1>7 DEF new, n

LEMMA NothingAccounted ==
    ASSUME NEW u, NEW x, NEW ts, x.at = 1, x.imported = 0,
           \A t \in DOMAIN ts : ts[t].upload # u
    PROVE  Accounts(u, x, ts)
<1>1. Past(x) = {}
  BY DEF Past
<1>2. {t \in DOMAIN ts : ts[t].upload = u} = {}
  OBVIOUS
<1>. QED  BY <1>1, <1>2, FS_EmptySet DEF Accounts

\* Of a handler only where it is matters, and what it has counted and reported.
LEMMA SameAccounts ==
    ASSUME NEW u, NEW x, NEW y, NEW ts, Accounts(u, x, ts),
           y.todo = x.todo, y.at = x.at, y.imported = x.imported, y.problems = x.problems
    PROVE  Accounts(u, y, ts)
BY DEF Accounts, Past

\* Teams of other uploads, and those added by hand, change nothing.
LEMMA OthersAccounted ==
    ASSUME NEW u, NEW x, NEW ts \in Seq(Team), NEW team \in Team, team.upload # u,
           Accounts(u, x, ts)
    PROVE  Accounts(u, x, Append(ts, team))
<1>. DEFINE new == Append(ts, team)
            n == Len(ts)
            D == DOMAIN ts
            E == DOMAIN new
<1>1. /\ n \in Nat /\ D = 1..n /\ E = 1..(n + 1) /\ new[n + 1] = team
      /\ \A t \in 1..n : new[t] = ts[t]
      /\ Of(u, new) = Of(u, ts)
  BY OfAppend
<1>2. \A t \in E : new[t].upload = u => t \in D /\ new[t] = ts[t]
  BY <1>1
<1>3. \A t \in D : t \in E /\ new[t] = ts[t]
  BY <1>1
<1>. HIDE DEF new, D, E
<1>4. \A t \in E : new[t].upload = u => \E p \in Past(x) : x.todo[p] = new[t].row
  BY <1>2 DEF Accounts, D
<1>5. \A s, t \in E : s < t /\ new[s].upload = u /\ new[t].upload = u => new[s].row < new[t].row
  BY <1>2 DEF Accounts, D
<1>6. \A t \in E, k \in DOMAIN x.problems :
         new[t].upload = u => new[t].row # x.problems[k].failed
  BY <1>2 DEF Accounts, D
<1>7. \A p \in Past(x) :
          \/ \E t \in E : new[t].upload = u /\ new[t].row = x.todo[p]
          \/ \E k \in DOMAIN x.problems : x.problems[k].failed = x.todo[p]
  BY <1>3 DEF Accounts, D
<1>8. x.imported = Cardinality(Of(u, new))
  BY <1>1 DEF Accounts, Of
<1>. QED  BY <1>4, <1>5, <1>6, <1>7, <1>8 DEF Accounts, E, new, Of

LEMMA SaveAccounted ==
    ASSUME NEW u \in Nat, NEW x \in Work, NEW y \in Work, NEW ts \in Seq(Team),
           Sound(x), x.state = "saving", x.at <= Len(x.todo), PastRow(x, y),
           y.imported = x.imported + 1, y.problems = x.problems, Accounts(u, x, ts)
    PROVE  Accounts(u, y, Append(ts, [upload |-> u, row |-> x.todo[x.at]]))
<1>. DEFINE team == [upload |-> u, row |-> x.todo[x.at]]
            new == Append(ts, team)
            n == Len(ts)
            D == DOMAIN ts
            E == DOMAIN new
            last == n + 1
            row == x.todo[x.at]
<1>1. /\ row \in Nat
      /\ \A p \in Past(x) : x.todo[p] < row
      /\ \A k \in DOMAIN x.problems : x.problems[k].failed # row
  BY RowAtHand
<1>2. team \in Team /\ team.upload = u /\ team.row = row
  BY <1>1 DEF Team
<1>3. y.todo = x.todo
  BY DEF PastRow
<1>4. /\ \A p \in Past(x) : p \in Past(y)
      /\ x.at \in Past(y)
      /\ \A p \in Past(y) : p \in Past(x) \/ p = x.at
  BY PastGrows
<1>. HIDE DEF team
<1>5. /\ n \in Nat /\ D = 1..n /\ E = 1..(n + 1) /\ new[last] = team
      /\ \A t \in 1..n : new[t] = ts[t]
      /\ Cardinality(Of(u, new)) = Cardinality(Of(u, ts)) + 1
  BY <1>2, OfAppend
<1>6. /\ \A t \in E : (t \in D /\ new[t] = ts[t]) \/ t = last
      /\ \A t \in D : t \in E /\ new[t] = ts[t] /\ t \in Nat /\ t < last
      /\ last \in E /\ last \in Nat
  BY <1>5
<1>. HIDE DEF new, D, E, last, row, n
<1>7. \A t \in D : ts[t].upload = u => \E p \in Past(x) : x.todo[p] = ts[t].row
  BY DEF Accounts, D
<1>8. \A t \in E : new[t].upload = u => \E p \in Past(y) : y.todo[p] = new[t].row
  BY <1>2, <1>3, <1>4, <1>5, <1>6, <1>7 DEF row
<1>9. ASSUME NEW s \in E, NEW t \in E, s < t, new[s].upload = u, new[t].upload = u
      PROVE  new[s].row < new[t].row
  <2>1. s \in D /\ new[s] = ts[s]
    BY <1>6, <1>9
  <2>2. CASE t \in D /\ new[t] = ts[t]
    BY <1>9, <2>1, <2>2 DEF Accounts, D
  <2>3. CASE t = last
    BY <1>1, <1>2, <1>5, <1>7, <1>9, <2>1, <2>3
  <2>. QED  BY <1>6, <2>2, <2>3
<1>10. \A t \in E, k \in DOMAIN y.problems :
          new[t].upload = u => new[t].row # y.problems[k].failed
  BY <1>1, <1>2, <1>5, <1>6 DEF Accounts, D
<1>11. ASSUME NEW p \in Past(y)
       PROVE  \/ \E t \in E : new[t].upload = u /\ new[t].row = y.todo[p]
              \/ \E k \in DOMAIN y.problems : y.problems[k].failed = y.todo[p]
  <2>1. CASE p \in Past(x)
    BY <1>3, <1>6, <2>1 DEF Accounts, D
  <2>2. CASE p = x.at
    BY <1>2, <1>3, <1>5, <1>6, <2>2 DEF row
  <2>. QED  BY <1>4, <2>1, <2>2
<1>12. y.imported = Cardinality(Of(u, new))
  BY <1>5 DEF Accounts, Of
<1>13. Accounts(u, y, new)
  BY <1>8, <1>9, <1>10, <1>11, <1>12 DEF Accounts, E, Of
<1>. QED  BY <1>13 DEF new, team, row

LEMMA FailureAccounted ==
    ASSUME NEW u \in Nat, NEW x \in Work, NEW y \in Work, NEW ts \in Seq(Team),
           Sound(x), x.state = "saving", x.at <= Len(x.todo), PastRow(x, y),
           y.imported = x.imported, Accounts(u, x, ts),
           y.problems = Append(x.problems, [row |-> x.at, failed |-> x.todo[x.at]])
    PROVE  Accounts(u, y, ts)
<1>. DEFINE problem == [row |-> x.at, failed |-> x.todo[x.at]]
            old == x.problems
            new == y.problems
            m == Len(old)
            K == DOMAIN old
            L == DOMAIN new
            last == m + 1
            row == x.todo[x.at]
<1>1. row \in Nat /\ \A p \in Past(x) : x.todo[p] < row /\ x.todo[p] \in Nat
  <2>1. x.todo \in Seq(Nat)
    BY DEF Work
  <2>2. /\ row \in Nat
        /\ \A p \in Past(x) : p \in DOMAIN x.todo /\ x.todo[p] < row
    BY RowAtHand
  <2>3. \A p \in DOMAIN x.todo : x.todo[p] \in Nat
    BY <2>1
  <2>. QED  BY <2>2, <2>3
<1>2. problem.failed = row
  OBVIOUS
<1>3. y.todo = x.todo
  BY DEF PastRow
<1>4. /\ \A p \in Past(x) : p \in Past(y)
      /\ \A p \in Past(y) : p \in Past(x) \/ p = x.at
  BY PastGrows
<1>5. old \in Seq(Problem)
  BY DEF Work
<1>. HIDE DEF problem
<1>6. /\ \A k \in L : (k \in K /\ new[k] = old[k]) \/ k = last
      /\ \A k \in K : k \in L /\ new[k] = old[k]
      /\ last \in L /\ new[last] = problem
  BY <1>5 DEF problem
<1>. HIDE DEF new, old, K, L, last, row, m
<1>7. \A t \in DOMAIN ts : ts[t].upload = u => \E p \in Past(y) : y.todo[p] = ts[t].row
  BY <1>3, <1>4 DEF Accounts
<1>8. ASSUME NEW t \in DOMAIN ts, NEW k \in L, ts[t].upload = u
      PROVE  ts[t].row # new[k].failed
  <2>1. CASE k \in K /\ new[k] = old[k]
    BY <1>8, <2>1 DEF Accounts, old, K
  <2>2. CASE k = last
    <3>1. PICK p \in Past(x) : x.todo[p] = ts[t].row
      BY <1>8 DEF Accounts
    <3>2. ts[t].row < row /\ ts[t].row \in Nat
      BY <1>1, <3>1
    <3>. QED  BY <1>1, <1>2, <1>6, <2>2, <3>2
  <2>. QED  BY <1>6, <2>1, <2>2
<1>9. ASSUME NEW p \in Past(y)
      PROVE  \/ \E t \in DOMAIN ts : ts[t].upload = u /\ ts[t].row = y.todo[p]
             \/ \E k \in L : new[k].failed = y.todo[p]
  <2>1. CASE p \in Past(x)
    <3>1. \/ \E t \in DOMAIN ts : ts[t].upload = u /\ ts[t].row = x.todo[p]
          \/ \E k \in K : old[k].failed = x.todo[p]
      BY <2>1 DEF Accounts, old, K
    <3>. QED  BY <1>3, <1>6, <3>1
  <2>2. CASE p = x.at
    BY <1>2, <1>3, <1>6, <2>2 DEF row
  <2>. QED  BY <1>4, <2>1, <2>2
<1>. QED  BY <1>7, <1>8, <1>9 DEF Accounts, L, new

\* One handler, of upload u, goes from x to y, and ts becomes what is stored.
LEMMA HandlerStep ==
    ASSUME ImportInv, NEW u \in DOMAIN uploads, NEW y \in Work, NEW ts,
           uploads' = [uploads EXCEPT ![u] = y], teams' = ts,
           y.file = uploads[u].file, Sound(y), Accounts(u, y, ts),
           \/ ts = teams
           \/ \E row \in Nat : ts = Append(teams, [upload |-> u, row |-> row])
    PROVE  /\ teams' \in Seq(Team) /\ uploads' \in Seq(Work) /\ Origins'
           /\ DOMAIN uploads' = DOMAIN uploads
           /\ \A w \in DOMAIN uploads : uploads'[w].file = uploads[w].file
           /\ \A w \in DOMAIN uploads' : Sound(uploads'[w]) /\ Accounts(w, uploads'[w], teams')
<1>1. /\ teams \in Seq(Team) /\ uploads \in Seq(Work)
      /\ \A w \in DOMAIN uploads : Sound(uploads[w]) /\ Accounts(w, uploads[w], teams)
  BY DEF ImportInv, ImportType
<1>2. /\ uploads' \in Seq(Work) /\ DOMAIN uploads' = DOMAIN uploads
      /\ Len(uploads') = Len(uploads) /\ uploads'[u] = y
      /\ \A w \in DOMAIN uploads : w # u => uploads'[w] = uploads[w]
  BY <1>1
<1>3. u \in Nat /\ u # 0 /\ u \in 0..Len(uploads)
  BY <1>1
<1>4. CASE ts = teams
  BY <1>1, <1>2, <1>4 DEF ImportInv, Origins
<1>5. CASE \E row \in Nat : ts = Append(teams, [upload |-> u, row |-> row])
  <2>1. PICK row \in Nat : ts = Append(teams, [upload |-> u, row |-> row])
    BY <1>5
  <2>. DEFINE team == [upload |-> u, row |-> row]
  <2>2. team \in Team /\ team.upload = u
    BY <1>3 DEF Team
  <2>3. ts = Append(teams, team)
    BY <2>1
  <2>. HIDE DEF team
  <2>4. ts \in Seq(Team) /\ \A t \in DOMAIN ts : (t \in DOMAIN teams /\ ts[t] = teams[t]) \/ ts[t] = team
    BY <1>1, <2>2, <2>3
  <2>5. Origins'
    BY <1>2, <1>3, <2>2, <2>4 DEF ImportInv, Origins
  <2>6. ASSUME NEW w \in DOMAIN uploads, w # u
        PROVE  Accounts(w, uploads[w], ts)
    BY <1>1, <2>2, <2>3, <2>6, OthersAccounted
  <2>7. ASSUME NEW w \in DOMAIN uploads'
        PROVE  Sound(uploads'[w]) /\ Accounts(w, uploads'[w], teams')
    <3>1. CASE w = u
      BY <1>2, <3>1
    <3>2. CASE w # u
      BY <1>1, <1>2, <2>6, <3>2
    <3>. QED  BY <3>1, <3>2
  <2>. QED  BY <1>2, <2>4, <2>5, <2>7
<1>. QED  BY <1>4, <1>5

LEMMA ImportInitInv == ImportInit => ImportInv
<1>. SUFFICES ASSUME ImportInit PROVE ImportInv
  OBVIOUS
<1>1. ImportType
  BY DEF ImportInit, ImportType
<1>. QED  BY <1>1 DEF ImportInit, ImportInv, Origins, Pages

LEMMA UploadInv ==
    ASSUME ImportInv, NEW c \in Client, NEW f \in File, Upload(c, f)
    PROVE  ImportInv'
<1>. DEFINE y == IF Parses(f) THEN Handling(f) ELSE Refused(f)
            n == Len(uploads)
<1>1. y \in Work /\ Sound(y) /\ y.at = 1 /\ y.imported = 0
  BY StartSound DEF Handling, Refused
<1>. HIDE DEF y
<1>2. /\ teams \in Seq(Team) /\ uploads \in Seq(Work)
      /\ page \in [Client -> [shows : {"form", "pending", "error", "result", "nothing"},
                              upload : Nat]]
      /\ \A w \in DOMAIN uploads : Sound(uploads[w]) /\ Accounts(w, uploads[w], teams)
  BY DEF ImportInv, ImportType
<1>3. uploads' = Append(uploads, y) /\ teams' = teams
  BY DEF Upload, y
<1>4. /\ n \in Nat /\ DOMAIN uploads = 1..n /\ DOMAIN uploads' = 1..(n + 1)
      /\ uploads' \in Seq(Work) /\ uploads'[n + 1] = y
      /\ Len(uploads') = n + 1
      /\ \A w \in 1..n : uploads'[w] = uploads[w]
  BY <1>1, <1>2, <1>3
<1>5. page' = [page EXCEPT ![c] = [shows |-> "pending", upload |-> n + 1]]
  BY <1>4 DEF Upload
<1>6. /\ \A w \in 1..(n + 1) : w \in 1..n \/ w = n + 1
      /\ n + 1 \in 1..(n + 1) /\ \A w \in 1..n : w \in 1..(n + 1)
      /\ \A w \in 0..n : w \in 0..(n + 1) /\ w # n + 1
  BY <1>4
<1>7. ImportType'
  BY <1>2, <1>3, <1>4, <1>5 DEF ImportType
<1>8. Origins'
  BY <1>3, <1>4, <1>6 DEF ImportInv, Origins
<1>9. Pages'
  <2>1. \A d \in Client : d # c => page'[d] = page[d]
    BY <1>2, <1>5
  <2>2. page'[c].shows = "pending" /\ page'[c].upload = n + 1
    BY <1>2, <1>5
  <2>3. \A d \in Client :
          /\ page[d].shows = "pending" => page[d].upload \in 1..n
          /\ page[d].shows = "error" /\ page[d].upload # 0 =>
                page[d].upload \in 1..n /\ ~Parses(uploads[page[d].upload].file)
    BY <1>4 DEF ImportInv, Pages
  <2>. QED  BY <1>4, <1>6, <2>1, <2>2, <2>3 DEF Pages
<1>10. Accounts(n + 1, y, teams)
  <2>1. \A t \in DOMAIN teams : teams[t].upload # n + 1
    BY <1>6 DEF ImportInv, Origins
  <2>. QED  BY <1>1, <2>1, NothingAccounted
<1>11. ASSUME NEW w \in DOMAIN uploads'
       PROVE  Sound(uploads'[w]) /\ Accounts(w, uploads'[w], teams')
  <2>1. CASE w \in 1..n
    BY <1>2, <1>3, <1>4, <2>1
  <2>2. CASE w = n + 1
    BY <1>1, <1>3, <1>4, <1>10, <2>2
  <2>. QED  BY <1>4, <1>6, <2>1, <2>2
<1>. QED  BY <1>7, <1>8, <1>9, <1>11 DEF ImportInv

LEMMA SaveInv ==
    ASSUME ImportInv, NEW u \in DOMAIN uploads, Save(u)
    PROVE  ImportInv'
<1>. DEFINE x == uploads[u]
            y == [x EXCEPT !.at = @ + 1, !.imported = @ + 1]
            team == [upload |-> u, row |-> x.todo[x.at]]
<1>1. /\ teams \in Seq(Team) /\ uploads \in Seq(Work) /\ x \in Work /\ u \in Nat
      /\ Sound(x) /\ Accounts(u, x, teams)
  BY DEF ImportInv, ImportType
<1>2. x.state = "saving" /\ x.at <= Len(x.todo)
  BY DEF Save, Saving
<1>3. uploads' = [uploads EXCEPT ![u] = y] /\ teams' = Append(teams, team)
  BY DEF Save
<1>. HIDE DEF x
<1>4. /\ y \in Work /\ PastRow(x, y) /\ y.imported = x.imported + 1
      /\ y.problems = x.problems /\ y.file = x.file
  <2>. DEFINE at == x.at + 1
              imported == x.imported + 1
  <2>1. x \in Work
    BY <1>1
  <2>2. at \in Nat /\ imported \in Nat
    BY <2>1, WorkFields
  <2>3. y = [x EXCEPT !.at = at, !.imported = imported]
    OBVIOUS
  <2>. HIDE DEF y, at, imported
  <2>4. /\ y \in Work /\ y.at = at /\ y.imported = imported /\ y.problems = x.problems
        /\ y.file = x.file /\ y.todo = x.todo /\ y.state = x.state
    BY <2>1, <2>2, <2>3 DEF Work
  <2>. QED  BY <2>4 DEF PastRow, at, imported
<1>5. x.todo[x.at] \in Nat
  BY <1>1, <1>2, RowAtHand
<1>. HIDE DEF y
<1>6. Sound(y)
  BY <1>1, <1>2, <1>4, SaveSound
<1>7. Accounts(u, y, Append(teams, team))
  BY <1>1, <1>2, <1>4, SaveAccounted
<1>8. /\ teams' \in Seq(Team) /\ uploads' \in Seq(Work) /\ Origins'
      /\ DOMAIN uploads' = DOMAIN uploads
      /\ \A w \in DOMAIN uploads : uploads'[w].file = uploads[w].file
      /\ \A w \in DOMAIN uploads' : Sound(uploads'[w]) /\ Accounts(w, uploads'[w], teams')
  BY <1>3, <1>4, <1>5, <1>6, <1>7, HandlerStep DEF x
<1>9. page' = page
  BY DEF Save
<1>. QED  BY <1>8, <1>9 DEF ImportInv, ImportType, Pages

LEMMA SaveFailsInv ==
    ASSUME ImportInv, NEW u \in DOMAIN uploads, SaveFails(u)
    PROVE  ImportInv'
<1>. DEFINE x == uploads[u]
            problem == [row |-> x.at, failed |-> x.todo[x.at]]
            y == [x EXCEPT !.at = @ + 1, !.problems = Append(@, problem)]
<1>1. /\ teams \in Seq(Team) /\ uploads \in Seq(Work) /\ x \in Work /\ u \in Nat
      /\ Sound(x) /\ Accounts(u, x, teams)
  BY DEF ImportInv, ImportType
<1>2. x.state = "saving" /\ x.at <= Len(x.todo)
  BY DEF SaveFails, Saving
<1>3. uploads' = [uploads EXCEPT ![u] = y] /\ teams' = teams
  BY DEF SaveFails
<1>. HIDE DEF x
<1>4. problem \in Problem
  BY <1>1, <1>2, RowAtHand DEF Problem
<1>. HIDE DEF problem
<1>5. /\ y \in Work /\ PastRow(x, y) /\ y.imported = x.imported
      /\ y.problems = Append(x.problems, problem) /\ y.file = x.file
  <2>. DEFINE at == x.at + 1
              problems == Append(x.problems, problem)
  <2>1. x \in Work
    BY <1>1
  <2>2. at \in Nat /\ problems \in Seq(Problem)
    BY <1>4, <2>1, WorkFields
  <2>3. y = [x EXCEPT !.at = at, !.problems = problems]
    OBVIOUS
  <2>. HIDE DEF y, at, problems
  <2>4. /\ y \in Work /\ y.at = at /\ y.imported = x.imported /\ y.problems = problems
        /\ y.file = x.file /\ y.todo = x.todo /\ y.state = x.state
    BY <2>1, <2>2, <2>3 DEF Work
  <2>. QED  BY <2>4 DEF PastRow, at, problems
<1>. HIDE DEF y
<1>6. Sound(y)
  BY <1>1, <1>2, <1>5, FailureSound DEF problem
<1>7. Accounts(u, y, teams)
  BY <1>1, <1>2, <1>5, FailureAccounted DEF problem
<1>8. /\ teams' \in Seq(Team) /\ uploads' \in Seq(Work) /\ Origins'
      /\ DOMAIN uploads' = DOMAIN uploads
      /\ \A w \in DOMAIN uploads : uploads'[w].file = uploads[w].file
      /\ \A w \in DOMAIN uploads' : Sound(uploads'[w]) /\ Accounts(w, uploads'[w], teams')
  BY <1>3, <1>5, <1>6, <1>7, HandlerStep DEF x
<1>9. page' = page
  BY DEF SaveFails
<1>. QED  BY <1>8, <1>9 DEF ImportInv, ImportType, Pages

LEMMA RespondInv ==
    ASSUME ImportInv, NEW u \in DOMAIN uploads, Respond(u)
    PROVE  ImportInv'
<1>. DEFINE x == uploads[u]
            y == [x EXCEPT !.state = "answered"]
            Shows == {"form", "pending", "error", "result", "nothing"}
<1>1. /\ teams \in Seq(Team) /\ uploads \in Seq(Work) /\ x \in Work /\ u \in Nat
      /\ page \in [Client -> [shows : Shows, upload : Nat]]
      /\ Sound(x) /\ Accounts(u, x, teams)
  BY DEF ImportInv, ImportType
<1>2. x.state \in {"saving", "refused"} /\ ~(x.state = "saving" /\ x.at <= Len(x.todo))
  BY DEF Respond, Saving
<1>3. uploads' = [uploads EXCEPT ![u] = y] /\ teams' = teams
  BY DEF Respond
<1>. HIDE DEF x
<1>4. /\ y \in Work /\ y.file = x.file /\ y.todo = x.todo /\ y.at = x.at
      /\ y.imported = x.imported /\ y.problems = x.problems /\ y.state = "answered"
  BY <1>1 DEF Work
<1>. HIDE DEF y
<1>5. x.at = Len(x.todo) + 1
  <2>1. x.todo \in Seq(Nat) /\ x.at \in Nat /\ Len(x.todo) \in Nat /\ x.at \in 1..(Len(x.todo) + 1)
    BY <1>1 DEF Work, Sound
  <2>2. CASE x.state = "saving"
    BY <1>2, <2>1, <2>2
  <2>3. CASE x.state = "refused"
    <3>1. x.todo = <<>>
      BY <1>1, <2>3 DEF Sound
    <3>. QED  BY <2>1, <3>1
  <2>. QED  BY <1>2, <2>2, <2>3
<1>6. Sound(y)
  BY <1>1, <1>4, <1>5 DEF Sound, Past
<1>7. Accounts(u, y, teams)
  BY <1>1, <1>4, SameAccounts
<1>8. /\ teams' \in Seq(Team) /\ uploads' \in Seq(Work) /\ Origins'
      /\ DOMAIN uploads' = DOMAIN uploads
      /\ \A w \in DOMAIN uploads : uploads'[w].file = uploads[w].file
      /\ \A w \in DOMAIN uploads' : Sound(uploads'[w]) /\ Accounts(w, uploads'[w], teams')
  BY <1>3, <1>4, <1>6, <1>7, HandlerStep DEF x
<1>9. ASSUME NEW c \in Client
      PROVE  /\ page'[c] \in [shows : Shows, upload : Nat]
             /\ \/ page'[c] = page[c]
                \/ /\ page'[c].upload = u
                   /\ page'[c].shows = "error" => x.state = "refused"
                   /\ page'[c].shows # "pending"
  <2>1. page'[c] = IF ~Waits(c, u) THEN page[c]
                   ELSE [page[c] EXCEPT !.shows = IF x.state = "refused" THEN "error"
                                                  ELSE ResultPage(u)]
    BY DEF Respond, x
  <2>2. page[c] \in [shows : Shows, upload : Nat]
    BY <1>1
  <2>3. CASE Waits(c, u)
    <3>1. page[c].upload = u
      BY <2>3 DEF Waits
    <3>. QED  BY <2>1, <2>2, <2>3, <3>1 DEF ResultPage
  <2>4. CASE ~Waits(c, u)
    BY <2>1, <2>2, <2>4
  <2>. QED  BY <2>3, <2>4
<1>10. page' \in [Client -> [shows : Shows, upload : Nat]]
  <2>. HIDE DEF Shows
  <2>1. DOMAIN page' = Client /\ page' = [c \in Client |-> page'[c]]
    BY DEF Respond
  <2>. QED  BY <1>9, <2>1
<1>11. Pages'
  <2>1. x.state = "refused" => ~Parses(x.file)
    BY <1>1 DEF Sound
  <2>2. Pages
    BY DEF ImportInv
  <2>. QED  BY <1>8, <1>9, <2>1, <2>2 DEF Pages, x
<1>. QED  BY <1>8, <1>10, <1>11 DEF ImportInv, ImportType

LEMMA RestartInv ==
    ASSUME ImportInv, Restart
    PROVE  ImportInv'
<1>. DEFINE Shows == {"form", "pending", "error", "result", "nothing"}
            n == Len(uploads)
<1>1. /\ teams \in Seq(Team) /\ uploads \in Seq(Work) /\ teams' = teams
      /\ page \in [Client -> [shows : Shows, upload : Nat]]
      /\ \A u \in DOMAIN uploads : Sound(uploads[u]) /\ Accounts(u, uploads[u], teams)
  BY DEF ImportInv, ImportType, Restart
<1>2. n \in Nat /\ DOMAIN uploads = 1..n
  BY <1>1
<1>3. ASSUME NEW u \in DOMAIN uploads
      PROVE  /\ uploads'[u] \in Work /\ uploads'[u].file = uploads[u].file
             /\ Sound(uploads'[u]) /\ Accounts(u, uploads'[u], teams)
  <2>. DEFINE x == uploads[u]
              y == [x EXCEPT !.state = "ended"]
  <2>1. uploads'[u] = IF x.state = "answered" THEN x ELSE y
    BY DEF Restart
  <2>2. x \in Work /\ Sound(x) /\ Accounts(u, x, teams)
    BY <1>1
  <2>. HIDE DEF x
  <2>3. /\ y \in Work /\ y.file = x.file /\ y.todo = x.todo /\ y.at = x.at
        /\ y.imported = x.imported /\ y.problems = x.problems /\ y.state = "ended"
    BY <2>2 DEF Work
  <2>. HIDE DEF y
  <2>4. Sound(y)
    BY <2>2, <2>3 DEF Sound, Past
  <2>5. Accounts(u, y, teams)
    BY <2>2, <2>3, SameAccounts
  <2>. QED  BY <2>1, <2>2, <2>3, <2>4, <2>5 DEF x
<1>4. uploads' \in Seq(Work) /\ DOMAIN uploads' = DOMAIN uploads /\ Len(uploads') = n
  <2>1. uploads' = [u \in 1..n |-> uploads'[u]] /\ \A u \in 1..n : uploads'[u] \in Work
    BY <1>2, <1>3 DEF Restart
  <2>2. uploads' \in Seq(Work)
    BY <1>2, <2>1
  <2>. QED  BY <1>2, <2>1, <2>2
<1>5. \A c \in Client : page'[c] = page[c] \/ page'[c] = [shows |-> "error", upload |-> 0]
  BY DEF Restart
<1>6. page' \in [Client -> [shows : Shows, upload : Nat]]
  <2>1. \A c \in Client : page'[c] \in [shows : Shows, upload : Nat]
    BY <1>1, <1>5
  <2>2. page' = [c \in Client |-> page'[c]]
    BY DEF Restart
  <2>. QED  BY <2>1, <2>2
<1>7. Pages'
  BY <1>3, <1>4, <1>5 DEF ImportInv, Pages
<1>8. Origins'
  BY <1>1, <1>4 DEF ImportInv, Origins
<1>. QED  BY <1>1, <1>3, <1>4, <1>6, <1>7, <1>8 DEF ImportInv, ImportType

LEMMA CreateTeamInv ==
    ASSUME ImportInv, CreateTeam
    PROVE  ImportInv'
<1>. DEFINE team == [upload |-> 0, row |-> 0]
<1>1. /\ teams \in Seq(Team) /\ uploads \in Seq(Work) /\ uploads' = uploads /\ page' = page
      /\ \A u \in DOMAIN uploads : Sound(uploads[u]) /\ Accounts(u, uploads[u], teams)
  BY DEF ImportInv, ImportType, CreateTeam
<1>2. team \in Team /\ team.upload = 0 /\ team.row = 0
  BY DEF Team
<1>3. teams' = Append(teams, team)
  BY DEF CreateTeam
<1>. HIDE DEF team
<1>4. /\ teams' \in Seq(Team)
      /\ \A t \in DOMAIN teams' : (t \in DOMAIN teams /\ teams'[t] = teams[t]) \/ teams'[t] = team
  BY <1>1, <1>2, <1>3
<1>5. \A u \in DOMAIN uploads : u # 0
  BY <1>1
<1>6. \A u \in DOMAIN uploads : Accounts(u, uploads[u], teams')
  BY <1>1, <1>2, <1>3, <1>5, OthersAccounted
<1>7. 0 \in 0..Len(uploads)
  BY <1>1
<1>8. Origins'
  BY <1>1, <1>2, <1>4, <1>7 DEF ImportInv, Origins
<1>. QED  BY <1>1, <1>4, <1>6, <1>8 DEF ImportInv, ImportType, Pages

LEMMA PageInv ==
    ASSUME ImportInv, NEW c \in Client, Lose(c) \/ Open(c)
    PROVE  ImportInv'
<1>1. teams' = teams /\ uploads' = uploads
  BY DEF Lose, Open
<1>2. \A d \in Client : \/ page'[d] = page[d]
                        \/ page'[d].shows \in {"form", "error"} /\ page'[d].upload = 0
  BY DEF ImportInv, ImportType, Lose, Open
<1>3. page' \in [Client -> [shows : {"form", "pending", "error", "result", "nothing"},
                            upload : Nat]]
  BY DEF ImportInv, ImportType, Lose, Open
<1>. QED  BY <1>1, <1>2, <1>3 DEF ImportInv, ImportType, Origins, Pages

LEMMA ImportNextInv == ImportInv /\ [ImportNext]_importVars => ImportInv'
<1>. SUFFICES ASSUME ImportInv, [ImportNext]_importVars PROVE ImportInv'
  OBVIOUS
<1>1. CASE \E c \in Client : (\E f \in File : Upload(c, f)) \/ Lose(c) \/ Open(c)
  BY <1>1, UploadInv, PageInv
<1>2. CASE \E u \in DOMAIN uploads : Handler(u)
  BY <1>2, SaveInv, SaveFailsInv, RespondInv DEF Handler
<1>3. CASE CreateTeam
  BY <1>3, CreateTeamInv
<1>4. CASE Restart
  BY <1>4, RestartInv
<1>5. CASE UNCHANGED importVars
  BY <1>5 DEF importVars, ImportInv, ImportType, Origins, Pages
<1>. QED  BY <1>1, <1>2, <1>3, <1>4, <1>5 DEF ImportNext

LEMMA ImportInvCorrect == ImportSpec => []ImportInv
BY ImportInitInv, ImportNextInv, PTL DEF ImportSpec

-----------------------------------------------------------------------------
(* What the import promises.                                               *)

LEMMA Parts ==
    ASSUME ImportInv, NEW u \in DOMAIN uploads
    PROVE  /\ u \in Nat /\ u # 0 /\ uploads[u] \in Work
           /\ Sound(uploads[u]) /\ Accounts(u, uploads[u], teams)
           /\ uploads[u].file \in File /\ uploads[u].file.records \in Seq(Seq(Cell))
           /\ \A t \in DOMAIN teams : t \in Nat /\ teams[t] \in Team
<1>1. /\ teams \in Seq(Team) /\ uploads \in Seq(Work)
      /\ Sound(uploads[u]) /\ Accounts(u, uploads[u], teams)
  BY DEF ImportInv, ImportType
<1>2. uploads[u] \in Work /\ u \in Nat /\ u # 0
  BY <1>1
<1>3. \A t \in DOMAIN teams : t \in Nat /\ teams[t] \in Team
  BY <1>1
<1>. QED  BY <1>1, <1>2, <1>3, WorkFields, ImportAssumption

\* A row is stored at most once, and only if it has a name and no problem.
LEMMA StoredOnce ==
    ASSUME ImportInv, NEW u \in DOMAIN uploads, NEW i
    PROVE  /\ \A s, t \in Stored(u, i) : s = t
           /\ Stored(u, i) # {} => Reported(u, i) = {}
<1>1. /\ \A t \in DOMAIN teams : t \in Nat /\ teams[t] \in Team
      /\ Accounts(u, uploads[u], teams)
  BY Parts
<1>2. \A t \in Stored(u, i) : t \in DOMAIN teams /\ teams[t].upload = u /\ teams[t].row = i /\ i \in Nat
  BY <1>1 DEF Stored, Team
<1>3. \A s, t \in Stored(u, i) : ~(s < t)
  BY <1>1, <1>2 DEF Accounts
<1>. QED  BY <1>1, <1>2, <1>3 DEF Accounts, Reported

LEMMA ReportedOnce ==
    ASSUME ImportInv, NEW u \in DOMAIN uploads, NEW i
    PROVE  \A k, l \in Reported(u, i) : k = l
<1>1. Sound(uploads[u])
  BY Parts
<1>. QED  BY <1>1 DEF Sound, Reported

\* A row without a name has a problem; one with a name has one or is stored when the handler
\* is past it.
LEMMA RowSettled ==
    ASSUME ImportInv, NEW u \in DOMAIN uploads, Parses(uploads[u].file),
           NEW i \in 1..Len(uploads[u].file.records)
    PROVE  /\ ~Named(uploads[u].file, i) => Reported(u, i) # {}
           /\ Named(uploads[u].file, i) =>
                 \E p \in DOMAIN uploads[u].todo : uploads[u].todo[p] = i
           /\ \A p \in Past(uploads[u]) :
                 uploads[u].todo[p] = i => Stored(u, i) # {} \/ Reported(u, i) # {}
<1>. DEFINE x == uploads[u]
<1>1. /\ Sound(x) /\ Accounts(u, x, teams)
      /\ \A t \in DOMAIN teams : t \in Nat /\ teams[t] \in Team
  BY Parts
<1>2. ~Named(x.file, i) => \E k \in DOMAIN x.problems : x.problems[k].failed = i
  BY <1>1 DEF Sound
<1>3. Named(x.file, i) => \E p \in DOMAIN x.todo : x.todo[p] = i
  BY <1>1 DEF Sound, TeamsSorted
<1>4. \A p \in Past(x) : x.todo[p] = i =>
         \/ \E t \in DOMAIN teams : teams[t].upload = u /\ teams[t].row = i
         \/ \E k \in DOMAIN x.problems : x.problems[k].failed = i
  BY <1>1 DEF Accounts
<1>5. \A t \in DOMAIN teams : teams[t].upload = u /\ teams[t].row = i => t \in Stored(u, i)
  BY <1>1 DEF Stored, Team
<1>. QED  BY <1>2, <1>3, <1>4, <1>5 DEF Reported

\* Whoever uploads what, and whatever fails: what a handler answers accounts for its file.
THEOREM EveryRowAccountedCorrect == ImportSpec => []EveryRowAccounted
<1>1. ASSUME ImportInv
      PROVE  EveryRowAccounted
  <2>. SUFFICES ASSUME NEW u \in DOMAIN uploads, uploads[u].state = "answered",
                       Parses(uploads[u].file)
                PROVE  /\ \A i \in DOMAIN uploads[u].file.records :
                             Cardinality(Stored(u, i)) + Cardinality(Reported(u, i)) = 1
                       /\ uploads[u].imported =
                             Cardinality({t \in DOMAIN teams : teams[t].upload = u})
    BY DEF EveryRowAccounted
  <2>. DEFINE x == uploads[u]
  <2>1. /\ x \in Work /\ Sound(x) /\ Accounts(u, x, teams) /\ x.file \in File
        /\ x.file.records \in Seq(Seq(Cell))
    BY <1>1, Parts
  <2>2. \A p \in DOMAIN x.todo : p \in Past(x)
    <3>1. x.todo \in Seq(Nat) /\ x.at = Len(x.todo) + 1
      BY <2>1, WorkFields DEF Sound
    <3>. QED  BY <3>1 DEF Past
  <2>3. ASSUME NEW i \in DOMAIN x.file.records
        PROVE  Cardinality(Stored(u, i)) + Cardinality(Reported(u, i)) = 1
    <3>1. i \in 1..Len(x.file.records)
      BY <2>1
    <3>2. Stored(u, i) # {} \/ Reported(u, i) # {}
      BY <1>1, <2>2, <3>1, RowSettled
    <3>3. ASSUME NEW S, S # {}, \A s, t \in S : s = t
          PROVE  Cardinality(S) = 1
      <4>1. PICK s \in S : TRUE
        BY <3>3
      <4>2. S = {s}
        BY <3>3
      <4>. QED  BY <4>2, FS_Singleton
    <3>4. CASE Stored(u, i) # {}
      <4>1. Cardinality(Stored(u, i)) = 1 /\ Cardinality(Reported(u, i)) = 0
        BY <1>1, <3>3, <3>4, StoredOnce, FS_EmptySet
      <4>. QED  BY <4>1
    <3>5. CASE Stored(u, i) = {}
      <4>1. Cardinality(Stored(u, i)) = 0 /\ Cardinality(Reported(u, i)) = 1
        BY <1>1, <3>2, <3>3, <3>5, ReportedOnce, FS_EmptySet
      <4>. QED  BY <4>1
    <3>. QED  BY <3>4, <3>5
  <2>. QED  BY <2>1, <2>3 DEF Accounts
<1>. QED  BY <1>1, ImportInvCorrect, PTL

\* At every moment the teams of a file are its beginning, in its order, but for the rows
\* that have a problem.
THEOREM StoredIsABeginningCorrect == ImportSpec => []StoredIsABeginning
<1>1. ASSUME ImportInv
      PROVE  StoredIsABeginning
  <2>. SUFFICES ASSUME NEW t \in DOMAIN teams, NEW i \in 1..(teams[t].row - 1),
                       Reported(teams[t].upload, i) = {}
                PROVE  \E s \in Stored(teams[t].upload, i) : s < t
    BY DEF StoredIsABeginning
  <2>. DEFINE u == teams[t].upload
              x == uploads[u]
  <2>1. teams \in Seq(Team) /\ uploads \in Seq(Work) /\ teams[t] \in Team /\ u \in 0..Len(uploads)
    BY <1>1 DEF ImportInv, ImportType, Origins
  <2>2. u # 0
    BY <1>1 DEF ImportInv, Origins
  <2>3. u \in DOMAIN uploads
    BY <2>1, <2>2
  <2>4. /\ x \in Work /\ Sound(x) /\ Accounts(u, x, teams)
        /\ \A s \in DOMAIN teams : s \in Nat /\ teams[s] \in Team
    BY <1>1, <2>3, Parts
  <2>5. PICK p \in Past(x) : x.todo[p] = teams[t].row
    BY <2>4 DEF Accounts
  <2>6. /\ x.todo \in Seq(Nat) /\ x.at \in 1..(Len(x.todo) + 1) /\ x.at \in Nat
    BY <2>4, WorkFields DEF Sound
  <2>7. /\ Len(x.todo) \in Nat /\ DOMAIN x.todo = 1..Len(x.todo)
        /\ p \in DOMAIN x.todo /\ p < x.at
    <3>1. p \in 1..(x.at - 1)
      BY <2>5 DEF Past
    <3>. DEFINE todo == x.todo
                at == x.at
    <3>2. Len(todo) \in Nat /\ DOMAIN todo = 1..Len(todo)
      BY <2>6
    <3>3. at \in Nat /\ at \in 1..(Len(todo) + 1)
      BY <2>6
    <3>. HIDE DEF todo, at
    <3>4. p \in 1..Len(todo) /\ p < at
      BY <3>1, <3>2, <3>3 DEF at
    <3>. QED  BY <3>2, <3>4 DEF todo, at
  <2>8. Parses(x.file)
    <3>1. Len(x.todo) # 0
      BY <2>7
    <3>. QED  BY <2>4, <3>1 DEF Sound
  <2>9. /\ \A q \in DOMAIN x.todo : x.todo[q] \in 1..Len(x.file.records)
        /\ \A q, r \in DOMAIN x.todo : q < r => x.todo[q] < x.todo[r]
        /\ Len(x.file.records) \in Nat
    <3>1. x.file.records \in Seq(Seq(Cell))
      BY <1>1, <2>3, Parts
    <3>. HIDE DEF x
    <3>2. TeamsSorted(x.file, Len(x.file.records), x.todo)
      BY <2>4, <2>8 DEF Sound
    <3>3. Len(x.file.records) \in Nat
      BY <3>1
    <3>. QED  BY <3>2, <3>3 DEF TeamsSorted
  <2>10. i \in 1..Len(x.file.records) /\ i < teams[t].row /\ teams[t].row \in Nat
    <3>1. teams[t].row \in 1..Len(x.file.records)
      BY <2>5, <2>7, <2>9
    <3>. QED  BY <2>9, <3>1
  <2>11. PICK q \in DOMAIN x.todo : x.todo[q] = i
    BY <1>1, <2>3, <2>8, <2>10, RowSettled
  <2>12. q \in Past(x)
    <3>1. q \in Nat /\ p \in Nat /\ q # 0
      BY <2>7
    <3>2. ~(p < q) /\ p # q
      BY <2>5, <2>7, <2>9, <2>10, <2>11
    <3>. QED  BY <2>6, <2>7, <3>1, <3>2 DEF Past
  <2>13. PICK s \in Stored(u, i) : TRUE
    BY <1>1, <2>3, <2>8, <2>10, <2>11, <2>12, RowSettled
  <2>14. s \in DOMAIN teams /\ teams[s].upload = u /\ teams[s].row = i
    BY <2>13 DEF Stored
  <2>15. ~(t < s) /\ s # t
    BY <2>4, <2>10, <2>14 DEF Accounts
  <2>. QED  BY <2>4, <2>13, <2>14, <2>15
<1>. QED  BY <1>1, ImportInvCorrect, PTL

\* An error that the server has answered is one that stored nothing.
THEOREM AnsweredErrorStoredNothingCorrect == ImportSpec => []AnsweredErrorStoredNothing
<1>1. ASSUME ImportInv
      PROVE  AnsweredErrorStoredNothing
  <2>. SUFFICES ASSUME NEW c \in Client, page[c].shows = "error", page[c].upload # 0,
                       NEW t \in DOMAIN teams, teams[t].upload = page[c].upload
                PROVE  FALSE
    BY DEF AnsweredErrorStoredNothing
  <2>. DEFINE u == page[c].upload
              x == uploads[u]
  <2>1. u \in DOMAIN uploads /\ ~Parses(x.file)
    BY <1>1 DEF ImportInv, Pages
  <2>2. x \in Work /\ Sound(x) /\ Accounts(u, x, teams)
    BY <1>1, <2>1, Parts
  <2>3. x.todo = <<>> /\ x.at \in 1..1
    BY <2>1, <2>2 DEF Sound
  <2>4. Past(x) = {}
    BY <2>3 DEF Past
  <2>. QED  BY <2>2, <2>4 DEF Accounts
<1>. QED  BY <1>1, ImportInvCorrect, PTL

\* A problem is numbered by its row as long as no row without a name came before.
THEOREM ProblemsNameRowsCorrect == ImportSpec => []ProblemsNameRows
<1>1. ASSUME ImportInv
      PROVE  ProblemsNameRows
  <2>. SUFFICES ASSUME NEW u \in DOMAIN uploads, NEW k \in DOMAIN uploads[u].problems,
                       uploads[u].problems[k].row # uploads[u].problems[k].failed,
                       \A i \in 1..(uploads[u].problems[k].failed - 1) : Named(uploads[u].file, i)
                PROVE  FALSE
    BY DEF ProblemsNameRows, Named
  <2>. DEFINE x == uploads[u]
              p == x.problems[k].row
              r == x.problems[k].failed
  <2>1. x \in Work /\ Sound(x) /\ x.file \in File /\ x.file.records \in Seq(Seq(Cell))
    BY <1>1, Parts
  <2>2. p \in Past(x) /\ r = x.todo[p]
    BY <2>1 DEF Sound
  <2>3. /\ x.todo \in Seq(Nat) /\ x.at \in 1..(Len(x.todo) + 1) /\ x.at \in Nat
    BY <2>1, WorkFields DEF Sound
  <2>4. Len(x.todo) \in Nat /\ DOMAIN x.todo = 1..Len(x.todo) /\ p \in DOMAIN x.todo
    BY <2>2, <2>3 DEF Past
  <2>5. Parses(x.file)
    <3>1. Len(x.todo) # 0
      BY <2>4
    <3>. QED  BY <2>1, <3>1 DEF Sound
  <2>6. TeamsSorted(x.file, Len(x.file.records), x.todo)
    BY <2>1, <2>5 DEF Sound
  <2>7. r \in 1..Len(x.file.records) /\ Named(x.file, r)
    BY <2>2, <2>4, <2>6 DEF TeamsSorted
  <2>8. \A i \in 1..r : Named(x.file, i)
    <3>1. \A i \in 1..r : i \in 1..(r - 1) \/ i = r
      BY <2>7
    <3>. QED  BY <2>7, <3>1
  <2>9. r \in DOMAIN x.todo /\ x.todo[r] = r
    BY <2>6, <2>7, <2>8 DEF TeamsSorted
  <2>10. \A q, s \in DOMAIN x.todo : q < s => x.todo[q] < x.todo[s]
    BY <2>6 DEF TeamsSorted
  <2>11. ~(p < r) /\ ~(r < p)
    <3>1. r \in Nat
      BY <2>7
    <3>. QED  BY <2>2, <2>4, <2>9, <2>10, <3>1
  <2>. QED  BY <2>4, <2>7, <2>11
<1>. QED  BY <1>1, ImportInvCorrect, PTL

-----------------------------------------------------------------------------
(* The schedule: courses, heats and requests, at every moment.             *)

Heat == [course : Course, at : Int, offset : Int]

Storing == [call : {"UpdateCourse"}, course : Course, row : Row, announces : BOOLEAN]

Announcing == [call : {"broadcast"}, course : Course, delay : Delay]

ScheduleType ==
    /\ courses \in [Course -> Row]
    /\ heats \in Seq(Heat)
    /\ req \in [Request -> {Idle} \cup Storing \cup Announcing]
    /\ view \in [rows : Seq(Course), delays : Seq(Delay)]
    /\ overlapped \subseteq Course /\ doubtful \subseteq Course
    /\ announced \in [Course -> Delay]

\* Request q updates course c.
Busy(q, c) == req[q] # Idle /\ req[q].course = c

\* A request that updates course c alone stores another delay only if it will announce it, and
\* announces the one it stored.
AloneInv(c) ==
    /\ \A q, r \in Request : Busy(q, c) /\ Busy(r, c) => q = r
    /\ \A q \in Request : Busy(q, c) =>
          /\ req[q].call = "UpdateCourse" /\ ~req[q].announces =>
                req[q].row.delay = courses[c].delay
          /\ req[q].call = "broadcast" => req[q].delay = courses[c].delay

\* A delay that is not doubtful is the one that was announced, except between the UPDATE and
\* the broadcast of a request that is alone.
SettledInv(c) ==
    /\ c \notin overlapped
    /\ ~Updating(c) => announced[c] = courses[c].delay
    /\ \A q \in Request : Busy(q, c) /\ req[q].call = "UpdateCourse" =>
          announced[c] = courses[c].delay

CourseInv(c) == (c \notin overlapped => AloneInv(c)) /\ (c \notin doubtful => SettledInv(c))

DelayInv == \A c \in Course : CourseInv(c)

\* The rows that have been shown are the first ones.
ViewInv == Len(view.delays) <= Len(view.rows) /\ ViewMovesTogether

ScheduleInv == ScheduleType /\ DelayInv /\ ViewInv

\* A request sets its fields in a row and keeps the others.
LEMMA WithRow ==
    ASSUME NEW row \in Row, NEW body \in Body
    PROVE  /\ With(row, body) \in Row
           /\ "delay" \notin DOMAIN body => With(row, body).delay = row.delay
<1>. DEFINE new == With(row, body)
<1>1. DOMAIN row = {"interval", "delay"} /\ row.interval \in Interval /\ row.delay \in Delay
  BY DEF Row
<1>2. /\ "interval" \in DOMAIN body => body.interval \in Interval
      /\ "delay" \in DOMAIN body => body.delay \in Delay
  BY DEF Body, Row
<1>3. new = [f \in {"interval", "delay"} |-> IF f \in DOMAIN body THEN body[f] ELSE row[f]]
  BY <1>1 DEF With
<1>. HIDE DEF new
<1>4. /\ DOMAIN new = {"interval", "delay"}
      /\ new.interval = IF "interval" \in DOMAIN body THEN body.interval ELSE row.interval
      /\ new.delay = IF "delay" \in DOMAIN body THEN body.delay ELSE row.delay
  BY <1>3
<1>5. new.interval \in Interval /\ new.delay \in Delay
  BY <1>1, <1>2, <1>4
<1>6. new = [interval |-> new.interval, delay |-> new.delay]
  BY <1>3, <1>4
<1>7. new \in Row
  BY <1>5, <1>6 DEF Row
<1>. QED  BY <1>4, <1>7 DEF new

LEMMA StartsTyped ==
    ASSUME ScheduleType, NEW cs \in Batches, NEW first,
           \A c \in ToSet(cs) : first[c] \in [at : Int, offset : Int]
    PROVE  /\ Starts(cs, first) \in Seq(Heat)
           /\ Len(Starts(cs, first)) = Len(cs)
           /\ Len(cs) \in Nat /\ DOMAIN cs = 1..Len(cs)
           /\ \A i \in DOMAIN cs :
                 /\ cs[i] \in Course /\ cs[i] \in ToSet(cs)
                 /\ Cardinality({j \in 1..(i - 1) : cs[j] = cs[i]}) \in Nat
<1>1. PICK n \in 1..MaxBatch : cs \in [1..n -> Course]
  BY DEF Batches
<1>2. n \in Nat /\ cs \in Seq(Course) /\ Len(cs) = n /\ DOMAIN cs = 1..n
  BY <1>1, CourseAssumption
<1>3. ASSUME NEW i \in 1..n
      PROVE  /\ cs[i] \in Course /\ cs[i] \in ToSet(cs)
             /\ Cardinality({j \in 1..(i - 1) : cs[j] = cs[i]}) \in Nat
  <2>1. cs[i] \in Course /\ cs[i] \in ToSet(cs)
    BY <1>1, <1>2 DEF ToSet
  <2>2. IsFiniteSet(1..(i - 1)) /\ {j \in 1..(i - 1) : cs[j] = cs[i]} \subseteq 1..(i - 1)
    BY FS_Interval
  <2>. QED  BY <2>1, <2>2, FS_Subset, FS_CardinalityType
<1>4. ASSUME NEW i \in 1..n
      PROVE  Starts(cs, first)[i] \in Heat
  <2>. DEFINE before == Cardinality({j \in 1..(i - 1) : cs[j] = cs[i]})
              a == first[cs[i]].at
              o == first[cs[i]].offset
              iv == courses[cs[i]].interval
  <2>1. a \in Int /\ o \in Int
    BY <1>3
  <2>2. iv \in Nat
    BY <1>3, CourseAssumption DEF ScheduleType, Row
  <2>3. before \in Nat
    BY <1>3
  <2>4. Starts(cs, first)[i] = [course |-> cs[i], offset |-> o, at |-> a + before * iv]
    BY <1>2 DEF Starts
  <2>. HIDE DEF before, a, o, iv
  <2>5. a + before * iv \in Int
    BY <2>1, <2>2, <2>3
  <2>6. cs[i] \in Course
    BY <1>3
  <2>. DEFINE c == cs[i]
              at == a + before * iv
  <2>. HIDE DEF c, at
  <2>7. [course |-> c, offset |-> o, at |-> at] \in Heat
    BY <2>1, <2>5, <2>6 DEF Heat, c, at
  <2>. QED  BY <2>4, <2>7 DEF c, at
<1>5. Starts(cs, first) \in [1..n -> Heat]
  <2>. DEFINE st == Starts(cs, first)
              D == 1..n
  <2>1. DOMAIN st = D /\ st = [i \in D |-> st[i]]
    BY <1>2 DEF Starts
  <2>2. \A i \in D : st[i] \in Heat
    BY <1>4
  <2>3. st \in [D -> Heat]
    <3>. HIDE DEF st, D
    <3>. QED  BY <2>1, <2>2
  <2>. QED  BY <2>3
<1>6. Starts(cs, first) \in Seq(Heat) /\ Len(Starts(cs, first)) = n
  <2>. DEFINE st == Starts(cs, first)
  <2>1. st \in [1..n -> Heat]
    BY <1>5
  <2>. HIDE DEF st
  <2>2. st \in Seq(Heat) /\ Len(st) = n
    BY <1>2, <2>1
  <2>. QED  BY <2>2 DEF st
<1>. QED  BY <1>2, <1>3, <1>6

\* Texts are in a total order, in which one of the heats of a course is the last.
LEMMA TextOrder ==
    ASSUME NEW s \in Heat, NEW t \in Heat, NEW w \in Heat
    PROVE  /\ ~TextBefore(s, s)
           /\ TextBefore(s, t) => ~TextBefore(t, s)
           /\ TextBefore(s, t) /\ ~TextBefore(s, w) => ~TextBefore(t, w)
<1>1. /\ s.at \in Int /\ s.offset \in Int /\ t.at \in Int /\ t.offset \in Int
      /\ w.at \in Int /\ w.offset \in Int
  BY DEF Heat
<1>2. \A o \in Int : Suffix(o) \in Int
  BY DEF Suffix
<1>3. Suffix(s.offset) \in Int /\ Suffix(t.offset) \in Int /\ Suffix(w.offset) \in Int
  BY <1>1, <1>2
<1>. QED  BY <1>1, <1>3 DEF TextBefore

LEMMA LatestIs ==
    ASSUME ScheduleType, NEW c \in Course, HeatsOn(c) # {}
    PROVE  /\ Latest(c) \in HeatsOn(c)
           /\ \A k \in HeatsOn(c) : ~TextBefore(heats[Latest(c)], heats[k])
<1>. DEFINE H == HeatsOn(c)
            Latter(h, n) == h \in H /\ h <= n /\
                            \A k \in H : k <= n => ~TextBefore(heats[h], heats[k])
            T == {n \in Nat : (\E k \in H : k <= n) => \E h \in H : Latter(h, n)}
<1>1. \A h \in H : h \in 1..Len(heats) /\ heats[h] \in Heat
  BY DEF HeatsOn, ScheduleType
<1>2. Len(heats) \in Nat /\ \A h \in H : h \in Nat /\ h # 0
  BY <1>1 DEF ScheduleType
<1>. HIDE DEF H
<1>3. 0 \in T
  BY <1>2
<1>4. ASSUME NEW n \in Nat, n \in T
      PROVE  n + 1 \in T
  <2>. SUFFICES ASSUME \E k \in H : k <= n + 1 PROVE \E h \in H : Latter(h, n + 1)
    OBVIOUS
  <2>1. \A k \in H : k <= n + 1 <=> k <= n \/ k = n + 1
    BY <1>2
  <2>2. CASE n + 1 \notin H
    <3>1. PICK h \in H : Latter(h, n)
      BY <1>4, <2>1, <2>2
    <3>. QED  BY <2>1, <2>2, <3>1
  <2>3. CASE n + 1 \in H /\ \E k \in H : k <= n
    <3>1. PICK h \in H : Latter(h, n)
      BY <1>4, <2>3
    <3>2. CASE TextBefore(heats[h], heats[n + 1])
      <4>1. ASSUME NEW k \in H, k <= n + 1
            PROVE  ~TextBefore(heats[n + 1], heats[k])
        <5>1. heats[h] \in Heat /\ heats[n + 1] \in Heat /\ heats[k] \in Heat
          BY <1>1, <2>3
        <5>2. CASE k <= n
          BY <3>1, <3>2, <5>1, <5>2, TextOrder
        <5>3. CASE k = n + 1
          BY <5>1, <5>3, TextOrder
        <5>. QED  BY <2>1, <4>1, <5>2, <5>3
      <4>2. Latter(n + 1, n + 1)
        BY <2>3, <4>1
      <4>. QED  BY <2>3, <4>2
    <3>3. CASE ~TextBefore(heats[h], heats[n + 1])
      BY <2>1, <3>1, <3>3
    <3>. QED  BY <3>2, <3>3
  <2>4. CASE n + 1 \in H /\ ~\E k \in H : k <= n
    <3>1. \A k \in H : k <= n + 1 => k = n + 1
      BY <2>1, <2>4
    <3>2. ~TextBefore(heats[n + 1], heats[n + 1])
      BY <1>1, <2>4, TextOrder
    <3>3. Latter(n + 1, n + 1)
      BY <2>4, <3>1, <3>2
    <3>. QED  BY <2>4, <3>3
  <2>. QED  BY <2>2, <2>3, <2>4
<1>5. Len(heats) \in T
  <2>. HIDE DEF T
  <2>. QED  BY <1>2, <1>3, <1>4, Induction
<1>6. \A k \in H : k <= Len(heats)
  BY <1>1, <1>2
<1>7. PICK h \in H : \A k \in H : ~TextBefore(heats[h], heats[k])
  BY <1>5, <1>6 DEF H
<1>8. Latest(c) = CHOOSE l \in H : \A k \in H : ~TextBefore(heats[l], heats[k])
  BY DEF Latest, H
<1>9. Latest(c) \in H /\ \A k \in H : ~TextBefore(heats[Latest(c)], heats[k])
  BY <1>7, <1>8
<1>. QED  BY <1>9 DEF H

LEMMA AnchorTyped ==
    ASSUME ScheduleType, NEW c \in Course, NEW now \in Instant
    PROVE  Anchor(c, now) \in [at : Int, offset : Int]
<1>1. CASE HeatsOn(c) = {}
  BY <1>1, CourseAssumption DEF Anchor
<1>2. CASE HeatsOn(c) # {}
  <2>. DEFINE h == heats[Latest(c)]
              iv == courses[c].interval
  <2>1. h \in Heat
    BY <1>2, LatestIs DEF HeatsOn, ScheduleType
  <2>2. h.at \in Int /\ h.offset \in Int
    BY <2>1 DEF Heat
  <2>3. iv \in Int
    <3>1. courses[c] \in Row
      BY DEF ScheduleType
    <3>2. iv \in Interval
      BY <3>1 DEF Row
    <3>3. \A x \in Interval : x \in Int
      BY CourseAssumption
    <3>. QED  BY <3>2, <3>3
  <2>4. Anchor(c, now) = [at |-> h.at + iv, offset |-> h.offset]
    BY <1>2 DEF Anchor
  <2>. HIDE DEF h, iv
  <2>. QED  BY <2>2, <2>3, <2>4
<1>. QED  BY <1>1, <1>2

\* What a request may be doing.
LEMMA Calls ==
    ASSUME ScheduleType, NEW q \in Request
    PROVE  /\ req[q] = Idle \/ req[q] \in Storing \/ req[q] \in Announcing
           /\ req[q] \in Storing => /\ req[q] # Idle /\ req[q].call = "UpdateCourse"
                                    /\ req[q].course \in Course /\ req[q].row \in Row
                                    /\ req[q].row.delay \in Delay
                                    /\ req[q].announces \in BOOLEAN
           /\ req[q] \in Announcing => /\ req[q] # Idle /\ req[q].call = "broadcast"
                                       /\ req[q].course \in Course /\ req[q].delay \in Delay
           /\ req[q] = Idle => req[q].call = "none"
<1>1. req[q] = Idle \/ req[q] \in Storing \/ req[q] \in Announcing
  BY DEF ScheduleType
<1>2. Idle.call = "none"
  BY DEF Idle
<1>3. \A x \in Storing : /\ x.call = "UpdateCourse" /\ x.course \in Course /\ x.row \in Row
                         /\ x.announces \in BOOLEAN
  BY DEF Storing
<1>4. \A x \in Announcing : x.call = "broadcast" /\ x.course \in Course /\ x.delay \in Delay
  BY DEF Announcing
<1>5. \A x \in Row : x.delay \in Delay
  BY DEF Row
<1>. QED  BY <1>1, <1>2, <1>3, <1>4, <1>5

LEMMA ScheduleInitInv == Init => ScheduleInv
<1>. SUFFICES ASSUME Init PROVE ScheduleInv
  OBVIOUS
<1>1. /\ courses \in [Course -> Row] /\ heats \in Seq(Heat)
      /\ overlapped = {} /\ doubtful = {} /\ announced \in [Course -> Delay]
  BY CourseAssumption DEF Init, Row
<1>2. \A c \in Course : announced[c] = 0 /\ courses[c].delay = 0
  BY DEF Init
<1>3. \A q \in Request : req[q] = Idle
  BY DEF Init
<1>4. req \in [Request -> {Idle} \cup Storing \cup Announcing]
  BY DEF Init
<1>5. view \in [rows : Seq(Course), delays : Seq(Delay)] /\ view.rows = <<>> /\ view.delays = <<>>
  BY DEF Init, NoView
<1>6. DelayInv
  BY <1>1, <1>2, <1>3 DEF DelayInv, CourseInv, AloneInv, SettledInv, Busy
<1>7. ViewInv
  BY <1>5 DEF ViewInv, ViewMovesTogether
<1>. QED  BY <1>1, <1>4, <1>5, <1>6, <1>7 DEF ScheduleInv, ScheduleType

\* A step that does not concern course d keeps what is known about it.
LEMMA OtherCourse ==
    ASSUME NEW d \in Course, CourseInv(d),
           \A r \in Request : Busy(r, d)' <=> Busy(r, d),
           \A r \in Request : Busy(r, d) => req'[r] = req[r],
           courses'[d] = courses[d], announced'[d] = announced[d],
           d \in overlapped' <=> d \in overlapped, d \in doubtful' <=> d \in doubtful
    PROVE  CourseInv(d)'
<1>1. Updating(d)' <=> Updating(d)
  BY DEF Updating, Busy
<1>2. AloneInv(d) => AloneInv(d)'
  BY DEF AloneInv
<1>3. SettledInv(d) => SettledInv(d)'
  BY <1>1 DEF SettledInv
<1>. QED  BY <1>2, <1>3 DEF CourseInv

LEMMA GetCourseInv ==
    ASSUME ScheduleInv, NEW q \in Request, NEW c \in Course, NEW body \in Body,
           GetCourse(q, c, body)
    PROVE  ScheduleInv'
<1>. DEFINE row == With(courses[c], body)
            call == [call |-> "UpdateCourse", course |-> c, row |-> row,
                     announces |-> "delay" \in DOMAIN body]
<1>1. ScheduleType /\ DelayInv /\ ViewInv
  BY DEF ScheduleInv
<1>2. courses[c] \in Row
  BY <1>1 DEF ScheduleType
<1>3. row \in Row /\ ("delay" \notin DOMAIN body => row.delay = courses[c].delay)
  BY <1>2, WithRow
<1>4. /\ req[q] = Idle /\ req' = [req EXCEPT ![q] = call]
      /\ UNCHANGED <<courses, heats, announced, view>>
      /\ overlapped' = IF Updating(c) THEN overlapped \cup {c} ELSE overlapped \ {c}
      /\ doubtful' = IF Updating(c) THEN doubtful \cup {c} ELSE doubtful
  BY DEF GetCourse, StartUpdate
<1>. HIDE DEF row
<1>5. /\ call \in Storing /\ call.course = c /\ call.call = "UpdateCourse" /\ call.row = row
      /\ call.announces = ("delay" \in DOMAIN body) /\ call # Idle
  BY <1>3 DEF Storing, Idle
<1>. HIDE DEF call
<1>6. /\ req' \in [Request -> {Idle} \cup Storing \cup Announcing]
      /\ req'[q] = call /\ \A r \in Request : r # q => req'[r] = req[r]
  BY <1>1, <1>4, <1>5 DEF ScheduleType
<1>7. ScheduleType'
  BY <1>1, <1>4, <1>6 DEF ScheduleType
<1>8. ViewInv'
  BY <1>1, <1>4 DEF ViewInv, ViewMovesTogether
<1>9. CourseInv(c)'
  <2>1. CASE Updating(c)
    <3>1. c \in overlapped' /\ c \in doubtful'
      BY <1>4, <2>1
    <3>. QED  BY <3>1 DEF CourseInv
  <2>2. CASE ~Updating(c)
    <3>1. \A r \in Request : Busy(r, c)' => r = q
      BY <1>6, <2>2 DEF Updating, Busy
    <3>2. AloneInv(c)'
      BY <1>3, <1>4, <1>5, <1>6, <3>1 DEF AloneInv
    <3>3. Updating(c)'
      BY <1>5, <1>6 DEF Updating
    <3>4. c \notin overlapped' /\ (c \notin doubtful' => c \notin doubtful)
      BY <1>4, <2>2
    <3>5. c \notin doubtful => announced[c] = courses[c].delay
      BY <1>1, <2>2 DEF DelayInv, CourseInv, SettledInv
    <3>6. c \notin doubtful' => SettledInv(c)'
      BY <1>4, <3>3, <3>4, <3>5 DEF SettledInv
    <3>. QED  BY <3>2, <3>6 DEF CourseInv
  <2>. QED  BY <2>1, <2>2
<1>10. ASSUME NEW d \in Course, d # c
       PROVE  CourseInv(d)'
  <2>1. \A r \in Request : Busy(r, d)' <=> Busy(r, d)
    BY <1>4, <1>5, <1>6, <1>10 DEF Busy
  <2>2. \A r \in Request : Busy(r, d) => req'[r] = req[r]
    BY <1>4, <1>6 DEF Busy
  <2>3. (d \in overlapped' <=> d \in overlapped) /\ (d \in doubtful' <=> d \in doubtful)
    BY <1>4, <1>10
  <2>4. CourseInv(d)
    BY <1>1 DEF DelayInv
  <2>. QED  BY <1>4, <2>1, <2>2, <2>3, <2>4, OtherCourse
<1>11. DelayInv'
  BY <1>9, <1>10 DEF DelayInv
<1>. QED  BY <1>7, <1>8, <1>11 DEF ScheduleInv

\* A request on course c goes on or ends; the other courses are not concerned.
LEMMA RequestStep ==
    ASSUME ScheduleInv, NEW q \in Request, NEW c \in Course, Busy(q, c),
           NEW call \in {Idle} \cup Announcing, call # Idle => call.course = c,
           req' = [req EXCEPT ![q] = call], UNCHANGED <<heats, view, overlapped>>,
           courses' \in [Course -> Row], \A d \in Course : d # c => courses'[d] = courses[d],
           announced' \in [Course -> Delay],
           \A d \in Course : d # c => announced'[d] = announced[d],
           doubtful' \subseteq Course,
           \A d \in Course : d # c => (d \in doubtful' <=> d \in doubtful),
           c \notin overlapped /\ call # Idle => call.delay = courses'[c].delay,
           c \notin doubtful' => c \notin overlapped,
           c \notin doubtful' /\ call = Idle => announced'[c] = courses'[c].delay
    PROVE  ScheduleInv'
<1>1. ScheduleType /\ DelayInv /\ ViewInv
  BY DEF ScheduleInv
<1>2. /\ req' \in [Request -> {Idle} \cup Storing \cup Announcing]
      /\ req'[q] = call /\ \A r \in Request : r # q => req'[r] = req[r]
  BY <1>1 DEF ScheduleType
<1>3. ScheduleType'
  BY <1>1, <1>2 DEF ScheduleType
<1>4. ViewInv'
  BY <1>1 DEF ViewInv, ViewMovesTogether
<1>5. call # Idle => call.call = "broadcast"
  BY DEF Announcing
<1>6. CourseInv(c)'
  <2>1. CASE c \in overlapped
    BY <2>1 DEF CourseInv
  <2>2. CASE c \notin overlapped
    <3>1. \A r \in Request : Busy(r, c) => r = q
      BY <1>1, <2>2 DEF DelayInv, CourseInv, AloneInv
    <3>2. \A r \in Request : Busy(r, c)' => r = q /\ call # Idle
      BY <1>2, <3>1 DEF Busy
    <3>3. AloneInv(c)'
      BY <1>2, <1>5, <2>2, <3>2 DEF AloneInv
    <3>4. call # Idle => Updating(c)'
      BY <1>2 DEF Updating
    <3>5. c \notin doubtful' => SettledInv(c)'
      BY <1>2, <1>5, <2>2, <3>2, <3>4 DEF SettledInv
    <3>. QED  BY <3>3, <3>5 DEF CourseInv
  <2>. QED  BY <2>1, <2>2
<1>7. ASSUME NEW d \in Course, d # c
      PROVE  CourseInv(d)'
  <2>1. ~Busy(q, d) /\ ~Busy(q, d)'
    BY <1>2, <1>7 DEF Busy
  <2>2. \A r \in Request : Busy(r, d)' <=> Busy(r, d)
    BY <1>2, <2>1 DEF Busy
  <2>3. \A r \in Request : Busy(r, d) => req'[r] = req[r]
    BY <1>2, <2>1
  <2>4. CourseInv(d)
    BY <1>1 DEF DelayInv
  <2>. QED  BY <1>7, <2>2, <2>3, <2>4, OtherCourse
<1>8. DelayInv'
  BY <1>6, <1>7 DEF DelayInv
<1>. QED  BY <1>3, <1>4, <1>8 DEF ScheduleInv

LEMMA UpdateCourseInv ==
    ASSUME ScheduleInv, NEW q \in Request, UpdateCourse(q)
    PROVE  ScheduleInv'
<1>. DEFINE c == req[q].course
            row == req[q].row
            call == IF ~req[q].announces THEN Idle
                    ELSE [call |-> "broadcast", course |-> c, delay |-> row.delay]
<1>1. ScheduleType /\ DelayInv
  BY DEF ScheduleInv
<1>2. /\ req[q].call = "UpdateCourse" /\ courses' = [courses EXCEPT ![c] = row]
      /\ req' = [req EXCEPT ![q] = call] /\ UNCHANGED <<heats, announced, view, overlapped, doubtful>>
  BY DEF UpdateCourse, history
<1>3. req[q] \in Storing
  BY <1>1, <1>2, Calls
<1>4. /\ req[q] # Idle /\ c \in Course /\ row \in Row /\ row.delay \in Delay
      /\ req[q].announces \in BOOLEAN
  BY <1>1, <1>3, Calls
<1>5. Busy(q, c)
  BY <1>4 DEF Busy
<1>6. /\ courses' \in [Course -> Row] /\ courses'[c] = row
      /\ \A d \in Course : d # c => courses'[d] = courses[d]
  BY <1>1, <1>2, <1>4 DEF ScheduleType
<1>7. CourseInv(c)
  BY <1>1, <1>4 DEF DelayInv
<1>8. announced' \in [Course -> Delay] /\ announced' = announced
  BY <1>1, <1>2 DEF ScheduleType
<1>9. CASE req[q].announces
  <2>. DEFINE next == [call |-> "broadcast", course |-> c, delay |-> row.delay]
  <2>1. next \in Announcing /\ next # Idle /\ next.course = c /\ next.delay = row.delay
    BY <1>4 DEF Announcing, Idle
  <2>2. req' = [req EXCEPT ![q] = next]
    BY <1>2, <1>9
  <2>3. next.delay = courses'[c].delay /\ (c \notin doubtful' => c \notin overlapped)
    BY <1>2, <1>6, <1>7, <2>1 DEF CourseInv, SettledInv
  <2>4. \A d \in Course : d # c => announced'[d] = announced[d]
    BY <1>8
  <2>5. UNCHANGED <<heats, view, overlapped, doubtful>> /\ doubtful' \subseteq Course
    BY <1>1, <1>2 DEF ScheduleType
  <2>. HIDE DEF next, c, row, call
  <2>. QED  BY <1>4, <1>5, <1>6, <1>8, <2>1, <2>2, <2>3, <2>4, <2>5, RequestStep
<1>10. CASE ~req[q].announces
  <2>1. req' = [req EXCEPT ![q] = Idle]
    BY <1>2, <1>10
  <2>2. c \notin doubtful' => (c \notin overlapped /\ announced'[c] = courses'[c].delay)
    BY <1>2, <1>5, <1>6, <1>7, <1>8, <1>10 DEF CourseInv, SettledInv, AloneInv
  <2>3. \A d \in Course : d # c => announced'[d] = announced[d]
    BY <1>8
  <2>4. UNCHANGED <<heats, view, overlapped, doubtful>> /\ doubtful' \subseteq Course
    BY <1>1, <1>2 DEF ScheduleType
  <2>. HIDE DEF c, row, call
  <2>. QED  BY <1>4, <1>5, <1>6, <1>8, <2>1, <2>2, <2>3, <2>4, RequestStep
<1>. QED  BY <1>4, <1>9, <1>10

LEMMA UpdateFailsInv ==
    ASSUME ScheduleInv, NEW q \in Request, UpdateFails(q)
    PROVE  ScheduleInv'
<1>. DEFINE c == req[q].course
<1>1. ScheduleType /\ DelayInv
  BY DEF ScheduleInv
<1>2. /\ req[q].call = "UpdateCourse" /\ req' = [req EXCEPT ![q] = Idle]
      /\ UNCHANGED <<courses, heats, announced, view, overlapped, doubtful>>
  BY DEF UpdateFails, history
<1>3. req[q] \in Storing
  BY <1>1, <1>2, Calls
<1>4. req[q] # Idle /\ c \in Course
  BY <1>1, <1>3, Calls
<1>5. Busy(q, c)
  BY <1>4 DEF Busy
<1>6. CourseInv(c)
  BY <1>1, <1>4 DEF DelayInv
<1>7. c \notin doubtful' => c \notin overlapped /\ announced'[c] = courses'[c].delay
  BY <1>2, <1>5, <1>6 DEF CourseInv, SettledInv
<1>8. /\ courses' \in [Course -> Row] /\ announced' \in [Course -> Delay]
      /\ doubtful' \subseteq Course
  BY <1>1, <1>2 DEF ScheduleType
<1>. HIDE DEF c
<1>. QED  BY <1>2, <1>4, <1>5, <1>7, <1>8, RequestStep

LEMMA BroadcastInv ==
    ASSUME ScheduleInv, NEW q \in Request, Broadcast(q)
    PROVE  ScheduleInv'
<1>. DEFINE c == req[q].course
            delay == req[q].delay
<1>1. ScheduleType /\ DelayInv
  BY DEF ScheduleInv
<1>2. /\ req[q].call = "broadcast" /\ announced' = [announced EXCEPT ![c] = delay]
      /\ req' = [req EXCEPT ![q] = Idle] /\ UNCHANGED <<courses, heats, view, overlapped>>
      /\ doubtful' = IF c \in overlapped THEN doubtful ELSE doubtful \ {c}
  BY DEF Broadcast
<1>3. req[q] \in Announcing
  BY <1>1, <1>2, Calls
<1>4. req[q] # Idle /\ c \in Course /\ delay \in Delay
  BY <1>1, <1>3, Calls
<1>5. Busy(q, c)
  BY <1>4 DEF Busy
<1>6. CourseInv(c)
  BY <1>1, <1>4 DEF DelayInv
<1>7. /\ announced' \in [Course -> Delay] /\ announced'[c] = delay
      /\ \A d \in Course : d # c => announced'[d] = announced[d]
  BY <1>1, <1>2, <1>4 DEF ScheduleType
<1>8. courses' \in [Course -> Row] /\ courses' = courses
  BY <1>1, <1>2 DEF ScheduleType
<1>9. c \notin doubtful' => c \notin overlapped /\ announced'[c] = courses'[c].delay
  <2>1. ASSUME c \notin overlapped
        PROVE  delay = courses[c].delay
    BY <1>2, <1>5, <1>6, <2>1 DEF CourseInv, AloneInv
  <2>2. c \in overlapped => c \in doubtful
    BY <1>6 DEF CourseInv, SettledInv
  <2>. HIDE DEF c, delay
  <2>. QED  BY <1>2, <1>7, <1>8, <2>1, <2>2
<1>10. UNCHANGED <<heats, view, overlapped>> /\ req' = [req EXCEPT ![q] = Idle]
  BY <1>2
<1>11. \A d \in Course : d # c => courses'[d] = courses[d]
  BY <1>8
<1>12. /\ doubtful' \subseteq Course
       /\ \A d \in Course : d # c => (d \in doubtful' <=> d \in doubtful)
  BY <1>1, <1>2 DEF ScheduleType
<1>. HIDE DEF c, delay
<1>. QED  BY <1>4, <1>5, <1>7, <1>8, <1>9, <1>10, <1>11, <1>12, RequestStep

\* Of the requests that an end of the process stops, those between UPDATE and broadcast leave
\* a doubtful delay.
LEMMA ServerRestartInv ==
    ASSUME ScheduleInv, ServerRestart
    PROVE  ScheduleInv'
<1>1. ScheduleType /\ DelayInv
  BY DEF ScheduleInv
<1>2. /\ \A q \in Request : req'[q] = Idle
      /\ view' = NoView /\ UNCHANGED <<courses, heats, announced, overlapped>>
      /\ doubtful' = doubtful \cup {c \in Course : \E q \in Request :
                                       req[q].call = "broadcast" /\ req[q].course = c}
  BY DEF ServerRestart
<1>3. /\ view' \in [rows : Seq(Course), delays : Seq(Delay)]
      /\ view'.rows = <<>> /\ view'.delays = <<>>
  BY <1>2 DEF NoView
<1>4. ViewInv'
  BY <1>3 DEF ViewInv, ViewMovesTogether
<1>5. ScheduleType'
  <2>1. req' \in [Request -> {Idle} \cup Storing \cup Announcing]
    BY DEF ServerRestart
  <2>2. doubtful' \subseteq Course
    BY <1>1, <1>2 DEF ScheduleType
  <2>. QED  BY <1>1, <1>2, <1>3, <2>1, <2>2 DEF ScheduleType
<1>6. ASSUME NEW c \in Course
      PROVE  CourseInv(c)'
  <2>1. CourseInv(c)
    BY <1>1 DEF DelayInv
  <2>2. \A q \in Request : ~Busy(q, c)'
    BY <1>2 DEF Busy
  <2>3. AloneInv(c)'
    BY <2>2 DEF AloneInv
  <2>4. ASSUME c \notin doubtful'
        PROVE  SettledInv(c)'
    <3>1. c \notin doubtful
      BY <1>2, <2>4
    <3>2. \A q \in Request : Busy(q, c) => req[q].call = "UpdateCourse"
      <4>. SUFFICES ASSUME NEW q \in Request, Busy(q, c)
                    PROVE  req[q].call = "UpdateCourse"
        OBVIOUS
      <4>1. ~(req[q].call = "broadcast" /\ req[q].course = c)
        BY <1>2, <2>4
      <4>. QED  BY <1>1, <4>1, Calls DEF Busy
    <3>3. announced[c] = courses[c].delay /\ c \notin overlapped
      <4>1. SettledInv(c)
        BY <2>1, <3>1 DEF CourseInv
      <4>2. CASE Updating(c)
        BY <3>2, <4>1, <4>2 DEF SettledInv, Updating, Busy
      <4>3. CASE ~Updating(c)
        BY <4>1, <4>3 DEF SettledInv
      <4>. QED  BY <4>2, <4>3
    <3>. QED  BY <1>2, <2>2, <3>3 DEF SettledInv
  <2>. QED  BY <2>3, <2>4 DEF CourseInv
<1>7. DelayInv'
  BY <1>6 DEF DelayInv
<1>. QED  BY <1>4, <1>5, <1>7 DEF ScheduleInv

LEMMA HeatsInv ==
    ASSUME ScheduleInv, heats' \in Seq(Heat), UNCHANGED <<courses, req, announced, view, history>>
    PROVE  ScheduleInv'
<1>1. UNCHANGED <<overlapped, doubtful>>
  BY DEF history
<1>2. ScheduleType' /\ ViewInv'
  BY <1>1 DEF ScheduleInv, ScheduleType, ViewInv, ViewMovesTogether
<1>3. DelayInv'
  BY <1>1 DEF ScheduleInv, DelayInv, CourseInv, AloneInv, SettledInv, Busy, Updating
<1>. QED  BY <1>2, <1>3 DEF ScheduleInv

LEMMA ViewStep ==
    ASSUME ScheduleInv, view' \in [rows : Seq(Course), delays : Seq(Delay)], ViewInv',
           UNCHANGED <<courses, heats, req, announced, history>>
    PROVE  ScheduleInv'
<1>1. UNCHANGED <<overlapped, doubtful>>
  BY DEF history
<1>2. ScheduleType'
  BY <1>1 DEF ScheduleInv, ScheduleType
<1>3. DelayInv'
  BY <1>1 DEF ScheduleInv, DelayInv, CourseInv, AloneInv, SettledInv, Busy, Updating
<1>. QED  BY <1>2, <1>3 DEF ScheduleInv

LEMMA SchedulingInv ==
    ASSUME ScheduleInv, NEW cs \in Batches,
           \/ ScheduleHeats(cs)
           \/ \E at \in Instant, offset \in Offset : ScheduleHeatsAt(cs, at, offset)
    PROVE  ScheduleInv'
<1>1. ScheduleType /\ heats \in Seq(Heat)
  BY DEF ScheduleInv, ScheduleType
<1>2. \A i \in DOMAIN cs : cs[i] \in Course
  BY DEF Batches
<1>3. \A c \in ToSet(cs) : c \in Course
  BY <1>2 DEF ToSet
<1>4. ASSUME NEW first, \A c \in ToSet(cs) : first[c] \in [at : Int, offset : Int],
             heats' = heats \o Starts(cs, first)
      PROVE  heats' \in Seq(Heat)
  <2>1. Starts(cs, first) \in Seq(Heat)
    BY <1>1, <1>4, StartsTyped
  <2>. QED  BY <1>1, <1>4, <2>1
<1>5. CASE ScheduleHeats(cs)
  <2>1. PICK now \in Instant :
           heats' = heats \o Starts(cs, [c \in ToSet(cs) |-> Anchor(c, now)])
    BY <1>5 DEF ScheduleHeats
  <2>. DEFINE first == [c \in ToSet(cs) |-> Anchor(c, now)]
  <2>2. \A c \in ToSet(cs) : first[c] \in [at : Int, offset : Int]
    BY <1>1, <1>3, AnchorTyped
  <2>3. heats' \in Seq(Heat)
    <3>1. heats' = heats \o Starts(cs, first)
      BY <2>1
    <3>. HIDE DEF first
    <3>. QED  BY <1>4, <2>2, <3>1
  <2>. QED  BY <1>5, <2>3, HeatsInv DEF ScheduleHeats
<1>6. CASE \E at \in Instant, offset \in Offset : ScheduleHeatsAt(cs, at, offset)
  <2>1. PICK at \in Instant, offset \in Offset : ScheduleHeatsAt(cs, at, offset)
    BY <1>6
  <2>. DEFINE first == [c \in ToSet(cs) |-> [at |-> at, offset |-> offset]]
  <2>2. \A c \in ToSet(cs) : first[c] \in [at : Int, offset : Int]
    <3>1. at \in Int /\ offset \in Int
      BY CourseAssumption
    <3>. QED  BY <3>1
  <2>3. heats' \in Seq(Heat)
    <3>1. heats' = heats \o Starts(cs, first)
      BY <2>1 DEF ScheduleHeatsAt
    <3>. HIDE DEF first
    <3>. QED  BY <1>4, <2>2, <3>1
  <2>. QED  BY <2>1, <2>3, HeatsInv DEF ScheduleHeatsAt
<1>. QED  BY <1>5, <1>6

LEMMA UpdateHeatInv ==
    ASSUME ScheduleInv, NEW h \in DOMAIN heats, NEW at \in Instant, NEW offset \in Offset,
           UpdateHeat(h, at, offset)
    PROVE  ScheduleInv'
<1>. DEFINE moved == [heats[h] EXCEPT !.at = at, !.offset = offset]
<1>1. heats \in Seq(Heat) /\ heats[h] \in Heat
  BY DEF ScheduleInv, ScheduleType
<1>2. moved \in Heat
  <2>1. at \in Int /\ offset \in Int
    BY CourseAssumption
  <2>. QED  BY <1>1, <2>1 DEF Heat
<1>3. heats' = [heats EXCEPT ![h] = moved]
  BY <1>1 DEF UpdateHeat, Heat
<1>. HIDE DEF moved
<1>4. heats' \in Seq(Heat)
  BY <1>1, <1>2, <1>3
<1>. QED  BY <1>4, HeatsInv DEF UpdateHeat

LEMMA ListHeatsInv ==
    ASSUME ScheduleInv, ListHeatsForTournament
    PROVE  ScheduleInv'
<1>1. heats \in Seq(Heat)
  BY DEF ScheduleInv, ScheduleType
<1>2. PICK order \in SetToSeqs(DOMAIN heats) :
         view' = [view EXCEPT !.rows = [i \in DOMAIN order |-> heats[order[i]].course]]
  BY DEF ListHeatsForTournament
<1>. DEFINE n == Cardinality(DOMAIN heats)
            rows == [i \in DOMAIN order |-> heats[order[i]].course]
<1>3. n \in Nat
  BY <1>1, FS_Interval, FS_CardinalityType
<1>4. order \in [1..n -> DOMAIN heats]
  BY DEF SetToSeqs
<1>5. \A h \in DOMAIN heats : heats[h].course \in Course
  <2>1. \A h \in DOMAIN heats : heats[h] \in Heat
    BY <1>1
  <2>. QED  BY <2>1 DEF Heat
<1>. HIDE DEF n
<1>6. rows \in Seq(Course)
  <2>1. rows \in [1..n -> Course]
    BY <1>4, <1>5
  <2>. QED  BY <1>3, <2>1
<1>. HIDE DEF rows
<1>7. view' = [rows |-> rows, delays |-> <<>>]
  BY <1>2 DEF ListHeatsForTournament, NoView, rows
<1>8. view' \in [rows : Seq(Course), delays : Seq(Delay)]
  BY <1>6, <1>7
<1>9. ViewInv'
  <2>1. view'.rows = rows /\ view'.delays = <<>>
    BY <1>7
  <2>2. Len(rows) \in Nat
    BY <1>6
  <2>. QED  BY <2>1, <2>2 DEF ViewInv, ViewMovesTogether
<1>. QED  BY <1>8, <1>9, ViewStep DEF ListHeatsForTournament

LEMMA ShowHeatInv ==
    ASSUME ScheduleInv, ShowHeat
    PROVE  ScheduleInv'
<1>. DEFINE rows == view.rows
            delays == view.delays
            n == Len(delays)
            c == rows[n + 1]
            cached == {i \in DOMAIN delays : rows[i] = c}
            delay == IF cached = {} THEN courses[c].delay ELSE delays[CHOOSE i \in cached : TRUE]
            new == Append(delays, delay)
<1>1. ScheduleType /\ ViewInv
  BY DEF ScheduleInv
<1>2. view \in [rows : Seq(Course), delays : Seq(Delay)]
  BY <1>1 DEF ScheduleType
<1>3. /\ rows \in Seq(Course) /\ delays \in Seq(Delay) /\ n \in Nat /\ Len(rows) \in Nat
      /\ DOMAIN delays = 1..n
  BY <1>2
<1>4. n < Len(rows) /\ view' = [view EXCEPT !.delays = new]
  BY DEF ShowHeat
<1>5. c \in Course
  BY <1>3, <1>4
<1>6. cached # {} => (CHOOSE i \in cached : TRUE) \in cached
  OBVIOUS
<1>. DEFINE j == CHOOSE i \in cached : TRUE
<1>7. cached # {} => j \in 1..n /\ rows[j] = c /\ delay = delays[j]
  BY <1>3, <1>6
<1>8. delay \in Delay
  <2>1. courses[c].delay \in Delay
    <3>1. courses[c] \in Row
      BY <1>1, <1>5 DEF ScheduleType
    <3>. QED  BY <3>1 DEF Row
  <2>2. \A i \in 1..n : delays[i] \in Delay
    BY <1>3
  <2>. QED  BY <1>7, <2>1, <2>2
<1>9. cached = {} => \A i \in 1..n : rows[i] # c
  BY <1>3
<1>10. \A i, k \in 1..n : rows[i] = rows[k] => delays[i] = delays[k]
  BY <1>1, <1>3 DEF ViewInv, ViewMovesTogether
<1>. HIDE DEF delay, cached, j
<1>11. /\ new \in Seq(Delay) /\ Len(new) = n + 1 /\ DOMAIN new = 1..(n + 1)
       /\ new[n + 1] = delay /\ \A i \in 1..n : new[i] = delays[i]
  BY <1>3, <1>8
<1>. HIDE DEF new
<1>12. /\ view' \in [rows : Seq(Course), delays : Seq(Delay)]
       /\ view'.rows = rows /\ view'.delays = new
  BY <1>2, <1>4, <1>11
<1>. HIDE DEF rows, delays, n
<1>13. \A i \in 1..(n + 1) : i \in 1..n \/ i = n + 1
  BY <1>3
<1>14. \A i \in 1..n : rows[i] = c => delays[i] = delay
  BY <1>7, <1>9, <1>10
<1>15. ASSUME NEW i \in 1..(n + 1), NEW k \in 1..(n + 1), rows[i] = rows[k]
       PROVE  new[i] = new[k]
  <2>1. CASE i \in 1..n /\ k \in 1..n
    BY <1>10, <1>11, <1>15, <2>1
  <2>2. CASE i = n + 1 /\ k \in 1..n
    BY <1>11, <1>14, <1>15, <2>2
  <2>3. CASE i \in 1..n /\ k = n + 1
    BY <1>11, <1>14, <1>15, <2>3
  <2>. QED  BY <1>13, <2>1, <2>2, <2>3
<1>16. ViewInv'
  BY <1>3, <1>4, <1>11, <1>12, <1>15 DEF ViewInv, ViewMovesTogether
<1>. QED  BY <1>12, <1>16, ViewStep DEF ShowHeat

LEMMA GetScheduleInv ==
    ASSUME ScheduleInv, GetSchedule \/ GetScheduleFails
    PROVE  ScheduleInv'
<1>1. view' = NoView /\ UNCHANGED <<courses, heats, req, announced, history>>
  BY DEF GetSchedule, GetScheduleFails
<1>2. /\ view' \in [rows : Seq(Course), delays : Seq(Delay)]
      /\ view'.rows = <<>> /\ view'.delays = <<>>
  BY <1>1 DEF NoView
<1>3. ViewInv'
  BY <1>2 DEF ViewInv, ViewMovesTogether
<1>. QED  BY <1>1, <1>2, <1>3, ViewStep

LEMMA ScheduleNextInv == ScheduleInv /\ [Next]_vars => ScheduleInv'
<1>. SUFFICES ASSUME ScheduleInv, [Next]_vars PROVE ScheduleInv'
  OBVIOUS
<1>1. CASE \E q \in Request : Update(q)
  BY <1>1, GetCourseInv, UpdateCourseInv, UpdateFailsInv, BroadcastInv DEF Update
<1>2. CASE \E cs \in Batches : ScheduleHeats(cs)
  BY <1>2, SchedulingInv
<1>3. CASE \E cs \in Batches, at \in Instant, offset \in Offset : ScheduleHeatsAt(cs, at, offset)
  BY <1>3, SchedulingInv
<1>4. CASE \E h \in DOMAIN heats, at \in Instant, offset \in Offset : UpdateHeat(h, at, offset)
  BY <1>4, UpdateHeatInv
<1>5. CASE ListHeatsForTournament \/ ShowHeat \/ GetSchedule \/ GetScheduleFails
  BY <1>5, ListHeatsInv, ShowHeatInv, GetScheduleInv
<1>6. CASE ServerRestart
  BY <1>6, ServerRestartInv
<1>7. CASE UNCHANGED vars
  <2>1. UNCHANGED <<courses, heats, req, announced, view, history>> /\ heats \in Seq(Heat)
    BY <1>7 DEF vars, ScheduleInv, ScheduleType
  <2>. QED  BY <2>1, HeatsInv
<1>. QED  BY <1>1, <1>2, <1>3, <1>4, <1>5, <1>6, <1>7 DEF Next

LEMMA ScheduleInvCorrect == Spec => []ScheduleInv
BY ScheduleInitInv, ScheduleNextInv, PTL DEF Spec

-----------------------------------------------------------------------------
(* What the schedule promises.                                             *)

\* Whatever overlaps and ends of the process did to it before: after a delay that was set on its
\* own and announced, the delay announced last is the delay the course has.
THEOREM DelayAnnouncedCorrect == Spec => []DelayAnnounced
<1>1. ScheduleInv => DelayAnnounced
  BY DEF ScheduleInv, DelayInv, CourseInv, SettledInv, DelayAnnounced
<1>. QED  BY <1>1, ScheduleInvCorrect, PTL

\* One answer moves all heats of a course by the same delay, however many courses, heats and
\* updates meanwhile.
THEOREM ViewMovesTogetherCorrect == Spec => []ViewMovesTogether
<1>1. ScheduleInv => ViewMovesTogether
  BY DEF ScheduleInv, ViewInv
<1>. QED  BY <1>1, ScheduleInvCorrect, PTL

LEMMA IntervalsApart ==
    ASSUME NEW a \in Nat, NEW b \in Nat, NEW iv \in Nat, a < b
    PROVE  b * iv >= a * iv + iv
<1>1. PICK d \in Nat : b = a + 1 + d
  <2>1. b - a - 1 \in Nat /\ b = a + 1 + (b - a - 1)
    OBVIOUS
  <2>. QED  BY <2>1
<1>2. (a + 1 + d) * iv = a * iv + iv + d * iv
  OBVIOUS
<1>3. d * iv \in Nat /\ a * iv \in Nat
  OBVIOUS
<1>. QED  BY <1>1, <1>2, <1>3

\* The heats of a request on one course are an interval apart, in its order.
LEMMA BeforeGrows ==
    ASSUME NEW cs, NEW j \in Nat, NEW i \in Nat, j < i, j # 0, cs[j] = cs[i]
    PROVE  Cardinality({l \in 1..(j - 1) : cs[l] = cs[j]})
              < Cardinality({l \in 1..(i - 1) : cs[l] = cs[i]})
<1>. DEFINE J == {l \in 1..(j - 1) : cs[l] = cs[j]}
            I == {l \in 1..(i - 1) : cs[l] = cs[i]}
<1>1. IsFiniteSet(1..(i - 1)) /\ IsFiniteSet(1..(j - 1))
  BY FS_Interval
<1>2. J \subseteq 1..(j - 1) /\ I \subseteq 1..(i - 1) /\ j \notin J /\ J \cup {j} \subseteq I
  OBVIOUS
<1>3. IsFiniteSet(I) /\ IsFiniteSet(J)
  BY <1>1, <1>2, FS_Subset
<1>. HIDE DEF I, J
<1>4. Cardinality(J) \in Nat /\ Cardinality(I) \in Nat
  BY <1>3, FS_CardinalityType
<1>5. Cardinality(J \cup {j}) = Cardinality(J) + 1
  BY <1>2, <1>3, FS_AddElement
<1>6. Cardinality(J \cup {j}) <= Cardinality(I)
  BY <1>2, <1>3, FS_Subset
<1>. QED  BY <1>4, <1>5, <1>6 DEF I, J

LEMMA Behind ==
    ASSUME NEW S, NEW a \in Seq(S), NEW b \in Seq(S), NEW ab, ab = a \o b
    PROVE  /\ Len(a) \in Nat /\ DOMAIN a = 1..Len(a) /\ DOMAIN ab = 1..(Len(a) + Len(b))
           /\ \A x \in 1..Len(a) : ab[x] = a[x]
           /\ \A x \in 1..Len(b) : ab[Len(a) + x] = b[x]
OBVIOUS

\* Heats are appended at least an interval behind those that a course has, if its starts are
\* written with one offset.
LEMMA AutoHeatsStep ==
    ASSUME ScheduleInv, NEW cs \in Batches, ScheduleHeats(cs),
           NEW h \in DOMAIN heats' \ DOMAIN heats, NEW k \in DOMAIN heats', k < h,
           heats'[k].course = heats'[h].course, OneOffset(heats'[h].course)
    PROVE  heats'[h].at >= heats'[k].at + courses[heats'[h].course].interval
<1>1. ScheduleType /\ heats \in Seq(Heat)
  BY DEF ScheduleInv, ScheduleType
<1>2. PICK now \in Instant :
         heats' = heats \o Starts(cs, [c \in ToSet(cs) |-> Anchor(c, now)])
  BY DEF ScheduleHeats
<1>. DEFINE first == [c \in ToSet(cs) |-> Anchor(c, now)]
            st == Starts(cs, first)
            n == Len(heats)
            m == Len(cs)
            before(i) == Cardinality({j \in 1..(i - 1) : cs[j] = cs[i]})
<1>3. \A i \in DOMAIN cs : cs[i] \in Course
  BY DEF Batches
<1>4. \A c \in ToSet(cs) : first[c] = Anchor(c, now) /\ first[c] \in [at : Int, offset : Int]
  <2>1. \A c \in ToSet(cs) : c \in Course
    BY <1>3 DEF ToSet
  <2>. QED  BY <1>1, <2>1, AnchorTyped
<1>. HIDE DEF first
<1>5. /\ st \in Seq(Heat) /\ Len(st) = m /\ m \in Nat /\ DOMAIN cs = 1..m
      /\ \A i \in DOMAIN cs : cs[i] \in Course /\ cs[i] \in ToSet(cs) /\ before(i) \in Nat
  BY <1>1, <1>4, StartsTyped
<1>6. \A i \in 1..m : /\ st[i].course = cs[i]
                      /\ st[i].at = first[cs[i]].at + before(i) * courses[cs[i]].interval
  BY <1>5 DEF Starts
<1>. HIDE DEF st, before
<1>7. heats' = heats \o st
  BY <1>2 DEF st, first
<1>8. /\ n \in Nat /\ DOMAIN heats = 1..n /\ DOMAIN heats' = 1..(n + m)
      /\ \A x \in 1..n : heats'[x] = heats[x]
      /\ \A x \in 1..m : heats'[n + x] = st[x]
  <2>. HIDE DEF n, m
  <2>1. heats \in Seq(Heat) /\ st \in Seq(Heat) /\ Len(st) = m
    BY <1>1, <1>5
  <2>2. /\ Len(heats) \in Nat /\ DOMAIN heats = 1..Len(heats)
        /\ DOMAIN heats' = 1..(Len(heats) + Len(st))
        /\ \A x \in 1..Len(heats) : heats'[x] = heats[x]
        /\ \A x \in 1..Len(st) : heats'[Len(heats) + x] = st[x]
    BY <1>7, <2>1, Behind
  <2>. QED  BY <2>1, <2>2 DEF n
<1>9. PICK i \in 1..m : h = n + i
  <2>1. h - n \in 1..m /\ h = n + (h - n)
    BY <1>5, <1>8
  <2>. QED  BY <2>1
<1>. DEFINE c == cs[i]
            iv == courses[c].interval
<1>10. heats'[h] = st[i] /\ heats'[h].course = c /\ c \in Course /\ c \in ToSet(cs)
  BY <1>5, <1>6, <1>8, <1>9
<1>11. iv \in Nat
  <2>1. courses[c] \in Row
    BY <1>1, <1>10 DEF ScheduleType
  <2>2. iv \in Interval
    BY <2>1 DEF Row
  <2>3. \A x \in Interval : x \in Nat
    BY CourseAssumption
  <2>. QED  BY <2>2, <2>3
<1>12. first[c].at \in Int /\ before(i) \in Nat
  BY <1>4, <1>5, <1>10
<1>13. heats'[h].at = first[c].at + before(i) * iv
  BY <1>6, <1>10
<1>14. CASE k \in 1..n
  <2>1. heats'[k] = heats[k] /\ k \in HeatsOn(c) /\ OneOffset(c)
    BY <1>8, <1>10, <1>14 DEF HeatsOn
  <2>. DEFINE l == Latest(c)
  <2>2. l \in HeatsOn(c) /\ ~TextBefore(heats[l], heats[k])
    BY <1>1, <1>10, <2>1, LatestIs
  <2>3. heats[l].offset = heats[k].offset
    BY <2>1, <2>2 DEF OneOffset
  <2>4. heats[l] \in Heat /\ heats[k] \in Heat
    BY <1>1, <1>8, <1>14, <2>2 DEF HeatsOn
  <2>5. heats[l].at \in Int /\ heats[k].at \in Int /\ heats[k].offset \in Int
    BY <2>4 DEF Heat
  <2>. HIDE DEF l
  <2>6. heats[l].at >= heats[k].at
    BY <2>2, <2>3, <2>5 DEF TextBefore
  <2>7. first[c].at = heats[l].at + iv
    <3>1. first[c] = Anchor(c, now)
      BY <1>4, <1>10
    <3>. HIDE DEF c
    <3>2. Anchor(c, now) = [at |-> heats[l].at + iv, offset |-> heats[l].offset]
      BY <2>1 DEF Anchor, l
    <3>. QED  BY <3>1, <3>2
  <2>. DEFINE gap == before(i) * iv
  <2>8. gap \in Nat
    BY <1>11, <1>12
  <2>9. heats'[h].at = first[c].at + gap
    BY <1>13
  <2>. HIDE DEF iv, c, gap
  <2>10. heats'[h].at >= heats'[k].at + iv
    BY <1>11, <2>1, <2>5, <2>6, <2>7, <2>8, <2>9
  <2>. QED  BY <1>10, <2>10 DEF iv
<1>15. CASE k \notin 1..n
  <2>1. PICK j \in 1..m : k = n + j
    <3>1. k - n \in 1..m /\ k = n + (k - n)
      BY <1>5, <1>8, <1>15
    <3>. QED  BY <3>1
  <2>2. heats'[k] = st[j] /\ cs[j] = c
    BY <1>6, <1>8, <1>10, <2>1
  <2>3. j < i /\ j \in Nat /\ i \in Nat /\ j # 0
    BY <1>5, <1>8, <1>9, <2>1
  <2>4. before(j) < before(i) /\ before(j) \in Nat
    BY <1>5, <2>2, <2>3, BeforeGrows DEF before
  <2>5. heats'[k].at = first[c].at + before(j) * iv
    BY <1>6, <2>2
  <2>. HIDE DEF iv, c
  <2>6. before(i) * iv >= before(j) * iv + iv
    BY <1>11, <1>12, <2>4, IntervalsApart
  <2>7. before(i) * iv \in Int /\ before(j) * iv \in Int
    BY <1>11, <1>12, <2>4
  <2>8. heats'[h].at >= heats'[k].at + iv
    BY <1>11, <1>12, <1>13, <2>5, <2>6, <2>7
  <2>. QED  BY <1>10, <2>8 DEF iv
<1>. QED  BY <1>14, <1>15

\* Whatever the batches, the intervals and what was moved by hand: heats that are scheduled
\* without a start go behind those of their courses, an interval apart.
THEOREM AutoHeatsGoLastCorrect == Spec => AutoHeatsGoLast
<1>. DEFINE GoLast == \A cs \in Batches : ScheduleHeats(cs) =>
               \A h \in DOMAIN heats' \ DOMAIN heats, k \in DOMAIN heats' :
                  k < h /\ heats'[k].course = heats'[h].course /\ OneOffset(heats'[h].course) =>
                     heats'[h].at >= heats'[k].at + courses[heats'[h].course].interval
<1>1. ScheduleInv => [GoLast]_vars
  BY AutoHeatsStep
<1>2. AutoHeatsGoLast <=> [][GoLast]_vars
  BY DEF AutoHeatsGoLast
<1>. HIDE DEF GoLast
<1>. QED  BY <1>1, <1>2, ScheduleInvCorrect, PTL
==============================================================================
