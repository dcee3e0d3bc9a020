---------------------------- MODULE ShellProofs -----------------------------
(***************************************************************************)
(* Proofs about the shell: what the path of a command leads to, and what   *)
(* the loops of its commands have moved when they end.                     *)
(***************************************************************************)
EXTENDS Shell, FiniteSetTheorems, TLAPS

-----------------------------------------------------------------------------
(* Induction, and what Normalised computes. *)

\* A nonempty set of numbers has a least one.
LEMMA LeastNatural ==
  ASSUME NEW T \in SUBSET Nat, T # {}
  PROVE  \E x \in T : \A y \in T : x <= y
<1> DEFINE R == {ss \in Nat \X Nat : ss[1] < ss[2]}
<1>1. IsWellFoundedOn(R, Nat)
  BY NatLessThanWellFounded DEF OpToRel
<1> HIDE DEF R
<1>2. PICK x \in T : \A y \in T : ~ (<<y, x>> \in R)
  BY <1>1, WFMin, Zenon
<1>3. ASSUME NEW y \in T, y < x PROVE FALSE
  <2>1. <<y, x>> \in R
    BY <1>3 DEF R
  <2>. QED
    BY <2>1, <1>2
<1>. QED
  BY <1>3

\* Induction up to a bound, for a set.
LEMMA UpTo ==
  ASSUME NEW n \in Nat, NEW G, 0 \in G, \A k \in 0..(n - 1) : k \in G => k + 1 \in G
  PROVE  n \in G
<1>. DEFINE T == {k \in 0..n : k \notin G}
<1>1. SUFFICES ASSUME T # {} PROVE FALSE
  OBVIOUS
<1>2. T \in SUBSET Nat
  OBVIOUS
<1>3. PICK x \in T : \A y \in T : x <= y
  BY <1>1, <1>2, LeastNatural, Zenon
<1>4. x \in 0..n /\ x # 0
  BY <1>3
<1>5. x - 1 \in 0..(n - 1) /\ x - 1 \in 0..n /\ (x - 1) + 1 = x /\ ~(x <= x - 1)
  BY <1>4
<1>6. x - 1 \in G
  BY <1>3, <1>5
<1>. QED
  BY <1>3, <1>5, <1>6

(* f[k] is the stack after k components of p. *)
Stacks(f, p, n) == f = [k \in 0..n |-> IF k = 0 THEN << >> ELSE Step(f[k - 1], p[k])]

\* There are such stacks.
LEMMA StacksExist ==
  ASSUME NEW p, NEW n \in Nat
  PROVE  \E f : Stacks(f, p, n)
<1>. DEFINE G == {k \in Nat : \E f : Stacks(f, p, k)}
<1>1. 0 \in G
  <2>. DEFINE f == [k \in 0..0 |-> << >>]
  <2>1. Stacks(f, p, 0)
    BY DEF Stacks
  <2>. QED
    BY <2>1
<1>2. ASSUME NEW k \in 0..(n - 1), k \in G PROVE k + 1 \in G
  <2>1. PICK f : Stacks(f, p, k)
    BY <1>2
  <2>. DEFINE e == Step(f[k], p[k + 1])
              g == [j \in 0..(k + 1) |-> IF j = k + 1 THEN e ELSE f[j]]
  <2>2. k \in Nat /\ k + 1 # 0 /\ k + 1 \in Nat /\ (k + 1) - 1 = k
    OBVIOUS
  <2>3. ASSUME NEW j \in 0..(k + 1)
        PROVE  g[j] = IF j = 0 THEN << >> ELSE Step(g[j - 1], p[j])
    <3>1. CASE j = k + 1
      <4>1. g[j] = e /\ j - 1 = k /\ g[k] = f[k] /\ j # 0
        BY <3>1, <2>2
      <4>. QED
        BY <4>1, <3>1, Zenon
    <3>2. CASE j # k + 1
      <4>1. j \in 0..k /\ g[j] = f[j] /\ (j # 0 => j - 1 \in 0..k /\ g[j - 1] = f[j - 1])
        BY <3>2, <2>2
      <4>2. f[j] = IF j = 0 THEN << >> ELSE Step(f[j - 1], p[j])
        BY <4>1, <2>1, Zenon DEF Stacks
      <4>. QED
        BY <4>1, <4>2, Zenon
    <3>. QED
      BY <3>1, <3>2
  <2>4. DOMAIN g = 0..(k + 1)
    OBVIOUS
  <2>5. g = [j \in 0..(k + 1) |-> g[j]]
    BY <2>4
  <2>. HIDE DEF g
  <2>6. g = [j \in 0..(k + 1) |-> IF j = 0 THEN << >> ELSE Step(g[j - 1], p[j])]
    BY <2>3, <2>5, Zenon
  <2>7. Stacks(g, p, k + 1)
    BY <2>6, Zenon DEF Stacks
  <2>. QED
    BY <2>2, <2>7, Zenon
<1>. HIDE DEF G
<1>3. n \in G
  BY <1>1, <1>2, UpTo
<1>. QED
  BY <1>3, Zenon DEF G

\* Normalised is the last of the stacks that Step makes from the empty one.
LEMMA NormalisedSteps ==
  ASSUME NEW p, Len(p) \in Nat
  PROVE  \E f : /\ f[0] = << >> /\ Normalised(p) = f[Len(p)]
                /\ \A k \in 0..(Len(p) - 1) : f[k + 1] = Step(f[k], p[k + 1])
<1>. DEFINE n == Len(p)
            f == CHOOSE g : Stacks(g, p, n)
<1>1. Normalised(p) = f[n]
  BY Zenon DEF Normalised, Stacks
<1>2. Stacks(f, p, n)
  <2>1. \E g : Stacks(g, p, n)
    BY StacksExist
  <2>. QED
    BY <2>1, Zenon
<1>. HIDE DEF f
<1>3. 0 \in 0..n /\ \A k \in 0..(n - 1) : k + 1 \in 0..n /\ k + 1 # 0 /\ (k + 1) - 1 = k
  OBVIOUS
<1>. HIDE DEF n
<1>4. f[0] = << >>
  BY <1>2, <1>3, Zenon DEF Stacks
<1>5. ASSUME NEW k \in 0..(n - 1) PROVE f[k + 1] = Step(f[k], p[k + 1])
  BY <1>2, <1>3, Zenon DEF Stacks
<1>. QED
  BY <1>1, <1>4, <1>5, Zenon DEF n

-----------------------------------------------------------------------------
(* Normalised against Named: which components of a path stay. *)

Name(c) == c \notin {".", ".."}
Ups(p, i, j) == Cardinality({k \in (i + 1)..j : p[k] = ".."})
Downs(p, i, j) == Cardinality({k \in (i + 1)..j : p[k] \notin {".", ".."}})

(* Component i is part of what the first n components name *)
StaysIn(p, i, n) == Name(p[i]) /\ \A j \in (i + 1)..n : Ups(p, i, j) <= Downs(p, i, j)

(* The stack s holds the components at x[1] < x[2] < ..., the ones that    *)
(* stay; after each there is a name more than ".." for each place above it *)
(* on the stack.                                                           *)
Holds(p, k, s, x) ==
  /\ Len(s) \in 0..k /\ x \in [1..Len(s) -> 1..k]
  /\ \A n \in 1..Len(s) : s[n] = p[x[n]]
  /\ \A m, n \in 1..Len(s) : m < n => x[m] < x[n]
  /\ \A i \in 1..k : StaysIn(p, i, k) <=> \E n \in 1..Len(s) : x[n] = i
  /\ \A n \in 1..Len(s) : Downs(p, x[n], k) = Ups(p, x[n], k) + (Len(s) - n)

Among(W, i, j) == {k \in (i + 1)..j : k \in W}

\* Counting the members of W in an interval, one number further.
LEMMA OneFurther ==
  ASSUME NEW W, NEW i \in Nat, NEW j \in Nat, i <= j
  PROVE  /\ Cardinality(Among(W, i, j)) \in Nat
         /\ Cardinality(Among(W, i, j + 1))
              = IF j + 1 \in W THEN Cardinality(Among(W, i, j)) + 1 ELSE Cardinality(Among(W, i, j))
<1>. DEFINE A == {k \in (i + 1)..j : k \in W}
            B == {k \in (i + 1)..(j + 1) : k \in W}
<1>1. IsFiniteSet((i + 1)..j)
  BY FS_Interval
<1>2. IsFiniteSet(A) /\ Cardinality(A) \in Nat
  <2>1. A \in SUBSET ((i + 1)..j)
    OBVIOUS
  <2>2. IsFiniteSet(A)
    BY <1>1, <2>1, FS_Subset, Zenon
  <2>. QED
    BY <2>2, FS_CardinalityType, Zenon
<1>3. j + 1 \notin A
  OBVIOUS
<1>4. j + 1 \in W => B = A \cup {j + 1}
  OBVIOUS
<1>5. j + 1 \notin W => B = A
  <2>1. ASSUME NEW k \in (i + 1)..(j + 1), k # j + 1 PROVE k \in (i + 1)..j
    BY <2>1
  <2>2. (i + 1)..j \subseteq (i + 1)..(j + 1)
    OBVIOUS
  <2>. QED
    BY <2>1, <2>2, Zenon
<1>. HIDE DEF A, B
<1>6. j + 1 \in W => Cardinality(B) = Cardinality(A) + 1
  BY <1>2, <1>3, <1>4, FS_AddElement, Zenon
<1>7. j + 1 \notin W => Cardinality(B) = Cardinality(A)
  BY <1>5, Zenon
<1>8. /\ Cardinality(A) \in Nat
      /\ Cardinality(B) = IF j + 1 \in W THEN Cardinality(A) + 1 ELSE Cardinality(A)
  BY <1>2, <1>6, <1>7, Zenon
<1>. QED
  BY <1>8, Zenon DEF A, B, Among

\* The counts of ".." and of names, one component further.
LEMMA Counts ==
  ASSUME NEW p, NEW i \in Nat, NEW j \in Nat, i <= j
  PROVE  /\ Ups(p, i, j) \in Nat /\ Downs(p, i, j) \in Nat
         /\ Ups(p, i, j + 1) = IF p[j + 1] = ".." THEN Ups(p, i, j) + 1 ELSE Ups(p, i, j)
         /\ Downs(p, i, j + 1) = IF Name(p[j + 1]) THEN Downs(p, i, j) + 1 ELSE Downs(p, i, j)
<1>. DEFINE U == {k \in Nat : p[k] = ".."}
            D == {k \in Nat : p[k] \notin {".", ".."}}
<1>1. ASSUME NEW m \in Nat
      PROVE  /\ {k \in (i + 1)..m : p[k] = ".."} = {k \in (i + 1)..m : k \in U}
             /\ {k \in (i + 1)..m : p[k] \notin {".", ".."}} = {k \in (i + 1)..m : k \in D}
  OBVIOUS
<1>2. j + 1 \in Nat /\ (j + 1 \in U <=> p[j + 1] = "..") /\ (j + 1 \in D <=> Name(p[j + 1]))
  BY DEF Name
<1>. HIDE DEF U, D
<1>3. /\ Ups(p, i, j) = Cardinality(Among(U, i, j))
      /\ Ups(p, i, j + 1) = Cardinality(Among(U, i, j + 1))
      /\ Downs(p, i, j) = Cardinality(Among(D, i, j))
      /\ Downs(p, i, j + 1) = Cardinality(Among(D, i, j + 1))
  BY <1>1, <1>2, Zenon DEF Ups, Downs, Among
<1>4. /\ Ups(p, i, j) \in Nat
      /\ Ups(p, i, j + 1) = IF j + 1 \in U THEN Ups(p, i, j) + 1 ELSE Ups(p, i, j)
  <2>1. /\ Cardinality(Among(U, i, j)) \in Nat
        /\ Cardinality(Among(U, i, j + 1))
             = IF j + 1 \in U THEN Cardinality(Among(U, i, j)) + 1 ELSE Cardinality(Among(U, i, j))
    BY OneFurther
  <2>. QED
    BY <2>1, <1>3
<1>5. /\ Downs(p, i, j) \in Nat
      /\ Downs(p, i, j + 1) = IF j + 1 \in D THEN Downs(p, i, j) + 1 ELSE Downs(p, i, j)
  <2>1. /\ Cardinality(Among(D, i, j)) \in Nat
        /\ Cardinality(Among(D, i, j + 1))
             = IF j + 1 \in D THEN Cardinality(Among(D, i, j)) + 1 ELSE Cardinality(Among(D, i, j))
    BY OneFurther
  <2>. QED
    BY <2>1, <1>3
<1>. QED
  BY <1>2, <1>4, <1>5, Zenon

\* Nothing follows the last component.
LEMMA NoCount ==
  ASSUME NEW p, NEW i \in Nat
  PROVE  Ups(p, i, i) = 0 /\ Downs(p, i, i) = 0
<1>1. (i + 1)..i = {}
  OBVIOUS
<1>2. {k \in (i + 1)..i : p[k] = ".."} = {} /\ {k \in (i + 1)..i : p[k] \notin {".", ".."}} = {}
  BY <1>1, Zenon
<1>. QED
  BY <1>2, FS_EmptySet, Zenon DEF Ups, Downs

\* A component that stays one further: it stayed before, and the counts fit.
LEMMA StaysFurther ==
  ASSUME NEW p, NEW k \in Nat, NEW i \in 1..k
  PROVE  StaysIn(p, i, k + 1) <=> StaysIn(p, i, k) /\ Ups(p, i, k + 1) <= Downs(p, i, k + 1)
<1>1. (i + 1)..(k + 1) = ((i + 1)..k) \cup {k + 1}
  OBVIOUS
<1>. QED
  BY <1>1, Zenon DEF StaysIn

\* "." changes nothing, and neither does ".." on an empty stack.
LEMMA HoldsSame ==
  ASSUME NEW p, NEW k \in Nat, NEW s, NEW x, Holds(p, k, s, x),
         p[k + 1] = "." \/ (p[k + 1] = ".." /\ Len(s) = 0)
  PROVE  Holds(p, k + 1, s, x)
<1>. DEFINE L == Len(s)
<1>1. /\ L \in 0..k /\ x \in [1..L -> 1..k]
      /\ \A n \in 1..L : s[n] = p[x[n]]
      /\ \A m, n \in 1..L : m < n => x[m] < x[n]
      /\ \A i \in 1..k : StaysIn(p, i, k) <=> \E n \in 1..L : x[n] = i
      /\ \A n \in 1..L : Downs(p, x[n], k) = Ups(p, x[n], k) + (L - n)
  BY Zenon DEF Holds
<1>2. ~Name(p[k + 1]) /\ (L # 0 => p[k + 1] # "..")
  BY DEF Name
<1>. HIDE DEF L
<1>3. L \in 0..(k + 1) /\ x \in [1..L -> 1..(k + 1)]
  BY <1>1
<1>4. ASSUME NEW n \in 1..L
      PROVE  /\ Ups(p, x[n], k + 1) = Ups(p, x[n], k) /\ Downs(p, x[n], k + 1) = Downs(p, x[n], k)
             /\ Ups(p, x[n], k) \in Nat /\ Downs(p, x[n], k) \in Nat
  <2>1. x[n] \in Nat /\ x[n] <= k /\ L # 0
    BY <1>1
  <2>. QED
    BY <2>1, <1>2, Counts, Zenon
<1>5. ASSUME NEW n \in 1..L PROVE Downs(p, x[n], k + 1) = Ups(p, x[n], k + 1) + (L - n)
  BY <1>1, <1>4, Zenon
<1>6. ASSUME NEW i \in 1..(k + 1)
      PROVE  StaysIn(p, i, k + 1) <=> \E n \in 1..L : x[n] = i
  <2>1. CASE i = k + 1
    <3>1. ~StaysIn(p, i, k + 1)
      BY <2>1, <1>2, Zenon DEF StaysIn
    <3>2. \A n \in 1..L : x[n] # i
      BY <2>1, <1>1
    <3>. QED
      BY <3>1, <3>2, Zenon
  <2>2. CASE i \in 1..k
    <3>1. ASSUME NEW n \in 1..L, x[n] = i PROVE Ups(p, i, k + 1) <= Downs(p, i, k + 1)
      BY <3>1, <1>4, <1>5, <1>1
    <3>. QED
      BY <2>2, <3>1, <1>1, StaysFurther, Zenon
  <2>. QED
    BY <2>1, <2>2
<1>. QED
  BY <1>1, <1>3, <1>5, <1>6, Zenon DEF Holds, L

\* A name is one more place on the stack.
LEMMA HoldsPush ==
  ASSUME NEW p, NEW k \in Nat, NEW s, NEW x, Holds(p, k, s, x), Name(p[k + 1]),
         NEW t, Len(t) = Len(s) + 1, t[Len(s) + 1] = p[k + 1],
         \A n \in 1..Len(s) : t[n] = s[n]
  PROVE  \E y : Holds(p, k + 1, t, y)
<1>. DEFINE L == Len(s)
            y == [n \in 1..(L + 1) |-> IF n = L + 1 THEN k + 1 ELSE x[n]]
<1>1. /\ L \in 0..k /\ x \in [1..L -> 1..k]
      /\ \A n \in 1..L : s[n] = p[x[n]]
      /\ \A m, n \in 1..L : m < n => x[m] < x[n]
      /\ \A i \in 1..k : StaysIn(p, i, k) <=> \E n \in 1..L : x[n] = i
      /\ \A n \in 1..L : Downs(p, x[n], k) = Ups(p, x[n], k) + (L - n)
  BY Zenon DEF Holds
<1>2. p[k + 1] # ".."
  BY DEF Name
<1>3. Len(t) = L + 1 /\ t[L + 1] = p[k + 1] /\ \A n \in 1..L : t[n] = s[n]
  OBVIOUS
<1>. HIDE DEF L
<1>4. L + 1 \in 0..(k + 1) /\ y \in [1..(L + 1) -> 1..(k + 1)]
  BY <1>1
<1>5. y[L + 1] = k + 1 /\ \A n \in 1..L : y[n] = x[n]
  BY <1>1
<1>6. L \in Nat /\ \A n \in 1..(L + 1) : n = L + 1 \/ n \in 1..L
  BY <1>1
<1>. HIDE DEF y
<1>7. ASSUME NEW n \in 1..L
      PROVE  /\ Ups(p, x[n], k + 1) = Ups(p, x[n], k)
             /\ Downs(p, x[n], k + 1) = Downs(p, x[n], k) + 1
             /\ Ups(p, x[n], k) \in Nat /\ Downs(p, x[n], k) \in Nat
  <2>1. x[n] \in Nat /\ x[n] <= k
    BY <1>1
  <2>. QED
    BY <2>1, <1>2, Counts, Zenon
<1>8. Ups(p, k + 1, k + 1) = 0 /\ Downs(p, k + 1, k + 1) = 0
  BY NoCount
<1>9. ASSUME NEW n \in 1..(L + 1)
      PROVE  /\ Downs(p, y[n], k + 1) = Ups(p, y[n], k + 1) + ((L + 1) - n)
             /\ t[n] = p[y[n]]
  <2>1. CASE n = L + 1
    BY <2>1, <1>3, <1>5, <1>6, <1>8
  <2>2. CASE n \in 1..L
    <3>1. Downs(p, x[n], k) = Ups(p, x[n], k) + (L - n) /\ y[n] = x[n] /\ t[n] = p[x[n]]
      BY <2>2, <1>1, <1>3, <1>5, Zenon
    <3>. QED
      BY <3>1, <2>2, <1>6, <1>7
  <2>. QED
    BY <2>1, <2>2, <1>6
<1>10. ASSUME NEW m \in 1..(L + 1), NEW n \in 1..(L + 1), m < n PROVE y[m] < y[n]
  <2>1. m \in 1..L
    BY <1>10, <1>6
  <2>2. y[m] = x[m] /\ x[m] \in 1..k
    BY <2>1, <1>1, <1>5
  <2>3. CASE n = L + 1
    BY <2>2, <2>3, <1>5
  <2>4. CASE n \in 1..L
    BY <2>1, <2>4, <1>1, <1>5, <1>10
  <2>. QED
    BY <2>3, <2>4, <1>6
<1>11. ASSUME NEW i \in 1..(k + 1)
       PROVE  StaysIn(p, i, k + 1) <=> \E n \in 1..(L + 1) : y[n] = i
  <2>1. CASE i = k + 1
    <3>1. ((k + 1) + 1)..(k + 1) = {} /\ L + 1 \in 1..(L + 1)
      BY <1>6
    <3>2. StaysIn(p, i, k + 1)
      BY <2>1, <3>1, Zenon DEF StaysIn
    <3>. QED
      BY <2>1, <3>1, <3>2, <1>5, Zenon
  <2>2. CASE i \in 1..k
    <3>1. ASSUME NEW n \in 1..L, x[n] = i PROVE Ups(p, i, k + 1) <= Downs(p, i, k + 1)
      <4>1. Downs(p, x[n], k) = Ups(p, x[n], k) + (L - n)
        BY <1>1
      <4>. QED
        BY <3>1, <4>1, <1>6, <1>7
    <3>2. (\E n \in 1..(L + 1) : y[n] = i) <=> \E n \in 1..L : x[n] = i
      <4>1. i # k + 1 /\ 1..L \subseteq 1..(L + 1)
        BY <2>2, <1>6
      <4>. QED
        BY <4>1, <1>5, <1>6, Zenon
    <3>. QED
      BY <2>2, <3>1, <3>2, <1>1, StaysFurther, Zenon
  <2>. QED
    BY <2>1, <2>2
<1>12. Holds(p, k + 1, t, y)
  BY <1>3, <1>4, <1>9, <1>10, <1>11, Zenon DEF Holds
<1>. QED
  BY <1>12, Zenon

\* ".." drops the last component that stayed, and no other.
LEMMA HoldsPop ==
  ASSUME NEW p, NEW k \in Nat, NEW s, NEW x, Holds(p, k, s, x), p[k + 1] = "..",
         Len(s) # 0, NEW t, Len(t) = Len(s) - 1, \A n \in 1..(Len(s) - 1) : t[n] = s[n]
  PROVE  \E y : Holds(p, k + 1, t, y)
<1>. DEFINE L == Len(s)
            y == [n \in 1..(L - 1) |-> x[n]]
<1>1. /\ L \in 0..k /\ x \in [1..L -> 1..k]
      /\ \A n \in 1..L : s[n] = p[x[n]]
      /\ \A m, n \in 1..L : m < n => x[m] < x[n]
      /\ \A i \in 1..k : StaysIn(p, i, k) <=> \E n \in 1..L : x[n] = i
      /\ \A n \in 1..L : Downs(p, x[n], k) = Ups(p, x[n], k) + (L - n)
  BY Zenon DEF Holds
<1>2. ~Name(p[k + 1])
  BY DEF Name
<1>3. L # 0 /\ Len(t) = L - 1 /\ \A n \in 1..(L - 1) : t[n] = s[n]
  OBVIOUS
<1>. HIDE DEF L
<1>4. L - 1 \in 0..(k + 1) /\ y \in [1..(L - 1) -> 1..(k + 1)]
  BY <1>1, <1>3
<1>5. /\ L \in Nat /\ L \in 1..L /\ 1..(L - 1) \subseteq 1..L
      /\ \A n \in 1..L : n = L \/ n \in 1..(L - 1)
      /\ \A n \in 1..(L - 1) : y[n] = x[n] /\ n < L
  BY <1>1, <1>3
<1>. HIDE DEF y
<1>6. ASSUME NEW n \in 1..L
      PROVE  /\ Ups(p, x[n], k + 1) = Ups(p, x[n], k) + 1
             /\ Downs(p, x[n], k + 1) = Downs(p, x[n], k)
             /\ Ups(p, x[n], k) \in Nat /\ Downs(p, x[n], k) \in Nat
             /\ Downs(p, x[n], k) = Ups(p, x[n], k) + (L - n)
  <2>1. x[n] \in Nat /\ x[n] <= k
    BY <1>1
  <2>2. Downs(p, x[n], k) = Ups(p, x[n], k) + (L - n)
    BY <1>1
  <2>. QED
    BY <2>1, <2>2, <1>2, Counts, Zenon
<1>7. ASSUME NEW n \in 1..(L - 1)
      PROVE  /\ Downs(p, y[n], k + 1) = Ups(p, y[n], k + 1) + ((L - 1) - n)
             /\ t[n] = p[y[n]]
  <2>1. n \in 1..L /\ y[n] = x[n]
    BY <1>5
  <2>2. t[n] = p[y[n]]
    BY <2>1, <1>1, <1>3, Zenon
  <2>3. Downs(p, x[n], k + 1) = Ups(p, x[n], k + 1) + ((L - 1) - n)
    BY <2>1, <1>5, <1>6
  <2>. QED
    BY <2>1, <2>2, <2>3, Zenon
<1>8. \A m, n \in 1..(L - 1) : m < n => y[m] < y[n]
  BY <1>1, <1>5, Zenon
<1>9. ASSUME NEW i \in 1..(k + 1)
      PROVE  StaysIn(p, i, k + 1) <=> \E n \in 1..(L - 1) : y[n] = i
  <2>1. CASE i = k + 1
    <3>1. ~StaysIn(p, i, k + 1)
      BY <2>1, <1>2, Zenon DEF StaysIn
    <3>2. \A n \in 1..(L - 1) : y[n] # i
      BY <2>1, <1>1, <1>5
    <3>. QED
      BY <3>1, <3>2, Zenon
  <2>2. CASE i \in 1..k
    <3>1. ASSUME NEW n \in 1..L, x[n] = i
          PROVE  Ups(p, i, k + 1) <= Downs(p, i, k + 1) <=> n \in 1..(L - 1)
      <4>1. /\ Ups(p, i, k + 1) = Ups(p, i, k) + 1 /\ Ups(p, i, k) \in Nat
            /\ Downs(p, i, k + 1) = Ups(p, i, k) + (L - n)
        BY <3>1, <1>6, Zenon
      <4>. HIDE DEF Ups, Downs
      <4>. QED
        BY <4>1, <1>5
    <3>2. ASSUME NEW n \in 1..(L - 1), y[n] = i PROVE StaysIn(p, i, k + 1)
      <4>1. n \in 1..L /\ x[n] = i
        BY <3>2, <1>5
      <4>. QED
        BY <4>1, <2>2, <3>1, <1>1, StaysFurther, Zenon
    <3>3. ASSUME StaysIn(p, i, k + 1) PROVE \E n \in 1..(L - 1) : y[n] = i
      <4>1. StaysIn(p, i, k) /\ Ups(p, i, k + 1) <= Downs(p, i, k + 1)
        BY <3>3, <2>2, StaysFurther, Zenon
      <4>2. PICK n \in 1..L : x[n] = i
        BY <4>1, <2>2, <1>1, Zenon
      <4>3. n \in 1..(L - 1)
        BY <4>1, <4>2, <3>1, Zenon
      <4>. QED
        BY <4>2, <4>3, <1>5, Zenon
    <3>. QED
      BY <3>2, <3>3, Zenon
  <2>. QED
    BY <2>1, <2>2
<1>10. Holds(p, k + 1, t, y)
  BY <1>3, <1>4, <1>7, <1>8, <1>9, Zenon DEF Holds
<1>. QED
  BY <1>10, Zenon

\* What is left of a stack without its last place.
LEMMA WithoutLast ==
  ASSUME NEW S, NEW s \in Seq(S), s # << >>
  PROVE  /\ SubSeq(s, 1, Len(s) - 1) \in Seq(S) /\ Len(s) # 0
         /\ Len(SubSeq(s, 1, Len(s) - 1)) = Len(s) - 1
         /\ \A n \in 1..(Len(s) - 1) : SubSeq(s, 1, Len(s) - 1)[n] = s[n]
<1>1. Len(s) \in Nat /\ Len(s) # 0
  OBVIOUS
<1>2. SubSeq(s, 1, Len(s) - 1) \in Seq(S)
  BY <1>1
<1>3. CASE Len(s) = 1
  BY <1>2, <1>3
<1>4. CASE Len(s) > 1
  <2>1. Len(SubSeq(s, 1, Len(s) - 1)) = Len(s) - 1
    BY <1>4
  <2>2. ASSUME NEW n \in 1..(Len(s) - 1) PROVE SubSeq(s, 1, Len(s) - 1)[n] = s[n]
    BY <1>4
  <2>. QED
    BY <1>1, <1>2, <2>1, <2>2, Zenon
<1>5. Len(s) = 1 \/ Len(s) > 1
  <2>1. \A m \in Nat : m = 0 \/ m = 1 \/ m > 1
    OBVIOUS
  <2>. QED
    BY <1>1, <2>1, Zenon
<1>. QED
  BY <1>3, <1>4, <1>5, Zenon

\* One component: as long as the path is no longer than the stack, none is dropped.
LEMMA HoldsStep ==
  ASSUME NEW S, NEW p \in Seq(S), NEW k \in 0..(Len(p) - 1), Len(p) <= MaxComps,
         NEW s \in Seq(S), NEW x, Holds(p, k, s, x)
  PROVE  Step(s, p[k + 1]) \in Seq(S) /\ \E y : Holds(p, k + 1, Step(s, p[k + 1]), y)
<1>. DEFINE c == p[k + 1]
<1>1. c \in S /\ k \in Nat /\ Len(s) \in 0..k /\ Len(s) < MaxComps /\ MaxComps \in Nat
  <2>1. Len(s) \in 0..k /\ MaxComps \in Nat
    BY ShellPathAssumption DEF Holds
  <2>. QED
    BY <2>1
<1>2. CASE c = "." \/ (c = ".." /\ s = << >>)
  <2>1. Step(s, c) = s /\ (s = << >> => Len(s) = 0)
    BY <1>2 DEF Step
  <2>2. Holds(p, k + 1, s, x)
    BY <1>1, <1>2, <2>1, HoldsSame, Zenon
  <2>. QED
    BY <2>1, <2>2, Zenon
<1>3. CASE c = ".." /\ s # << >>
  <2>. DEFINE t == SubSeq(s, 1, Len(s) - 1)
  <2>1. Step(s, c) = t
    BY <1>3 DEF Step
  <2>2. t \in Seq(S) /\ Len(s) # 0 /\ Len(t) = Len(s) - 1 /\ \A n \in 1..(Len(s) - 1) : t[n] = s[n]
    BY <1>3, WithoutLast
  <2>. HIDE DEF t
  <2>3. \E y : Holds(p, k + 1, t, y)
    BY <1>1, <1>3, <2>2, HoldsPop, Zenon
  <2>. QED
    BY <2>1, <2>2, <2>3, Zenon
<1>4. CASE c \notin {".", ".."}
  <2>. DEFINE t == Append(s, c)
  <2>1. Step(s, c) = t
    BY <1>1, <1>4 DEF Step
  <2>2. /\ t \in Seq(S) /\ Len(t) = Len(s) + 1 /\ t[Len(s) + 1] = p[k + 1]
        /\ \A n \in 1..Len(s) : t[n] = s[n]
    BY <1>1
  <2>3. Name(p[k + 1])
    BY <1>4 DEF Name
  <2>. HIDE DEF t
  <2>4. \E y : Holds(p, k + 1, t, y)
    BY <1>1, <2>2, <2>3, HoldsPush, Zenon
  <2>. QED
    BY <2>1, <2>2, <2>4, Zenon
<1>. QED
  BY <1>2, <1>3, <1>4

\* So the stack of the whole path holds what stays.
LEMMA NormalisedHolds ==
  ASSUME NEW S, NEW p \in Seq(S), Len(p) <= MaxComps
  PROVE  Normalised(p) \in Seq(S) /\ \E x : Holds(p, Len(p), Normalised(p), x)
<1>. DEFINE N == Len(p)
<1>0. N \in Nat
  OBVIOUS
<1>1. PICK f : /\ f[0] = << >> /\ Normalised(p) = f[Len(p)]
               /\ \A k \in 0..(Len(p) - 1) : f[k + 1] = Step(f[k], p[k + 1])
  BY <1>0, NormalisedSteps, Zenon
<1>. DEFINE G == {k \in Nat : f[k] \in Seq(S) /\ \E x : Holds(p, k, f[k], x)}
<1>2. 0 \in G
  <2>. DEFINE x == [n \in 1..0 |-> 1]
  <2>1. f[0] \in Seq(S) /\ Len(f[0]) = 0 /\ 1..0 = {}
    BY <1>1
  <2>2. x \in [1..0 -> 1..0]
    OBVIOUS
  <2>. HIDE DEF x
  <2>3. Holds(p, 0, f[0], x)
    BY <2>1, <2>2 DEF Holds
  <2>. QED
    BY <2>1, <2>3
<1>3. ASSUME NEW k \in 0..(N - 1), k \in G PROVE k + 1 \in G
  <2>1. f[k] \in Seq(S) /\ k + 1 \in Nat
    BY <1>3
  <2>2. PICK x : Holds(p, k, f[k], x)
    BY <1>3
  <2>3. Step(f[k], p[k + 1]) \in Seq(S) /\ \E y : Holds(p, k + 1, Step(f[k], p[k + 1]), y)
    BY <2>1, <2>2, HoldsStep, Zenon
  <2>4. f[k + 1] = Step(f[k], p[k + 1])
    BY <1>1
  <2>. QED
    BY <2>1, <2>3, <2>4, Zenon
<1>. HIDE DEF G
<1>4. N \in G
  BY <1>0, <1>2, <1>3, UpTo
<1>. QED
  BY <1>1, <1>4, Zenon DEF G

\* The first n of an increasing enumeration are n.
LEMMA CountFirst ==
  ASSUME NEW L \in Nat, NEW k \in Nat, NEW x \in [1..L -> 1..k],
         \A m, n \in 1..L : m < n => x[m] < x[n],
         NEW n \in 0..L
  PROVE  Cardinality({x[m] : m \in 1..n}) = n
<1>. DEFINE T == {x[m] : m \in 1..n}
            f == [m \in 1..n |-> x[m]]
<1>1. 1..n \subseteq 1..L /\ n \in Nat
  OBVIOUS
<1>2. ASSUME NEW a \in 1..L, NEW b \in 1..L, x[a] = x[b] PROVE a = b
  <2>1. ~(x[a] < x[b]) /\ ~(x[b] < x[a])
    BY <1>2
  <2>2. ~(a < b) /\ ~(b < a)
    BY <2>1
  <2>. QED
    BY <2>2
<1>3. f \in [1..n -> T] /\ \A m \in 1..n : f[m] = x[m]
  OBVIOUS
<1>4. \A t \in T : \E m \in 1..n : f[m] = t
  OBVIOUS
<1>. HIDE DEF f, T
<1>5. IsInjective(f)
  BY <1>1, <1>2, <1>3, Zenon DEF IsInjective
<1>6. f \in Bijection(1..n, T)
  BY <1>3, <1>4, <1>5, Zenon DEF Bijection, Injection, Surjection
<1>7. ExistsBijection(1..n, T)
  BY <1>6, Zenon DEF ExistsBijection
<1>8. Cardinality(T) = n
  BY <1>1, <1>7, FS_CountingElements, Zenon
<1>. QED
  BY <1>8 DEF T

\* resolve_path's loop computes what the components name (shell.c:186), for
\* every path that its stack has room for.
THEOREM NormalisedIsNamed ==
  ASSUME NEW S, NEW p \in Seq(S), Len(p) <= MaxComps
  PROVE  Normalised(p) = Named(p)
<1>. DEFINE N == Len(p)
            s == Normalised(p)
            kept == {i \in 1..N : Stays(p, i)}
            rank(i) == Cardinality({k \in kept : k <= i})
<1>1. s \in Seq(S) /\ N \in Nat
  BY NormalisedHolds
<1>2. PICK x : Holds(p, N, s, x)
  BY NormalisedHolds, Zenon
<1>. DEFINE L == Len(s)
<1>3. /\ L \in 0..N /\ x \in [1..L -> 1..N]
      /\ \A n \in 1..L : s[n] = p[x[n]]
      /\ \A m, n \in 1..L : m < n => x[m] < x[n]
      /\ \A i \in 1..N : StaysIn(p, i, N) <=> \E n \in 1..L : x[n] = i
  BY <1>2, Zenon DEF Holds
<1>4. s = [n \in 1..L |-> s[n]]
  BY <1>1
<1>5. \A i : Stays(p, i) <=> StaysIn(p, i, N)
  BY Zenon DEF Stays, StaysIn, Name, Ups, Downs
<1>. HIDE DEF s, L
<1>6. kept = {x[m] : m \in 1..L}
  <2>1. \A m \in 1..L : x[m] \in 1..N
    BY <1>3
  <2>. QED
    BY <2>1, <1>3, <1>5, Zenon
<1>. HIDE DEF N
<1>7. L \in Nat
  BY <1>1, <1>3
<1>8. Cardinality(kept) = L
  <2>1. L \in 0..L
    BY <1>7
  <2>2. Cardinality({x[m] : m \in 1..L}) = L
    BY <2>1, <1>1, <1>3, <1>7, CountFirst, Zenon
  <2>. QED
    BY <2>2, <1>6, Zenon
<1>9. ASSUME NEW n \in 1..L PROVE x[n] \in kept /\ rank(x[n]) = n
  <2>1. {k \in kept : k <= x[n]} = {x[m] : m \in 1..n}
    <3>1. ASSUME NEW m \in 1..L PROVE x[m] <= x[n] <=> m \in 1..n
      <4>1. x[m] \in Int /\ x[n] \in Int
        BY <1>3
      <4>2. (m < n => x[m] < x[n]) /\ (n < m => x[n] < x[m])
        BY <1>3
      <4>. QED
        BY <4>1, <4>2
    <3>2. 1..n \subseteq 1..L
      BY <1>7
    <3>. QED
      BY <3>1, <3>2, <1>6, Zenon
  <2>2. n \in 0..L
    BY <1>7
  <2>3. Cardinality({x[m] : m \in 1..n}) = n
    BY <2>2, <1>1, <1>3, <1>7, CountFirst, Zenon
  <2>. QED
    BY <2>1, <2>3, <1>6, Zenon
<1>10. ASSUME NEW n \in 1..L PROVE (CHOOSE i \in kept : rank(i) = n) = x[n]
  <2>1. ASSUME NEW i \in kept, rank(i) = n PROVE i = x[n]
    <3>1. PICK m \in 1..L : i = x[m]
      BY <1>6, Zenon
    <3>. QED
      BY <2>1, <3>1, <1>9, Zenon
  <2>. QED
    BY <2>1, <1>9, Zenon
<1>11. Named(p) = [n \in 1..Cardinality(kept) |-> p[CHOOSE i \in kept : rank(i) = n]]
  BY Zenon DEF Named, N
<1>. HIDE DEF kept, rank
<1>. DEFINE nth(n) == p[CHOOSE i \in kept : rank(i) = n]
<1>12. \A n \in 1..L : nth(n) = s[n]
  BY <1>3, <1>10, Zenon
<1>13. Named(p) = [n \in 1..L |-> nth(n)]
  BY <1>8, <1>11, Zenon
<1>. HIDE DEF nth
<1>14. Named(p) = [n \in 1..L |-> s[n]]
  BY <1>12, <1>13, Zenon
<1>. QED
  BY <1>4, <1>14, Zenon DEF s, L

-----------------------------------------------------------------------------
(* The current directory, and the path a command was given. *)

Words == Components \cup {m \o ":" : m \in Mountable}
CwdMounts == Components \cup {"root"}

Cwd == /\ mounts \subseteq {"dev", "root"} \cup Mountable
       /\ s_cwd_mnt \in CwdMounts /\ s_cwd_path \in UpToLen(Words, MaxPath)

(* While a command opens its file, target is what its path translates to,  *)
(* in a directory that has not changed since.                              *)
Translated ==
  /\ at \in {"prompt", "open", "run", "done"}
  /\ cmd \in {"none"} \cup Commands /\ target.slashes \in 0..2
  /\ path \in Typed \cup {NoArg}
  /\ at # "open" => path = NoArg
  /\ at = "open" /\ path # NoArg => target = translate_unix_path(path)

\* Sequences up to a length.
LEMMA Bounded ==
  ASSUME NEW S, NEW n \in Nat
  PROVE  /\ \A s \in UpToLen(S, n) : s \in Seq(S) /\ Len(s) <= n
         /\ \A s \in Seq(S) : Len(s) <= n => s \in UpToLen(S, n)
<1>1. ASSUME NEW s \in UpToLen(S, n) PROVE s \in Seq(S) /\ Len(s) <= n
  <2>1. PICK m \in 0..n : s \in [1..m -> S]
    BY <1>1, Zenon DEF UpToLen
  <2>. QED
    BY <2>1
<1>2. ASSUME NEW s \in Seq(S), Len(s) <= n PROVE s \in UpToLen(S, n)
  <2>1. Len(s) \in 0..n /\ s \in [1..Len(s) -> S]
    BY <1>2
  <2>. QED
    BY <2>1, Zenon DEF UpToLen
<1>. QED
  BY <1>1, <1>2

\* What may be typed.
LEMMA TypedArg ==
  ASSUME NEW a \in Typed
  PROVE  /\ a.kind \in {"abs", "rel", "mnt"} /\ a.comps \in Seq(Components)
         /\ a.kind = "rel" => a.comps # << >>
         /\ a.kind = "mnt" => a.mnt \in Mountable
<1>0. MaxArg \in Nat /\ Names \subseteq Components /\ 1 \in Nat
  BY ShellPathAssumption DEF Components
<1>1. /\ UpToLen(Components, MaxArg) \subseteq Seq(Components)
      /\ UpToLen(Names, 1) \subseteq Seq(Components)
  <2>1. UpToLen(Components, MaxArg) \subseteq Seq(Components) /\ UpToLen(Names, 1) \subseteq Seq(Names)
    BY <1>0, Bounded, Zenon
  <2>2. Seq(Names) \subseteq Seq(Components)
    BY <1>0
  <2>. QED
    BY <2>1, <2>2, Zenon
<1>. QED
  BY <1>1 DEF Typed

\* An absolute path leads to a mount that may be the current one.
LEMMA AbsoluteType ==
  ASSUME Cwd, NEW comps \in Seq(Words)
  PROVE  /\ Absolute(comps).mnt \in CwdMounts /\ Absolute(comps).comps \in Seq(Words)
         /\ Absolute(comps).slashes = 1
<1>1. mounts \subseteq CwdMounts /\ s_cwd_mnt \in CwdMounts /\ "root" \in CwdMounts
  BY ShellPathAssumption DEF Cwd, CwdMounts, Components
<1>2. comps # << >> => Tail(comps) \in Seq(Words)
  OBVIOUS
<1>3. << >> \in Seq(Words)
  OBVIOUS
<1>. QED
  BY <1>1, <1>2, <1>3 DEF Absolute, Place

\* What cd makes of an argument fits the two variables of the directory.
LEMMA CdType ==
  ASSUME Cwd, NEW a \in Typed, cd(a)
  PROVE  Cwd'
<1>. DEFINE fits(p) == p.mnt \in CwdMounts /\ p.comps \in Seq(Words)
<1>1. MaxPath \in Nat /\ Components \subseteq Words /\ Components \subseteq CwdMounts /\ "dev" \in Words
  BY ShellPathAssumption DEF Words, CwdMounts, Components
<1>2. /\ a.kind \in {"abs", "rel", "mnt"} /\ a.comps \in Seq(Components)
      /\ a.kind = "rel" => a.comps # << >>
      /\ a.kind = "mnt" => a.mnt \in Mountable
  BY TypedArg
<1>3. a.comps \in Seq(Words)
  BY <1>1, <1>2
<1>4. s_cwd_path \in Seq(Words)
  BY <1>1, Bounded, Zenon DEF Cwd
<1>5. current_unix \in Seq(Words)
  BY <1>1, <1>4 DEF current_unix
<1>6. \A c \in Seq(Words) : fits(Absolute(c))
  BY AbsoluteType
<1>7. ASSUME NEW p, fits(p), set_cwd_from_path(p), UNCHANGED mounts PROVE Cwd'
  <2>. DEFINE n == IF Len(p.comps) < MaxPath THEN Len(p.comps) ELSE MaxPath
              t == SubSeq(p.comps, 1, n)
  <2>1. t \in Seq(Words) /\ Len(t) <= MaxPath
    BY <1>1, <1>7
  <2>. HIDE DEF t
  <2>2. t \in UpToLen(Words, MaxPath)
    BY <2>1, <1>1, Bounded, Zenon
  <2>3. s_cwd_mnt' = p.mnt /\ s_cwd_path' = t /\ mounts' = mounts
    BY <1>7 DEF set_cwd_from_path, t
  <2>. QED
    BY <2>2, <2>3, <1>7 DEF Cwd
<1>. HIDE DEF fits
<1>8. UNCHANGED mounts
  BY DEF cd
<1>9. CASE a.kind = "abs"
  <2>1. set_cwd_from_path(Absolute(a.comps))
    BY <1>9 DEF cd
  <2>. QED
    BY <2>1, <1>3, <1>6, <1>7, <1>8, Zenon
<1>10. CASE a.kind = "rel" /\ Len(a.comps) = 1
  <2>1. set_cwd_from_path(Place(a.comps[1], 1, << >>))
    BY <1>10 DEF cd
  <2>2. fits(Place(a.comps[1], 1, << >>))
    BY <1>1, <1>2, <1>10 DEF fits, Place
  <2>. QED
    BY <2>1, <2>2, <1>7, <1>8, Zenon
<1>11. CASE a.kind = "rel" /\ Len(a.comps) # 1
  <2>0. a.comps \in Seq(Components) /\ a.comps # << >> /\ Len(a.comps) # 1
    BY <1>2, <1>11, Zenon
  <2>1a. Len(a.comps) \in Nat /\ Len(a.comps) # 0
    BY <2>0
  <2>1b. \A m \in Nat : m = 0 \/ m = 1 \/ m > 1
    OBVIOUS
  <2>1c. current_unix \o a.comps \in Seq(Words)
    BY <1>3, <1>5
  <2>1. Len(a.comps) > 1 /\ current_unix \o a.comps \in Seq(Words)
    BY <2>0, <2>1a, <2>1b, <2>1c, Zenon
  <2>2. set_cwd_from_path(Absolute(current_unix \o a.comps))
    BY <1>11, <2>1 DEF cd
  <2>. QED
    BY <2>1, <2>2, <1>6, <1>7, <1>8, Zenon
<1>12. CASE a.kind = "mnt"
  <2>. DEFINE w == a.mnt \o ":"
  <2>1. set_cwd_from_path(Absolute(current_unix \o <<w>> \o a.comps))
    BY <1>12 DEF cd
  <2>2. w \in Words
    BY <1>2, <1>12, Zenon DEF Words
  <2>. HIDE DEF w
  <2>3. <<w>> \in Seq(Words)
    BY <2>2
  <2>4. current_unix \o <<w>> \o a.comps \in Seq(Words)
    BY <2>3, <1>3, <1>5
  <2>. QED
    BY <2>1, <2>4, <1>6, <1>7, <1>8, Zenon
<1>. QED
  BY <1>2, <1>9, <1>10, <1>11, <1>12

-----------------------------------------------------------------------------
(* The loops of the commands. *)

(* What a command has moved so far, and all of it when it is done.         *)
Moving ==
  /\ off \in Nat /\ from \in 0..off /\ arg \in Nat \cup {All} /\ failed \in BOOLEAN
  /\ arg = All => cmd = "hexdump"
  /\ node \in [kind : {"none", "dir", "devfs", "exfat"}, size : Nat]
  /\ at \in {"prompt", "open"} => off = 0 /\ from = 0 /\ arg = 0 /\ node.size = 0
  /\ at = "run" => node.kind # "none"
  /\ cmd # "hexdump" => from = 0
  /\ cmd = "cat" => off <= node.size
  /\ cmd = "hexdump" => off <= node.size \/ off <= from
  /\ cmd = "fill" => off <= arg
  /\ MovedAll

ShellInv == Cwd /\ Translated /\ Moving

\* The lesser of two, as Min gives it.
LEMMA LesserOf ==
  ASSUME NEW a \in Int, NEW b \in Int
  PROVE  Min({a, b}) = IF a <= b THEN a ELSE b
<1>1. \E x \in {a, b} : \A y \in {a, b} : x <= y
  OBVIOUS
<1>. QED
  BY <1>1 DEF Min

\* The greater of two, as Max gives it.
LEMMA GreaterOf ==
  ASSUME NEW a \in Int, NEW b \in Int
  PROVE  Max({a, b}) = IF a >= b THEN a ELSE b
<1>1. \E x \in {a, b} : \A y \in {a, b} : x >= y
  OBVIOUS
<1>. QED
  BY <1>1 DEF Max

\* A call is asked for len bytes and can move as many as are left.
LEMMA SomeIs ==
  ASSUME Moving, NEW len \in Nat
  PROVE  /\ Left = IF off <= node.size THEN node.size - off ELSE 0
         /\ Some(len) = IF len <= Left THEN len ELSE Left
         /\ Left \in Nat /\ Some(len) \in Nat
<1>1. node.size \in Nat /\ off \in Nat
  BY DEF Moving
<1>2. Left = IF off <= node.size THEN node.size - off ELSE 0
  BY <1>1, GreaterOf DEF Left
<1>3. Left \in Nat
  BY <1>1, <1>2
<1>4. Some(len) = IF len <= Left THEN len ELSE Left
  BY <1>3, LesserOf DEF Some
<1>. QED
  BY <1>2, <1>3, <1>4

\* A read returns no more than that, or -1.
LEMMA ReadGives ==
  ASSUME Moving, at = "run", NEW len \in Nat, NEW r \in vfs_read(len)
  PROVE  r \in Int /\ r <= Some(len) /\ r >= -1
<1>1. node.kind \in {"dir", "devfs", "exfat"}
  BY DEF Moving
<1>2. Some(len) \in Nat
  BY SomeIs
<1>. HIDE DEF Some
<1>. QED
  BY <1>1, <1>2 DEF vfs_read

\* A write returns no more than it was asked for, or -1.
LEMMA WriteGives ==
  ASSUME Moving, at = "run", NEW len \in Nat, NEW r \in vfs_write(len)
  PROVE  r \in Int /\ r <= len /\ r >= -1
<1>1. node.kind \in {"dir", "devfs", "exfat"}
  BY DEF Moving
<1>2. Some(len) \in Nat /\ Some(len) <= len
  BY SomeIs
<1>. QED
  BY <1>1, <1>2 DEF vfs_write

\* cat has read a prefix of the file, and ends where the file does.
LEMMA CatMoves == ASSUME Moving, cat PROVE Moving'
<1>1. /\ at = "run" /\ cmd = "cat" /\ cmd' = cmd /\ from' = from /\ node' = node /\ arg' = arg
  BY DEF cat, Running
<1>2. PICK r \in vfs_read(CatBuf) :
        /\ failed' = (failed \/ r < Some(CatBuf))
        /\ IF r <= 0 THEN Done /\ UNCHANGED off ELSE Goes(r)
  BY DEF cat
<1>3. CatBuf \in Nat /\ CatBuf # 0
  BY ShellAssumption
<1>4. r \in Int /\ r <= Some(CatBuf) /\ r >= -1
  BY <1>1, <1>3, ReadGives
<1>5. /\ off \in Nat /\ node.size \in Nat /\ off <= node.size
      /\ Some(CatBuf) = IF CatBuf <= node.size - off THEN CatBuf ELSE node.size - off
  BY <1>1, <1>3, SomeIs DEF Moving
<1>6. CASE r <= 0
  <2>1. at' = "done" /\ off' = off
    BY <1>2, <1>6 DEF Done
  <2>2. ~failed' => off = node.size
    <3>1. ~failed' => ~(r < Some(CatBuf))
      BY <1>2, Zenon
    <3>. QED
      BY <3>1, <1>3, <1>4, <1>5, <1>6
  <2>. QED
    BY <2>1, <2>2, <1>1, <1>2, <1>5 DEF Moving, MovedAll, Moved
<1>7. CASE r > 0
  <2>1. at' = "run" /\ off' = off + r
    BY <1>1, <1>2, <1>4, <1>7 DEF Goes
  <2>2. off' \in Nat /\ off' <= node.size /\ off' >= off
    BY <2>1, <1>3, <1>4, <1>5, <1>7
  <2>. QED
    BY <2>1, <2>2, <1>1, <1>2 DEF Moving, MovedAll
<1>. QED
  BY <1>4, <1>6, <1>7

\* hexdump reads on from where it began, and ends with its count or with the
\* file.
LEMMA HexdumpMoves == ASSUME Moving, hexdump PROVE Moving'
<1>1. /\ at = "run" /\ cmd = "hexdump" /\ cmd' = cmd /\ from' = from /\ node' = node
  BY DEF hexdump, Running
<1>2. /\ off \in Nat /\ node.size \in Nat /\ from \in 0..off /\ arg \in Nat \cup {All}
      /\ (off <= node.size \/ off <= from)
  BY <1>1 DEF Moving
<1>3. CASE arg = 0 /\ Done /\ UNCHANGED <<arg, off, failed>>
  <2>1. at' = "done" /\ arg' = 0 /\ off' = off /\ failed' = failed
    BY <1>3 DEF Done
  <2>2. off <= Max({node.size, from})
    BY <1>2, GreaterOf
  <2>. QED
    BY <2>1, <2>2, <1>1, <1>2 DEF Moving, MovedAll, Moved
<1>4. CASE ~(arg = 0 /\ Done /\ UNCHANGED <<arg, off, failed>>)
  <2>. DEFINE to_read == IF arg = All THEN DumpBuf ELSE Min({arg, DumpBuf})
  <2>1. PICK r \in vfs_read(to_read) :
          /\ arg # 0
          /\ failed' = (failed \/ r < Some(to_read))
          /\ off' = off + Max({r, 0})
          /\ arg' = (IF arg = All THEN All ELSE arg - Max({r, 0}))
          /\ IF r <= 0 \/ (r < DumpBuf /\ arg = All) THEN Done ELSE UNCHANGED at
    BY <1>4 DEF hexdump
  <2>2. DumpBuf \in Nat /\ DumpBuf # 0 /\ All = -1
    BY ShellAssumption DEF All
  <2>3. to_read \in Nat /\ to_read # 0 /\ (arg # All => to_read <= arg) /\ (arg = All => to_read = DumpBuf)
    BY <1>2, <2>1, <2>2, LesserOf
  <2>. HIDE DEF to_read
  <2>4. r \in Int /\ r <= Some(to_read) /\ r >= -1
    BY <1>1, <2>3, ReadGives
  <2>5. /\ Left = IF off <= node.size THEN node.size - off ELSE 0
        /\ Some(to_read) = IF to_read <= Left THEN to_read ELSE Left
        /\ Left \in Nat /\ Some(to_read) \in Nat
    BY <2>3, SomeIs
  <2>. DEFINE q == IF r >= 0 THEN r ELSE 0
  <2>6. Max({r, 0}) = q /\ q \in Nat /\ q <= Some(to_read)
    BY <2>4, <2>5, GreaterOf
  <2>7. off' = off + q /\ arg' = IF arg = All THEN All ELSE arg - q
    BY <2>1, <2>6
  <2>8. /\ off' \in Nat /\ from \in 0..off' /\ arg' \in Nat \cup {All}
        /\ (off' <= node.size \/ off' <= from)
    BY <1>2, <2>2, <2>3, <2>5, <2>6, <2>7
  <2>9. at' \in {"run", "done"}
    BY <1>1, <2>1 DEF Done
  <2>10. ASSUME at' = "done", ~failed' PROVE off' <= Max({node.size, from}) /\ (arg' = 0 \/ off' >= node.size)
    <3>1. r = Some(to_read)
      <4>1. ~(r < Some(to_read))
        BY <2>1, <2>10, Zenon
      <4>. QED
        BY <4>1, <2>4, <2>5
    <3>2. r <= 0 \/ (r < DumpBuf /\ arg = All)
      BY <2>1, <2>10, <1>1
    <3>3. off' >= node.size
      BY <3>1, <3>2, <2>3, <2>5, <2>7, <1>2
    <3>4. off' <= Max({node.size, from})
      BY <2>8, <1>2, GreaterOf
    <3>. QED
      BY <3>3, <3>4
  <2>11. failed' \in BOOLEAN
    BY <2>1
  <2>. QED
    BY <2>8, <2>9, <2>10, <2>11, <1>1, <1>2 DEF Moving, MovedAll, Moved
<1>. QED
  BY <1>3, <1>4

\* fill has written no more than it was asked for.
LEMMA FillMoves == ASSUME Moving, fill PROVE Moving'
<1>1. /\ at = "run" /\ cmd = "fill" /\ cmd' = cmd /\ from' = from /\ arg' = arg
  BY DEF fill, Running
<1>2. /\ off \in Nat /\ node.size \in Nat /\ from = 0 /\ arg \in Nat /\ off <= arg
      /\ node \in [kind : {"none", "dir", "devfs", "exfat"}, size : Nat] /\ node.kind # "none"
  BY <1>1 DEF Moving, All
<1>3. CASE off = arg /\ Done /\ UNCHANGED <<node, off, failed>>
  BY <1>1, <1>2, <1>3 DEF Moving, MovedAll, Moved, Done
<1>4. CASE off < arg
  <2>. DEFINE len == Min({arg - off, FillBuf})
  <2>1. PICK r \in vfs_write(len) :
          IF r < 0 THEN Done /\ failed' = TRUE /\ UNCHANGED <<node, off>>
          ELSE Goes(r) /\ node' = Grown(node, off') /\ UNCHANGED failed
    BY <1>4, <1>2 DEF fill
  <2>2. len \in Nat /\ len <= arg - off
    BY <1>2, <1>4, ShellAssumption, LesserOf
  <2>. HIDE DEF len
  <2>3. r \in Int /\ r <= len /\ r >= -1
    BY <1>1, <2>2, WriteGives
  <2>4. CASE r < 0
    BY <1>1, <1>2, <2>1, <2>4 DEF Moving, MovedAll, Done
  <2>5. CASE r >= 0
    <3>1. off' = off + r /\ at' = "run" /\ node' = Grown(node, off') /\ failed' = failed
      BY <1>1, <2>1, <2>3, <2>5 DEF Goes
    <3>2. off' \in Nat /\ off' <= arg
      BY <3>1, <1>2, <2>2, <2>3, <2>5
    <3>3. Max({node.size, off'}) \in Nat
      BY <3>2, <1>2, GreaterOf
    <3>4. /\ node' \in [kind : {"none", "dir", "devfs", "exfat"}, size : Nat]
          /\ node'.kind = node.kind
      BY <3>1, <3>3, <1>2 DEF Grown
    <3>. QED
      BY <3>1, <3>2, <3>4, <1>1, <1>2 DEF Moving, MovedAll
  <2>. QED
    BY <2>3, <2>4, <2>5
<1>. QED
  BY <1>2, <1>3, <1>4 DEF fill

\* write, ls and the end of a command.
LEMMA OthersMove == ASSUME Moving, write \/ ls \/ Yield \/ CallByPath PROVE Moving'
<1>1. CASE write
  <2>1. /\ at = "run" /\ cmd = "write" /\ cmd' = cmd /\ from' = from /\ arg' = arg /\ node' = node
        /\ at' = "done"
    BY <1>1 DEF write, Running, Done
  <2>2. PICK r \in vfs_write(arg) : off' = Max({r, 0}) /\ failed' = (r < 0)
    BY <1>1 DEF write
  <2>3. arg \in Nat
    BY <2>1 DEF Moving
  <2>4. r \in Int
    BY <2>1, <2>3, WriteGives
  <2>5. off' \in Nat /\ failed' \in BOOLEAN
    BY <2>2, <2>4, GreaterOf
  <2>. QED
    BY <2>1, <2>5 DEF Moving, MovedAll, Moved
<1>2. CASE ls
  <2>1. /\ at = "run" /\ cmd = "ls" /\ cmd' = cmd /\ from' = from /\ arg' = arg /\ node' = node
        /\ failed' = failed
        /\ (at' = "done" /\ off' = off) \/ (at' = "run" /\ off' = off + 1)
    BY <1>2 DEF ls, Running, Done, Goes
  <2>. QED
    BY <2>1 DEF Moving, MovedAll, Moved
<1>3. CASE Yield
  <2>1. /\ at' = "prompt" /\ cmd' = "none" /\ node' = NoNode /\ arg' = 0 /\ off' = 0 /\ from' = 0
        /\ failed' = FALSE
    BY <1>3 DEF Yield
  <2>2. NoNode \in [kind : {"none", "dir", "devfs", "exfat"}, size : Nat] /\ NoNode.size = 0
    BY DEF NoNode
  <2>3. 0 \in 0..0 /\ 0 \in Nat /\ 0 # All
    BY DEF All
  <2>. QED
    BY <2>1, <2>2, <2>3, Zenon DEF Moving, MovedAll
<1>4. CASE CallByPath
  BY <1>4 DEF CallByPath, Done, Moving, MovedAll, Moved
<1>. QED
  BY <1>1, <1>2, <1>3, <1>4

\* The loop starts with nothing moved.
LEMMA OpenMoves == ASSUME Moving, Open PROVE Moving'
<1>1. at = "open" /\ cmd' = cmd /\ off = 0 /\ from = 0 /\ arg = 0 /\ node.size = 0
  BY DEF Moving, Open
<1>2. PICK n \in Opened(cmd, target) :
        IF n = NoNode THEN Done /\ failed' = TRUE /\ UNCHANGED <<node, arg, off, from>>
        ELSE /\ at' = "run" /\ node' = n /\ UNCHANGED failed
             /\ arg' \in (CASE cmd = "hexdump" -> Numbers \cup {All} [] cmd = "fill" -> Numbers \ {0}
                            [] cmd = "write" -> Numbers [] OTHER -> {0})
             /\ off' \in (IF cmd = "hexdump" THEN Numbers ELSE {0})
             /\ from' = off'
  BY DEF Open
<1>3. CASE n = NoNode
  BY <1>1, <1>2, <1>3 DEF Moving, MovedAll, Done
<1>4. CASE n # NoNode
  <2>1. Numbers \subseteq Nat /\ FileSizes \subseteq Nat
    BY ShellAssumption
  <2>2. n \in [kind : {"dir", "devfs", "exfat"}, size : Nat]
    <3>. DEFINE K == Kind(target)
                e == [kind |-> "exfat", size |-> 0]
                d == [kind |-> "dir", size |-> IF K = "exfat" THEN 1 ELSE 2]
    <3>1. n = e \/ n = d \/ n \in [kind : {K}, size : FileSizes]
      <4>. HIDE DEF K, e, d
      <4>1. Opened(cmd, target) \subseteq vfs_open(target) \cup {e}
        BY Zenon DEF Opened, e
      <4>2. vfs_open(target) \subseteq {NoNode, d, e} \cup [kind : {K}, size : FileSizes]
        BY Zenon DEF vfs_open, e, d, K
      <4>. QED
        BY <4>1, <4>2, <1>4, Zenon
    <3>2. K \in {"devfs", "exfat"}
      BY DEF Kind
    <3>3. e \in [kind : {"dir", "devfs", "exfat"}, size : Nat] /\ d \in [kind : {"dir", "devfs", "exfat"}, size : Nat]
      OBVIOUS
    <3>. HIDE DEF K
    <3>. QED
      BY <3>1, <3>2, <3>3, <2>1, Zenon
  <2>3. /\ at' = "run" /\ node' = n /\ failed' = failed
        /\ off' \in Nat /\ from' = off' /\ (cmd # "hexdump" => off' = 0)
        /\ arg' \in Nat \cup {All} /\ (arg' = All => cmd = "hexdump")
    <3>1. All \notin Nat
      BY DEF All
    <3>. QED
      BY <1>2, <1>4, <2>1, <3>1
  <2>4. off' \in 0..off' /\ off' <= off' /\ 0 <= n.size /\ (arg' \in Nat => 0 <= arg') /\ 0 \in 0..0
    BY <2>2, <2>3
  <2>5. failed \in BOOLEAN
    BY DEF Moving
  <2>. QED
    BY <1>1, <2>2, <2>3, <2>4, <2>5 DEF Moving, MovedAll
<1>. QED
  BY <1>3, <1>4

\* A command typed at the prompt has moved nothing.
LEMMA EnterMoves == ASSUME Moving, NEW c \in Commands, NEW a, Enter(c, a) PROVE Moving'
<1>1. /\ at = "prompt" /\ at' = "open" /\ cmd' = c
      /\ UNCHANGED <<node, arg, off, from, failed>>
  BY DEF Enter
<1>2. off = 0 /\ from = 0 /\ arg = 0 /\ node.size = 0
  BY <1>1 DEF Moving
<1>3. All # 0
  BY DEF All
<1>. QED
  BY <1>1, <1>2, <1>3 DEF Moving, MovedAll

\* cd and mount are whole commands.
LEMMA AtPromptKeeps == ASSUME Moving, Translated, UNCHANGED iovars, at = "prompt" PROVE Moving' /\ Translated'
<1>1. UNCHANGED <<at, cmd, path, target, node, arg, off, from, failed>>
  BY DEF iovars
<1>2. Moving'
  BY <1>1 DEF Moving, MovedAll, Moved
<1>3. Translated'
  BY <1>1 DEF Translated
<1>. QED
  BY <1>2, <1>3

\* Translation gives one or two slashes.
LEMMA TargetSlashes ==
  ASSUME NEW a PROVE translate_unix_path(a).slashes \in 1..2
BY DEF translate_unix_path, Absolute, resolve_path, Place

\* When the main loop enters a command, the path it hands on is the translation of what was typed.
LEMMA EnterTranslates ==
  ASSUME Translated, Cwd, NEW c \in Commands, NEW a \in Typed \cup {NoArg}, Enter(c, a)
  PROVE  Translated' /\ Cwd'
<1>1. /\ at' = "open" /\ cmd' = c /\ path' = a
      /\ target' = (IF a = NoArg THEN Place(s_cwd_mnt, 1, s_cwd_path) ELSE translate_unix_path(a))
      /\ UNCHANGED <<mounts, s_cwd_mnt, s_cwd_path>>
  BY DEF Enter, cwdvars
<1>2. Cwd'
  BY <1>1 DEF Cwd
<1>3. translate_unix_path(a)' = translate_unix_path(a)
  BY <1>1 DEF translate_unix_path, Absolute, resolve_path
<1>4. target'.slashes \in 0..2
  BY <1>1, TargetSlashes DEF Place
<1>. QED
  BY <1>1, <1>2, <1>3, <1>4 DEF Translated

\* The steps of a command leave the directory, and drop the path once it is
\* opened.
LEMMA CommandTranslates == ASSUME Translated, Cwd, Command PROVE Translated' /\ Cwd'
<1>1. UNCHANGED <<mounts, s_cwd_mnt, s_cwd_path>>
  BY DEF Command, Open, CallByPath, cat, hexdump, fill, write, ls, Yield, PathDone, Running, cwdvars
<1>2. Cwd'
  BY <1>1 DEF Cwd
<1>3. CASE Open \/ CallByPath
  <2>1. at' \in {"run", "done"} /\ cmd' = cmd /\ path' = NoArg /\ target' = NoPlace
    BY <1>3 DEF Open, CallByPath, PathDone, Done
  <2>2. NoPlace.slashes \in 0..2
    BY DEF NoPlace, Place
  <2>3. at' \in {"prompt", "open", "run", "done"} /\ at' # "open"
    BY <2>1
  <2>. QED
    BY <1>2, <2>1, <2>2, <2>3, Zenon DEF Translated
<1>4. CASE cat \/ hexdump \/ fill \/ write \/ ls
  <2>1. at = "run" /\ cmd' = cmd /\ path' = path /\ target' = target
    BY <1>4 DEF cat, hexdump, fill, write, ls, Running
  <2>2. at' = at \/ at' = "done"
    BY <1>4, <2>1, Zenon DEF cat, hexdump, fill, write, ls, Done, Goes
  <2>3. at' \in {"prompt", "open", "run", "done"} /\ at' # "open" /\ at # "open"
    BY <2>1, <2>2
  <2>. QED
    BY <1>2, <2>1, <2>3, Zenon DEF Translated
<1>5. CASE Yield
  <2>1. at = "done" /\ at' = "prompt" /\ cmd' = "none" /\ path' = path /\ target' = target
    BY <1>5 DEF Yield
  <2>3. at' \in {"prompt", "open", "run", "done"} /\ at' # "open" /\ at # "open"
    BY <2>1
  <2>. QED
    BY <1>2, <2>1, <2>3, Zenon DEF Translated
<1>. QED
  BY <1>2, <1>3, <1>4, <1>5 DEF Command

\* The invariant holds at the prompt the shell starts with.
LEMMA ShellInit == Init => ShellInv
<1>. SUFFICES ASSUME Init PROVE ShellInv
  OBVIOUS
<1>1. << >> \in UpToLen(Words, MaxPath)
  <2>1. MaxPath \in Nat /\ << >> \in Seq(Words) /\ Len(<< >>) <= MaxPath
    BY ShellPathAssumption
  <2>. QED
    BY <2>1, Bounded, Zenon
<1>2. Cwd
  BY <1>1 DEF Init, PathInit, Cwd, CwdMounts
<1>3. Translated
  <2>1. at = "prompt" /\ cmd = "none" /\ path = NoArg /\ target = NoPlace
    BY DEF Init, AtRest
  <2>2. NoPlace.slashes \in 0..2
    BY DEF NoPlace, Place
  <2>. QED
    BY <2>1, <2>2 DEF Translated
<1>4. Moving
  <2>1. /\ at = "prompt" /\ cmd = "none" /\ node = NoNode /\ arg = 0 /\ off = 0 /\ from = 0
        /\ failed = FALSE
    BY DEF Init, AtRest
  <2>2. NoNode \in [kind : {"none", "dir", "devfs", "exfat"}, size : Nat] /\ NoNode.size = 0
    BY DEF NoNode
  <2>3. 0 \in 0..0 /\ 0 \in Nat /\ 0 # All
    BY DEF All
  <2>. QED
    BY <2>1, <2>2, <2>3, Zenon DEF Moving, MovedAll
<1>. QED
  BY <1>2, <1>3, <1>4 DEF ShellInv

\* Every step of the shell, of the VFS calls it makes and of the loops of cat, write and fill keeps the invariant.
LEMMA ShellStep == ShellInv /\ [Next]_vars => ShellInv'
<1>. SUFFICES ASSUME ShellInv, [Next]_vars PROVE ShellInv'
  OBVIOUS
<1>0. Cwd /\ Translated /\ Moving
  BY DEF ShellInv
<1>1. ASSUME NEW a \in Typed, AtPrompt(cd(a)) PROVE ShellInv'
  <2>1. cd(a) /\ at = "prompt" /\ UNCHANGED iovars
    BY <1>1, Zenon DEF AtPrompt
  <2>. QED
    BY <2>1, <1>0, CdType, AtPromptKeeps, Zenon DEF ShellInv
<1>2. ASSUME NEW m \in Mountable, AtPrompt(mount(m)) PROVE ShellInv'
  <2>1. mount(m) /\ at = "prompt" /\ UNCHANGED iovars
    BY <1>2, Zenon DEF AtPrompt
  <2>2. Cwd'
    BY <2>1, <1>0, Zenon DEF mount, Cwd
  <2>. QED
    BY <2>1, <2>2, <1>0, AtPromptKeeps, Zenon DEF ShellInv
<1>3. ASSUME NEW c \in Commands, NEW a \in Typed \cup {NoArg}, Enter(c, a) PROVE ShellInv'
  BY <1>0, <1>3, EnterMoves, EnterTranslates, Zenon DEF ShellInv
<1>4. CASE Command
  <2>1. Moving'
    BY <1>0, <1>4, CatMoves, HexdumpMoves, FillMoves, OthersMove, OpenMoves, Zenon DEF Command
  <2>. QED
    BY <2>1, <1>0, <1>4, CommandTranslates, Zenon DEF ShellInv
<1>5. CASE UNCHANGED vars
  <2>1. UNCHANGED <<mounts, s_cwd_mnt, s_cwd_path, at, cmd, path, target, node, arg, off, from, failed>>
    BY <1>5 DEF vars, cwdvars, iovars
  <2>2. Cwd' /\ Moving'
    BY <2>1, <1>0 DEF Cwd, Moving, MovedAll, Moved
  <2>3. Translated'
    BY <2>1, <1>0 DEF Translated, translate_unix_path, Absolute, resolve_path
  <2>. QED
    BY <2>2, <2>3 DEF ShellInv
<1>6. "ls" \in Commands
  BY DEF Commands
<1>. QED
  BY <1>1, <1>2, <1>3, <1>4, <1>5, <1>6, Zenon DEF Next

\* The inductive invariant of the shell: a well-formed working directory, a translated path, and
\* loops that have moved as much as their counters say.
THEOREM ShellInvariant == Spec => []ShellInv
BY ShellInit, ShellStep, PTL DEF Spec

-----------------------------------------------------------------------------
\* A relative path leads into the current mount, to the components it names
\* ("Normalize '.' and '..' segments", shell.c:186), for every directory and
\* path that resolve_path's stack has room for.
THEOREM ShellRelativeNormalised == Spec => []RelativeNormalised
<1>1. ASSUME ShellInv PROVE RelativeNormalised
  <2>1. TypeOK
    BY <1>1 DEF ShellInv, Cwd, CwdMounts, Words, Translated, Moving, TypeOK
  <2>2. ASSUME path.kind = "rel", Len(s_cwd_path \o path.comps) <= MaxComps
        PROVE  target.mnt = s_cwd_mnt /\ target.comps = Named(s_cwd_path \o path.comps)
    <3>1. path # NoArg
      <4>1. NoArg.kind = "none"
        BY DEF NoArg
      <4>. QED
        BY <2>2, <4>1
    <3>2. path \in Typed /\ target = translate_unix_path(path)
      BY <3>1, <1>1 DEF ShellInv, Translated
    <3>3. Components \subseteq Words /\ MaxPath \in Nat
      BY ShellPathAssumption DEF Words
    <3>4. s_cwd_path \in Seq(Words)
      BY <3>3, <1>1, Bounded, Zenon DEF ShellInv, Cwd
    <3>5. path.comps \in Seq(Components)
      BY <3>2, TypedArg, Zenon
    <3>6. s_cwd_path \o path.comps \in Seq(Words)
      BY <3>3, <3>4, <3>5
    <3>7. Normalised(s_cwd_path \o path.comps) = Named(s_cwd_path \o path.comps)
      BY <3>6, <2>2, NormalisedIsNamed, Zenon
    <3>8. /\ translate_unix_path(path).mnt = s_cwd_mnt
          /\ translate_unix_path(path).comps = Normalised(s_cwd_path \o path.comps)
      BY <2>2 DEF translate_unix_path, resolve_path, Place
    <3>. QED
      BY <3>2, <3>7, <3>8, Zenon
  <2>. QED
    BY <2>1, <2>2, Zenon DEF RelativeNormalised
<1>. QED
  BY <1>1, ShellInvariant, PTL

\* What pwd prints leads back: cd with it as an absolute path (shell.c's cd
\* and translate_unix_path) stays where it is.
THEOREM ShellPwdLeadsBack == Spec => []PwdLeadsBack
<1>1. ASSUME ShellInv PROVE PwdLeadsBack
  <2>. SUFFICES ASSUME s_cwd_mnt \in mounts \cap {"dev", "root"},
                       s_cwd_mnt = "root" => s_cwd_path = << >> \/ s_cwd_path[1] \notin mounts
                PROVE  Absolute(current_unix) = Place(s_cwd_mnt, 1, s_cwd_path)
    BY Zenon DEF PwdLeadsBack
  <2>1. s_cwd_path \in Seq(Words) /\ "dev" \in Words
    <3>1. MaxPath \in Nat /\ "dev" \in Words
      BY ShellPathAssumption DEF Words, Components
    <3>. QED
      BY <3>1, <1>1, Bounded, Zenon DEF ShellInv, Cwd
  <2>2. CASE s_cwd_mnt = "dev"
    <3>. DEFINE u == <<"dev">> \o s_cwd_path
    <3>1. current_unix = u
      BY <2>2 DEF current_unix
    <3>2. u # << >> /\ u[1] = "dev" /\ Tail(u) = s_cwd_path
      BY <2>1
    <3>. QED
      BY <2>2, <3>1, <3>2, Zenon DEF Absolute
  <2>3. CASE s_cwd_mnt = "root"
    BY <2>3 DEF current_unix, Absolute
  <2>. QED
    BY <2>2, <2>3
<1>. QED
  BY <1>1, ShellInvariant, PTL

\* A command that met no failure has moved all it was asked for and no more
\* when it is done: cat the file, hexdump its count or the rest, fill its size
\* (shell.c).
THEOREM ShellMovedAll == Spec => []MovedAll
<1>1. ShellInv => MovedAll
  BY DEF ShellInv, Moving
<1>. QED
  BY <1>1, ShellInvariant, PTL
=============================================================================
