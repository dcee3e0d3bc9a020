----------------------------- MODULE SchedProofs ----------------------------
(***************************************************************************)
(* Proofs about the scheduler, for every size of the thread table.         *)
(***************************************************************************)
EXTENDS Sched, WellFoundedInduction, TLAPS

-----------------------------------------------------------------------------
(* Linked lists and the sequences they stand for. *)

Distinct(s) == \A i, j \in 1..Len(s) : s[i] = s[j] => i = j
Member(t, s) == \E i \in 1..Len(s) : s[i] = t

\* Thread identifiers are naturals, and NULL is none of them.
LEMMA ThreadFacts == NULL \notin Threads /\ Threads \subseteq Nat /\ MAX_THREADS \in Nat
BY SchedAssumption DEF NULL, Threads

\* A nonempty set of naturals has a least element.
LEMMA LeastNatural ==
  ASSUME NEW T \in SUBSET Nat, T # {}
  PROVE  \E x \in T : \A y \in T : x <= y
<1> DEFINE R == {ss \in Nat \X Nat : ss[1] < ss[2]}
<1>1. IsWellFoundedOn(R, Nat)
  BY NatLessThanWellFounded DEF OpToRel
<1> HIDE DEF R
<1>2. PICK x \in T : \A y \in T : ~ (<<y, x>> \in R)
  BY <1>1, WFMin, Zenon
<1>3. ASSUME NEW y \in T, y < x PROVE FALSE
  <2>1. <<y, x>> \in R
    BY <1>3 DEF R
  <2>. QED
    BY <2>1, <1>2
<1>. QED
  BY <1>3

\* No more than m numbers up to m are different.
LEMMA Pigeons ==
  ASSUME NEW n \in Nat, NEW m \in Nat, NEW f \in [1..n -> 1..m],
         \A i, j \in 1..n : f[i] = f[j] => i = j
  PROVE  n <= m
<1>. DEFINE Inj(k, l, g) == g \in [1..k -> 1..l] /\ \A i, j \in 1..k : g[i] = g[j] => i = j
            T == {l \in Nat : \E k \in Nat : k > l /\ \E g : Inj(k, l, g)}
<1>1. SUFFICES ASSUME n > m PROVE FALSE
  OBVIOUS
<1>2. PICK l \in T : \A y \in T : l <= y
  <2>. HIDE DEF Inj
  <2>1. Inj(n, m, f)
    BY DEF Inj
  <2>2. T \in SUBSET Nat /\ m \in T
    BY <1>1, <2>1
  <2>. HIDE DEF T
  <2>. QED
    BY <2>2, LeastNatural, Zenon
<1>3. l \in Nat /\ \E k \in Nat : k > l /\ \E g : Inj(k, l, g)
  <2>. HIDE DEF Inj
  <2>. QED
    BY <1>2
<1>4. PICK k \in Nat : k > l /\ \E g : Inj(k, l, g)
  BY <1>3, Zenon
<1>5. PICK g : Inj(k, l, g)
  BY <1>4, Zenon
<1>6. /\ \A i \in 1..k : g[i] \in 1..l
      /\ \A i, j \in 1..k : g[i] = g[j] => i = j
  BY <1>5
<1>7. l > 0
  BY <1>3, <1>4, <1>6
<1>. DEFINE e == [i \in 1..(k - 1) |-> IF g[i] = l THEN g[k] ELSE g[i]]
<1>8. ASSUME NEW i \in 1..(k - 1) PROVE e[i] \in 1..(l - 1) /\ i \in 1..k /\ k \in 1..k /\ i # k
  <2>1. i \in 1..k /\ k \in 1..k /\ i # k
    BY <1>3, <1>4, <1>8
  <2>2. g[i] \in 1..l /\ g[k] \in 1..l /\ g[i] # g[k]
    BY <2>1, <1>6
  <2>3. e[i] = IF g[i] = l THEN g[k] ELSE g[i]
    BY <1>8
  <2>. HIDE DEF e
  <2>. QED
    BY <1>3, <1>7, <2>1, <2>2, <2>3, SMTT(20)
<1>9. ASSUME NEW i \in 1..(k - 1), NEW j \in 1..(k - 1), e[i] = e[j] PROVE i = j
  <2>1. /\ i \in 1..k /\ j \in 1..k /\ k \in 1..k /\ i # k /\ j # k
        /\ (IF g[i] = l THEN g[k] ELSE g[i]) = (IF g[j] = l THEN g[k] ELSE g[j])
    BY <1>8, <1>9
  <2>. QED
    BY <2>1, <1>6
<1>10. Inj(k - 1, l - 1, e)
  <2>1. e \in [1..(k - 1) -> 1..(l - 1)]
    BY <1>8
  <2>. HIDE DEF e
  <2>. QED
    BY <1>9, <2>1
<1>11. l - 1 \in T
  <2>1. l - 1 \in Nat /\ k - 1 \in Nat /\ k - 1 > l - 1
    BY <1>3, <1>4, <1>7
  <2>. HIDE DEF Inj, e
  <2>. QED
    BY <1>10, <2>1
<1>. HIDE DEF T
<1>. QED
  BY <1>2, <1>3, <1>11

(* A list without repetitions is no longer than the thread table. *)
LEMMA ShortList ==
  ASSUME NEW s \in Seq(Threads), Distinct(s)
  PROVE  s \in Lists
<1>. DEFINE f == [i \in 1..Len(s) |-> s[i] + 1]
<1>1. Len(s) \in Nat /\ s \in [1..Len(s) -> Threads] /\ MAX_THREADS \in Nat
  BY SchedAssumption
<1>2. \A i \in 1..Len(s) : s[i] \in Nat /\ f[i] = s[i] + 1 /\ f[i] \in 1..MAX_THREADS
  BY <1>1 DEF Threads
<1>3. f \in [1..Len(s) -> 1..MAX_THREADS]
  BY <1>2
<1>. HIDE DEF f
<1>4. \A i, j \in 1..Len(s) : f[i] = f[j] => i = j
  BY <1>2 DEF Distinct
<1>5. Len(s) <= MAX_THREADS
  BY <1>1, <1>3, <1>4, Pigeons
<1>6. Len(s) \in 0..MAX_THREADS
  BY <1>1, <1>5
<1>. QED
  BY <1>1, <1>6, Zenon DEF Lists

(* A walk along next pointers that ends has only one course. *)
LEMMA OneWalk ==
  ASSUME NEW rq, NEW nx, NEW s \in Seq(Threads), NEW r \in Seq(Threads),
         IsList(rq, nx, s), IsList(rq, nx, r), Len(s) <= Len(r)
  PROVE  s = r
<1>1. Len(s) \in Nat /\ Len(r) \in Nat
      /\ (\A i \in 1..Len(s) : s[i] \in Threads) /\ (\A i \in 1..Len(r) : r[i] \in Threads)
  OBVIOUS
<1>2. CASE s = << >>
  <2>1. rq = NULL
    BY <1>2 DEF IsList
  <2>2. r = << >>
    <3> SUFFICES ASSUME r # << >> PROVE FALSE
      OBVIOUS
    <3>1. rq = r[1] /\ Len(r) >= 1
      BY <1>1 DEF IsList
    <3>. QED
      BY <2>1, <3>1, <1>1, ThreadFacts
  <2>. QED
    BY <1>2, <2>2
<1>3. CASE s # << >>
  <2>1. Len(s) >= 1 /\ Len(r) >= 1 /\ r # << >>
    BY <1>1, <1>3
  <2>2. /\ rq = s[1] /\ \A i \in 1..(Len(s) - 1) : nx[s[i]] = s[i + 1]
        /\ nx[s[Len(s)]] = NULL
        /\ rq = r[1] /\ \A i \in 1..(Len(r) - 1) : nx[r[i]] = r[i + 1]
    BY <1>3, <2>1 DEF IsList
  <2>3. \A i \in 1..Len(s) : s[i] = r[i]
    <3> DEFINE T == {i \in 1..Len(s) : s[i] # r[i]}
    <3>1. SUFFICES ASSUME T # {} PROVE FALSE
      OBVIOUS
    <3>2. PICK k \in T : \A y \in T : k <= y
      <4>1. T \in SUBSET Nat
        BY <1>1
      <4>. QED
        BY <3>1, <4>1, LeastNatural, Zenon
    <3>3. k \in 1..Len(s) /\ s[k] # r[k] /\ k # 1
      BY <2>1, <2>2, <3>2, Zenon
    <3>4. k - 1 \in 1..(Len(s) - 1) /\ k - 1 \in 1..(Len(r) - 1) /\ k - 1 \notin T
      BY <1>1, <3>2, <3>3
    <3>5. s[k - 1] = r[k - 1]
      BY <1>1, <3>4
    <3>6. nx[s[k - 1]] = s[(k - 1) + 1] /\ nx[r[k - 1]] = r[(k - 1) + 1]
      BY <2>2, <3>4
    <3>7. (k - 1) + 1 = k
      BY <3>3
    <3>. QED
      BY <3>3, <3>5, <3>6, <3>7
  <2>4. Len(s) = Len(r)
    <3>1. SUFFICES ASSUME Len(s) < Len(r) PROVE FALSE
      BY <1>1
    <3>2. Len(s) \in 1..(Len(r) - 1) /\ Len(s) + 1 \in 1..Len(r) /\ Len(s) \in 1..Len(s)
      BY <1>1, <2>1, <3>1
    <3>3. nx[r[Len(s)]] = r[Len(s) + 1]
      BY <2>2, <3>2
    <3>. QED
      BY <1>1, <2>2, <2>3, <3>2, <3>3, ThreadFacts
  <2>. QED
    BY <2>3, <2>4
<1>. QED
  BY <1>2, <1>3

\* Walking the links from the queue's head yields the one list they spell.
LEMMA WalkIs ==
  ASSUME NEW rq, NEW nx, NEW s \in Seq(Threads), Distinct(s), IsList(rq, nx, s)
  PROVE  Walk(rq, nx) = s
<1>1. s \in Lists
  BY ShortList
<1>2. ASSUME NEW r \in Lists, IsList(rq, nx, r) PROVE r = s
  <2>1. r \in Seq(Threads)
    <3>1. PICK n \in 0..MAX_THREADS : r \in [1..n -> Threads]
      BY DEF Lists
    <3>2. n \in Nat
      BY <3>1, SchedAssumption
    <3>. QED
      BY <3>1, <3>2
  <2>2. Len(r) \in Nat /\ Len(s) \in Nat
    BY <2>1
  <2>3. CASE Len(s) <= Len(r)
    BY <1>2, <2>1, <2>3, OneWalk
  <2>4. CASE Len(r) <= Len(s)
    BY <1>2, <2>1, <2>4, OneWalk
  <2>. QED
    BY <2>2, <2>3, <2>4
<1>. QED
  BY <1>1, <1>2 DEF Walk

\* A NULL head spells the empty list and no other.
LEMMA EmptyList ==
  ASSUME NEW rq, NEW nx, NEW s \in Seq(Threads), IsList(rq, nx, s)
  PROVE  /\ s = << >> <=> rq = NULL
         /\ s # << >> => rq = s[1] /\ s[1] \in Threads /\ Len(s) >= 1
<1>1. CASE s = << >>
  BY <1>1 DEF IsList
<1>2. CASE s # << >>
  <2>1. Len(s) >= 1 /\ s[1] \in Threads
    BY <1>2
  <2>. QED
    BY <1>2, <2>1, ThreadFacts DEF IsList
<1>. QED
  BY <1>1, <1>2

\* The members of a list with one element appended.
LEMMA MemberAppend ==
  ASSUME NEW s \in Seq(Threads), NEW t \in Threads
  PROVE  \A u : Member(u, Append(s, t)) <=> u = t \/ Member(u, s)
<1> DEFINE a == Append(s, t)
<1>1. /\ Len(s) \in Nat /\ Len(a) = Len(s) + 1 /\ a[Len(s) + 1] = t
      /\ \A i \in 1..Len(s) : a[i] = s[i]
  OBVIOUS
<1> HIDE DEF a
<1>2. ASSUME NEW u, Member(u, a) PROVE u = t \/ Member(u, s)
  <2>1. PICK i \in 1..Len(a) : a[i] = u
    BY <1>2 DEF Member
  <2>2. CASE i \in 1..Len(s)
    BY <1>1, <2>1, <2>2 DEF Member
  <2>3. CASE i = Len(s) + 1
    BY <1>1, <2>1, <2>3
  <2>. QED
    BY <1>1, <2>1, <2>2, <2>3
<1>3. ASSUME NEW u, u = t \/ Member(u, s) PROVE Member(u, a)
  <2>1. CASE u = t
    <3>1. Len(s) + 1 \in 1..Len(a)
      BY <1>1
    <3>. QED
      BY <1>1, <2>1, <3>1 DEF Member
  <2>2. CASE Member(u, s)
    <3>1. PICK i \in 1..Len(s) : s[i] = u
      BY <2>2 DEF Member
    <3>2. i \in 1..Len(a)
      BY <1>1, <3>1
    <3>. QED
      BY <1>1, <3>1, <3>2 DEF Member
  <2>. QED
    BY <1>3, <2>1, <2>2
<1>. QED
  BY <1>2, <1>3 DEF a

(* enqueue appends. *)
LEMMA EnqueueAppends ==
  ASSUME NEW rq, NEW nx \in [Threads -> Threads \cup {NULL}],
         NEW s \in Seq(Threads), Distinct(s), IsList(rq, nx, s),
         NEW t \in Threads, ~Member(t, s)
  PROVE  /\ enqueue(rq, nx, t).runq \in Threads
         /\ enqueue(rq, nx, t).next \in [Threads -> Threads \cup {NULL}]
         /\ IsList(enqueue(rq, nx, t).runq, enqueue(rq, nx, t).next, Append(s, t))
         /\ Append(s, t) \in Seq(Threads) /\ Distinct(Append(s, t))
<1> DEFINE cut == [nx EXCEPT ![t] = NULL]
           a == Append(s, t)
           q == enqueue(rq, nx, t)
<1>0. /\ cut \in [Threads -> Threads \cup {NULL}] /\ cut[t] = NULL
      /\ \A u \in Threads : u # t => cut[u] = nx[u]
  OBVIOUS
<1>1. /\ Len(s) \in Nat /\ a \in Seq(Threads) /\ Len(a) = Len(s) + 1 /\ a[Len(s) + 1] = t
      /\ \A i \in 1..Len(s) : a[i] = s[i] /\ s[i] \in Threads /\ s[i] # t
      /\ a # << >>
  BY DEF Member
<1>2. Distinct(a)
  BY <1>1 DEF Distinct
<1> HIDE DEF cut, a
<1>3. CASE s = << >>
  <2>1. rq = NULL /\ Len(s) = 0
    BY <1>3, EmptyList, Zenon
  <2>2. q = [runq |-> t, next |-> cut]
    BY <2>1 DEF enqueue, cut
  <2>3. a[1] = t /\ Len(a) = 1
    BY <1>1, <2>1
  <2>4. IsList(t, cut, a)
    BY <1>0, <1>1, <2>3 DEF IsList
  <2>. QED
    BY <1>0, <1>1, <1>2, <2>2, <2>4 DEF a
<1>4. CASE s # << >>
  <2>1. rq # NULL /\ rq = s[1] /\ Len(s) >= 1 /\ rq \in Threads
    BY <1>4, EmptyList
  <2>2. IsList(rq, cut, s)
    BY <1>0, <1>1, <1>4 DEF IsList
  <2>3. Walk(rq, cut) = s
    BY <2>2, WalkIs
  <2> DEFINE last == s[Len(s)]
             nx2 == [cut EXCEPT ![last] = t]
  <2>4. q = [runq |-> rq, next |-> nx2]
    BY <2>1, <2>3, Zenon DEF enqueue, cut
  <2>5. last \in Threads /\ last # t /\ nx2 \in [Threads -> Threads \cup {NULL}]
        /\ nx2[last] = t /\ nx2[t] = NULL
        /\ \A u \in Threads : u # last => nx2[u] = cut[u]
    BY <1>0, <1>1, <2>1
  <2> HIDE DEF nx2
  <2>6. \A i \in 1..(Len(s) - 1) : nx2[s[i]] = s[i + 1]
    <3> SUFFICES ASSUME NEW i \in 1..(Len(s) - 1) PROVE nx2[s[i]] = s[i + 1]
      OBVIOUS
    <3>1. i \in 1..Len(s) /\ Len(s) \in 1..Len(s) /\ i # Len(s)
      BY <1>1, <2>1
    <3>2. s[i] # last
      BY <3>1 DEF Distinct
    <3>. QED
      BY <1>1, <2>2, <2>5, <3>1, <3>2, <1>4 DEF IsList
  <2> HIDE DEF last
  <2>7. /\ a[1] = rq /\ nx2[a[Len(a)]] = NULL
        /\ \A i \in 1..(Len(a) - 1) : nx2[a[i]] = a[i + 1]
    <3>1. a[1] = rq /\ nx2[a[Len(a)]] = NULL
      BY <1>1, <2>1, <2>5
    <3>2. ASSUME NEW i \in 1..(Len(a) - 1) PROVE nx2[a[i]] = a[i + 1]
      <4>1. CASE i \in 1..(Len(s) - 1)
        <5>1. a[i] = s[i] /\ a[i + 1] = s[i + 1]
          BY <1>1, <4>1
        <5>. QED
          BY <2>6, <4>1, <5>1
      <4>2. CASE i = Len(s)
        BY <1>1, <2>1, <2>5, <4>2 DEF last
      <4>. QED
        BY <1>1, <4>1, <4>2
    <3>. QED
      BY <3>1, <3>2
  <2>8. IsList(rq, nx2, a)
    BY <1>1, <2>7 DEF IsList
  <2>. QED
    BY <1>1, <1>2, <2>1, <2>4, <2>5, <2>8 DEF a
<1>. QED
  BY <1>3, <1>4

(* Dropping the head. *)
LEMMA DequeueDrops ==
  ASSUME NEW rq, NEW nx, NEW s \in Seq(Threads), Distinct(s), IsList(rq, nx, s), rq # NULL
  PROVE  /\ rq \in Threads /\ Head(s) = rq /\ s # << >>
         /\ Tail(s) \in Seq(Threads) /\ Distinct(Tail(s)) /\ IsList(nx[rq], nx, Tail(s))
         /\ ~Member(rq, Tail(s))
         /\ \A t : Member(t, s) <=> t = rq \/ Member(t, Tail(s))
         /\ nx[rq] = NULL \/ nx[rq] \in Threads
<1>1. s # << >> /\ Len(s) >= 1 /\ Len(s) \in Nat /\ rq = s[1] /\ rq \in Threads
  BY EmptyList
<1> DEFINE r == Tail(s)
<1>2. r \in Seq(Threads) /\ Len(r) = Len(s) - 1 /\ \A i \in 1..Len(r) : r[i] = s[i + 1]
  BY <1>1
<1> HIDE DEF r
<1>3. Distinct(r)
  BY <1>1, <1>2 DEF Distinct
<1>4. ~Member(rq, r)
  BY <1>1, <1>2 DEF Distinct, Member
<1>5. \A t : Member(t, s) <=> t = rq \/ Member(t, r)
  <2>1. ASSUME NEW t, Member(t, s) PROVE t = rq \/ Member(t, r)
    <3>1. PICK i \in 1..Len(s) : s[i] = t
      BY <2>1 DEF Member
    <3>2. CASE i = 1
      BY <1>1, <3>1, <3>2
    <3>3. CASE i # 1
      <4>1. i - 1 \in 1..Len(r) /\ (i - 1) + 1 = i
        BY <1>1, <1>2, <3>1, <3>3
      <4>. QED
        BY <1>2, <3>1, <4>1, Zenon DEF Member
    <3>. QED
      BY <3>2, <3>3
  <2>2. ASSUME NEW t, t = rq \/ Member(t, r) PROVE Member(t, s)
    <3>1. CASE t = rq
      BY <1>1, <3>1 DEF Member
    <3>2. CASE Member(t, r)
      <4>1. PICK i \in 1..Len(r) : r[i] = t
        BY <3>2 DEF Member
      <4>2. i + 1 \in 1..Len(s) /\ s[i + 1] = t
        BY <1>1, <1>2, <4>1
      <4>. QED
        BY <4>2 DEF Member
    <3>. QED
      BY <2>2, <3>1, <3>2
  <2>. QED
    BY <2>1, <2>2
<1>6. IsList(nx[rq], nx, r)
  <2>0. (\A i \in 1..(Len(s) - 1) : nx[s[i]] = s[i + 1]) /\ nx[s[Len(s)]] = NULL
    BY <1>1 DEF IsList
  <2>1. CASE Len(s) = 1
    <3>1. r = << >>
      BY <1>2, <2>1
    <3>2. nx[rq] = NULL
      BY <1>1, <2>0, <2>1
    <3>. QED
      BY <3>1, <3>2 DEF IsList
  <2>2. CASE Len(s) > 1
    <3>1. r # << >> /\ Len(r) >= 1 /\ nx[rq] = r[1]
      BY <1>1, <1>2, <2>0, <2>2
    <3>2. nx[r[Len(r)]] = NULL
      BY <1>1, <1>2, <2>0, <2>2
    <3>3. ASSUME NEW i \in 1..(Len(r) - 1) PROVE nx[r[i]] = r[i + 1]
      <4>1. i + 1 \in 1..(Len(s) - 1) /\ i \in 1..Len(r) /\ i + 1 \in 1..Len(r)
        BY <1>1, <1>2
      <4>. QED
        BY <1>2, <2>0, <4>1
    <3>. QED
      BY <3>1, <3>2, <3>3 DEF IsList
  <2>3. Len(s) = 1 \/ Len(s) > 1
    <3>1. Len(s) >= 1 /\ Len(s) \in Nat
      BY <1>1, Zenon
    <3>2. \A n \in Nat : n >= 1 => n = 1 \/ n > 1
      OBVIOUS
    <3>. QED
      BY <3>1, <3>2, Zenon
  <2>. QED
    BY <2>1, <2>2, <2>3
<1>7. nx[rq] = NULL \/ nx[rq] \in Threads
  BY <1>2, <1>6, EmptyList
<1>. QED
  BY <1>1, <1>2, <1>3, <1>4, <1>5, <1>6, <1>7 DEF r

-----------------------------------------------------------------------------
(* The invariant. *)

(* s is the run queue: the ready threads, each once. *)
IsQueue(s) ==
  /\ s \in Seq(Threads) /\ Distinct(s) /\ IsList(g_runq, next, s)
  /\ \A t \in Threads : Member(t, s) <=> t \in Created /\ state[t] = 0

Bookkeeping ==
  /\ g_current # NULL => g_current \in Created
  /\ g_current = NULL => cpu = Boot
  /\ halted => g_current # NULL

IInv == TypeOK /\ (\E s : IsQueue(s)) /\ RightStack /\ Bookkeeping

\* Under the invariant the run queue is the list the links spell.
LEMMA QueueIs ==
  ASSUME NEW s, IsQueue(s)
  PROVE  Queue = s
BY WalkIs DEF IsQueue, Queue

\* The scheduler's inductive invariant holds at boot.
LEMMA SchedInit == Init => IInv
<1> SUFFICES ASSUME Init PROVE IInv
  OBVIOUS
<1>1. TypeOK
  <2>1. rsp \in [Threads -> Frame]
    BY DEF Init, Frame
  <2>2. next \in [Threads -> Threads \cup {NULL}] /\ state \in [Threads -> 0..2]
    BY DEF Init
  <2>3. g_thread_count \in 0..MAX_THREADS
    BY SchedAssumption DEF Init
  <2>4. halted \in BOOLEAN /\ at \in {"boot", "none", "trampoline", "yield", "end"}
    BY Zenon DEF Init
  <2>. QED
    BY <2>1, <2>2, <2>3, <2>4, Zenon DEF Init, TypeOK
<1>2. Created = {}
  BY DEF Init, Created
<1>3. IsQueue(<< >>)
  BY <1>2 DEF Init, IsQueue, Distinct, IsList, Member
<1>. QED
  BY <1>1, <1>2, <1>3 DEF IInv, Init, RightStack, Bookkeeping

\* The slot sched_create fills is none of the threads created so far.
LEMMA CreatedFacts ==
  ASSUME TypeOK
  PROVE  /\ Created \subseteq Threads /\ NULL \notin Created
         /\ g_thread_count \notin Created /\ g_thread_count \in Nat
         /\ g_thread_count < MAX_THREADS => g_thread_count \in Threads
BY SchedAssumption DEF TypeOK, Created, Threads, NULL

\* sched_create keeps the invariant.
LEMMA CreateStep == ASSUME IInv, sched_create PROVE IInv'
<1> DEFINE t == g_thread_count
           q == enqueue(g_runq, next, t)
<1>1. /\ ~halted /\ t < MAX_THREADS
      /\ state' = [state EXCEPT ![t] = 0]
      /\ rsp' = [rsp EXCEPT ![t] = [stack |-> t, resume |-> "trampoline"]]
      /\ g_runq' = q.runq /\ next' = q.next
      /\ g_thread_count' = t + 1
      /\ UNCHANGED <<g_current, cpu, at, regs, halted>>
  BY DEF sched_create
<1>2. t \in Threads /\ t \notin Created /\ t \in Nat /\ Created \subseteq Threads
      /\ Threads \subseteq Nat
  BY <1>1, CreatedFacts, ThreadFacts DEF IInv
<1>3. PICK s : IsQueue(s)
  BY DEF IInv
<1>4. next \in [Threads -> Threads \cup {NULL}] /\ state \in [Threads -> 0..2]
      /\ rsp \in [Threads -> Frame]
  BY DEF IInv, TypeOK
<1>5. /\ s \in Seq(Threads) /\ Distinct(s) /\ IsList(g_runq, next, s) /\ ~Member(t, s)
      /\ \A u \in Threads : Member(u, s) <=> u \in Created /\ state[u] = 0
  BY <1>2, <1>3 DEF IsQueue
<1> HIDE DEF t
<1>6. /\ q.runq \in Threads /\ q.next \in [Threads -> Threads \cup {NULL}]
      /\ IsList(q.runq, q.next, Append(s, t))
      /\ Append(s, t) \in Seq(Threads) /\ Distinct(Append(s, t))
  BY <1>2, <1>4, <1>5, EnqueueAppends, Zenon
<1> HIDE DEF q
<1>7. Created' = Created \cup {t}
  BY <1>1, <1>2 DEF Created, t
<1>8. /\ state' \in [Threads -> 0..2] /\ state'[t] = 0
      /\ \A u \in Threads : u # t => state'[u] = state[u]
      /\ rsp' \in [Threads -> Frame] /\ rsp'[t] = [stack |-> t, resume |-> "trampoline"]
      /\ \A u \in Threads : u # t => rsp'[u] = rsp[u]
  BY <1>1, <1>2, <1>4 DEF Frame
<1>9. TypeOK'
  <2>1. g_thread_count' \in 0..MAX_THREADS
    BY <1>1, <1>2, SchedAssumption
  <2>. QED
    BY <1>1, <1>6, <1>8, <2>1 DEF IInv, TypeOK
<1>10. \E r : IsQueue(r)'
  <2>1. \A u : Member(u, Append(s, t)) <=> u = t \/ Member(u, s)
    BY <1>2, <1>5, MemberAppend
  <2>2. \A u \in Threads : Member(u, Append(s, t)) <=> u \in Created' /\ state'[u] = 0
    BY <1>2, <1>5, <1>7, <1>8, <2>1
  <2>3. IsList(g_runq', next', Append(s, t))
    BY <1>1, <1>6
  <2>4. PICK r : r = Append(s, t)
    BY Zenon
  <2>5. IsQueue(r)'
    BY <1>6, <2>2, <2>3, <2>4 DEF IsQueue
  <2>. QED
    BY <2>5
<1>11. RightStack'
  <2>1. g_current # NULL => g_current \in Created /\ g_current # t /\ g_current \in Threads
    BY <1>2, Zenon DEF IInv, Bookkeeping
  <2>. QED
    BY <1>1, <1>2, <1>7, <1>8, <2>1 DEF IInv, RightStack
<1>12. Bookkeeping'
  BY <1>1, <1>7 DEF IInv, Bookkeeping
<1>. QED
  BY <1>9, <1>10, <1>11, <1>12 DEF IInv

\* sched_start keeps the invariant.
LEMMA StartStep == ASSUME IInv, sched_start PROVE IInv'
<1>1. /\ g_current = NULL /\ g_runq # NULL
      /\ g_runq' = next[g_runq] /\ g_current' = g_runq
      /\ state' = [state EXCEPT ![g_runq] = 1]
      /\ cpu' = rsp[g_runq].stack /\ at' = rsp[g_runq].resume /\ regs' = Boot
      /\ UNCHANGED <<g_thread_count, next, rsp, halted>>
  BY DEF sched_start
<1>2. PICK s : IsQueue(s)
  BY DEF IInv
<1>3. PICK t : t = g_runq
  OBVIOUS
<1>4. /\ t \in Threads
      /\ Tail(s) \in Seq(Threads) /\ Distinct(Tail(s)) /\ IsList(next[t], next, Tail(s))
      /\ ~Member(t, Tail(s))
      /\ \A u : Member(u, s) <=> u = t \/ Member(u, Tail(s))
      /\ next[t] = NULL \/ next[t] \in Threads
  BY <1>1, <1>2, <1>3, DequeueDrops DEF IsQueue
<1>5. \A u \in Threads : Member(u, s) <=> u \in Created /\ state[u] = 0
  BY <1>2 DEF IsQueue
<1>6. t \in Created /\ state[t] = 0
  BY <1>4, <1>5
<1>7. rsp[t].stack = t /\ rsp[t].resume \in {"trampoline", "yield"}
  BY <1>6 DEF IInv, RightStack
<1>8. /\ state' \in [Threads -> 0..2] /\ state'[t] = 1
      /\ \A u \in Threads : u # t => state'[u] = state[u]
  BY <1>1, <1>3, <1>4 DEF IInv, TypeOK
<1>9. Created' = Created /\ Created \subseteq Threads /\ NULL \notin Created
  BY <1>1, CreatedFacts DEF Created, IInv
<1>10. TypeOK'
  BY <1>1, <1>3, <1>4, <1>7, <1>8 DEF IInv, TypeOK, Boot
<1>11. IsQueue(Tail(s))'
  BY <1>1, <1>3, <1>4, <1>5, <1>8, <1>9 DEF IsQueue
<1>12. ~halted
  BY <1>1 DEF IInv, Bookkeeping
<1>13. RightStack'
  BY <1>1, <1>3, <1>6, <1>7, <1>8, <1>9, <1>12 DEF IInv, RightStack
<1>14. Bookkeeping'
  BY <1>1, <1>3, <1>6, <1>9, <1>12 DEF Bookkeeping
<1>. QED
  BY <1>10, <1>11, <1>13, <1>14 DEF IInv

(* What a yield does when a thread waits: the branches for a queue that    *)
(* holds the running thread, and for a running thread that is not in       *)
(* state 1, are never taken.                                               *)
LEMMA YieldEffect ==
  ASSUME IInv, sched_yield, NEW s, IsQueue(s)
  PROVE  \E c, t \in Threads :
           /\ c = g_current /\ t = g_runq /\ c # t /\ c \in Created /\ t \in Created
           /\ state[c] = 1 /\ state[t] = 0 /\ ~halted /\ cpu = c
           /\ s # << >> /\ Head(s) = t
           /\ g_runq' \in Threads /\ next' \in [Threads -> Threads \cup {NULL}]
           /\ IsList(g_runq', next', Append(Tail(s), c))
           /\ Append(Tail(s), c) \in Seq(Threads) /\ Distinct(Append(Tail(s), c))
           /\ \A u : Member(u, Append(Tail(s), c)) <=> u = c \/ (Member(u, s) /\ u # t)
           /\ state' = [state EXCEPT ![c] = 0, ![t] = 1]
           /\ g_current' = t
           /\ rsp' = [rsp EXCEPT ![c] = [stack |-> c, resume |-> "yield"]]
           /\ cpu' = rsp[t].stack /\ at' = rsp[t].resume /\ regs' = c
           /\ UNCHANGED <<g_thread_count, halted>>
<1>1. PICK c : c = g_current
  OBVIOUS
<1>2. PICK t : t = g_runq
  OBVIOUS
<1>3. /\ c # NULL /\ ~halted /\ t # NULL
  BY <1>1, <1>2 DEF sched_yield
<1>4. c \in Created /\ c \in Threads /\ state[c] = 1 /\ cpu = c
  BY <1>1, <1>3, CreatedFacts DEF IInv, Bookkeeping, RightStack
<1>5. /\ t \in Threads /\ Head(s) = t /\ s # << >>
      /\ Tail(s) \in Seq(Threads) /\ Distinct(Tail(s)) /\ IsList(next[t], next, Tail(s))
      /\ ~Member(t, Tail(s))
      /\ \A u : Member(u, s) <=> u = t \/ Member(u, Tail(s))
  BY <1>2, <1>3, DequeueDrops DEF IsQueue
<1>6. \A u \in Threads : Member(u, s) <=> u \in Created /\ state[u] = 0
  BY DEF IsQueue
<1>7. t \in Created /\ state[t] = 0 /\ ~Member(c, s)
  BY <1>4, <1>5, <1>6
<1>8. c # t /\ ~Member(c, Tail(s))
  BY <1>4, <1>5, <1>7
<1> DEFINE q == enqueue(next[t], next, c)
<1>9. /\ g_runq' = q.runq /\ next' = q.next
      /\ state' = [state EXCEPT ![c] = 0, ![t] = 1]
      /\ g_current' = t
      /\ rsp' = [rsp EXCEPT ![c] = [stack |-> cpu, resume |-> "yield"]]
      /\ cpu' = rsp[t].stack /\ at' = rsp[t].resume /\ regs' = c
      /\ UNCHANGED <<g_thread_count, halted>>
  BY <1>1, <1>2, <1>4, <1>8 DEF sched_yield, sched_context_switch
<1>10. /\ q.runq \in Threads /\ q.next \in [Threads -> Threads \cup {NULL}]
       /\ IsList(q.runq, q.next, Append(Tail(s), c))
       /\ Append(Tail(s), c) \in Seq(Threads) /\ Distinct(Append(Tail(s), c))
  <2>1. next \in [Threads -> Threads \cup {NULL}]
    BY DEF IInv, TypeOK
  <2>. QED
    BY <1>4, <1>5, <1>8, <2>1, EnqueueAppends, Zenon
<1> HIDE DEF q
<1>11. \A u : Member(u, Append(Tail(s), c)) <=> u = c \/ (Member(u, s) /\ u # t)
  <2>1. \A u : Member(u, Append(Tail(s), c)) <=> u = c \/ Member(u, Tail(s))
    BY <1>4, <1>5, MemberAppend, Zenon
  <2>. QED
    BY <1>5, <2>1
<1>. QED
  BY <1>1, <1>2, <1>3, <1>4, <1>5, <1>7, <1>8, <1>9, <1>10, <1>11, Zenon

\* sched_yield keeps the invariant.
LEMMA YieldStep == ASSUME IInv, sched_yield PROVE IInv'
<1>1. PICK s : IsQueue(s)
  BY DEF IInv
<1>2. PICK c, t \in Threads :
           /\ c = g_current /\ t = g_runq /\ c # t /\ c \in Created /\ t \in Created
           /\ state[c] = 1 /\ state[t] = 0 /\ ~halted /\ cpu = c
           /\ s # << >> /\ Head(s) = t
           /\ g_runq' \in Threads /\ next' \in [Threads -> Threads \cup {NULL}]
           /\ IsList(g_runq', next', Append(Tail(s), c))
           /\ Append(Tail(s), c) \in Seq(Threads) /\ Distinct(Append(Tail(s), c))
           /\ \A u : Member(u, Append(Tail(s), c)) <=> u = c \/ (Member(u, s) /\ u # t)
           /\ state' = [state EXCEPT ![c] = 0, ![t] = 1]
           /\ g_current' = t
           /\ rsp' = [rsp EXCEPT ![c] = [stack |-> c, resume |-> "yield"]]
           /\ cpu' = rsp[t].stack /\ at' = rsp[t].resume /\ regs' = c
           /\ UNCHANGED <<g_thread_count, halted>>
  BY <1>1, YieldEffect
<1>3. \A u \in Threads : Member(u, s) <=> u \in Created /\ state[u] = 0
  BY <1>1 DEF IsQueue
<1>4. rsp[t].stack = t /\ rsp[t].resume \in {"trampoline", "yield"}
  BY <1>2 DEF IInv, RightStack
<1>5. Created' = Created /\ Created \subseteq Threads /\ NULL \notin Created
  BY <1>2, CreatedFacts DEF Created, IInv
<1>6. /\ state' \in [Threads -> 0..2] /\ state'[c] = 0 /\ state'[t] = 1
      /\ \A u \in Threads : u # t /\ u # c => state'[u] = state[u]
  BY <1>2 DEF IInv, TypeOK
<1>7. /\ rsp' \in [Threads -> Frame] /\ rsp'[c] = [stack |-> c, resume |-> "yield"]
      /\ \A u \in Threads : u # c => rsp'[u] = rsp[u]
  BY <1>2 DEF IInv, TypeOK, Frame
<1>8. TypeOK'
  BY <1>2, <1>4, <1>6, <1>7 DEF IInv, TypeOK
<1>9. \E r : IsQueue(r)'
  <2>1. PICK r : r = Append(Tail(s), c)
    BY Zenon
  <2>2. \A u \in Threads : Member(u, r) <=> u \in Created' /\ state'[u] = 0
    BY <1>2, <1>3, <1>5, <1>6, <2>1
  <2>3. IsQueue(r)'
    BY <1>2, <2>1, <2>2, Zenon DEF IsQueue
  <2>. QED
    BY <2>3
<1>10. RightStack'
  <2>1. \A u \in Created : state[u] = 1 => u = c
    BY <1>2 DEF IInv, RightStack
  <2>2. \A u \in Created : state[u] = 0 =>
          rsp[u].stack = u /\ rsp[u].resume \in {"trampoline", "yield"}
    BY DEF IInv, RightStack
  <2>3. \A u \in Created : state'[u] = 1 => u = t
    BY <1>2, <1>5, <1>6, <2>1
  <2>4. \A u \in Created : state'[u] = 0 =>
          rsp'[u].stack = u /\ rsp'[u].resume \in {"trampoline", "yield"}
    BY <1>2, <1>5, <1>6, <1>7, <2>2
  <2>. QED
    BY <1>2, <1>4, <1>5, <1>6, <2>3, <2>4 DEF RightStack
<1>11. Bookkeeping'
  BY <1>2, <1>5 DEF Bookkeeping
<1>. QED
  BY <1>8, <1>9, <1>10, <1>11 DEF IInv

(* What the end of a thread does. *)
LEMMA EndEffect ==
  ASSUME IInv, thread_trampoline, NEW s, IsQueue(s)
  PROVE  \E c \in Threads :
           /\ c = g_current /\ c \in Created /\ state[c] = 1 /\ ~halted /\ cpu = c
           /\ ~Member(c, s) /\ UNCHANGED <<g_thread_count, next>>
           /\ \/ /\ s = << >> /\ halted' = TRUE
                 /\ state' = [state EXCEPT ![c] = 2]
                 /\ UNCHANGED <<g_runq, g_current, rsp, cpu, at, regs>>
              \/ \E t \in Threads :
                   /\ t = g_runq /\ t # c /\ t \in Created /\ state[t] = 0
                   /\ s # << >> /\ Head(s) = t
                   /\ Tail(s) \in Seq(Threads) /\ Distinct(Tail(s))
                   /\ IsList(next[t], next, Tail(s)) /\ next[t] \in Threads \cup {NULL}
                   /\ \A u : Member(u, Tail(s)) <=> Member(u, s) /\ u # t
                   /\ g_runq' = next[t] /\ g_current' = t
                   /\ state' = [state EXCEPT ![c] = 2, ![t] = 1]
                   /\ rsp' = [rsp EXCEPT ![c] = [stack |-> c, resume |-> "end"]]
                   /\ cpu' = rsp[t].stack /\ at' = rsp[t].resume /\ regs' = c
                   /\ UNCHANGED halted
<1>1. PICK c : c = g_current
  OBVIOUS
<1>2. PICK t : t = g_runq
  OBVIOUS
<1>3. c # NULL /\ ~halted /\ UNCHANGED <<g_thread_count, next>>
  BY <1>1 DEF thread_trampoline
<1>4. c \in Created /\ c \in Threads /\ state[c] = 1 /\ cpu = c
  BY <1>1, <1>3, CreatedFacts DEF IInv, Bookkeeping, RightStack
<1>5. \A u \in Threads : Member(u, s) <=> u \in Created /\ state[u] = 0
  BY DEF IsQueue
<1>6. ~Member(c, s)
  BY <1>4, <1>5
<1>7. CASE t = NULL
  <2>1. s = << >>
    BY <1>2, <1>7, EmptyList DEF IsQueue
  <2>2. /\ halted' = TRUE /\ state' = [state EXCEPT ![c] = 2]
        /\ UNCHANGED <<g_runq, g_current, rsp, cpu, at, regs>>
    BY <1>1, <1>2, <1>7 DEF thread_trampoline
  <2>. QED
    BY <1>1, <1>3, <1>4, <1>6, <2>1, <2>2, Zenon
<1>8. CASE t # NULL
  <2>1. /\ t \in Threads /\ Head(s) = t /\ s # << >>
        /\ Tail(s) \in Seq(Threads) /\ Distinct(Tail(s)) /\ IsList(next[t], next, Tail(s))
        /\ ~Member(t, Tail(s))
        /\ \A u : Member(u, s) <=> u = t \/ Member(u, Tail(s))
        /\ next[t] \in Threads \cup {NULL}
    BY <1>2, <1>8, DequeueDrops DEF IsQueue
  <2>2. t \in Created /\ state[t] = 0 /\ t # c
    BY <1>4, <1>5, <2>1
  <2>3. /\ g_runq' = next[t] /\ g_current' = t
        /\ state' = [state EXCEPT ![c] = 2, ![t] = 1]
        /\ rsp' = [rsp EXCEPT ![c] = [stack |-> cpu, resume |-> "end"]]
        /\ cpu' = rsp[t].stack /\ at' = rsp[t].resume /\ regs' = c
        /\ UNCHANGED halted
    BY <1>1, <1>2, <1>8 DEF thread_trampoline, sched_context_switch
  <2>. QED
    BY <1>1, <1>2, <1>3, <1>4, <1>6, <2>1, <2>2, <2>3, Zenon
<1>. QED
  BY <1>7, <1>8, Zenon

\* The end of a thread in thread_trampoline keeps the invariant.
LEMMA EndStep == ASSUME IInv, thread_trampoline PROVE IInv'
<1>1. PICK s : IsQueue(s)
  BY DEF IInv
<1>2. PICK c \in Threads :
           /\ c = g_current /\ c \in Created /\ state[c] = 1 /\ ~halted /\ cpu = c
           /\ ~Member(c, s) /\ UNCHANGED <<g_thread_count, next>>
           /\ \/ /\ s = << >> /\ halted' = TRUE
                 /\ state' = [state EXCEPT ![c] = 2]
                 /\ UNCHANGED <<g_runq, g_current, rsp, cpu, at, regs>>
              \/ \E t \in Threads :
                   /\ t = g_runq /\ t # c /\ t \in Created /\ state[t] = 0
                   /\ s # << >> /\ Head(s) = t
                   /\ Tail(s) \in Seq(Threads) /\ Distinct(Tail(s))
                   /\ IsList(next[t], next, Tail(s)) /\ next[t] \in Threads \cup {NULL}
                   /\ \A u : Member(u, Tail(s)) <=> Member(u, s) /\ u # t
                   /\ g_runq' = next[t] /\ g_current' = t
                   /\ state' = [state EXCEPT ![c] = 2, ![t] = 1]
                   /\ rsp' = [rsp EXCEPT ![c] = [stack |-> c, resume |-> "end"]]
                   /\ cpu' = rsp[t].stack /\ at' = rsp[t].resume /\ regs' = c
                   /\ UNCHANGED halted
  BY <1>1, EndEffect, Zenon
<1>3. \A u \in Threads : Member(u, s) <=> u \in Created /\ state[u] = 0
  BY <1>1 DEF IsQueue
<1>4. Created' = Created /\ Created \subseteq Threads /\ NULL \notin Created
  BY <1>2, CreatedFacts DEF Created, IInv
<1>5. /\ \A u \in Created : state[u] = 1 => u = c
      /\ \A u \in Created : state[u] = 0 =>
          rsp[u].stack = u /\ rsp[u].resume \in {"trampoline", "yield"}
  BY <1>2 DEF IInv, RightStack
<1>6. CASE s = << >> /\ halted' = TRUE /\ state' = [state EXCEPT ![c] = 2]
           /\ UNCHANGED <<g_runq, g_current, rsp, cpu, at, regs>>
  <2>1. /\ state' \in [Threads -> 0..2] /\ state'[c] = 2
        /\ \A u \in Threads : u # c => state'[u] = state[u]
    BY <1>2, <1>6 DEF IInv, TypeOK
  <2>2. TypeOK'
    BY <1>2, <1>6, <2>1 DEF IInv, TypeOK
  <2>3. IsQueue(s)'
    BY <1>1, <1>2, <1>3, <1>4, <1>6, <2>1 DEF IsQueue
  <2>4. RightStack'
    BY <1>2, <1>4, <1>5, <1>6, <2>1 DEF RightStack
  <2>. QED
    BY <1>2, <1>4, <1>6, <2>2, <2>3, <2>4 DEF IInv, Bookkeeping
<1>7. ASSUME NEW t \in Threads,
                   /\ t = g_runq /\ t # c /\ t \in Created /\ state[t] = 0
                   /\ Tail(s) \in Seq(Threads) /\ Distinct(Tail(s))
                   /\ IsList(next[t], next, Tail(s)) /\ next[t] \in Threads \cup {NULL}
                   /\ \A u : Member(u, Tail(s)) <=> Member(u, s) /\ u # t
                   /\ g_runq' = next[t] /\ g_current' = t
                   /\ state' = [state EXCEPT ![c] = 2, ![t] = 1]
                   /\ rsp' = [rsp EXCEPT ![c] = [stack |-> c, resume |-> "end"]]
                   /\ cpu' = rsp[t].stack /\ at' = rsp[t].resume /\ regs' = c
                   /\ UNCHANGED halted
      PROVE  IInv'
  <2>1. /\ state' \in [Threads -> 0..2] /\ state'[c] = 2 /\ state'[t] = 1
        /\ \A u \in Threads : u # t /\ u # c => state'[u] = state[u]
    BY <1>2, <1>7 DEF IInv, TypeOK
  <2>2. /\ rsp' \in [Threads -> Frame]
        /\ \A u \in Threads : u # c => rsp'[u] = rsp[u]
    BY <1>2, <1>7, SMTT(20) DEF IInv, TypeOK, Frame
  <2>3. rsp[t].stack = t /\ rsp[t].resume \in {"trampoline", "yield"}
    BY <1>5, <1>7
  <2>4. TypeOK'
    BY <1>2, <1>7, <2>1, <2>2, <2>3, SMTT(20) DEF IInv, TypeOK
  <2>5. IsQueue(Tail(s))'
    <3>1. Threads' = Threads /\ Tail(s)' = Tail(s) /\ Distinct(Tail(s))' /\ Tail(s) \in Seq(Threads)
      BY <1>7 DEF Distinct
    <3>2. IsList(g_runq, next, Tail(s))'
      BY <1>2, <1>7 DEF IsList
    <3>3. ASSUME NEW u \in Threads
          PROVE  Member(u, Tail(s)) <=> u \in Created /\ state'[u] = 0
      <4>1. Member(u, Tail(s)) <=> Member(u, s) /\ u # t
        BY <1>7, Zenon
      <4>2. Member(u, s) <=> u \in Created /\ state[u] = 0
        BY <1>3
      <4>3. state[c] # 0 /\ state'[c] # 0 /\ state'[t] # 0
        BY <1>2, <2>1
      <4>. QED
        BY <4>1, <4>2, <4>3, <2>1, Zenon
    <3>4. \A u \in Threads : Member(u, Tail(s))' <=> u \in Created' /\ state'[u] = 0
      BY <1>4, <3>3, Zenon DEF Member
    <3>. QED
      BY <3>1, <3>2, <3>4, Zenon DEF IsQueue
  <2>6. RightStack'
    <3>1. \A u \in Created : state'[u] = 1 => u = t
      BY <1>2, <1>4, <1>5, <2>1, SMTT(20)
    <3>2. \A u \in Created : state'[u] = 0 =>
            rsp'[u].stack = u /\ rsp'[u].resume \in {"trampoline", "yield"}
      BY <1>2, <1>4, <1>5, <2>1, <2>2
    <3>3. g_current' = t /\ cpu' = t /\ ~halted' /\ Created' = Created
      BY <1>2, <1>4, <1>7, <2>3, Zenon
    <3>. QED
      BY <2>1, <3>1, <3>2, <3>3, Zenon DEF RightStack
  <2>. QED
    BY <1>2, <1>4, <1>7, <2>4, <2>5, <2>6 DEF IInv, Bookkeeping
<1>. QED
  BY <1>2, <1>6, <1>7, Zenon

\* Every step of the scheduler keeps the invariant.
LEMMA SchedStep == IInv /\ [Next]_vars => IInv'
<1> SUFFICES ASSUME IInv, [Next]_vars PROVE IInv'
  OBVIOUS
<1>1. CASE UNCHANGED vars
  <2>1. PICK s : IsQueue(s)
    BY DEF IInv
  <2>2. IsQueue(s)'
    BY <1>1, <2>1 DEF vars, IsQueue, Created
  <2>. QED
    BY <1>1, <2>2 DEF vars, IInv, TypeOK, RightStack, Bookkeeping, Created
<1>. QED
  BY <1>1, CreateStep, StartStep, YieldStep, EndStep DEF Next, hlt

\* The inductive invariant holds in every reachable state of the scheduler.
LEMMA SchedInvariant == Spec => []IInv
BY SchedInit, SchedStep, PTL DEF Spec

(* The scheduler's variables keep their types; no index leaves g_threads.  *)
THEOREM SchedTypeCorrect == Spec => []TypeOK
<1>1. IInv => TypeOK
  BY DEF IInv
<1>. QED
  BY <1>1, SchedInvariant, PTL

(* The run queue holds exactly the ready threads, each once. *)
THEOREM SchedNoLostThread == Spec => []NoLostThread
<1>1. IInv => NoLostThread
  <2> SUFFICES ASSUME IInv PROVE NoLostThread
    OBVIOUS
  <2>1. PICK s : IsQueue(s)
    BY DEF IInv
  <2>2. Queue = s
    BY <2>1, QueueIs
  <2>3. s \in Lists /\ IsList(g_runq, next, s) /\ s \in Seq(Threads)
    BY <2>1, ShortList DEF IsQueue
  <2>4. Created \subseteq Threads
    BY CreatedFacts DEF IInv
  <2>. QED
    BY <2>1, <2>2, <2>3, <2>4 DEF NoLostThread, IsQueue, Member, Distinct
<1>. QED
  BY <1>1, SchedInvariant, PTL

(* The processor is on the stack of g_current, and ready threads resume on *)
(* their own stacks.                                                       *)
THEOREM SchedRightStack == Spec => []RightStack
<1>1. IInv => RightStack
  BY DEF IInv
<1>. QED
  BY <1>1, SchedInvariant, PTL

(* A thread that ended is never dispatched again. *)
THEOREM SchedEndedStaysEnded == Spec => EndedStaysEnded
<1> DEFINE A == \A t \in Created : state[t] = 2 => state'[t] = 2 /\ cpu' # t
<1>1. ASSUME IInv, [Next]_vars PROVE [A]_vars
  <2> SUFFICES ASSUME Next, vars' # vars, NEW u \in Created, state[u] = 2
               PROVE  state'[u] = 2 /\ cpu' # u
    BY <1>1
  <2>1. PICK s : IsQueue(s)
    BY <1>1 DEF IInv
  <2>2. u \in Threads /\ u # g_thread_count /\ state \in [Threads -> 0..2]
    BY <1>1, CreatedFacts DEF IInv, TypeOK
  <2>3. \A t \in Created : state[t] = 0 => rsp[t].stack = t
    BY <1>1 DEF IInv, RightStack
  <2>4. CASE sched_create
    <3>1. ~halted /\ cpu' = cpu /\ state' = [state EXCEPT ![g_thread_count] = 0]
      BY <2>4 DEF sched_create
    <3>2. state'[u] = 2
      BY <2>2, <3>1
    <3>3. cpu # u
      <4>1. CASE g_current = NULL
        BY <1>1, <2>2, <4>1, ThreadFacts DEF IInv, Bookkeeping, Boot, NULL
      <4>2. CASE g_current # NULL
        BY <1>1, <3>1, <4>2 DEF IInv, RightStack
      <4>. QED
        BY <4>1, <4>2
    <3>. QED
      BY <3>1, <3>2, <3>3
  <2>5. CASE sched_start
    <3>1. PICK t : t = g_runq
      OBVIOUS
    <3>2. t # NULL /\ cpu' = rsp[t].stack /\ state' = [state EXCEPT ![t] = 1]
      BY <2>5, <3>1 DEF sched_start
    <3>3. t \in Threads /\ Member(t, s)
      BY <2>1, <3>1, <3>2, DequeueDrops DEF IsQueue
    <3>4. t \in Created /\ state[t] = 0
      BY <2>1, <3>3 DEF IsQueue
    <3>. QED
      BY <2>2, <2>3, <3>2, <3>3, <3>4
  <2>6. CASE sched_yield
    <3>1. PICK c, t \in Threads :
                 /\ c = g_current /\ t = g_runq /\ c # t /\ c \in Created /\ t \in Created
                 /\ state[c] = 1 /\ state[t] = 0 /\ ~halted /\ cpu = c
                 /\ s # << >> /\ Head(s) = t
                 /\ IsList(g_runq', next', Append(Tail(s), c))
                 /\ Append(Tail(s), c) \in Seq(Threads) /\ Distinct(Append(Tail(s), c))
                 /\ state' = [state EXCEPT ![c] = 0, ![t] = 1]
                 /\ g_current' = t /\ cpu' = rsp[t].stack
                 /\ UNCHANGED <<g_thread_count, halted>>
      BY <1>1, <2>1, <2>6, YieldEffect
    <3>. QED
      BY <2>2, <2>3, <3>1
  <2>7. CASE thread_trampoline
    <3>1. PICK c \in Threads :
                 /\ c = g_current /\ c \in Created /\ state[c] = 1 /\ ~halted /\ cpu = c
                 /\ ~Member(c, s) /\ UNCHANGED <<g_thread_count, next>>
                 /\ \/ /\ s = << >> /\ halted' = TRUE
                       /\ state' = [state EXCEPT ![c] = 2]
                       /\ UNCHANGED <<g_runq, g_current, rsp, cpu, at, regs>>
                    \/ \E t \in Threads :
                         /\ t = g_runq /\ t # c /\ t \in Created /\ state[t] = 0
                         /\ s # << >> /\ Head(s) = t
                         /\ Tail(s) \in Seq(Threads) /\ Distinct(Tail(s))
                         /\ IsList(next[t], next, Tail(s)) /\ next[t] \in Threads \cup {NULL}
                         /\ \A v : Member(v, Tail(s)) <=> Member(v, s) /\ v # t
                         /\ g_runq' = next[t] /\ g_current' = t
                         /\ state' = [state EXCEPT ![c] = 2, ![t] = 1]
                         /\ rsp' = [rsp EXCEPT ![c] = [stack |-> c, resume |-> "end"]]
                         /\ cpu' = rsp[t].stack /\ at' = rsp[t].resume /\ regs' = c
                         /\ UNCHANGED halted
      BY <1>1, <2>1, <2>7, EndEffect, Zenon
    <3>. QED
      BY <2>2, <2>3, <3>1
  <2>. QED
    BY <2>4, <2>5, <2>6, <2>7 DEF Next, hlt
<1>. QED
  BY <1>1, SchedInvariant, PTL DEF Spec, EndedStaysEnded

-----------------------------------------------------------------------------
(* The refinement. *)

Running == IF g_current # NULL /\ ~halted THEN g_current ELSE NULL
Ended == {t \in Created : state[t] = 2}

\* sched_create is the abstract policy's creation.
LEMMA CreateRefines == ASSUME IInv, sched_create PROVE Policy!RCreate
<1> DEFINE t == g_thread_count
           q == enqueue(g_runq, next, t)
<1>1. PICK s : IsQueue(s)
  BY DEF IInv
<1>2. /\ ~halted /\ t < MAX_THREADS
      /\ state' = [state EXCEPT ![t] = 0]
      /\ g_runq' = q.runq /\ next' = q.next
      /\ g_thread_count' = t + 1
      /\ UNCHANGED <<g_current, halted>>
  BY DEF sched_create
<1>3. t \in Threads /\ t \notin Created /\ t \in Nat /\ Created \subseteq Threads
      /\ NULL \notin Created /\ NULL \notin Threads
  BY <1>2, CreatedFacts, ThreadFacts DEF IInv
<1>4. /\ s \in Seq(Threads) /\ Distinct(s) /\ IsList(g_runq, next, s) /\ ~Member(t, s)
  BY <1>1, <1>3 DEF IsQueue
<1>5. Queue = s
  BY <1>1, QueueIs
<1>6. next \in [Threads -> Threads \cup {NULL}] /\ state \in [Threads -> 0..2]
  BY DEF IInv, TypeOK
<1>7. Created' = Created \cup {t}
  BY <1>2, <1>3 DEF Created
<1> HIDE DEF t
<1>8. /\ IsList(q.runq, q.next, Append(s, t))
      /\ Append(s, t) \in Seq(Threads) /\ Distinct(Append(s, t))
  BY <1>3, <1>4, <1>6, EnqueueAppends
<1> HIDE DEF q
<1>9. Queue' = Append(s, t)
  BY <1>2, <1>8, WalkIs, Zenon DEF Queue
<1>10. Ended' = Ended /\ t \notin Ended
  BY <1>2, <1>3, <1>6, <1>7 DEF Ended
<1>11. Running' = Running /\ t # Running
  BY <1>2, <1>3 DEF Running, IInv, Bookkeeping
<1>12. ~(\E i \in 1..Len(Queue) : Queue[i] = t)
  BY <1>4, <1>5 DEF Member
<1>. QED
  BY <1>3, <1>5, <1>9, <1>10, <1>11, <1>12
  DEF Policy!RCreate, Policy!Ready, Running, Ended

\* sched_start is the abstract policy's dispatch of the first thread.
LEMMA StartRefines == ASSUME IInv, sched_start PROVE Policy!RStart
<1>1. PICK s : IsQueue(s)
  BY DEF IInv
<1>2. PICK t : t = g_runq
  OBVIOUS
<1>3. /\ g_current = NULL /\ t # NULL
      /\ g_runq' = next[t] /\ g_current' = t
      /\ state' = [state EXCEPT ![t] = 1]
      /\ UNCHANGED <<g_thread_count, next, halted>>
  BY <1>2 DEF sched_start
<1>4. /\ t \in Threads /\ Head(s) = t /\ s # << >> /\ Member(t, s)
      /\ Tail(s) \in Seq(Threads) /\ Distinct(Tail(s)) /\ IsList(next[t], next, Tail(s))
  BY <1>1, <1>2, <1>3, DequeueDrops DEF IsQueue
<1>5. t \in Created /\ state[t] = 0 /\ state \in [Threads -> 0..2] /\ Created \subseteq Threads
  BY <1>1, <1>4, CreatedFacts DEF IsQueue, IInv, TypeOK
<1>6. Queue = s
  BY <1>1, QueueIs
<1>7. Queue' = Tail(s)
  BY <1>3, <1>4, WalkIs, Zenon DEF Queue
<1>8. Running = NULL /\ Running' = t
  BY <1>3, <1>4, ThreadFacts DEF Running, IInv, Bookkeeping
<1>9. Ended' = Ended
  <2>1. Created' = Created
    BY <1>3 DEF Created
  <2>. QED
    BY <1>3, <1>4, <1>5, <2>1 DEF Ended
<1>. QED
  BY <1>4, <1>6, <1>7, <1>8, <1>9 DEF Policy!RStart, Running, Ended

\* sched_yield is the abstract policy's rotation.
LEMMA YieldRefines == ASSUME IInv, sched_yield PROVE Policy!RYield
<1>1. PICK s : IsQueue(s)
  BY DEF IInv
<1>2. PICK c, t \in Threads :
           /\ c = g_current /\ t = g_runq /\ c # t /\ c \in Created /\ t \in Created
           /\ state[c] = 1 /\ state[t] = 0 /\ ~halted /\ cpu = c
           /\ s # << >> /\ Head(s) = t
           /\ IsList(g_runq', next', Append(Tail(s), c))
           /\ Append(Tail(s), c) \in Seq(Threads) /\ Distinct(Append(Tail(s), c))
           /\ state' = [state EXCEPT ![c] = 0, ![t] = 1]
           /\ g_current' = t /\ cpu' = rsp[t].stack
           /\ UNCHANGED <<g_thread_count, halted>>
  BY <1>1, YieldEffect
<1>3. Queue = s
  BY <1>1, QueueIs
<1>4. Queue' = Append(Tail(s), c)
  BY <1>2, WalkIs, Zenon DEF Queue
<1>5. Running = c /\ Running' = t /\ c # NULL
  BY <1>2, ThreadFacts DEF Running
<1>6. Ended' = Ended
  <2>1. Created' = Created /\ Created \subseteq Threads /\ state \in [Threads -> 0..2]
    BY <1>2, CreatedFacts DEF Created, IInv, TypeOK
  <2>2. \A u \in Created : state'[u] = 2 <=> state[u] = 2
    BY <1>2, <2>1
  <2>. QED
    BY <2>1, <2>2 DEF Ended
<1>. QED
  BY <1>2, <1>3, <1>4, <1>5, <1>6, Zenon DEF Policy!RYield, Running, Ended

\* The end of a thread is the abstract policy's exit.
LEMMA EndRefines == ASSUME IInv, thread_trampoline PROVE Policy!RExit
<1>1. PICK s : IsQueue(s)
  BY DEF IInv
<1>2. PICK c \in Threads :
           /\ c = g_current /\ c \in Created /\ state[c] = 1 /\ ~halted /\ cpu = c
           /\ ~Member(c, s) /\ UNCHANGED <<g_thread_count, next>>
           /\ \/ /\ s = << >> /\ halted' = TRUE
                 /\ state' = [state EXCEPT ![c] = 2]
                 /\ UNCHANGED <<g_runq, g_current, rsp, cpu, at, regs>>
              \/ \E t \in Threads :
                   /\ t = g_runq /\ t # c /\ t \in Created /\ state[t] = 0
                   /\ s # << >> /\ Head(s) = t
                   /\ Tail(s) \in Seq(Threads) /\ Distinct(Tail(s))
                   /\ IsList(next[t], next, Tail(s)) /\ next[t] \in Threads \cup {NULL}
                   /\ \A u : Member(u, Tail(s)) <=> Member(u, s) /\ u # t
                   /\ g_runq' = next[t] /\ g_current' = t
                   /\ state' = [state EXCEPT ![c] = 2, ![t] = 1]
                   /\ rsp' = [rsp EXCEPT ![c] = [stack |-> c, resume |-> "end"]]
                   /\ cpu' = rsp[t].stack /\ at' = rsp[t].resume /\ regs' = c
                   /\ UNCHANGED halted
  BY <1>1, EndEffect
<1>3. Queue = s /\ Running = c /\ c # NULL
  BY <1>1, <1>2, QueueIs, ThreadFacts DEF Running
<1>4. Created' = Created /\ Created \subseteq Threads /\ state \in [Threads -> 0..2]
  BY <1>2, CreatedFacts DEF Created, IInv, TypeOK
<1>5. \A u \in Created : state'[u] = 2 <=> state[u] = 2 \/ u = c
  <2>1. state' = [state EXCEPT ![c] = 2]
          \/ \E t \in Threads : t # c /\ state[t] = 0 /\ state' = [state EXCEPT ![c] = 2, ![t] = 1]
    BY <1>2, SMTT(20)
  <2>. QED
    BY <1>4, <2>1
<1>6. Ended' = Ended \cup {c}
  <2>1. Ended' = {u \in Created : state'[u] = 2} /\ c \in Created
    BY <1>2, <1>4, Zenon DEF Ended
  <2>. QED
    BY <1>5, <2>1, Zenon DEF Ended
<1>7. CASE s = << >>
  <2>1. Queue' = Queue /\ Running' = NULL
    BY <1>2, <1>7 DEF Queue, Running
  <2>. QED
    BY <1>3, <1>6, <1>7, <2>1, SMTT(20) DEF Policy!RExit, Running, Ended
<1>8. CASE s # << >>
  <2>1. Queue' = Tail(s) /\ Running' = Head(s)
    <3>1. PICK t \in Threads :
            /\ t = g_runq /\ Head(s) = t
            /\ Tail(s) \in Seq(Threads) /\ Distinct(Tail(s))
            /\ IsList(next[t], next, Tail(s))
            /\ g_runq' = next[t] /\ g_current' = t /\ UNCHANGED <<halted, next>>
      BY <1>2, <1>8
    <3>2. Queue' = Tail(s)
      BY <3>1, WalkIs, Zenon DEF Queue
    <3>3. Running' = t
      BY <1>2, <3>1, ThreadFacts DEF Running
    <3>. QED
      BY <3>1, <3>2, <3>3
  <2>. QED
    BY <1>3, <1>6, <1>8, <2>1 DEF Policy!RExit, Running, Ended
<1>. QED
  BY <1>7, <1>8, SMTT(20)

(* The linked run queue and the switches between stacks implement the      *)
(* first-in first-out policy, for every size of the thread table.          *)
THEOREM SchedImplementsRoundRobin == Spec => ImplementsRoundRobin
<1>1. Init => Policy!RInit
  <2> SUFFICES ASSUME Init PROVE Policy!RInit
    OBVIOUS
  <2>1. g_runq = NULL /\ g_current = NULL /\ Created = {}
    BY DEF Init, Created
  <2>2. /\ << >> \in Seq(Threads) /\ Distinct(<< >>) /\ IsList(g_runq, next, << >>)
    BY <2>1 DEF Distinct, IsList
  <2>3. Queue = << >>
    BY <2>2, WalkIs, Zenon DEF Queue
  <2>. QED
    BY <2>1, <2>3 DEF Policy!RInit
<1>2. IInv /\ [Next]_vars => [Policy!RNext]_(Policy!rvars)
  <2> SUFFICES ASSUME IInv, [Next]_vars PROVE [Policy!RNext]_(Policy!rvars)
    OBVIOUS
  <2>1. CASE UNCHANGED vars
    BY <2>1 DEF vars, Policy!rvars, Queue, Created
  <2>. QED
    BY <2>1, CreateRefines, StartRefines, YieldRefines, EndRefines
    DEF Next, hlt, Policy!RNext
<1>. QED
  BY <1>1, <1>2, SchedInvariant, PTL DEF Spec, ImplementsRoundRobin, Policy!RSpec
=============================================================================
