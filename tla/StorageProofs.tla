--------------------------- MODULE StorageProofs ----------------------------
(***************************************************************************)
(* Proofs about the way from boot to a mounted root, for every module,     *)
(* partition table, size of the mount table, failing allocation and        *)
(* sequence of shell commands.                                             *)
(***************************************************************************)
EXTENDS Storage, WellFoundedInduction, TLAPS

Parts == {"ram0", "iso0"} \cup RamNames \cup Nat
Devices == [name : Seq(Parts), table : SUBSET (1..4)]
MountNames == {"dev", "root"} \cup {a[2] : a \in MountArgs}
Mounts == [name : MountNames, fs : {"exfat", "devfs"}, dev : Nat]

Types ==
  /\ pc \in {"devfs", "ram0", "scan", "module", "iso0", "fallback", "shell"}
  /\ module \in Modules \cup {NoModule}
  /\ devs \in Seq(Devices) /\ cur \in Nat
  /\ mounts \in Seq(Mounts) /\ Len(mounts) <= MAX_MOUNTS
  /\ \A i \in 1..Len(mounts) : mounts[i].dev <= Len(devs)
  /\ oom \in BOOLEAN

(* The scan meets one device, ram0, and adds partitions behind its back.   *)
Scan ==
  /\ pc \in {"devfs", "ram0"} => devs = << >>
  /\ pc # "scan" => cur = 0
  /\ cur # 0 => cur = 1 /\ Len(devs) = 1 /\ devs[1].name = <<"ram0">>
  /\ \A i \in 1..Len(devs) : Len(devs[i].name) \in {1, 2}
  /\ \A i, j \in 1..Len(devs) : i # j /\ Len(devs[i].name) = 2 => devs[i].name # devs[j].name

Device(n) == \E i \in 1..Len(devs) : devs[i].name = n

(* The first mount is devfs.  Where memory sufficed, ram0 is there, iso0   *)
(* is when the module makes a disk, and the second mount is the root.      *)
Mounted ==
  /\ pc = "devfs" => mounts = << >>
  /\ pc # "devfs" => Len(mounts) >= 1 /\ mounts[1].name = "dev"
  /\ pc \in {"ram0", "scan", "module", "iso0", "fallback"} => Len(mounts) = 1
  /\ pc \in {"scan", "module", "iso0", "fallback", "shell"} /\ ~oom => Device(<<"ram0">>)
  /\ pc \in {"devfs", "ram0", "scan", "module"} => ~Device(<<"iso0">>)
  /\ pc = "iso0" /\ ~oom => (Device(<<"iso0">>) <=> module.whole)
  /\ pc = "fallback" /\ ~oom => ~module.whole
  /\ pc = "shell" /\ ~oom =>
       /\ Len(mounts) >= 2 /\ mounts[2].name = "root" /\ mounts[2].dev \in 1..Len(devs)
       /\ devs[mounts[2].dev].name = IF module.whole THEN <<"iso0">> ELSE <<"ram0">>

IInv == Types /\ Scan /\ Mounted

-----------------------------------------------------------------------------
(* Lookups. *)

\* Sequences with the same elements are the same.
LEMMA SameSeq ==
  ASSUME NEW S, NEW s \in Seq(S), NEW t \in Seq(S),
         Len(s) = Len(t), \A i \in 1..Len(s) : s[i] = t[i]
  PROVE  s = t
<1>1. s = [i \in 1..Len(s) |-> s[i]] /\ t = [i \in 1..Len(t) |-> t[i]]
  OBVIOUS
<1>. QED
  BY <1>1, Zenon

\* One sequence after another.
LEMMA Joined ==
  ASSUME NEW S, NEW s \in Seq(S), NEW t \in Seq(S)
  PROVE  /\ s \o t \in Seq(S) /\ Len(s \o t) = Len(s) + Len(t)
         /\ \A i \in 1..(Len(s) + Len(t)) : (s \o t)[i] = IF i <= Len(s) THEN s[i] ELSE t[i - Len(s)]
OBVIOUS

\* A non-empty set of naturals has a least member.
LEMMA LeastNatural ==
  ASSUME NEW T \in SUBSET Nat, T # {}
  PROVE  \E x \in T : \A y \in T : x <= y
<1> DEFINE R == {ss \in Nat \X Nat : ss[1] < ss[2]}
<1>1. IsWellFoundedOn(R, Nat)
  BY NatLessThanWellFounded DEF OpToRel
<1> HIDE DEF R
<1>2. PICK x \in T : \A y \in T : ~ (<<y, x>> \in R)
  BY <1>1, WFMin, Zenon
<1>3. ASSUME NEW y \in T, y < x PROVE FALSE
  <2>1. <<y, x>> \in R
    BY <1>3 DEF R
  <2>. QED
    BY <2>1, <1>2
<1>. QED
  BY <1>3

\* A non-empty set of naturals below a bound has a greatest member.
LEMMA GreatestNatural ==
  ASSUME NEW n \in Nat, NEW T \in SUBSET (1..n), T # {}
  PROVE  \E x \in T : \A y \in T : x >= y
<1> DEFINE U == {k \in Nat : n - k \in T}
<1>1. PICK t \in T : TRUE
  BY Zenon
<1>2. n - t \in Nat /\ n - (n - t) = t
  OBVIOUS
<1>3. U # {}
  BY <1>1, <1>2, Zenon
<1>4. PICK k \in U : \A j \in U : k <= j
  BY <1>3, LeastNatural, Zenon
<1>5. \A y \in T : n - y \in U
  OBVIOUS
<1>. QED
  BY <1>4, <1>5

\* find_mount: the first mount of that name, 0 if there is none.
LEMMA FindMount ==
  ASSUME NEW ms \in Seq(Mounts), NEW n
  PROVE  /\ (\A i \in 1..Len(ms) : ms[i].name # n) => find_mount(ms, n) = 0
         /\ (\E i \in 1..Len(ms) : ms[i].name = n) =>
              /\ find_mount(ms, n) \in 1..Len(ms) /\ ms[find_mount(ms, n)].name = n
              /\ \A i \in 1..Len(ms) : ms[i].name = n => find_mount(ms, n) <= i
<1>. DEFINE I == {i \in 1..Len(ms) : ms[i].name = n}
<1>1. find_mount(ms, n) = IF I = {} THEN 0 ELSE Min(I)
  <2>1. DOMAIN ms = 1..Len(ms)
    OBVIOUS
  <2>2. Named(ms, n) = I
    BY <2>1, Zenon DEF Named
  <2>. QED
    BY <2>2, Zenon DEF find_mount
<1>2. I \in SUBSET Nat
  OBVIOUS
<1>3. ASSUME I # {} PROVE Min(I) \in I /\ \A i \in I : Min(I) <= i
  <2>1. \E x \in I : \A y \in I : x <= y
    BY <1>2, <1>3, LeastNatural, Zenon
  <2>. HIDE DEF I
  <2>. QED
    BY <2>1, Zenon DEF Min
<1>. QED
  BY <1>1, <1>3

\* block_find: a device of that name, 0 if there is none.
LEMMA BlockFind ==
  ASSUME NEW ds \in Seq(Devices), NEW n
  PROVE  /\ block_find(ds, n) \in 0..Len(ds)
         /\ (\E i \in 1..Len(ds) : ds[i].name = n) <=> block_find(ds, n) # 0
         /\ block_find(ds, n) # 0 => ds[block_find(ds, n)].name = n
<1>. DEFINE I == {i \in 1..Len(ds) : ds[i].name = n}
<1>1. block_find(ds, n) = IF I = {} THEN 0 ELSE Max(I)
  <2>1. DOMAIN ds = 1..Len(ds)
    OBVIOUS
  <2>2. Named(ds, n) = I
    BY <2>1, Zenon DEF Named
  <2>. QED
    BY <2>2, Zenon DEF block_find
<1>2. I \in SUBSET (1..Len(ds)) /\ Len(ds) \in Nat
  OBVIOUS
<1>3. ASSUME I # {} PROVE Max(I) \in I
  <2>1. \E x \in I : \A y \in I : x >= y
    BY <1>2, <1>3, GreatestNatural, Zenon
  <2>. HIDE DEF I
  <2>. QED
    BY <2>1, Zenon DEF Max
<1>. QED
  BY <1>1, <1>2, <1>3

\* The place found is a number.
LEMMA BlockFindNat ==
  ASSUME NEW ds \in Seq(Devices), NEW n
  PROVE  block_find(ds, n) \in Nat
<1>. QED
  BY BlockFind

\* What a name leads to does not change when a mount is added.
LEMMA FindAfterAppend ==
  ASSUME NEW ms \in Seq(Mounts), NEW m \in Mounts, NEW i \in 1..Len(ms)
  PROVE  Append(ms, m)[find_mount(Append(ms, m), ms[i].name)] = ms[find_mount(ms, ms[i].name)]
<1>. DEFINE n == ms[i].name
            as == Append(ms, m)
            f == find_mount(ms, n)
            g == find_mount(as, n)
<1>1. as \in Seq(Mounts) /\ Len(as) = Len(ms) + 1 /\ \A j \in 1..Len(ms) : as[j] = ms[j]
  OBVIOUS
<1>. HIDE DEF as
<1>2. f \in 1..Len(ms) /\ ms[f].name = n /\ \A j \in 1..Len(ms) : ms[j].name = n => f <= j
  BY FindMount
<1>. HIDE DEF f, n
<1>3. f \in 1..Len(as) /\ as[f].name = n /\ as[f] = ms[f]
  <2>1. f \in 1..Len(as)
    BY <1>1, <1>2
  <2>2. as[f] = ms[f]
    BY <1>1, <1>2, Zenon
  <2>. QED
    BY <2>1, <2>2, <1>2, Zenon
<1>4. g \in 1..Len(as) /\ as[g].name = n /\ \A j \in 1..Len(as) : as[j].name = n => g <= j
  BY <1>1, <1>3, FindMount, Zenon
<1>. HIDE DEF g
<1>5. g <= f
  BY <1>3, <1>4, Zenon
<1>6. g \in 1..Len(ms)
  BY <1>5, <1>4, <1>2
<1>7. f <= g
  BY <1>6, <1>4, <1>2, <1>1, Zenon
<1>8. f = g
  BY <1>2, <1>4, <1>5, <1>7
<1>. QED
  BY <1>3, <1>8 DEF f, g, n, as

-----------------------------------------------------------------------------
(* The steps that change one list. *)

\* vfs_mount leaves the table or adds the mount at its end, if there is room and its device exists.
LEMMA VfsMount ==
  ASSUME Types, NEW fs, NEW n \in MountNames, NEW d, NEW ok
  PROVE  LET m == [name |-> n, fs |-> fs, dev |-> block_find(devs, d)]
         IN  \/ vfs_mount(fs, n, d, ok) = mounts
             \/ /\ m \in Mounts /\ m.dev <= Len(devs) /\ vfs_mount(fs, n, d, ok) = Append(mounts, m)
                /\ Len(mounts) < MAX_MOUNTS
<1>1. block_find(devs, d) \in 0..Len(devs) /\ Len(devs) \in Nat
  BY BlockFind DEF Types
<1>. QED
  BY <1>1 DEF vfs_mount, Mountable, Recorded, Mounts

\* Adding a mount keeps the types.
LEMMA MountTypes ==
  ASSUME Types, NEW m \in Mounts, m.dev <= Len(devs), Len(mounts) < MAX_MOUNTS
  PROVE  LET ms == Append(mounts, m)
         IN  /\ ms \in Seq(Mounts) /\ Len(ms) <= MAX_MOUNTS /\ ms # mounts
             /\ \A i \in 1..Len(ms) : ms[i].dev <= Len(devs)
             /\ Len(ms) = Len(mounts) + 1 /\ ms[Len(mounts) + 1] = m
             /\ \A i \in 1..Len(mounts) : ms[i] = mounts[i]
<1>. DEFINE ms == Append(mounts, m)
<1>1. mounts \in Seq(Mounts) /\ Len(mounts) \in Nat /\ \A i \in 1..Len(mounts) : mounts[i].dev <= Len(devs)
  BY DEF Types
<1>2. /\ ms \in Seq(Mounts) /\ Len(ms) = Len(mounts) + 1 /\ ms[Len(mounts) + 1] = m
      /\ \A i \in 1..Len(mounts) : ms[i] = mounts[i]
  BY <1>1
<1>. HIDE DEF ms
<1>3. \A i \in 1..Len(ms) : ms[i].dev <= Len(devs)
  BY <1>1, <1>2
<1>4. Len(ms) <= MAX_MOUNTS /\ ms # mounts
  BY <1>1, <1>2, StorageAssumption
<1>. QED
  BY <1>2, <1>3, <1>4 DEF ms

\* A device whose name is no partition's keeps the list as the scan left it.
LEMMA AddDevice ==
  ASSUME Types, Scan, NEW d \in Devices, Len(d.name) = 1
  PROVE  LET ds == Append(devs, d)
         IN  /\ ds \in Seq(Devices) /\ Len(ds) = Len(devs) + 1 /\ ds[Len(devs) + 1] = d
             /\ \A i \in 1..Len(devs) : ds[i] = devs[i]
             /\ \A i \in 1..Len(ds) : Len(ds[i].name) \in {1, 2}
             /\ \A i, j \in 1..Len(ds) : i # j /\ Len(ds[i].name) = 2 => ds[i].name # ds[j].name
<1>. DEFINE ds == Append(devs, d)
            L == Len(devs)
<1>1. devs \in Seq(Devices) /\ L \in Nat
  BY DEF Types
<1>2. ds \in Seq(Devices) /\ Len(ds) = L + 1 /\ ds[L + 1] = d /\ \A i \in 1..L : ds[i] = devs[i]
  BY <1>1
<1>. HIDE DEF ds
<1>3. /\ \A i \in 1..L : Len(devs[i].name) \in {1, 2}
      /\ \A i, j \in 1..L : i # j /\ Len(devs[i].name) = 2 => devs[i].name # devs[j].name
  BY DEF Scan
<1>. HIDE DEF L
<1>4. \A i \in 1..(L + 1) : i \in 1..L \/ i = L + 1
  BY <1>1
<1>5. \A i \in 1..(L + 1) : Len(ds[i].name) \in {1, 2}
  BY <1>2, <1>3, <1>4
<1>6. ASSUME NEW i \in 1..(L + 1), NEW j \in 1..(L + 1), i # j, Len(ds[i].name) = 2
      PROVE  ds[i].name # ds[j].name
  <2>1. i \in 1..L
    <3>1. ASSUME i = L + 1 PROVE FALSE
      <4>1. Len(ds[i].name) = Len(d.name)
        BY <3>1, <1>2, Zenon
      <4>. QED
        BY <4>1, <1>6
    <3>. QED
      BY <3>1, <1>4
  <2>2. CASE j \in 1..L
    BY <2>1, <2>2, <1>2, <1>3, <1>6, ZenonT(30)
  <2>3. ASSUME j = L + 1, ds[i].name = ds[j].name PROVE FALSE
    <3>1. Len(ds[i].name) = Len(d.name)
      BY <2>3, <1>2, Zenon
    <3>. QED
      BY <3>1, <1>6
  <2>. QED
    BY <2>2, <2>3, <1>4
<1>. QED
  BY <1>2, <1>5, <1>6 DEF ds, L

(* A list of ram0 and partitions of it with numbers up to k. *)
PartsOf(ds, k) ==
  /\ ds \in Seq(Devices) /\ Len(ds) >= 1 /\ ds[1].name = <<"ram0">>
  /\ \A i \in 2..Len(ds) : \E c \in 1..k : ds[i].name = <<"ram0", c>>
  /\ \A i, j \in 2..Len(ds) : i # j => ds[i].name # ds[j].name

\* A name of two parts is a name of one part extended by the other.
LEMMA TwoParts ==
  ASSUME NEW A, NEW x \in A, NEW y \in A
  PROVE  Append(<<x>>, y) = <<x, y>> /\ <<x, y>> \in Seq(A)
<1>. DEFINE s == Append(<<x>>, y)
            t == <<x, y>>
<1>1. s \in Seq(A) /\ t \in Seq(A)
  OBVIOUS
<1>2. Len(s) = 2 /\ s[1] = x /\ s[2] = y /\ Len(t) = 2 /\ t[1] = x /\ t[2] = y
  OBVIOUS
<1>. HIDE DEF s, t
<1>3. \A i \in 1..Len(s) : s[i] = t[i]
  BY <1>2
<1>4. s = t
  BY <1>1, <1>2, <1>3, SameSeq
<1>. QED
  BY <1>1, <1>4 DEF s, t

\* One entry of the partition table.
LEMMA PartitionStep ==
  ASSUME NEW k \in Nat, NEW ds, PartsOf(ds, k), NEW d, d.name = <<"ram0">>, NEW S
  PROVE  PartsOf(WithPartition(ds, d, S, k + 1), k + 1)
<1>. DEFINE p == Partition(d, k + 1)
            es == Append(ds, p)
            L == Len(ds)
<1>1. p.name = <<"ram0", k + 1>> /\ p \in Devices
  <2>1. "ram0" \in Parts /\ k + 1 \in Parts
    BY DEF Parts
  <2>2. Append(<<"ram0">>, k + 1) = <<"ram0", k + 1>> /\ <<"ram0", k + 1>> \in Seq(Parts)
    BY <2>1, TwoParts
  <2>3. Inner \in SUBSET (1..4)
    BY StorageAssumption
  <2>. QED
    BY <2>2, <2>3 DEF Partition, Devices
<1>2. ds \in Seq(Devices) /\ L \in Nat /\ L >= 1
  BY DEF PartsOf
<1>. HIDE DEF p
<1>3. es \in Seq(Devices) /\ Len(es) = L + 1 /\ es[L + 1] = p /\ \A i \in 1..L : es[i] = ds[i]
  BY <1>1, <1>2
<1>. HIDE DEF es
<1>4. \A i \in 2..L : \E c \in 1..k : ds[i].name = <<"ram0", c>>
  BY DEF PartsOf
<1>5. \A i \in 2..L : (\E c \in 1..(k + 1) : ds[i].name = <<"ram0", c>>) /\ ds[i].name # p.name
  BY <1>1, <1>4
<1>6. CASE k + 1 \in S
  <2>1. WithPartition(ds, d, S, k + 1) = es
    BY <1>6 DEF WithPartition, block_register, es, p
  <2>2. es[1].name = <<"ram0">>
    BY <1>2, <1>3 DEF PartsOf
  <2>3. ASSUME NEW i \in 2..Len(es) PROVE \E c \in 1..(k + 1) : es[i].name = <<"ram0", c>>
    <3>1. CASE i = L + 1
      BY <3>1, <1>1, <1>3
    <3>2. CASE i \in 2..L
      BY <3>2, <1>3, <1>5, <1>2, SMTT(20)
    <3>. QED
      BY <3>1, <3>2, <1>2, <1>3
  <2>4. ASSUME NEW i \in 2..Len(es), NEW j \in 2..Len(es), i # j PROVE es[i].name # es[j].name
    <3>1. CASE i \in 2..L /\ j \in 2..L
      <4>1. i \in 1..L /\ j \in 1..L
        BY <3>1, <1>2
      <4>2. ds[i].name # ds[j].name
        BY <3>1, <2>4, Zenon DEF PartsOf
      <4>. QED
        BY <4>1, <4>2, <1>3, Zenon
    <3>2. CASE i = L + 1 /\ j \in 2..L
      BY <3>2, <1>2, <1>3, <1>5
    <3>3. CASE i \in 2..L /\ j = L + 1
      BY <3>3, <1>2, <1>3, <1>5
    <3>. QED
      BY <3>1, <3>2, <3>3, <2>4, <1>2, <1>3, SMTT(20)
  <2>5. Len(es) >= 1
    BY <1>2, <1>3, SMTT(20)
  <2>6. PartsOf(es, k + 1)
    BY <2>2, <2>3, <2>4, <2>5, <1>3, Zenon DEF PartsOf
  <2>. QED
    BY <2>1, <2>6, Zenon
<1>7. CASE k + 1 \notin S
  <2>1. WithPartition(ds, d, S, k + 1) = ds
    BY <1>7 DEF WithPartition
  <2>. QED
    BY <2>1, <1>5 DEF PartsOf
<1>. QED
  BY <1>6, <1>7

\* The partitions of ram0 found by the scan have names of their own.
LEMMA ScanAdds ==
  ASSUME IInv, cur # 0, NEW S
  PROVE  PartsOf(WithPartitions(devs[cur], S), 4)
<1>1. cur = 1 /\ Len(devs) = 1 /\ devs[1].name = <<"ram0">> /\ devs \in Seq(Devices)
  BY DEF IInv, Scan, Types
<1>2. PartsOf(devs, 0)
  BY <1>1 DEF PartsOf
<1>. DEFINE d == devs[cur]
            w1 == WithPartition(devs, d, S, 1)
            w2 == WithPartition(w1, d, S, 2)
            w3 == WithPartition(w2, d, S, 3)
            w4 == WithPartition(w3, d, S, 4)
<1>3. d.name = <<"ram0">> /\ 0 + 1 = 1 /\ 1 + 1 = 2 /\ 2 + 1 = 3 /\ 3 + 1 = 4
      /\ 0 \in Nat /\ 1 \in Nat /\ 2 \in Nat /\ 3 \in Nat
  BY <1>1
<1>. HIDE DEF d, w1, w2, w3, w4
<1>4. PartsOf(w1, 1)
  BY <1>2, <1>3, PartitionStep, SMTT(20) DEF w1
<1>5. PartsOf(w2, 2)
  BY <1>4, <1>3, PartitionStep, SMTT(20) DEF w2
<1>6. PartsOf(w3, 3)
  BY <1>5, <1>3, PartitionStep, SMTT(20) DEF w3
<1>7. PartsOf(w4, 4)
  BY <1>6, <1>3, PartitionStep, SMTT(20) DEF w4
<1>. QED
  BY <1>7 DEF WithPartitions, w1, w2, w3, w4, d

\* Such a list is as the scan is to leave it.
LEMMA PartsScanned ==
  ASSUME NEW ds, PartsOf(ds, 4)
  PROVE  /\ \A i \in 1..Len(ds) : Len(ds[i].name) \in {1, 2} /\ ds[i].name # <<"iso0">>
         /\ \A i, j \in 1..Len(ds) : i # j /\ Len(ds[i].name) = 2 => ds[i].name # ds[j].name
<1>1. ds \in Seq(Devices) /\ Len(ds) \in Nat /\ ds[1].name = <<"ram0">>
  BY DEF PartsOf
<1>2. \A i \in 1..Len(ds) : i = 1 \/ i \in 2..Len(ds)
  BY <1>1
<1>3. ASSUME NEW i \in 2..Len(ds) PROVE Len(ds[i].name) = 2
  <2>1. PICK c \in 1..4 : ds[i].name = <<"ram0", c>>
    BY DEF PartsOf
  <2>2. Len(<<"ram0", c>>) = 2
    OBVIOUS
  <2>. QED
    BY <2>1, <2>2, Zenon
<1>4. Len(ds[1].name) = 1 /\ ds[1].name # <<"iso0">>
  BY <1>1
<1>5. Len(<<"iso0">>) = 1
  OBVIOUS
<1>6. \A i \in 1..Len(ds) : Len(ds[i].name) \in {1, 2} /\ ds[i].name # <<"iso0">>
  BY <1>2, <1>3, <1>4, <1>5
<1>7. ASSUME NEW i \in 1..Len(ds), NEW j \in 1..Len(ds), i # j, Len(ds[i].name) = 2
      PROVE  ds[i].name # ds[j].name
  <2>1. i \in 2..Len(ds)
    BY <1>2, <1>4, <1>7, SMTT(20)
  <2>2. ASSUME j = 1, ds[i].name = ds[j].name PROVE FALSE
    <3>. DEFINE a == Len(ds[i].name)
                b == Len(ds[1].name)
    <3>1. a = b
      BY <2>2, Zenon
    <3>2. a = 2 /\ b = 1
      BY <1>4, <1>7
    <3>3. 1 # 2
      OBVIOUS
    <3>. QED
      BY <3>1, <3>2, <3>3, Zenon
  <2>3. CASE j \in 2..Len(ds)
    BY <2>1, <2>3, <1>7 DEF PartsOf
  <2>. QED
    BY <2>2, <2>3, <1>2
<1>. QED
  BY <1>6, <1>7

-----------------------------------------------------------------------------
(* The actions. *)

(* The list of devices is extended: a device keeps its place. *)
DevsGrow ==
  /\ devs' \in Seq(Devices) /\ Len(devs) <= Len(devs')
  /\ \A i \in 1..Len(devs) : devs'[i] = devs[i]

(* So is the mount table. *)
MountsGrow ==
  /\ mounts' \in Seq(Mounts) /\ Len(mounts) <= Len(mounts') /\ Len(mounts') <= MAX_MOUNTS
  /\ \A i \in 1..Len(mounts) : mounts'[i] = mounts[i]
  /\ mounts' = mounts \/ \E m \in Mounts : mounts' = Append(mounts, m)

(* What the scan left is still so. *)
NamesApart ==
  /\ \A i \in 1..Len(devs) : Len(devs[i].name) \in {1, 2}
  /\ \A i, j \in 1..Len(devs) : i # j /\ Len(devs[i].name) = 2 => devs[i].name # devs[j].name

\* A device is still found after others were added.
LEMMA StillThere ==
  ASSUME Types, DevsGrow, NEW n, Device(n)
  PROVE  Device(n)'
<1>1. PICK i \in 1..Len(devs) : devs[i].name = n
  BY DEF Device
<1>2. i \in 1..Len(devs') /\ devs'[i].name = n
  BY <1>1 DEF DevsGrow, Types
<1>. QED
  BY <1>2, Zenon DEF Device

\* A registration that may fail, of a device with a name of one part.
LEMMA RegisterStep ==
  ASSUME Types, Scan, NEW d \in Devices, Len(d.name) = 1, devs' = devs \/ devs' = block_register(devs, d)
  PROVE  DevsGrow /\ NamesApart' /\ (devs' = block_register(devs, d) => Device(d.name)')
         /\ (\A n : n # d.name /\ ~Device(n) => ~Device(n)')
<1>1. devs \in Seq(Devices) /\ Len(devs) \in Nat /\ NamesApart
  BY DEF Types, Scan, NamesApart
<1>2. CASE devs' = devs
  <2>1. devs' # block_register(devs, d)
    BY <1>1, <1>2 DEF block_register
  <2>2. DevsGrow
    BY <1>1, <1>2 DEF DevsGrow
  <2>3. NamesApart' /\ \A n : ~Device(n) => ~Device(n)'
    BY <1>1, <1>2, ZenonT(30) DEF NamesApart, Device
  <2>. QED
    BY <2>1, <2>2, <2>3, Zenon
<1>3. CASE devs' = Append(devs, d)
  <2>1. /\ devs' \in Seq(Devices) /\ Len(devs') = Len(devs) + 1 /\ devs'[Len(devs) + 1] = d
        /\ \A i \in 1..Len(devs) : devs'[i] = devs[i]
        /\ \A i \in 1..Len(devs') : Len(devs'[i].name) \in {1, 2}
        /\ \A i, j \in 1..Len(devs') : i # j /\ Len(devs'[i].name) = 2 => devs'[i].name # devs'[j].name
    BY <1>3, AddDevice
  <2>2. DevsGrow
    BY <2>1, <1>1 DEF DevsGrow
  <2>3. NamesApart'
    BY <2>1, Zenon DEF NamesApart
  <2>4. Len(devs) + 1 \in 1..Len(devs')
    BY <2>1, <1>1
  <2>5. Device(d.name)'
    BY <2>1, <2>4, Zenon DEF Device
  <2>6. ASSUME NEW n, n # d.name, Device(n)' PROVE Device(n)
    <3>1. PICK i \in 1..Len(devs') : devs'[i].name = n
      BY <2>6 DEF Device
    <3>2. i # Len(devs) + 1
      BY <3>1, <2>1, <2>6, Zenon
    <3>3. i \in 1..Len(devs)
      BY <3>1, <3>2, <2>1, <1>1
    <3>. QED
      BY <3>1, <3>3, <2>1, Zenon DEF Device
  <2>. QED
    BY <2>2, <2>3, <2>5, <2>6, Zenon
<1>. QED
  BY <1>2, <1>3, Zenon DEF block_register

\* A mount that may be refused.
LEMMA MountStep ==
  ASSUME Types, NEW fs, NEW n \in MountNames, NEW d, NEW ok, mounts' = vfs_mount(fs, n, d, ok)
  PROVE  MountsGrow /\ \A i \in 1..Len(mounts') : mounts'[i].dev <= Len(devs)
<1>. DEFINE m == [name |-> n, fs |-> fs, dev |-> block_find(devs, d)]
<1>1. \/ mounts' = mounts
      \/ /\ m \in Mounts /\ m.dev <= Len(devs) /\ mounts' = Append(mounts, m)
         /\ Len(mounts) < MAX_MOUNTS
  BY VfsMount, Zenon
<1>. HIDE DEF m
<1>2. CASE mounts' = mounts
  BY <1>2 DEF Types, MountsGrow
<1>3. CASE m \in Mounts /\ m.dev <= Len(devs) /\ mounts' = Append(mounts, m) /\ Len(mounts) < MAX_MOUNTS
  BY <1>3, MountTypes, StorageAssumption DEF MountsGrow, Types
<1>. QED
  BY <1>1, <1>2, <1>3

\* The types after a step that extends the lists.
LEMMA TypesKept ==
  ASSUME Types, DevsGrow, MountsGrow, \A i \in 1..Len(mounts') : mounts'[i].dev <= Len(devs),
         pc' \in {"devfs", "ram0", "scan", "module", "iso0", "fallback", "shell"},
         module' = module, cur' \in Nat, oom' \in BOOLEAN
  PROVE  Types'
<1>1. \A i \in 1..Len(mounts') : mounts'[i].dev <= Len(devs')
  <2>1. Len(devs) \in Nat /\ Len(devs') \in Nat /\ Len(devs) <= Len(devs')
    BY DEF DevsGrow, Types
  <2>2. ASSUME NEW i \in 1..Len(mounts') PROVE mounts'[i].dev <= Len(devs')
    <3>1. mounts'[i] \in Mounts
      BY DEF MountsGrow
    <3>2. mounts'[i].dev \in Nat /\ mounts'[i].dev <= Len(devs)
      BY <3>1 DEF Mounts
    <3>. QED
      BY <2>1, <3>2
  <2>. QED
    BY <2>2
<1>. QED
  BY <1>1 DEF Types, DevsGrow, MountsGrow

\* A list that is left alone.
LEMMA Alone ==
  /\ Types /\ mounts' = mounts => MountsGrow /\ \A i \in 1..Len(mounts') : mounts'[i].dev <= Len(devs)
  /\ Types /\ devs' = devs => DevsGrow
<1>. QED
  BY DEF Types, MountsGrow, DevsGrow

\* The first lines of kmain64's storage set-up: devfs takes the first place of the table.
LEMMA DevfsStep ==
  ASSUME IInv, MountDevfs
  PROVE  IInv' /\ MountsGrow
<1>. DEFINE m == [name |-> "dev", fs |-> "devfs", dev |-> block_find(devs, NoDev)]
<1>1. /\ Types /\ Scan /\ Mounted /\ mounts = << >> /\ pc = "devfs" /\ pc' = "ram0" /\ devs = << >>
      /\ mounts' = vfs_mount("devfs", "dev", NoDev, TRUE)
      /\ module' = module /\ devs' = devs /\ cur' = cur /\ oom' = oom
  BY DEF IInv, MountDevfs, Mounted, Scan
<1>2. MountsGrow /\ \A i \in 1..Len(mounts') : mounts'[i].dev <= Len(devs)
  <2>1. "dev" \in MountNames
    BY DEF MountNames
  <2>. QED
    BY <1>1, <2>1, MountStep, Zenon
<1>3. mounts' = Append(mounts, m)
  BY <1>1, StorageAssumption DEF vfs_mount, Mountable, Recorded
<1>4. Types'
  <2>1. DevsGrow /\ cur' \in Nat /\ oom' \in BOOLEAN
    BY <1>1, Alone DEF Types
  <2>. QED
    BY <2>1, <1>1, <1>2, TypesKept, Zenon
<1>5. Scan'
  BY <1>1 DEF Scan
<1>6. Len(mounts') = 1 /\ Len(mounts') >= 1 /\ mounts'[1].name = "dev"
  <2>1. m.name = "dev"
    OBVIOUS
  <2>2. mounts \in Seq(Mounts) /\ Len(mounts) = 0
    BY <1>1 DEF Types
  <2>3. m \in Mounts
    <3>1. block_find(devs, NoDev) \in Nat
      BY <1>1, BlockFindNat, Zenon DEF Types
    <3>2. "dev" \in MountNames
      BY DEF MountNames
    <3>. QED
      BY <3>1, <3>2 DEF Mounts
  <2>. HIDE DEF m
  <2>4. Len(mounts') = Len(mounts) + 1 /\ mounts'[Len(mounts) + 1] = m
    BY <2>2, <2>3, <1>3
  <2>. QED
    BY <2>1, <2>2, <2>4
<1>7. Mounted'
  <2>1. ~Device(<<"iso0">>)'
    BY <1>1 DEF Device
  <2>. HIDE DEF m
  <2>. QED
    BY <2>1, <1>1, <1>6, Zenon DEF Mounted
<1>. QED
  BY <1>2, <1>4, <1>5, <1>7, SMTT(20) DEF IInv

\* The device ramdisk_create makes.
LEMMA RamDisk ==
  ASSUME NEW n \in Parts
  PROVE  LET d == [name |-> <<n>>, table |-> IF InitMBR THEN {1} ELSE {}]
         IN  d \in Devices /\ d.name = <<n>> /\ Len(d.name) = 1
<1>1. <<n>> \in Seq(Parts) /\ Len(<<n>>) = 1
  OBVIOUS
<1>2. (IF InitMBR THEN {1} ELSE {}) \in SUBSET (1..4)
  OBVIOUS
<1>. QED
  BY <1>1, <1>2 DEF Devices

\* The scan starts at ram0 or past the end.
LEMMA Ram0Step ==
  ASSUME IInv, CreateRam0
  PROVE  IInv' /\ MountsGrow
<1>1. /\ Types /\ Scan /\ Mounted /\ pc = "ram0" /\ pc' = "scan" /\ devs = << >>
      /\ module' = module /\ mounts' = mounts /\ cur' = Len(devs')
  BY DEF IInv, CreateRam0, Scan
<1>2. PICK ok \in BOOLEAN : ramdisk_create(<<"ram0">>, ok) /\ Memory(ok)
  BY DEF CreateRam0
<1>. DEFINE d == [name |-> <<"ram0">>, table |-> IF InitMBR THEN {1} ELSE {}]
<1>3. d \in Devices /\ d.name = <<"ram0">> /\ Len(d.name) = 1
  BY RamDisk DEF Parts
<1>4. devs' = IF ok THEN block_register(devs, d) ELSE devs
  BY <1>2 DEF ramdisk_create
<1>. HIDE DEF d
<1>5. DevsGrow /\ NamesApart' /\ (devs' = block_register(devs, d) => Device(<<"ram0">>)')
      /\ (\A n : n # <<"ram0">> /\ ~Device(n) => ~Device(n)')
  BY <1>1, <1>3, <1>4, RegisterStep, Zenon
<1>6. MountsGrow /\ \A i \in 1..Len(mounts') : mounts'[i].dev <= Len(devs)
  BY <1>1, Alone, Zenon
<1>7. oom' \in BOOLEAN /\ (~oom' => ok /\ ~oom)
  BY <1>1, <1>2, Zenon DEF Memory, Types
<1>8. cur' \in Nat
  BY <1>1, <1>5 DEF DevsGrow
<1>9. Types'
  BY <1>1, <1>5, <1>6, <1>7, <1>8, TypesKept
<1>10. Scan'
  <2>1. cur' # 0 => cur' = 1 /\ Len(devs') = 1 /\ devs'[1].name = <<"ram0">>
    BY <1>1, <1>3, <1>4 DEF block_register
  <2>. QED
    BY <2>1, <1>1, <1>5 DEF Scan, NamesApart
<1>11. Mounted'
  <2>1. ~Device(<<"iso0">>)'
    <3>1. ~Device(<<"iso0">>) /\ <<"iso0">> # <<"ram0">>
      BY <1>1 DEF Mounted
    <3>. QED
      BY <3>1, <1>5, Zenon
  <2>2. ~oom' => Device(<<"ram0">>)'
    BY <1>4, <1>5, <1>7
  <2>3. Len(mounts') = 1 /\ mounts'[1].name = "dev"
    BY <1>1 DEF Mounted
  <2>. QED
    BY <2>1, <2>2, <2>3, <1>1 DEF Mounted
<1>. QED
  BY <1>6, <1>9, <1>10, <1>11, SMTT(20) DEF IInv

\* One device of the scan: it was ram0, and the scan is over.
LEMMA ScanStep ==
  ASSUME IInv, block_scan_partitions
  PROVE  IInv' /\ MountsGrow
<1>1. /\ Types /\ Scan /\ Mounted /\ pc = "scan" /\ pc' = "scan" /\ cur > 0 /\ cur' = cur - 1
      /\ module' = module /\ mounts' = mounts
  BY DEF IInv, block_scan_partitions
<1>2. cur = 1 /\ cur # 0 /\ Len(devs) = 1
  BY <1>1 DEF Scan, Types
<1>3. PICK S \in SUBSET devs[cur].table : devs' = WithPartitions(devs[cur], S) /\ Memory(S = devs[cur].table)
  BY DEF block_scan_partitions
<1>4. PartsOf(devs', 4)
  BY <1>2, <1>3, ScanAdds
<1>5. /\ \A i \in 1..Len(devs') : Len(devs'[i].name) \in {1, 2} /\ devs'[i].name # <<"iso0">>
      /\ \A i, j \in 1..Len(devs') : i # j /\ Len(devs'[i].name) = 2 => devs'[i].name # devs'[j].name
  BY <1>4, PartsScanned
<1>6. devs' \in Seq(Devices) /\ Len(devs') >= 1 /\ devs'[1].name = <<"ram0">>
  BY <1>4 DEF PartsOf
<1>7. MountsGrow /\ \A i \in 1..Len(mounts') : mounts'[i].dev <= Len(devs)
  BY <1>1, Alone, Zenon
<1>8. oom' \in BOOLEAN /\ cur' = 0
  BY <1>1, <1>2, <1>3 DEF Memory, Types
<1>9. Types'
  <2>1. \A i \in 1..Len(mounts') : mounts'[i].dev <= Len(devs')
    <3>1. Len(devs') \in Nat
      BY <1>6
    <3>2. ASSUME NEW i \in 1..Len(mounts) PROVE mounts[i].dev <= Len(devs')
      <4>1. mounts[i] \in Mounts /\ mounts[i].dev <= 1
        BY <1>1, <1>2 DEF Types
      <4>2. mounts[i].dev \in Nat
        BY <4>1 DEF Mounts
      <4>. QED
        BY <4>1, <4>2, <3>1, <1>6, SMTT(20)
    <3>. QED
      BY <3>2, <1>1, Zenon
  <2>. QED
    BY <2>1, <1>1, <1>6, <1>8 DEF Types
<1>10. Scan'
  BY <1>1, <1>5, <1>8, SMTT(20) DEF Scan
<1>11. Mounted'
  <2>1. ~Device(<<"iso0">>)'
    BY <1>5, Zenon DEF Device
  <2>2. 1 \in 1..Len(devs')
    BY <1>6
  <2>3. Device(<<"ram0">>)'
    BY <1>6, <2>2, Zenon DEF Device
  <2>4. Len(mounts') = 1 /\ Len(mounts') >= 1 /\ mounts'[1].name = "dev"
    BY <1>1 DEF Mounted
  <2>. QED
    BY <2>1, <2>3, <2>4, <1>1, SMTT(20) DEF Mounted
<1>. QED
  BY <1>7, <1>9, <1>10, <1>11 DEF IInv

\* The scan is past the end.
LEMMA ScanDoneStep ==
  ASSUME IInv, ScanDone
  PROVE  IInv' /\ MountsGrow
<1>1. /\ Types /\ Scan /\ Mounted /\ pc = "scan" /\ cur = 0 /\ pc' = "module"
      /\ module' = module /\ devs' = devs /\ cur' = cur /\ mounts' = mounts /\ oom' = oom
  BY DEF IInv, ScanDone
<1>2. Types' /\ MountsGrow
  BY <1>1, Alone DEF Types
<1>3. Scan'
  BY <1>1 DEF Scan
<1>4. Device(<<"ram0">>)' = Device(<<"ram0">>) /\ Device(<<"iso0">>)' = Device(<<"iso0">>)
  BY <1>1, Zenon DEF Device
<1>5. Mounted'
  BY <1>1, <1>4, SMTT(20) DEF Mounted
<1>. QED
  BY <1>2, <1>3, <1>5 DEF IInv

\* iso0 is there when the module makes a disk and memory suffices.
LEMMA ModuleStep ==
  ASSUME IInv, RegisterModule
  PROVE  IInv' /\ MountsGrow
<1>1. /\ Types /\ Scan /\ Mounted /\ pc = "module" /\ pc' = "iso0" /\ cur = 0 /\ cur' = cur
      /\ module' = module /\ mounts' = mounts
  BY DEF IInv, RegisterModule, Scan
<1>2. PICK ok \in BOOLEAN : memdisk_register(<<"iso0">>, ok) /\ Memory(ok)
  BY DEF RegisterModule
<1>. DEFINE d == [name |-> <<"iso0">>, table |-> module.table]
<1>3. d \in Devices /\ d.name = <<"iso0">> /\ Len(d.name) = 1
  <2>1. module.table \in SUBSET (1..4)
    BY <1>1, StorageAssumption DEF Types, NoModule
  <2>2. <<"iso0">> \in Seq(Parts) /\ Len(<<"iso0">>) = 1
    <3>1. "iso0" \in Parts
      BY DEF Parts
    <3>. QED
      BY <3>1
  <2>. QED
    BY <2>1, <2>2 DEF Devices
<1>4. devs' = IF module.whole /\ ok THEN block_register(devs, d) ELSE devs
  BY <1>2 DEF memdisk_register
<1>. HIDE DEF d
<1>5. DevsGrow /\ NamesApart' /\ (devs' = block_register(devs, d) => Device(<<"iso0">>)')
  BY <1>1, <1>3, <1>4, RegisterStep, Zenon
<1>6. MountsGrow /\ \A i \in 1..Len(mounts') : mounts'[i].dev <= Len(devs)
  BY <1>1, Alone, Zenon
<1>7. oom' \in BOOLEAN /\ (~oom' => ok /\ ~oom)
  BY <1>1, <1>2, Zenon DEF Memory, Types
<1>8. Types'
  BY <1>1, <1>5, <1>6, <1>7, TypesKept
<1>9. Scan'
  BY <1>1, <1>5 DEF Scan, NamesApart
<1>10. Mounted'
  <2>1. ASSUME ~oom' PROVE Device(<<"ram0">>)'
    BY <2>1, <1>1, <1>5, <1>7, StillThere DEF Mounted
  <2>2. ASSUME ~oom' PROVE Device(<<"iso0">>)' <=> module'.whole
    <3>1. CASE module.whole
      BY <3>1, <2>2, <1>1, <1>4, <1>5, <1>7, SMTT(20)
    <3>2. CASE ~module.whole
      <4>1. devs' = devs /\ ~Device(<<"iso0">>)
        BY <3>2, <1>1, <1>4 DEF Mounted
      <4>. QED
        BY <3>2, <4>1, <1>1 DEF Device
    <3>. QED
      BY <3>1, <3>2
  <2>3. Len(mounts') = 1 /\ Len(mounts') >= 1 /\ mounts'[1].name = "dev"
    BY <1>1 DEF Mounted
  <2>. QED
    BY <2>1, <2>2, <2>3, <1>1, SMTT(20) DEF Mounted
<1>. QED
  BY <1>6, <1>8, <1>9, <1>10 DEF IInv

\* The mount added is the last.
LEMMA LastOfAppend ==
  ASSUME NEW ms \in Seq(Mounts), NEW m \in Mounts
  PROVE  Len(Append(ms, m)) = Len(ms) + 1 /\ Append(ms, m)[Len(ms) + 1] = m
<1>. QED
  OBVIOUS

\* The mount added to a table of one.
LEMMA SecondMount ==
  ASSUME NEW ms \in Seq(Mounts), NEW m \in Mounts, Len(ms) = 1
  PROVE  Len(Append(ms, m)) = 2 /\ Append(ms, m)[2] = m
<1>1. Len(Append(ms, m)) = Len(ms) + 1 /\ Append(ms, m)[Len(ms) + 1] = m
  BY LastOfAppend, Zenon
<1>2. Len(ms) + 1 = 2
  OBVIOUS
<1>. QED
  BY <1>1, <1>2, Zenon

\* The exFAT mount of a device that is there succeeds if memory suffices, and goes to the second place.
LEMMA RootMount ==
  ASSUME Types, Len(mounts) = 1, mounts[1].name = "dev", NEW n, Device(n),
         mounts' = vfs_mount("exfat", "root", n, TRUE), n # NoDev
  PROVE  /\ mounts' # mounts /\ Len(mounts') = 2 /\ mounts'[2].name = "root"
         /\ mounts'[2].dev \in 1..Len(devs) /\ devs[mounts'[2].dev].name = n
<1>. DEFINE b == block_find(devs, n)
            m == [name |-> "root", fs |-> "exfat", dev |-> b]
<1>1. devs \in Seq(Devices) /\ Len(devs) \in Nat /\ mounts \in Seq(Mounts)
  BY DEF Types
<1>2. b # 0 /\ b \in 0..Len(devs) /\ devs[b].name = n
  BY <1>1, BlockFind DEF Device
<1>3. mounts' = Append(mounts, m)
  BY <1>2, StorageAssumption, SMTT(20) DEF vfs_mount, Mountable, Recorded
<1>. HIDE DEF b
<1>4. m \in Mounts /\ m.name = "root" /\ m.dev = b
  <2>1. "root" \in MountNames
    BY DEF MountNames
  <2>. QED
    BY <2>1, <1>1, <1>2, SMTT(20) DEF Mounts
<1>. HIDE DEF m
<1>6. Len(mounts') = 2 /\ mounts'[2] = m
  BY <1>1, <1>3, <1>4, SecondMount, Zenon
<1>7. 1 # 2
  OBVIOUS
<1>8. mounts' # mounts
  BY <1>6, <1>7, Zenon
<1>9. mounts'[2].name = "root" /\ mounts'[2].dev = b
  BY <1>4, <1>6, Zenon
<1>10. b \in 1..Len(devs)
  BY <1>1, <1>2
<1>. QED
  BY <1>2, <1>6, <1>8, <1>9, <1>10, Zenon

\* kmain64 mounts iso0 as root, or goes on to ram0.
LEMMA MountModuleStep ==
  ASSUME IInv, MountModule
  PROVE  IInv' /\ MountsGrow
<1>1. /\ Types /\ Scan /\ Mounted /\ pc = "iso0" /\ cur = 0 /\ cur' = cur
      /\ pc' = (IF mounts' = mounts THEN "fallback" ELSE "shell")
      /\ module' = module /\ devs' = devs
  BY DEF IInv, MountModule, Scan
<1>2. PICK ok \in BOOLEAN :
        /\ mounts' = IF block_find(devs, <<"iso0">>) = 0 THEN mounts
                     ELSE vfs_mount("exfat", "root", <<"iso0">>, ok)
        /\ Memory(ok)
  BY DEF MountModule
<1>3. MountsGrow /\ \A i \in 1..Len(mounts') : mounts'[i].dev <= Len(devs)
  <2>1. CASE mounts' = mounts
    BY <2>1, <1>1, Alone, Zenon
  <2>2. CASE mounts' = vfs_mount("exfat", "root", <<"iso0">>, ok)
    <3>1. "root" \in MountNames
      BY DEF MountNames
    <3>. QED
      BY <2>2, <3>1, <1>1, MountStep, Zenon
  <2>. QED
    BY <2>1, <2>2, <1>2
<1>4. oom' \in BOOLEAN /\ (~oom' => ok = TRUE /\ ~oom)
  BY <1>1, <1>2, Zenon DEF Memory, Types
<1>5. Types'
  BY <1>1, <1>3, <1>4, Alone, TypesKept DEF Types
<1>6. Scan'
  BY <1>1 DEF Scan
<1>7. Device(<<"ram0">>)' = Device(<<"ram0">>) /\ Device(<<"iso0">>)' = Device(<<"iso0">>)
  BY <1>1, Zenon DEF Device
<1>8. Len(mounts) = 1 /\ mounts[1].name = "dev"
  BY <1>1 DEF Mounted
<1>9. Len(mounts') >= 1 /\ mounts'[1].name = "dev"
  BY <1>3, <1>8 DEF MountsGrow
<1>10. block_find(devs, <<"iso0">>) # 0 <=> Device(<<"iso0">>)
  BY <1>1, BlockFind, Zenon DEF Types, Device
<1>11. ASSUME ~oom', Device(<<"iso0">>)
       PROVE  /\ mounts' # mounts /\ Len(mounts') = 2 /\ mounts'[2].name = "root"
              /\ mounts'[2].dev \in 1..Len(devs) /\ devs[mounts'[2].dev].name = <<"iso0">>
  <2>1. mounts' = vfs_mount("exfat", "root", <<"iso0">>, TRUE)
    BY <1>11, <1>2, <1>4, <1>10, SMTT(20)
  <2>2. <<"iso0">> # NoDev
    BY DEF NoDev
  <2>. QED
    BY <2>1, <2>2, <1>1, <1>8, <1>11, RootMount, Zenon
<1>12. ASSUME ~oom' PROVE Device(<<"ram0">>) /\ (Device(<<"iso0">>) <=> module.whole)
  BY <1>1, <1>4, <1>12, SMTT(20) DEF Mounted
<1>13. CASE mounts' = mounts
  <2>1. ~oom' => ~module.whole
    BY <1>11, <1>12, <1>13
  <2>. QED
    BY <2>1, <1>1, <1>3, <1>5, <1>6, <1>7, <1>8, <1>9, <1>12, <1>13, SMTT(20) DEF Mounted, IInv
<1>14. CASE mounts' # mounts
  <2>1. Device(<<"iso0">>)
    BY <1>2, <1>10, <1>14, SMTT(20)
  <2>2. ~oom' => /\ module'.whole /\ Len(mounts') >= 2 /\ mounts'[2].name = "root"
                 /\ mounts'[2].dev \in 1..Len(devs') /\ devs'[mounts'[2].dev].name = <<"iso0">>
    BY <2>1, <1>1, <1>11, <1>12, SMTT(20)
  <2>3. Mounted'
    BY <2>2, <1>1, <1>7, <1>9, <1>12, <1>14, SMTT(20) DEF Mounted
  <2>. QED
    BY <2>3, <1>3, <1>5, <1>6, SMTT(20) DEF IInv
<1>. QED
  BY <1>13, <1>14

\* Without a root yet, kmain64 mounts ram0.
LEMMA FallbackStep ==
  ASSUME IInv, MountRam0
  PROVE  IInv' /\ MountsGrow
<1>1. /\ Types /\ Scan /\ Mounted /\ pc = "fallback" /\ pc' = "shell" /\ cur = 0 /\ cur' = cur
      /\ module' = module /\ devs' = devs
  BY DEF IInv, MountRam0, Scan
<1>2. PICK ok \in BOOLEAN : mounts' = vfs_mount("exfat", "root", <<"ram0">>, ok) /\ Memory(ok)
  BY DEF MountRam0
<1>3. MountsGrow /\ \A i \in 1..Len(mounts') : mounts'[i].dev <= Len(devs)
  <2>1. "root" \in MountNames
    BY DEF MountNames
  <2>. QED
    BY <2>1, <1>1, <1>2, MountStep, Zenon
<1>4. oom' \in BOOLEAN /\ (~oom' => ok = TRUE /\ ~oom)
  BY <1>1, <1>2, Zenon DEF Memory, Types
<1>5. Types'
  BY <1>1, <1>3, <1>4, Alone, TypesKept DEF Types
<1>6. Scan'
  BY <1>1 DEF Scan
<1>7. Device(<<"ram0">>)' = Device(<<"ram0">>)
  BY <1>1, Zenon DEF Device
<1>8. Len(mounts) = 1 /\ mounts[1].name = "dev"
  BY <1>1 DEF Mounted
<1>9. Len(mounts') >= 1 /\ mounts'[1].name = "dev"
  BY <1>3, <1>8 DEF MountsGrow
<1>10. ASSUME ~oom'
       PROVE  /\ ~module'.whole /\ Len(mounts') >= 2 /\ mounts'[2].name = "root" /\ Device(<<"ram0">>)
              /\ mounts'[2].dev \in 1..Len(devs') /\ devs'[mounts'[2].dev].name = <<"ram0">>
  <2>1. Device(<<"ram0">>) /\ ~module.whole
    BY <1>1, <1>4, <1>10 DEF Mounted
  <2>2. mounts' = vfs_mount("exfat", "root", <<"ram0">>, TRUE)
    BY <1>2, <1>4, <1>10
  <2>3. <<"ram0">> # NoDev
    BY DEF NoDev
  <2>4. /\ Len(mounts') = 2 /\ mounts'[2].name = "root"
        /\ mounts'[2].dev \in 1..Len(devs) /\ devs[mounts'[2].dev].name = <<"ram0">>
    BY <2>1, <2>2, <2>3, <1>1, <1>8, RootMount, Zenon
  <2>. QED
    BY <2>1, <2>4, <1>1
<1>11. Mounted'
  BY <1>1, <1>7, <1>9, <1>10 DEF Mounted
<1>. QED
  BY <1>3, <1>5, <1>6, <1>11 DEF IInv

\* In the shell, devices and mounts are only added: what was set up stays.
LEMMA ShellKeeps ==
  ASSUME IInv, pc = "shell", pc' = "shell", cur' = cur, module' = module, DevsGrow, NamesApart', MountsGrow,
         \A i \in 1..Len(mounts') : mounts'[i].dev <= Len(devs), oom' \in BOOLEAN, ~oom' => ~oom
  PROVE  IInv' /\ MountsGrow
<1>1. Types /\ Scan /\ Mounted /\ cur = 0
  BY DEF IInv, Scan
<1>2. Types'
  BY <1>1, TypesKept
<1>3. Scan'
  BY <1>1 DEF Scan, NamesApart
<1>4. Len(mounts) \in Nat /\ Len(mounts') \in Nat /\ Len(mounts) <= Len(mounts')
      /\ Len(devs) \in Nat /\ Len(devs') \in Nat /\ Len(devs) <= Len(devs')
  BY <1>1 DEF Types, MountsGrow, DevsGrow
<1>5. Len(mounts') >= 1 /\ mounts'[1].name = "dev"
  <2>1. Len(mounts) >= 1 /\ mounts[1].name = "dev"
    BY <1>1 DEF Mounted
  <2>2. 1 \in 1..Len(mounts) /\ Len(mounts') >= 1
    BY <2>1, <1>4
  <2>. QED
    BY <2>1, <2>2, Zenon DEF MountsGrow
<1>6. ASSUME ~oom'
      PROVE  /\ Device(<<"ram0">>)' /\ Len(mounts') >= 2 /\ mounts'[2].name = "root"
             /\ mounts'[2].dev \in 1..Len(devs')
             /\ devs'[mounts'[2].dev].name = IF module'.whole THEN <<"iso0">> ELSE <<"ram0">>
  <2>1. /\ Device(<<"ram0">>) /\ Len(mounts) >= 2 /\ mounts[2].name = "root"
        /\ mounts[2].dev \in 1..Len(devs)
        /\ devs[mounts[2].dev].name = IF module.whole THEN <<"iso0">> ELSE <<"ram0">>
    BY <1>1, <1>6 DEF Mounted
  <2>2. 2 \in 1..Len(mounts) /\ Len(mounts') >= 2
    BY <2>1, <1>4
  <2>3. mounts'[2] = mounts[2]
    BY <2>2, Zenon DEF MountsGrow
  <2>4. mounts[2].dev \in 1..Len(devs')
    BY <2>1, <1>4
  <2>5. devs'[mounts[2].dev] = devs[mounts[2].dev]
    BY <2>1, Zenon DEF DevsGrow
  <2>6. Device(<<"ram0">>)'
    BY <2>1, <1>1, StillThere
  <2>. QED
    BY <2>1, <2>2, <2>3, <2>4, <2>5, <2>6, Zenon
<1>7. Mounted'
  BY <1>5, <1>6 DEF Mounted
<1>. QED
  BY <1>2, <1>3, <1>7 DEF IInv

\* The shell's mkram.
LEMMA MkramStep ==
  ASSUME IInv, NEW n \in RamNames, mkram(<<n>>)
  PROVE  IInv' /\ MountsGrow
<1>1. /\ Types /\ Scan /\ pc = "shell" /\ pc' = pc /\ module' = module /\ cur' = cur /\ mounts' = mounts
  BY DEF IInv, mkram
<1>2. PICK ok \in BOOLEAN : ramdisk_create(<<n>>, ok) /\ Memory(ok)
  BY DEF mkram
<1>. DEFINE d == [name |-> <<n>>, table |-> IF InitMBR THEN {1} ELSE {}]
<1>3. d \in Devices /\ d.name = <<n>> /\ Len(d.name) = 1
  BY RamDisk, Zenon DEF Parts
<1>4. devs' = devs \/ devs' = block_register(devs, d)
  BY <1>2 DEF ramdisk_create
<1>. HIDE DEF d
<1>5. DevsGrow /\ NamesApart'
  BY <1>1, <1>3, <1>4, RegisterStep, Zenon
<1>6. MountsGrow /\ \A i \in 1..Len(mounts') : mounts'[i].dev <= Len(devs)
  BY <1>1, Alone, Zenon
<1>7. oom' \in BOOLEAN /\ (~oom' => ~oom)
  BY <1>1, <1>2 DEF Memory, Types
<1>. QED
  BY <1>1, <1>5, <1>6, <1>7, ShellKeeps, SMTT(20)

\* The shell's mount.
LEMMA MountCommandStep ==
  ASSUME IInv, NEW a \in MountArgs, mount(a[1], a[2], a[3])
  PROVE  IInv' /\ MountsGrow
<1>1. /\ Types /\ Scan /\ pc = "shell" /\ pc' = pc /\ module' = module /\ cur' = cur /\ devs' = devs
  BY DEF IInv, mount
<1>2. PICK ok \in BOOLEAN : mounts' = vfs_mount(a[1], a[2], a[3], ok) /\ Memory(ok)
  BY DEF mount
<1>3. a[2] \in MountNames
  BY DEF MountNames
<1>4. MountsGrow /\ \A i \in 1..Len(mounts') : mounts'[i].dev <= Len(devs)
  BY <1>1, <1>2, <1>3, MountStep, Zenon
<1>5. DevsGrow /\ NamesApart'
  BY <1>1, Alone DEF Scan, NamesApart
<1>6. oom' \in BOOLEAN /\ (~oom' => ~oom)
  BY <1>1, <1>2 DEF Memory, Types
<1>. QED
  BY <1>1, <1>4, <1>5, <1>6, ShellKeeps, SMTT(20)

\* The shell's bootroot.
LEMMA BootrootStep ==
  ASSUME IInv, bootroot
  PROVE  IInv' /\ MountsGrow
<1>. DEFINE p1(n) == Len(n) > 1 /\ n[Len(n)] = 1
            first == {i \in DOMAIN devs : p1(devs[i].name)}
<1>1. /\ Types /\ Scan /\ pc = "shell" /\ pc' = pc /\ module' = module /\ cur' = cur /\ devs' = devs
  BY DEF IInv, bootroot
<1>2. oom' \in BOOLEAN /\ (~oom' => ~oom)
  BY <1>1, ZenonT(30) DEF bootroot, Memory, Types
<1>3. DevsGrow /\ NamesApart'
  BY <1>1, Alone DEF Scan, NamesApart
<1>4. CASE mounts' = mounts
  BY <1>1, <1>2, <1>3, <1>4, Alone, ShellKeeps
<1>5. CASE \E i \in first : Len(mounts) # MAX_MOUNTS /\ mounts' = Recorded("exfat", "root", devs[i].name)
  <2>1. PICK i \in first : Len(mounts) # MAX_MOUNTS /\ mounts' = Recorded("exfat", "root", devs[i].name)
    BY <1>5
  <2>. DEFINE b == block_find(devs, devs[i].name)
              m == [name |-> "root", fs |-> "exfat", dev |-> b]
  <2>2. b \in 0..Len(devs) /\ Len(devs) \in Nat
    BY <1>1, BlockFind DEF Types
  <2>3. mounts' = Append(mounts, m)
    BY <2>1 DEF Recorded
  <2>. HIDE DEF b
  <2>4. m \in Mounts /\ m.dev <= Len(devs)
    <3>1. "root" \in MountNames
      BY DEF MountNames
    <3>. QED
      BY <3>1, <2>2 DEF Mounts
  <2>. HIDE DEF m
  <2>5. Len(mounts) < MAX_MOUNTS
    BY <2>1, <1>1, StorageAssumption, SMTT(20) DEF Types
  <2>6. MountsGrow /\ \A j \in 1..Len(mounts') : mounts'[j].dev <= Len(devs)
    BY <2>3, <2>4, <2>5, <1>1, MountTypes, SMTT(20) DEF MountsGrow, Types
  <2>. QED
    BY <2>6, <1>1, <1>2, <1>3, ShellKeeps, SMTT(20)
<1>. QED
  BY <1>4, <1>5, Zenon DEF bootroot

\* Every step keeps the invariant, and only ever adds to the mount table.
LEMMA StorageStep ==
  ASSUME IInv, [Next]_vars
  PROVE  IInv' /\ MountsGrow
<1>1. CASE Boot
  BY <1>1, DevfsStep, Ram0Step, ScanStep, ScanDoneStep, ModuleStep, MountModuleStep, FallbackStep, SMTT(20) DEF Boot
<1>2. CASE \E n \in RamNames : mkram(<<n>>)
  BY <1>2, MkramStep
<1>3. CASE \E a \in MountArgs : mount(a[1], a[2], a[3])
  BY <1>3, MountCommandStep
<1>4. CASE bootroot
  BY <1>4, BootrootStep
<1>5. CASE UNCHANGED vars
  <2>1. /\ pc' = pc /\ module' = module /\ devs' = devs /\ cur' = cur /\ mounts' = mounts /\ oom' = oom
    BY <1>5 DEF vars
  <2>2. Types' /\ MountsGrow
    BY <2>1, Alone DEF IInv, Types
  <2>3. Scan'
    BY <2>1 DEF IInv, Scan
  <2>4. \A n : Device(n)' = Device(n)
    BY <2>1, Zenon DEF Device
  <2>5. Mounted'
    BY <2>1, <2>4 DEF IInv, Mounted
  <2>. QED
    BY <2>2, <2>3, <2>5 DEF IInv
<1>. QED
  BY <1>1, <1>2, <1>3, <1>4, <1>5, SMTT(20) DEF Next

\* The machine at kmain64's storage set-up: no device, no mount.
LEMMA StorageInit ==
  ASSUME Init
  PROVE  IInv
<1>1. /\ pc = "devfs" /\ module \in Modules \cup {NoModule} /\ devs = << >> /\ cur = 0 /\ mounts = << >>
      /\ oom = FALSE /\ Len(devs) = 0 /\ Len(mounts) = 0
  BY DEF Init
<1>2. Types
  <2>1. devs \in Seq(Devices) /\ mounts \in Seq(Mounts)
    BY <1>1
  <2>2. \A i \in 1..Len(mounts) : mounts[i].dev <= Len(devs)
    BY <1>1
  <2>3. Len(mounts) <= MAX_MOUNTS
    BY <1>1, StorageAssumption
  <2>. QED
    BY <1>1, <2>1, <2>2, <2>3, ZenonT(30) DEF Types
<1>3. Scan
  BY <1>1 DEF Scan
<1>4. ~Device(<<"iso0">>)
  BY <1>1 DEF Device
<1>. QED
  BY <1>1, <1>2, <1>3, <1>4 DEF Mounted, IInv

\* The invariant holds from boot on.
LEMMA StorageInvariant == Spec => []IInv
<1>. QED
  BY StorageInit, StorageStep, PTL DEF Spec

-----------------------------------------------------------------------------
\* The scan of block_scan_partitions walks the list it extends, and still never meets a partition nor
\* registers one twice; mounts are at most MAX_MOUNTS and name devices of the list.
THEOREM StorageScannedOnce == Spec => []ScannedOnce
<1>1. ASSUME IInv PROVE ScannedOnce
  <2>1. /\ devs \in Seq(Devices) /\ DOMAIN devs = 1..Len(devs) /\ Len(devs) \in Nat
        /\ mounts \in Seq(Mounts) /\ DOMAIN mounts = 1..Len(mounts)
    BY <1>1 DEF IInv, Types
  <2>2. ASSUME NEW i \in 1..Len(devs) PROVE devs[i].table \subseteq 1..4
    <3>1. devs[i] \in Devices
      BY <2>1
    <3>. QED
      BY <3>1 DEF Devices
  <2>3. \A i \in 1..Len(mounts) : mounts[i].dev \in 0..Len(devs)
    <3>1. ASSUME NEW i \in 1..Len(mounts) PROVE mounts[i].dev \in 0..Len(devs)
      <4>1. mounts[i] \in Mounts /\ mounts[i].dev <= Len(devs)
        BY <1>1, <2>1 DEF IInv, Types
      <4>2. mounts[i].dev \in Nat
        BY <4>1 DEF Mounts
      <4>. QED
        BY <4>1, <4>2, <2>1, SMTT(20)
    <3>. QED
      BY <3>1
  <2>4. cur \in 0..Len(devs)
    BY <1>1, <2>1 DEF IInv, Types, Scan
  <2>5. TypeOK
    BY <1>1, <2>1, <2>2, <2>3, <2>4, SMTT(20) DEF TypeOK, IInv, Types
  <2>6. ASSUME NEW i \in 1..Len(devs) PROVE Len(devs[i].name) <= 2
    <3>. DEFINE k == Len(devs[i].name)
    <3>1. k \in {1, 2}
      BY <1>1 DEF IInv, Scan
    <3>. HIDE DEF k
    <3>2. k <= 2
      BY <3>1
    <3>. QED
      BY <3>2 DEF k
  <2>7. \A i, j \in 1..Len(devs) : i # j /\ Len(devs[i].name) = 2 => devs[i].name # devs[j].name
    BY <1>1 DEF IInv, Scan
  <2>. QED
    BY <2>1, <2>5, <2>6, <2>7, Zenon DEF ScannedOnce
<1>. QED
  BY <1>1, StorageInvariant, PTL

\* Once kmain64 has reached the shell and no allocation failed, `dev' is mounted and `root' is the
\* disk of an exFAT module, or ram0 when no module makes a disk, whatever was mounted since.
THEOREM StorageRootServed == Spec => []RootServed
<1>1. ASSUME IInv, pc = "shell", ~oom
      PROVE  /\ find_mount(mounts, "dev") # 0 /\ find_mount(mounts, "root") # 0
             /\ devs[mounts[find_mount(mounts, "root")].dev].name
                  = IF module.whole THEN <<"iso0">> ELSE <<"ram0">>
  <2>. DEFINE f == find_mount(mounts, "root")
              g == find_mount(mounts, "dev")
  <2>1. mounts \in Seq(Mounts) /\ Len(mounts) \in Nat
    BY <1>1 DEF IInv, Types
  <2>2. /\ Len(mounts) >= 2 /\ mounts[1].name = "dev" /\ mounts[2].name = "root"
        /\ devs[mounts[2].dev].name = IF module.whole THEN <<"iso0">> ELSE <<"ram0">>
    BY <1>1 DEF IInv, Mounted
  <2>3. 1 \in 1..Len(mounts) /\ 2 \in 1..Len(mounts)
    BY <2>1, <2>2
  <2>4. f \in 1..Len(mounts) /\ mounts[f].name = "root" /\ f <= 2
    BY <2>1, <2>2, <2>3, FindMount, Zenon
  <2>5. g \in 1..Len(mounts)
    BY <2>1, <2>2, <2>3, FindMount, Zenon
  <2>. HIDE DEF f, g
  <2>6. f # 1
    BY <2>2, <2>4
  <2>7. f = 2 /\ f # 0 /\ g # 0
    BY <2>1, <2>4, <2>5, <2>6, SMTT(20)
  <2>. QED
    BY <2>2, <2>7 DEF f, g
<1>2. IInv => RootServed
  BY <1>1 DEF RootServed, RootDev
<1>. QED
  BY <1>2, StorageInvariant, PTL

\* What a mount name leads to never changes, root under bootroot aside: vfs_mount appends, and
\* find_mount takes the first.
THEOREM StorageMountsStable == Spec => MountsStable
<1>. DEFINE A == \A i \in DOMAIN mounts :
                   LET n == mounts[i].name
                   IN  \/ n = "root" /\ bootroot
                       \/ mounts'[find_mount(mounts', n)] = mounts[find_mount(mounts, n)]
<1>1. ASSUME IInv, [Next]_vars PROVE A
  <2>1. MountsGrow
    BY <1>1, StorageStep
  <2>2. mounts \in Seq(Mounts) /\ DOMAIN mounts = 1..Len(mounts)
    BY <1>1 DEF IInv, Types
  <2>3. CASE mounts' = mounts
    BY <2>3, Zenon
  <2>4. CASE \E m \in Mounts : mounts' = Append(mounts, m)
    <3>1. PICK m \in Mounts : mounts' = Append(mounts, m)
      BY <2>4
    <3>2. ASSUME NEW i \in 1..Len(mounts)
          PROVE  mounts'[find_mount(mounts', mounts[i].name)] = mounts[find_mount(mounts, mounts[i].name)]
      BY <2>2, <3>1, FindAfterAppend, Zenon
    <3>. QED
      BY <2>2, <3>2, Zenon
  <2>. QED
    BY <2>1, <2>3, <2>4, Zenon DEF MountsGrow
<1>. HIDE DEF A
<1>2. Spec => [][A]_vars
  BY <1>1, StorageInvariant, PTL DEF Spec
<1>. QED
  BY <1>2 DEF A, MountsStable
=============================================================================
