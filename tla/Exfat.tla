------------------------------- MODULE Exfat --------------------------------
(***************************************************************************)
(* The exFAT driver, src/kernel64/fs/exfat.c, as the shell's file commands *)
(* use it: one cluster of directory slots, a FAT of cluster chains, and    *)
(* clusters of Slots units, a unit being a 32-byte directory slot or as    *)
(* much file data.  A name is the sequence of its 15-character pieces, one *)
(* per 0xC1 slot.  Commands run to their end: nothing yields in between.   *)
(***************************************************************************)
EXTENDS Integers, Sequences, FiniteSets, FiniteSetsExt, SequencesExt

CONSTANTS Slots,       \* units in a cluster
          FatEntries,  \* clusters the FAT describes: 2 .. FatEntries + 1
          Heap,        \* of those, the clusters that are on the device
          Names,       \* names, by their pieces
          Texts,       \* what the write command is given
          Fills        \* sizes the fill command is given

EOC == -1
Root == 2
Fat == 2..(FatEntries + 1)
OnDevice == 2..(Heap + 1)

ASSUME ExfatAssumption ==
  Slots \in Nat \ {0} /\ FatEntries \in Nat /\ Heap \in 1..FatEntries

VARIABLES vol,    \* the device: [fat, disk]
          room,   \* cluster buffers kmalloc can still hand out
          ok      \* whether the last command reported success

vars == <<vol, room, ok>>

Zero == [t |-> "00"]
Blank == [u \in 0..(Slots - 1) |-> Zero]

(* A RAM disk is all zeroes, exfat_format_device writes nothing to it, and *)
(* exfat_mount takes it as it is: the directory's cluster is free.         *)
Init ==
  /\ vol = [fat |-> [c \in Fat |-> 0], disk |-> [c \in OnDevice |-> Blank]]
  /\ room = 2 /\ ok = TRUE

-----------------------------------------------------------------------------
(* The directory. *)

(* Slots before the end marker *)
Live(d) == {i \in 0..(Slots - 1) : \A k \in 0..i : d[k] # Zero}

(* One past the run of 0xC1 slots that starts at j *)
RunEnd(d, j) == Min({k \in j..Slots : k = Slots \/ (k < Slots /\ d[k].t # "C1")})

(* The entry of the primary slot i: its stream slot, then its name slots.  *)
EntryAt(d, i) ==
  LET stream == i + 1 < Slots /\ d[i + 1].t = "C0"
      j == IF stream THEN i + 2 ELSE i + 1
      e == RunEnd(d, j)
  IN  [at |-> i, end |-> e,
       first |-> IF stream THEN d[i + 1].first ELSE 0,
       size |-> IF stream THEN d[i + 1].size ELSE 0,
       stream |-> stream,
       name |-> [k \in 1..(e - j) |-> d[j + k - 1].piece]]

Primaries(d) == {i \in Live(d) : d[i].t = "85"}

dir_scan_root(d) ==
  LET from[i \in 0..Slots] ==
        IF i = Slots \/ (i < Slots /\ d[i] = Zero) THEN << >>
        ELSE IF d[i].t = "85" THEN <<EntryAt(d, i)>> \o from[EntryAt(d, i).end]
        ELSE from[i + 1]
  IN  from[0]

(* The first entry of that name, or at = -1 *)
Find(d, n) == LET S == SelectSeq(dir_scan_root(d), LAMBDA e : e.name = n)
              IN  IF S = << >> THEN [at |-> -1] ELSE Head(S)

-----------------------------------------------------------------------------
(* The FAT. *)

fat_set(v, c, x) == [v EXCEPT !.fat[c] = x]
write_cluster(v, c, d) == IF c \in OnDevice THEN [v EXCEPT !.disk[c] = d] ELSE v

(* The clusters of a chain, followed until a FAT entry of 0 or EOC. *)
Chain(f, first) ==
  LET from[c \in Fat] == IF f[c] \in {0, EOC} THEN <<c>> ELSE <<c>> \o from[f[c]]
  IN  from[first]

(* The lowest free cluster becomes a chain of one zeroed cluster; cl = 0   *)
(* for none.  Without a buffer to zero it from, it stays allocated.        *)
fat_alloc_NotMarked(v, buffers) ==
  LET free == {c \in Fat : v.fat[c] = 0}
  IN  IF free = {} \/ buffers = 0 THEN [vol |-> v, cl |-> 0]
      ELSE [vol |-> write_cluster(v, Min(free), Blank), cl |-> Min(free)]
fat_alloc(v, buffers) ==
  LET free == {c \in Fat : v.fat[c] = 0}
      c == Min(free)
      marked == fat_set(v, c, EOC)
  IN  IF free = {} THEN [vol |-> v, cl |-> 0]
      ELSE IF buffers = 0 THEN [vol |-> marked, cl |-> 0]
      ELSE [vol |-> write_cluster(marked, c, Blank), cl |-> c]

RECURSIVE ensure_chain_length(_, _, _)
ensure_chain_length(v, first, needed) ==
  LET c == Chain(v.fat, first)
      a == fat_alloc(v, 1)
  IN  IF Len(c) >= needed THEN [vol |-> v, ok |-> TRUE]
      ELSE IF a.cl = 0 THEN [vol |-> a.vol, ok |-> FALSE]
      ELSE ensure_chain_length(fat_set(fat_set(a.vol, Last(c), a.cl), a.cl, EOC), first, needed)

-----------------------------------------------------------------------------
(* The operations of the driver; r is the number of cluster buffers left.  *)

exfat_open(v, n, r) == IF r = 0 THEN [at |-> -1] ELSE Find(v.disk[Root], n)

(* d with an entry in the slots from di, and the end marker after it *)
Slot(d, di, n, cl, u) ==
  IF u = di THEN [t |-> "85"]
  ELSE IF u = di + 1 THEN [t |-> "C0", first |-> cl, size |-> 0]
  ELSE IF u \in (di + 2)..(di + 1 + Len(n)) THEN [t |-> "C1", piece |-> n[u - di - 1]]
  ELSE d[u]
WithEntry(d, di, n, cl) ==
  [u \in 0..(Slots - 1) |-> IF u = di + 2 + Len(n) THEN Zero ELSE Slot(d, di, n, cl, u)]

(* The entry goes where the end marker is, into the directory as it was    *)
(* read before fat_alloc zeroes a cluster, which may be the directory's.   *)
exfat_create(v, n, r) ==
  LET d == v.disk[Root]
      di == Cardinality(Live(d))
      a == fat_alloc(v, r - 1)
  IN  IF r = 0 \/ di + 2 + Len(n) > Slots THEN [vol |-> v, ok |-> FALSE]
      ELSE IF a.cl = 0 THEN [vol |-> a.vol, ok |-> FALSE]
      ELSE [vol |-> write_cluster(a.vol, Root, WithEntry(d, di, n, a.cl)), ok |-> TRUE]

dir_update_stream_by_first_cluster(v, old, new, size) ==
  LET d == v.disk[Root]
      S == {i \in Primaries(d) : EntryAt(d, i).stream /\ EntryAt(d, i).first = old}
  IN  IF S = {} THEN v
      ELSE write_cluster(v, Root,
             [d EXCEPT ![Min(S) + 1] = [t |-> "C0", first |-> new, size |-> size]])

(* The end of a write to the chain from `first': the size is recorded only *)
(* when all the units are on the device.                                   *)
Sized(v, node, first, size) ==
  [vol |-> dir_update_stream_by_first_cluster(v, IF node.first # 0 THEN node.first ELSE first,
                                              first, size),
   node |-> [node EXCEPT !.first = first, !.size = size], ok |-> TRUE]
WriteEnd_SizeAnyway(v, node, first, size, all) == [Sized(v, node, first, size) EXCEPT !.ok = all]
WriteEnd(v, node, first, size, all) ==
  IF all THEN Sized(v, node, first, size)
  ELSE [vol |-> v, node |-> [node EXCEPT !.first = first], ok |-> FALSE]

(* The chain is made long enough first; the units then go to the device    *)
(* cluster by cluster, up to one that is not on it.                        *)
exfat_write(v, node, off, text) ==
  LET end == off + Len(text)
      needed == (end + Slots - 1) \div Slots
      start == IF node.first >= 2 THEN [vol |-> v, cl |-> node.first] ELSE fat_alloc(v, 1)
      e == ensure_chain_length(start.vol, start.cl, needed)
      c == Chain(e.vol.fat, start.cl)
      bad == {k \in (off \div Slots)..(needed - 1) : c[k + 1] \notin OnDevice}
      stop == IF bad = {} THEN end ELSE Min(bad) * Slots
      put(k, u) == LET p == (k - 1) * Slots + u
                   IN  IF p \in off..(stop - 1) THEN text[p - off + 1] ELSE e.vol.disk[c[k]][u]
      disk == [cl \in OnDevice |->
                 IF \E k \in DOMAIN c : c[k] = cl
                 THEN LET k == CHOOSE k \in DOMAIN c : c[k] = cl
                      IN  [u \in 0..(Slots - 1) |-> put(k, u)]
                 ELSE e.vol.disk[cl]]
      written == [e.vol EXCEPT !.disk = disk]
      size == Max({end, node.size})
  IN  IF start.cl = 0 THEN [vol |-> start.vol, node |-> node, ok |-> FALSE]
      ELSE IF ~e.ok THEN WriteEnd(e.vol, node, start.cl, size, FALSE)
      ELSE WriteEnd(written, node, start.cl, size, bad = {})

(* What cat prints of the file: its chain's clusters, up to one that is    *)
(* not on the device, cut to its size.                                     *)
exfat_read(v, node) ==
  LET data[c \in Fat] ==
        IF c \notin OnDevice THEN << >>
        ELSE [k \in 1..Slots |-> v.disk[c][k - 1]]
             \o IF v.fat[c] \in {0, EOC} THEN << >> ELSE data[v.fat[c]]
  IN  IF node.first < 2 THEN << >>
      ELSE SubSeq(data[node.first], 1, Min({node.size, Len(data[node.first])}))

(* The chain is freed and the entry's slots zeroed. *)
exfat_unlink(v, n, r) ==
  LET d == v.disk[Root]
      S == {i \in Primaries(d) : EntryAt(d, i).stream /\ EntryAt(d, i).name = n}
      e == EntryAt(d, Min(S))
      freed == IF e.first < 2 THEN v.fat
               ELSE [c \in Fat |-> IF c \in Range(Chain(v.fat, e.first)) THEN 0 ELSE v.fat[c]]
      dir == [u \in 0..(Slots - 1) |-> IF u \in e.at..(e.end - 1) THEN Zero ELSE d[u]]
  IN  IF r = 0 \/ S = {} THEN [vol |-> v, ok |-> FALSE]
      ELSE [vol |-> write_cluster([v EXCEPT !.fat = freed], Root, dir), ok |-> TRUE]

-----------------------------------------------------------------------------
(* The shell's commands.  Nodes that vfs_open returns are never freed: the *)
(* open that succeeds may take the room of a cluster buffer with it.       *)
(* Done is what a command leaves on the volume and says of itself.         *)

Opened == {r \in {room, room - 1} : r >= 0}

Done(result) == vol' = result.vol /\ ok' = result.ok

touch(n) == Done(exfat_create(vol, n, room)) /\ UNCHANGED room

(* Open the file, or create it and open it then. *)
Target(n, r) ==
  LET v == IF exfat_open(vol, n, r).at # -1 THEN vol ELSE exfat_create(vol, n, room).vol
  IN  [vol |-> v, node |-> exfat_open(v, n, r), ok |-> FALSE]

write(n, text) ==
  \E r \in Opened :
    LET f == Target(n, r)
    IN  IF f.node.at = -1 THEN Done(f) /\ UNCHANGED room
        ELSE Done(exfat_write(f.vol, f.node, 0, text)) /\ room' = r

(* fill writes a cluster's worth at a time and stops at the first failure. *)
RECURSIVE FillFrom(_, _, _, _)
FillFrom(v, node, off, size) ==
  LET len == Min({Slots, size - off})
      w == exfat_write(v, node, off, [k \in 1..len |-> [t |-> "data", b |-> "A"]])
  IN  IF off >= size THEN [vol |-> v, ok |-> TRUE]
      ELSE IF ~w.ok THEN w
      ELSE FillFrom(w.vol, w.node, off + len, size)

fill(n, size) ==
  \E r \in Opened :
    LET f == Target(n, r)
    IN  IF f.node.at = -1 THEN Done(f) /\ UNCHANGED room
        ELSE Done(FillFrom(f.vol, f.node, 0, size)) /\ room' = r

rm(n) == Done(exfat_unlink(vol, n, room)) /\ UNCHANGED room

cat(n) ==
  /\ \E r \in Opened : /\ ok' = (exfat_open(vol, n, r).at # -1)
                       /\ room' = IF ok' THEN r ELSE room
  /\ UNCHANGED vol

Next == \E n \in Names :
          \/ touch(n) \/ rm(n) \/ cat(n)
          \/ \E t \in Texts : write(n, t)
          \/ \E z \in Fills : fill(n, z)

Spec == Init /\ [][Next]_vars

-----------------------------------------------------------------------------
Unit == {Zero, [t |-> "85"]}
        \cup [t : {"C0"}, first : Fat, size : 0..(FatEntries * Slots)]
        \cup [t : {"C1"}, piece : UNION {Range(n) : n \in Names}]
        \cup [t : {"data"}, b : {"A"} \cup {t[1].b : t \in Texts}]

\* Type correctness of the volume src/kernel64/fs/exfat.c keeps: FAT entries name clusters of the
\* table, and the root directory stays within its one cluster.
TypeOK ==
  /\ vol.fat \in [Fat -> Fat \cup {0, EOC}]
  /\ DOMAIN vol.disk = OnDevice
  /\ \A c \in OnDevice, u \in 0..(Slots - 1) : vol.disk[c][u] \in Unit
  /\ room \in 0..2 /\ ok \in BOOLEAN

Entries == Range(dir_scan_root(vol.disk[Root]))

(* No cluster is in two chains, nor twice in one: a file's data is never   *)
(* another file's.  The directory's own cluster, free on a blank disk, is  *)
(* in no chain but that of the directory's first file, and only as long as *)
(* nothing was written to it.  The volume is well typed.                   *)
NoCrossLink ==
  TypeOK /\
  \A e \in Entries : \A c \in {Chain(vol.fat, e.first)} :
    /\ \A k \in 1..Len(c) : vol.fat[c[k]] # 0
    /\ Root \in Range(c) => e.at = 0 /\ e.size = 0
    /\ IsInjective(c)
    /\ \A f \in Entries \ {e} : Range(c) \cap Range(Chain(vol.fat, f.first)) = {}

(* A file's chain holds its size: on the blank RAM disk the driver starts  *)
(* from, no read ever runs off the chain or the device (exfat_write).      *)
SizeFits == \A e \in Entries : Len(exfat_read(vol, e)) = e.size

(* The files as cat prints them *)
Printed(es) == [k \in 1..Len(es) |-> [name |-> es[k].name, data |-> exfat_read(vol, es[k])]]

Store == INSTANCE FileStore WITH
           Texts <- Texts \cup {[k \in 1..z |-> [t |-> "data", b |-> "A"]] : z \in Fills},
           files <- Printed(dir_scan_root(vol.disk[Root])),
           shared <- vol.fat[Root] = 0 \/ \E e \in Entries : e.first = Root


(* "rm <path> - remove file" (src/kernel64/shell.c:39): removing a file    *)
(* leaves the files of other names in the directory.                       *)
RemovesOnlyNamed ==
  [][\A n \in Names : rm(n) =>
       {e.name : e \in Entries} \ {n} \subseteq {e.name : e \in Entries'}]_vars

(* "Creates an 8MiB RAM disk 'ram0', formats it as exFAT" (README.md:164): *)
(* the root directory's cluster is allocated and no file's.                *)
RootAllocated == \A e \in Entries : Root \notin Range(Chain(vol.fat, e.first))
=============================================================================
