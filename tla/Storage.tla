------------------------------ MODULE Storage -------------------------------
(***************************************************************************)
(* From boot to a mounted root: kmain64's set-up of devices and mounts     *)
(* (src/kernel64/kmain64.c), the list of block devices and the partition   *)
(* scan that extends the list it walks (block/block.c, ramdisk.c,          *)
(* memdisk.c), the mount table (vfs/vfs.c), and the shell commands that    *)
(* add devices and mounts afterwards.  Every kmalloc may fail.             *)
(*                                                                         *)
(* A name is the sequence of its parts: <<"ram0", 1>> is ram0p1.  `devs'   *)
(* is the list from its tail to g_head, so that a registration appends and *)
(* d->next is the place before d.                                          *)
(***************************************************************************)
EXTENDS Integers, Sequences, FiniteSetsExt

CONSTANTS MAX_MOUNTS,
          InitMBR,      \* whether RAMDISK_INIT_MBR is defined in the build
          Modules,      \* root modules: [whole, exfat, table]: bytes % 512 = 0,
                        \* an exFAT boot record in the first sector, partitions
          Inner,        \* partition numbers in a partition's own first sector
          RamNames,     \* names given to mkram, none the name of a partition
          MountArgs,    \* <<fs, name, device>> given to mount
          MaxDevs       \* bound on the devices of the shell phase

NoDev == << >>
NoModule == [whole |-> FALSE, exfat |-> FALSE, table |-> {}]

ASSUME StorageAssumption ==
  /\ MAX_MOUNTS \in Nat \ {0, 1} /\ MaxDevs \in Nat /\ InitMBR \in BOOLEAN
  /\ Modules \subseteq [whole : BOOLEAN, exfat : BOOLEAN, table : SUBSET (1..4)]
  /\ Inner \subseteq 1..4

VARIABLES pc,       \* "devfs", "ram0", "scan", "module", "fallback", "shell"
          module,   \* the root module the boot loader passed, or NoModule
          devs,     \* devices: [name, table], table: its partition numbers
          cur,      \* the device the scan is at, 0 past the end
          mounts,   \* g_mounts: [name, fs, dev], dev a place in devs, or 0
          oom,      \* history: some allocation failed
          said      \* what bootroot said: "", "none", or the device mounted

vars == <<pc, module, devs, cur, mounts, oom, said>>

Init ==
  /\ pc = "devfs" /\ module \in Modules \cup {NoModule}
  /\ devs = << >> /\ cur = 0 /\ mounts = << >> /\ oom = FALSE /\ said = << >>

-----------------------------------------------------------------------------
(* The lists.  Lookups return a place, 0 for none. *)

block_register(ds, d) == Append(ds, d)

Named(s, n) == {i \in DOMAIN s : s[i].name = n}

block_find(ds, n) == IF Named(ds, n) = {} THEN 0 ELSE Max(Named(ds, n))

find_mount(ms, n) == IF Named(ms, n) = {} THEN 0 ELSE Min(Named(ms, n))

(* vfs_mount: the mount table afterwards, `ok' being whether exfat_mount   *)
(* got its memory.  It takes a device without a boot record as well, with  *)
(* a geometry of its own.  exfat without a device is refused: the sector   *)
(* size it reads at address 16, the firmware's vector 4, is not 512.       *)
Mountable(fs, n, d, ok) ==
  /\ Len(mounts) < MAX_MOUNTS
  /\ fs \in {"exfat", "devfs"}
  /\ d # NoDev => block_find(devs, d) # 0
  /\ fs = "exfat" => d # NoDev /\ ok

Recorded_InFront(fs, n, d) == <<[name |-> n, fs |-> fs, dev |-> block_find(devs, d)]>> \o mounts
Recorded(fs, n, d) == Append(mounts, [name |-> n, fs |-> fs, dev |-> block_find(devs, d)])

vfs_mount(fs, n, d, ok) == IF Mountable(fs, n, d, ok) THEN Recorded(fs, n, d) ELSE mounts

(* What any of the allocations on the way may do *)
Memory(ok) == oom' = (oom \/ ~ok)

-----------------------------------------------------------------------------
(* kmain64 *)

MountDevfs ==
  /\ pc = "devfs" /\ pc' = "ram0"
  /\ mounts' = vfs_mount("devfs", "dev", NoDev, TRUE)
  /\ UNCHANGED <<module, devs, cur, oom, said>>

(* The RAM disk's own record, its frames or its device record may fail. *)
ramdisk_create(n, ok) ==
  devs' = IF ok THEN block_register(devs, [name |-> n, table |-> IF InitMBR THEN {1} ELSE {}])
          ELSE devs

CreateRam0 ==
  /\ pc = "ram0" /\ pc' = "scan"
  /\ \E ok \in BOOLEAN : ramdisk_create(<<"ram0">>, ok) /\ Memory(ok)
  /\ cur' = Len(devs')
  /\ UNCHANGED <<module, mounts, said>>

(* One device of the scan: each entry of its table becomes a device, in    *)
(* front of the list, unless memory fails.                                 *)
Partition(d, i) == [name |-> Append(d.name, i), table |-> Inner]
WithPartition(ds, d, S, i) == IF i \in S THEN block_register(ds, Partition(d, i)) ELSE ds
WithPartitions(d, S) ==
  WithPartition(WithPartition(WithPartition(WithPartition(devs, d, S, 1), d, S, 2), d, S, 3), d, S, 4)

block_scan_partitions_Restarts ==
  /\ pc = "scan" /\ cur > 0
  /\ \E S \in SUBSET devs[cur].table :
       /\ devs' = WithPartitions(devs[cur], S) /\ Memory(S = devs[cur].table)
       /\ cur' = (IF S = {} THEN cur - 1 ELSE Len(devs'))
  /\ UNCHANGED <<pc, module, mounts, said>>
block_scan_partitions ==
  /\ pc = "scan" /\ cur > 0
  /\ \E S \in SUBSET devs[cur].table :
       devs' = WithPartitions(devs[cur], S) /\ Memory(S = devs[cur].table)
  /\ cur' = cur - 1
  /\ UNCHANGED <<pc, module, mounts, said>>

ScanDone_Spins ==
  /\ pc = "scan" /\ cur = 0 /\ pc' = "scan"
  /\ UNCHANGED <<module, devs, cur, mounts, oom, said>>
ScanDone ==
  /\ pc = "scan" /\ cur = 0 /\ pc' = "module"
  /\ UNCHANGED <<module, devs, cur, mounts, oom, said>>

(* The module's bytes as a read-only disk: refused unless whole sectors.   *)
memdisk_register(n, ok) ==
  devs' = IF module.whole /\ ok THEN block_register(devs, [name |-> n, table |-> module.table])
          ELSE devs

(* A root module becomes the read-only disk iso0.                         *)
RegisterModule ==
  /\ pc = "module" /\ pc' = "iso0"
  /\ \E ok \in BOOLEAN :
       /\ module.whole \/ ok
       /\ memdisk_register(<<"iso0">>, ok) /\ Memory(ok)
  /\ UNCHANGED <<module, cur, mounts, said>>

(* It is mounted as root; failing that, ram0 is. *)
MountModule ==
  /\ pc = "iso0"
  /\ \E ok \in BOOLEAN :
       /\ block_find(devs, <<"iso0">>) # 0 \/ ok
       /\ mounts' = IF block_find(devs, <<"iso0">>) = 0 THEN mounts
                    ELSE vfs_mount("exfat", "root", <<"iso0">>, ok)
       /\ Memory(ok)
  /\ pc' = (IF mounts' = mounts THEN "fallback" ELSE "shell")
  /\ UNCHANGED <<module, devs, cur, said>>

MountRam0_OnlyWithoutModule ==
  /\ pc = "fallback" /\ pc' = "shell"
  /\ \E ok \in BOOLEAN :
       /\ mounts' = IF module # NoModule THEN mounts
                    ELSE vfs_mount("exfat", "root", <<"ram0">>, ok)
       /\ Memory(ok)
  /\ UNCHANGED <<module, devs, cur, said>>
MountRam0 ==
  /\ pc = "fallback" /\ pc' = "shell"
  /\ \E ok \in BOOLEAN : mounts' = vfs_mount("exfat", "root", <<"ram0">>, ok) /\ Memory(ok)
  /\ UNCHANGED <<module, devs, cur, said>>

-----------------------------------------------------------------------------
(* The shell *)

mkram(n) ==
  /\ pc = "shell" /\ Len(devs) < MaxDevs
  /\ \E ok \in BOOLEAN : ramdisk_create(n, ok) /\ Memory(ok)
  /\ UNCHANGED <<pc, module, cur, mounts, said>>

mount(fs, n, d) ==
  /\ pc = "shell"
  /\ \E ok \in BOOLEAN : mounts' = vfs_mount(fs, n, d, ok) /\ Memory(ok)
  /\ UNCHANGED <<pc, module, devs, cur, said>>

(* The first device from g_head on whose name ends in p1 and that mounts.  *)
bootroot ==
  LET p1(n) == Len(n) > 1 /\ n[Len(n)] = 1
      first == {i \in DOMAIN devs : p1(devs[i].name)}
      full == Len(mounts) = MAX_MOUNTS
  IN  /\ pc = "shell"
      /\ \/ \E i \in first :
              /\ ~full
              /\ mounts' = Recorded("exfat", "root", devs[i].name)
              /\ said' = devs[i].name
              /\ Memory(\A j \in first : j <= i)
         \/ /\ said' = <<"none">>
            /\ Memory(first = {} \/ full)
            /\ UNCHANGED mounts
      /\ UNCHANGED <<pc, module, devs, cur>>

Boot == MountDevfs \/ CreateRam0 \/ block_scan_partitions \/ ScanDone
        \/ RegisterModule \/ MountModule \/ MountRam0

Next ==
  \/ Boot
  \/ \E n \in RamNames : mkram(<<n>>)
  \/ \E a \in MountArgs : mount(a[1], a[2], a[3])
  \/ bootroot

Spec == Init /\ [][Next]_vars
FairSpec == Spec /\ WF_vars(Boot)

-----------------------------------------------------------------------------
\* Type correctness of the boot storage bring-up (kmain64.c, block.c, vfs.c): the mount table holds
\* at most MAX_MOUNTS entries, each of a known file system and device.
TypeOK ==
  /\ pc \in {"devfs", "ram0", "scan", "module", "iso0", "fallback", "shell"}
  /\ module \in Modules \cup {NoModule}
  /\ \A i \in DOMAIN devs : devs[i].table \subseteq 1..4
  /\ cur \in 0..Len(devs)
  /\ Len(mounts) <= MAX_MOUNTS
  /\ \A i \in DOMAIN mounts : mounts[i].dev \in 0..Len(devs)
  /\ oom \in BOOLEAN

(* The scan walks the list it extends.  It never meets a device it added:  *)
(* no partition of a partition, and no partition twice.  Mounts name       *)
(* devices of the list, and are at most MAX_MOUNTS (TypeOK).               *)
ScannedOnce ==
  /\ TypeOK
  /\ \A i \in DOMAIN devs : Len(devs[i].name) <= 2
  /\ \A i, j \in DOMAIN devs :
       i # j /\ Len(devs[i].name) = 2 => devs[i].name # devs[j].name

(* The machine reaches the shell, whatever fails on the way.               *)
BootEnds == <>(pc = "shell")

RootDev == devs[mounts[find_mount(mounts, "root")].dev].name

(* When memory suffices, the shell starts with devfs as `dev' and a root:  *)
(* an exFAT image given as the module (kmain64.c:250 "Prefer a Multiboot2  *)
(* module"), and ram0 if no module was given or its size is broken.        *)
RootServed ==
  pc = "shell" /\ ~oom =>
    /\ find_mount(mounts, "dev") # 0
    /\ find_mount(mounts, "root") # 0
    /\ module.whole /\ module.exfat => RootDev = <<"iso0">>
    /\ ~module.whole => RootDev = <<"ram0">>

(* "root.img will be blank and kernel will fall back to ram0"              *)
(* (scripts/make_iso.sh:50): a module without a boot record is not root.   *)
BlankFallsBack ==
  pc = "shell" /\ ~oom /\ module.whole /\ ~module.exfat /\ module.table = {}
    => RootDev = <<"ram0">>

(* What a mount name leads to never changes, except that bootroot is there *)
(* to change root: a later device or mount of the same name, or a full     *)
(* table, leaves the paths in use where they were (vfs_mount, find_mount). *)
MountsStable ==
  [][\A i \in DOMAIN mounts :
       LET n == mounts[i].name
       IN  \/ n = "root" /\ bootroot
           \/ mounts'[find_mount(mounts', n)] = mounts[find_mount(mounts, n)]]_vars

(* "bootroot - try mount /dev/* partition as root"                         *)
(* (src/kernel64/shell.c:40): once it says it did, root is that partition. *)
BootrootTakesEffect ==
  said \notin {<< >>, <<"none">>} => RootDev = said

(* "if needed, user can run bootroot to mount partition"                   *)
(* (src/kernel64/kmain64.c:269): a partition of the root module is found.  *)
BootrootFindsModule ==
  said = <<"none">> /\ ~oom /\ Len(mounts) < MAX_MOUNTS
    => ~(module.whole /\ 1 \in module.table)
=============================================================================
