------------------------------- MODULE Devfs --------------------------------
(***************************************************************************)
(* Byte access to a block device through devfs (src/kernel64/fs/devfs.c):  *)
(* an unaligned head, whole sectors in chunks of at most MaxChunk, and a   *)
(* tail, each a call of the device driver (block.c for partitions,         *)
(* ramdisk.c and memdisk.c below them) that may fail half way through the  *)
(* transfer.  One step per part, so that a failure between two parts is a  *)
(* state of the model.                                                     *)
(*                                                                         *)
(* A byte is <<c, k>>: byte k of the buffer of write call c, and <<0, k>>  *)
(* what byte k of the disk held at first.                                  *)
(***************************************************************************)
EXTENDS Integers, Sequences, FiniteSetsExt

CONSTANTS Sec,         \* bytes in a sector
          MaxChunk,    \* sectors in one driver call: 128
          Sectors,     \* sectors of the disk
          Devs,        \* devices on it: [base, count, writable], in sectors
          Word,        \* 2^64
          Offs, Lens,  \* offsets and lengths callers pass
          MaxCalls     \* bound on the number of calls

ASSUME DevfsAssumption ==
  /\ Sec \in Nat \ {0} /\ MaxChunk \in Nat \ {0} /\ Sectors \in Nat
  /\ Word \in Nat /\ MaxCalls \in Nat
  /\ Offs \subseteq 0..(Word - 1) /\ Lens \subseteq 0..(Word - 1)
  /\ Devs \subseteq [base : Nat, count : Nat, writable : BOOLEAN]
  /\ \A d \in Devs : d.count * Sec < Word

VARIABLES disk,   \* the bytes of the disk
          call,   \* the call being made: [op, dev, off, len]
          pc,     \* "idle", "head", "rest"
          pos,    \* bytes of the caller's buffer dealt with
          lba,    \* first_lba
          out,    \* what a read has put into the caller's buffer
          ret,    \* what the last call returned
          calls, old   \* history: calls begun, the disk before the last one

vars == <<disk, call, pc, pos, lba, out, ret, calls, old>>

Disk == 0..(Sectors * Sec - 1)
In(k) == <<calls, k>>
remaining == call.len - pos
head_off == call.off % Sec

Init ==
  /\ disk = [p \in Disk |-> <<0, p>>] /\ old = disk
  /\ call \in [op : {"read"}, dev : Devs, off : {0}, len : {0}]
  /\ pc = "idle" /\ pos = 0 /\ lba = 0 /\ out = << >> /\ ret = 0 /\ calls = 0

-----------------------------------------------------------------------------
(* The driver: n sectors from l on are inside the partition, and behind it *)
(* inside the disk.                                                        *)
part_InBounds(d, l, n) == l + n <= d.count /\ d.base + l + n <= Sectors

(* Where byte b of sector l of the device is on the disk *)
At_NoBase(d, l, b) == l * Sec + b
At(d, l, b) == (d.base + l) * Sec + b

(* The disk with n bytes of the caller's buffer from pos on, put from byte *)
(* b of sector l on; and n bytes of the disk read from there.              *)
Put(d, l, b, n) ==
  [p \in Disk |-> IF p \in At(d, l, b)..(At(d, l, b) + n - 1)
                  THEN In(pos + (p - At(d, l, b))) ELSE disk[p]]
Got(d, l, b, n) == [k \in 1..n |-> disk[At(d, l, b) + k - 1]]

-----------------------------------------------------------------------------
Return(r) == pc' = "idle" /\ ret' = r

(* The end of the transfer: off + len as a uint64_t, cut to the device.    *)
end_of_NotClipped(d, off, len) == (off + len) % Word
end_of(d, off, len) == Min({(off + len) % Word, d.count * Sec})

(* The entry of either function.  A memdisk's write function itself        *)
(* refuses when the disk is read-only, at the first driver call.           *)
Call(op, d, off, len) ==
  /\ pc = "idle" /\ calls < MaxCalls
  /\ call' = [op |-> op, dev |-> d, off |-> off, len |-> Max({end_of(d, off, len) - off, 0})]
  /\ pos' = 0 /\ out' = << >> /\ lba' = off \div Sec
  /\ calls' = calls + 1 /\ old' = disk
  /\ \/ end_of(d, off, len) <= off /\ Return(0)
     \/ /\ end_of(d, off, len) > off
        /\ pc' = (IF (off % Sec) # 0 THEN "head" ELSE "rest")
        /\ ret' = ret
  /\ UNCHANGED disk

(* Move n bytes at byte b of the current sector, and step past them. *)
Transfer(b, n, sectors) ==
  /\ IF call.op = "write"
     THEN disk' = Put(call.dev, lba, b, n) /\ UNCHANGED out
     ELSE out' = out \o Got(call.dev, lba, b, n) /\ UNCHANGED disk
  /\ pos' = pos + n
  /\ lba' = lba + sectors

Accepts(n) == part_InBounds(call.dev, lba, n) /\ (call.op = "write" => call.dev.writable)

HeadPart ==
  /\ pc = "head" /\ Accepts(1)
  /\ Transfer(head_off, Min({Sec - head_off, remaining}), 1)
  /\ pc' = "rest"
  /\ UNCHANGED <<call, ret, calls, old>>

(* As many whole sectors as one driver call takes.  The code keeps the     *)
(* quotient in 32 bits, and the Return of Finish casts to int: both keep   *)
(* the value, since callers pass at most a buffer of 512 bytes (fill).     *)
Middle_SectorsForBytes ==
  /\ pc = "rest" /\ remaining >= Sec
  /\ LET cnt == Min({remaining \div Sec, MaxChunk})
     IN  Accepts(cnt) /\ Transfer(0, cnt * Sec, 1)
  /\ UNCHANGED <<call, pc, ret, calls, old>>
Middle_MaskedCount ==
  /\ pc = "rest" /\ remaining >= Sec
  /\ LET cnt == (remaining \div Sec) % MaxChunk
     IN  Accepts(cnt) /\ Transfer(0, cnt * Sec, cnt)
  /\ UNCHANGED <<call, pc, ret, calls, old>>
Middle ==
  /\ pc = "rest" /\ remaining >= Sec
  /\ LET cnt == Min({remaining \div Sec, MaxChunk})
     IN  Accepts(cnt) /\ Transfer(0, cnt * Sec, cnt)
  /\ UNCHANGED <<call, pc, ret, calls, old>>

TailPart ==
  /\ pc = "rest" /\ remaining \in 1..(Sec - 1)
  /\ Accepts(1)
  /\ Transfer(0, remaining, 1)
  /\ UNCHANGED <<call, pc, ret, calls, old>>

(* The driver refuses, or kmalloc has no sector for head or tail: -1, with *)
(* what was transferred so far in place.  A read of the sector succeeds    *)
(* before a write of it is refused, and changes nothing.                   *)
Fail ==
  /\ \/ pc = "head"
     \/ pc = "rest" /\ remaining \in 1..(Sec - 1)
     \/ /\ pc = "rest" /\ remaining >= Sec
        /\ ~Accepts(Min({remaining \div Sec, MaxChunk}))
  /\ Return(-1)
  /\ UNCHANGED <<disk, call, pos, lba, out, calls, old>>

(* (int)pos is pos: see Middle. *)
Finish ==
  /\ pc = "rest" /\ remaining = 0
  /\ Return(pos)
  /\ UNCHANGED <<disk, call, pos, lba, out, calls, old>>

Next ==
  \/ \E op \in {"read", "write"}, d \in Devs, o \in Offs, n \in Lens : Call(op, d, o, n)
  \/ HeadPart \/ Middle \/ TailPart \/ Fail \/ Finish

Spec == Init /\ [][Next]_vars
FairSpec == Spec /\ WF_vars(HeadPart \/ Middle \/ TailPart \/ Fail \/ Finish)

-----------------------------------------------------------------------------
\* Type correctness of a devfs_read or devfs_write in flight (src/kernel64/fs/devfs.c): the position
\* never passes the length asked for, so the unsigned remainder never underflows.
TypeOK ==
  /\ disk \in [Disk -> Nat \X Nat] /\ old \in [Disk -> Nat \X Nat]
  /\ call \in [op : {"read", "write"}, dev : Devs, off : Offs \cup {0}, len : Nat]
  /\ pc \in {"idle", "head", "rest"}
  /\ pos \in 0..call.len
  /\ lba \in Nat /\ out \in Seq(Nat \X Nat)
  /\ ret \in -1..(Sectors * Sec + Word)
  /\ calls \in 0..MaxCalls

(* The disk with the first n bytes of the buffer at the offset asked for *)
Start == call.dev.base * Sec + call.off
Written(n) == [p \in Disk |-> IF p \in Start..(Start + n - 1) THEN In(p - Start) ELSE old[p]]

(* At every moment of a write, also after a failure between two parts, the *)
(* disk is the old one with the first pos bytes of the buffer at the       *)
(* offset: the read-modify-write of head and tail loses no neighbour.  The *)
(* loop's counters stay in range (TypeOK).                                 *)
PrefixWritten ==
  TypeOK /\ disk = IF call.op = "write" /\ calls > 0 THEN Written(pos) ELSE old

(* A read returns the bytes at the offset, in order, however it is cut.    *)
ReadsWhatIsThere ==
  call.op = "read" => out = [k \in 1..pos |-> disk[Start + k - 1]]

(* What the loop knows between two parts: the call ends inside the device, *)
(* and unless it is done the next part begins where the last one ended, on *)
(* a sector boundary once the head is dealt with.                          *)
InPlace ==
  /\ pc # "idle" => /\ calls > 0 /\ call.len > 0
                    /\ call.off + call.len <= call.dev.count * Sec
  /\ pc = "head" => pos = 0 /\ lba = call.off \div Sec /\ head_off # 0
  /\ pc = "rest" => remaining = 0 \/ lba * Sec = call.off + pos

(* A call on a partition touches no byte outside it: what lies before or   *)
(* behind it on the disk is another partition's.                           *)
PartitionIsolated ==
  [][\A p \in Disk : disk'[p] # disk[p] =>
       p \div Sec \in call.dev.base..(call.dev.base + call.dev.count - 1)]_vars

(* Every call returns. *)
CallReturns == (pc # "idle") ~> (pc = "idle")

(* A call returns the length asked for, cut where off + len, as a 64-bit   *)
(* number, or the device ends, or -1.  It returns -1 only for want of a buffer for a partial sector, for  *)
(* a write to a read-only disk, or where the device outruns its disk.      *)
AllOrError ==
  pc = "idle" /\ calls > 0 =>
    \/ ret = call.len
    \/ /\ ret = -1
       /\ \/ call.off % Sec > 0 \/ (call.off + call.len) % Sec > 0
          \/ call.op = "write" /\ ~call.dev.writable
          \/ Start + call.len > Sectors * Sec
=============================================================================
