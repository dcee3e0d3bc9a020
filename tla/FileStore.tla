----------------------------- MODULE FileStore ------------------------------
(***************************************************************************)
(* What the shell's file commands see of a volume: files in the order of   *)
(* the directory, each with the data that cat prints, and whether the last *)
(* command reported success.  A name leads to the first file that has it.  *)
(* Removing a file ends the directory at its place ("set end marker at     *)
(* this slot", src/kernel64/fs/exfat.c:298).  On a disk that was never     *)
(* formatted the first file shares the directory's cluster.                *)
(***************************************************************************)
EXTENDS Naturals, Sequences

CONSTANTS Names, Texts

VARIABLES files, ok,
          shared   \* the first file has, or would get, the directory's cluster

fvars == <<files, ok, shared>>

Has(fs, n) == \E i \in 1..Len(fs) : fs[i].name = n
IndexOf(fs, n) == CHOOSE i \in 1..Len(fs) :
                    fs[i].name = n /\ \A j \in 1..(i - 1) : fs[j].name # n

FInit == files = << >> /\ ok = TRUE /\ shared = TRUE

Touched(fs, n) == Append(fs, [name |-> n, data |-> << >>])

(* old with the first k units of t written over it *)
Over(old, t, k) ==
  [p \in 1..(IF k > Len(old) THEN k ELSE Len(old)) |-> IF p <= k THEN t[p] ELSE old[p]]

(* Nothing changes, but that a create which runs out of memory may leave   *)
(* the directory's cluster marked: no file gets it then.                   *)
FFail(fs, gs) ==
  /\ ~ok' /\ gs = fs
  /\ shared' = shared \/ (fs = << >> /\ shared' = FALSE)

FCreate(fs, gs) == ok' /\ UNCHANGED shared /\ \E n \in Names : gs = Touched(fs, n)

(* Writing creates the file if there is none.  All of the text is stored,  *)
(* or the command failed and a part from its start may be.                 *)
FPut(fs, gs) == \E n \in Names, t \in Texts :
  \E hs \in {IF Has(fs, n) THEN fs ELSE Touched(fs, n)} : \E i \in {IndexOf(hs, n)} :
    /\ shared /\ i = 1 => gs = hs /\ ~ok'
    /\ \E k \in 0..Len(t) : /\ ok' => k = Len(t)
                            /\ gs = [hs EXCEPT ![i].data = Over(hs[i].data, t, k)]
    /\ UNCHANGED shared

(* Data written to the file that shares the directory's cluster takes the  *)
(* place of entries from the first on.                                     *)
FSpoil(fs, gs) == \E n \in Names :
  \E hs \in {IF Has(fs, n) THEN fs ELSE Touched(fs, n)} :
    /\ shared /\ IndexOf(hs, n) = 1 /\ shared' = FALSE
    /\ \E m \in 1..Len(hs) : gs = SubSeq(hs, m + 1, Len(hs))

FRemove(fs, gs) ==
  /\ ok' /\ UNCHANGED shared
  /\ \E n \in Names : Has(fs, n) /\ gs = SubSeq(fs, 1, IndexOf(fs, n) - 1)

FPrint(fs, gs) == ok' /\ (\E n \in Names : Has(fs, n)) /\ gs = fs /\ UNCHANGED shared

FNext == \E fs \in {files}, gs \in {files'} :
           FFail(fs, gs) \/ FCreate(fs, gs) \/ FPut(fs, gs) \/ FSpoil(fs, gs)
           \/ FRemove(fs, gs) \/ FPrint(fs, gs)

FSpec == FInit /\ [][FNext]_fvars
=============================================================================
