------------------------------- MODULE Shell --------------------------------
(***************************************************************************)
(* The shell's commands on files (src/kernel64/shell.c), from the path     *)
(* typed to the prompt: the path is translated, the VFS opens what it      *)
(* names, and cat, hexdump, fill and ls loop over the calls of the file    *)
(* system behind the mount, one call per step.  The shell does not yield   *)
(* inside a command: one that does not end stops the machine.              *)
(*                                                                         *)
(* Files are what the two file systems make of them: devfs has devices of  *)
(* fixed size and moves all it can or fails, the exFAT volume has files    *)
(* that grow, and reads that may stop short (src/kernel64/fs).  Which      *)
(* files exist, and when the heap or a driver fails, is left open.         *)
(***************************************************************************)
EXTENDS ShellPath, FiniteSetsExt

CONSTANTS CatBuf, DumpBuf, FillBuf,   \* 256, 16 and 512 bytes in the code
          FileSizes,   \* sizes a file may have at first
          Numbers      \* sizes and offsets typed for fill and hexdump

ASSUME ShellAssumption ==
  /\ CatBuf \in Nat \ {0} /\ DumpBuf \in Nat \ {0} /\ FillBuf \in Nat \ {0}
  /\ FileSizes \subseteq Nat \ {0} /\ Numbers \subseteq Nat

VARIABLES at,           \* "prompt", "open", "run", or "done": about to yield
          cmd,          \* the command
          path, target, \* what it was given, and what it gives to the VFS
          node,         \* what the VFS opened
          arg,          \* fill: bytes to write; hexdump: bytes to go, or All
          off, from,    \* where the next call reads or writes, and where the first did
          failed        \* history: a call failed or stopped short

iovars == <<at, cmd, path, target, node, arg, off, from, failed>>
vars == <<cwdvars, iovars>>

All == -1
NoNode == [kind |-> "none", size |-> 0]

(* "call" is stat, touch or rm: one VFS call with the path *)
Commands == {"ls", "cat", "hexdump", "write", "fill", "call"}

AtRest == /\ cmd = "none" /\ path = NoArg /\ target = NoPlace /\ node = NoNode
          /\ arg = 0 /\ off = 0 /\ from = 0 /\ failed = FALSE
Init == PathInit /\ at = "prompt" /\ AtRest

-----------------------------------------------------------------------------
AtPrompt(A) == at = "prompt" /\ A /\ UNCHANGED iovars

(* A line with a command and a path; ls alone lists the current directory, *)
(* and ls / prints the mount table.                                        *)
Enter(c, a) ==
  /\ ~(c = "ls" /\ a.kind = "abs" /\ a.comps = << >>)
  /\ at = "prompt" /\ at' = "open" /\ cmd' = c /\ path' = a
  /\ target' = (IF a = NoArg THEN Place(s_cwd_mnt, 1, s_cwd_path) ELSE translate_unix_path(a))
  /\ UNCHANGED <<cwdvars, node, arg, off, from, failed>>

(* What vfs_open may give: nothing without the mount, a directory for its  *)
(* root, and else nothing or a file.                                       *)
Kind(p) == IF p.mnt = "dev" THEN "devfs" ELSE "exfat"
vfs_open(p) ==
  IF p.mnt \notin mounts THEN {NoNode}
  ELSE IF p.comps = << >>
  THEN {NoNode, [kind |-> "dir", size |-> IF Kind(p) = "exfat" THEN 1 ELSE 2]}
  ELSE {NoNode} \cup [kind : {Kind(p)}, size : FileSizes]
       \cup (IF Kind(p) = "exfat" THEN {[kind |-> "exfat", size |-> 0]} ELSE {})

(* write and fill create a missing file and open again; devfs cannot *)
Opened(c, p) ==
  IF c \in {"write", "fill"} /\ p.mnt \in mounts /\ p.comps # << >> /\ Kind(p) = "exfat"
  THEN vfs_open(p) \cup {[kind |-> "exfat", size |-> 0]} ELSE vfs_open(p)

Done == at' = "done"
PathDone == path' = NoArg /\ target' = NoPlace /\ UNCHANGED cwdvars

(* The command opens its file; hexdump and fill have read their numbers,   *)
(* and fill does nothing for a size of 0.                                  *)
Open ==
  /\ at = "open" /\ cmd # "call" /\ PathDone /\ UNCHANGED cmd
  /\ \E n \in Opened(cmd, target) :
       IF n = NoNode THEN Done /\ failed' = TRUE /\ UNCHANGED <<node, arg, off, from>>
       ELSE /\ at' = "run" /\ node' = n /\ UNCHANGED failed
            /\ arg' \in (CASE cmd = "hexdump" -> Numbers \cup {All} [] cmd = "fill" -> Numbers \ {0}
                           [] cmd = "write" -> Numbers [] OTHER -> {0})
            /\ off' \in (IF cmd = "hexdump" THEN Numbers ELSE {0})
            /\ from' = off'

(* vfs_stat, vfs_create and vfs_unlink: the file system's own (Exfat) *)
CallByPath == /\ at = "open" /\ cmd = "call" /\ PathDone /\ Done /\ failed' \in BOOLEAN
              /\ UNCHANGED <<cmd, node, arg, off, from>>

-----------------------------------------------------------------------------
(* What the two file systems return *)
Left == Max({node.size - off, 0})
Some(len) == Min({len, Left})

vfs_read(len) == CASE node.kind = "dir" -> {-1}
                   [] node.kind = "devfs" -> {Some(len)} \cup (IF Some(len) > 0 THEN {-1} ELSE {})
                   [] node.kind = "exfat" -> 0..Some(len)

vfs_write(len) == CASE node.kind = "dir" -> {-1}
                    [] node.kind = "devfs" -> {Some(len)} \cup (IF Some(len) > 0 THEN {-1} ELSE {})
                    [] node.kind = "exfat" -> {len} \cup (IF len > 0 THEN {-1} ELSE {})

Running(c) == at = "run" /\ cmd = c /\ UNCHANGED <<cwdvars, cmd, path, target, from>>
Goes(r) == off' = off + r /\ UNCHANGED at

(* Reads until one gives nothing *)
cat ==
  /\ Running("cat") /\ UNCHANGED <<node, arg>>
  /\ \E r \in vfs_read(CatBuf) :
       /\ failed' = (failed \/ r < Some(CatBuf))
       /\ IF r <= 0 THEN Done /\ UNCHANGED off ELSE Goes(r)

(* A line of DumpBuf bytes at a time; without a length the dump ends at    *)
(* the first line that is not full.                                        *)
hexdump ==
  /\ Running("hexdump") /\ UNCHANGED node
  /\ \/ arg = 0 /\ Done /\ UNCHANGED <<arg, off, failed>>
     \/ LET to_read == IF arg = All THEN DumpBuf ELSE Min({arg, DumpBuf})
        IN  /\ arg # 0
            /\ \E r \in vfs_read(to_read) :
                 /\ failed' = (failed \/ r < Some(to_read))
                 /\ off' = off + Max({r, 0})
                 /\ arg' = (IF arg = All THEN All ELSE arg - Max({r, 0}))
                 /\ IF r <= 0 \/ (r < DumpBuf /\ arg = All) THEN Done ELSE UNCHANGED at

Grown(n, end) == IF n.kind = "exfat" THEN [n EXCEPT !.size = Max({@, end})] ELSE n

(* The buffer is written until `arg' bytes are, or a call fails. *)
fill ==
  /\ Running("fill") /\ UNCHANGED arg
  /\ \/ off = arg /\ Done /\ UNCHANGED <<node, off, failed>>
     \/ /\ off < arg
        /\ \E r \in vfs_write(Min({arg - off, FillBuf})) :
             IF r < 0 THEN Done /\ failed' = TRUE /\ UNCHANGED <<node, off>>
             ELSE Goes(r) /\ node' = Grown(node, off') /\ UNCHANGED failed

(* One call for the whole text, at the start of the file *)
write == /\ Running("write") /\ Done /\ UNCHANGED <<node, arg>>
         /\ \E r \in vfs_write(arg) : off' = Max({r, 0}) /\ failed' = (r < 0)

(* Entries by index until there is none; a file has none *)
ls_SameEntry == /\ Running("ls") /\ UNCHANGED <<node, arg, failed, off>>
                /\ IF node.kind = "dir" /\ off < node.size THEN UNCHANGED at ELSE Done
ls == /\ Running("ls") /\ UNCHANGED <<node, arg, failed>>
      /\ IF node.kind = "dir" /\ off < node.size THEN Goes(1) ELSE Done /\ UNCHANGED off

(* shell_main yields, and prompts again; the node is not closed *)
Yield == /\ at = "done" /\ at' = "prompt"
         /\ cmd' = "none" /\ node' = NoNode /\ arg' = 0 /\ off' = 0 /\ from' = 0 /\ failed' = FALSE
         /\ UNCHANGED <<cwdvars, path, target>>

Command == Open \/ CallByPath \/ cat \/ hexdump \/ fill \/ write \/ ls \/ Yield

Next ==
  \/ \E a \in Typed : AtPrompt(cd(a))
  \/ \E m \in Mountable : AtPrompt(mount(m))
  \/ \E c \in Commands, a \in Typed : Enter(c, a)
  \/ Enter("ls", NoArg)
  \/ Command

Spec == Init /\ [][Next]_vars

(* Nothing in a command waits, so its next step is always taken. *)
FairSpec == Spec /\ WF_vars(Command)

-----------------------------------------------------------------------------
\* Type correctness of the shell's state (src/kernel64/shell.c): what cd keeps fits its buffer, and
\* an error return of -1 is never added to an unsigned offset.
TypeOK ==
  /\ mounts \subseteq {"dev", "root"} \cup Mountable
  /\ s_cwd_mnt \in Components \cup {"root"}
  /\ s_cwd_path \in UpToLen(Components \cup {m \o ":" : m \in Mountable}, MaxPath)
  /\ cmd \in {"none"} \cup Commands /\ target.slashes \in 0..2
  /\ off \in Nat /\ from \in 0..off /\ arg \in Nat \cup {All}

(* "Normalize '.' and '..' segments" (shell.c:186): a relative path leads  *)
(* into the current mount, to the components it names, while they fit      *)
(* resolve_path's stack.  How many slashes stand before them is left to    *)
(* TargetWellFormed.                                                       *)
RelativeNormalised ==
  TypeOK /\ (path.kind = "rel" /\ Len(s_cwd_path \o path.comps) <= MaxComps =>
    target.mnt = s_cwd_mnt /\ target.comps = Named(s_cwd_path \o path.comps))

(* What a command that met no failure has moved when it is done: all there *)
(* is of what was asked for, and no more.                                  *)
Moved == CASE cmd = "cat" -> off = node.size
           [] cmd = "hexdump" -> off <= Max({node.size, from}) /\ (arg = 0 \/ off >= node.size)
           [] cmd = "fill" -> off = arg
           [] OTHER -> TRUE

(* So a cat shows the whole file, a hexdump stops at its end or short of   *)
(* it when a length was given, and a fill has written the size asked for.  *)
MovedAll == at = "done" /\ ~failed => Moved

(* Every command comes back to the prompt, with nothing left out and       *)
(* nothing shown or written twice or too far, unless a call failed.  fill  *)
(* comes back on the volume, and on a device that is large enough.         *)
CommandEnds ==
  /\ (cmd # "fill") ~> (at = "prompt")
  /\ (cmd = "fill" /\ at = "run" /\ (node.kind = "devfs" => arg <= node.size)) ~> (at = "prompt")
  /\ []MovedAll

(* "Expect form mount:/path or mount:path" (vfs.c:80): the VFS is given    *)
(* paths of that form, with no second slash left to become part of a name. *)
TargetWellFormed == target.slashes <= 1

(* "fill <path> <size_hex> [ch] - write N bytes of ch" (shell.c:41): the   *)
(* command comes to an end, also on a device that is too small.            *)
FillEnds == (cmd = "fill") ~> (at = "prompt")
=============================================================================
