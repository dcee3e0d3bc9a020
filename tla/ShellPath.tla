----------------------------- MODULE ShellPath ------------------------------
(***************************************************************************)
(* How the shell (src/kernel64/shell.c) turns the path of a command into   *)
(* the mount:path given to the VFS, and what cd makes of the current       *)
(* directory.  A path is its components, with the slashes that precede the *)
(* first one counted, since the file systems strip only one.  Lengths in   *)
(* characters are left out, except that s_cwd_path holds so much.          *)
(***************************************************************************)
EXTENDS Integers, Sequences, FiniteSets

CONSTANTS Names,      \* component names, mount names among them
          Mountable,  \* mounts the user may add
          MaxArg,     \* bound: components of an argument
          MaxPath,    \* components s_cwd_path holds
          MaxComps    \* components resolve_path holds, 16 in the code

ASSUME ShellPathAssumption ==
  /\ Mountable \cup {"dev"} \subseteq Names
  /\ MaxArg \in Nat /\ MaxPath \in Nat /\ MaxComps \in Nat

VARIABLES mounts, s_cwd_mnt, s_cwd_path

cwdvars == <<mounts, s_cwd_mnt, s_cwd_path>>

Place(mnt, slashes, comps) == [mnt |-> mnt, slashes |-> slashes, comps |-> comps]
NoPlace == Place("none", 0, << >>)
NoArg == [kind |-> "none", mnt |-> "none", comps |-> << >>]

(* What the user may type: nothing, /a/b, a/b, and m:/a *)
Components == Names \cup {".", ".."}
UpToLen(S, n) == UNION {[1..m -> S] : m \in 0..n}
Typed == [kind : {"abs"}, mnt : {"none"}, comps : UpToLen(Components, MaxArg)]
         \cup [kind : {"rel"}, mnt : {"none"}, comps : UpToLen(Components, MaxArg) \ {<< >>}]
         \cup [kind : {"mnt"}, mnt : Mountable, comps : UpToLen(Names, 1)]

PathInit == /\ mounts \in {{"dev"}, {"dev", "root"}}
            /\ s_cwd_mnt = "root" /\ s_cwd_path = << >>

(* One component onto the stack: ".." pops, unless it is empty, and what a *)
(* full stack has no room for is dropped.                                  *)
Step_PopsDots(stack, c) ==
  IF c \in {".", ".."} THEN (IF stack = << >> THEN stack ELSE SubSeq(stack, 1, Len(stack) - 1))
  ELSE IF Len(stack) < MaxComps THEN Append(stack, c) ELSE stack
Step(stack, c) ==
  IF c = "." THEN stack
  ELSE IF c = ".." THEN (IF stack = << >> THEN stack ELSE SubSeq(stack, 1, Len(stack) - 1))
  ELSE IF Len(stack) < MaxComps THEN Append(stack, c) ELSE stack
Normalised(comps) ==
  LET after[k \in 0..Len(comps)] == IF k = 0 THEN << >> ELSE Step(after[k - 1], comps[k])
  IN  after[Len(comps)]

(* A path with a mount is taken as it is.  A relative one is joined to the *)
(* current directory: the slash that starts it is written in addition to   *)
(* the one of each component, unless the directory is the mount's root.    *)
resolve_path(a) ==
  IF a.kind = "mnt" THEN Place(a.mnt, 1, a.comps)
  ELSE LET comps == Normalised(s_cwd_path \o a.comps)
       IN  Place(s_cwd_mnt, IF s_cwd_path # << >> /\ comps # << >> THEN 2 ELSE 1, comps)

(* An absolute path starts with a mount, or is one of the root mount *)
Absolute_NoRest(comps) ==
  IF comps = << >> THEN Place("root", 1, << >>)
  ELSE IF comps[1] \in mounts THEN Place(comps[1], 1, comps)
  ELSE Place(IF "root" \in mounts THEN "root" ELSE s_cwd_mnt, 1, comps)
Absolute(comps) ==
  IF comps = << >> THEN Place("root", 1, << >>)
  ELSE IF comps[1] \in mounts THEN Place(comps[1], 1, Tail(comps))
  ELSE Place(IF "root" \in mounts THEN "root" ELSE s_cwd_mnt, 1, comps)

translate_unix_path(a) == IF a.kind = "abs" THEN Absolute(a.comps) ELSE resolve_path(a)

(* The path keeps what s_cwd_path has room for *)
set_cwd_from_path(p) ==
  /\ s_cwd_mnt' = p.mnt
  /\ s_cwd_path' = SubSeq(p.comps, 1, IF Len(p.comps) < MaxPath THEN Len(p.comps) ELSE MaxPath)

(* The current directory as cd and pwd see it: /dev is written out, and cd *)
(* leaves out every other mount.                                           *)
current_unix == IF s_cwd_mnt = "dev" THEN <<"dev">> \o s_cwd_path ELSE s_cwd_path

(* A word with neither slash nor colon is a mount name; anything else is   *)
(* made absolute, a mount:path included.                                   *)
cd(a) ==
  /\ set_cwd_from_path(
       CASE a.kind = "abs" -> Absolute(a.comps)
         [] a.kind = "rel" /\ Len(a.comps) = 1 -> Place(a.comps[1], 1, << >>)
         [] a.kind = "rel" /\ Len(a.comps) > 1 -> Absolute(current_unix \o a.comps)
         [] a.kind = "mnt" -> Absolute(current_unix \o <<a.mnt \o ":">> \o a.comps))
  /\ UNCHANGED mounts

(* The mount command, on a device with an exFAT volume *)
mount(m) == m \notin mounts /\ mounts' = mounts \cup {m} /\ UNCHANGED <<s_cwd_mnt, s_cwd_path>>

-----------------------------------------------------------------------------
(* Component i of a path is part of what the path names: it is a name, and *)
(* the ".." after it are all used up by the names after it.                *)
Stays(p, i) ==
  /\ p[i] \notin {".", ".."}
  /\ \A j \in (i + 1)..Len(p) :
       Cardinality({k \in (i + 1)..j : p[k] = ".."})
         <= Cardinality({k \in (i + 1)..j : p[k] \notin {".", ".."}})
Named(p) ==
  LET kept == {i \in 1..Len(p) : Stays(p, i)}
  IN  [n \in 1..Cardinality(kept) |->
         p[CHOOSE i \in kept : Cardinality({k \in kept : k <= i}) = n]]

(* The directory pwd prints for the dev and root mounts, typed as an       *)
(* absolute path, is the current one, unless a mount hides it.             *)
PwdLeadsBack ==
  s_cwd_mnt \in mounts \cap {"dev", "root"}
  /\ (s_cwd_mnt = "root" => s_cwd_path = << >> \/ s_cwd_path[1] \notin mounts) =>
    Absolute(current_unix) = Place(s_cwd_mnt, 1, s_cwd_path)

(* "or use mount:path" (shell.c:531): cd to a mount:path goes there. *)
CdTakesMountPath ==
  [][\A a \in Typed : cd(a) /\ a.kind = "mnt" /\ a.mnt \in mounts /\ Len(a.comps) <= MaxPath =>
       s_cwd_mnt' = a.mnt /\ s_cwd_path' = a.comps]_cwdvars
=============================================================================
