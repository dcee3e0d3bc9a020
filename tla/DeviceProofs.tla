---------------------------- MODULE DeviceProofs ----------------------------
(***************************************************************************)
(* Proofs about byte access through devfs (src/kernel64/fs/devfs.c), for   *)
(* every sector size, chunk limit, disk, set of devices, offset and        *)
(* length, and about what the decoder of src/kernel64/input.c makes of the *)
(* bytes the keyboard queued, for queues of every length and presses       *)
(* without bound.                                                          *)
(***************************************************************************)
EXTENDS Devfs, Keyboard, TLAPS

-----------------------------------------------------------------------------
(* Sequences. *)

\* Sequences with the same elements are the same.
LEMMA SameSeq ==
  ASSUME NEW S, NEW s \in Seq(S), NEW t \in Seq(S),
         Len(s) = Len(t), \A i \in 1..Len(s) : s[i] = t[i]
  PROVE  s = t
<1>1. s = [i \in 1..Len(s) |-> s[i]] /\ t = [i \in 1..Len(t) |-> t[i]]
  OBVIOUS
<1>. QED
  BY <1>1, Zenon

\* One sequence after another.
LEMMA Joined ==
  ASSUME NEW S, NEW s \in Seq(S), NEW t \in Seq(S)
  PROVE  /\ s \o t \in Seq(S) /\ Len(s \o t) = Len(s) + Len(t)
         /\ \A i \in 1..(Len(s) + Len(t)) : (s \o t)[i] = IF i <= Len(s) THEN s[i] ELSE t[i - Len(s)]
OBVIOUS

\* Three sequences, joined either way.
LEMMA Regrouped ==
  ASSUME NEW S, NEW s \in Seq(S), NEW t \in Seq(S), NEW u \in Seq(S)
  PROVE  s \o (t \o u) = (s \o t) \o u
<1>. DEFINE tu == t \o u
            st == s \o t
            a == s \o tu
            b == st \o u
<1>0. Len(s) \in Nat /\ Len(t) \in Nat /\ Len(u) \in Nat
  OBVIOUS
<1>1. /\ tu \in Seq(S) /\ Len(tu) = Len(t) + Len(u)
      /\ \A i \in 1..(Len(t) + Len(u)) : tu[i] = IF i <= Len(t) THEN t[i] ELSE u[i - Len(t)]
  BY Joined
<1>2. /\ st \in Seq(S) /\ Len(st) = Len(s) + Len(t)
      /\ \A i \in 1..(Len(s) + Len(t)) : st[i] = IF i <= Len(s) THEN s[i] ELSE t[i - Len(s)]
  BY Joined
<1>. HIDE DEF tu, st
<1>3. /\ a \in Seq(S) /\ Len(a) = Len(s) + Len(tu)
      /\ \A i \in 1..(Len(s) + Len(tu)) : a[i] = IF i <= Len(s) THEN s[i] ELSE tu[i - Len(s)]
  <2>1. tu \in Seq(S)
    BY <1>1
  <2>. QED
    BY <2>1, Joined
<1>4. /\ b \in Seq(S) /\ Len(b) = Len(st) + Len(u)
      /\ \A i \in 1..(Len(st) + Len(u)) : b[i] = IF i <= Len(st) THEN st[i] ELSE u[i - Len(st)]
  <2>1. st \in Seq(S)
    BY <1>2
  <2>. QED
    BY <2>1, Joined
<1>. HIDE DEF a, b
<1>. DEFINE x == Len(s)
            y == Len(t)
            z == Len(u)
<1>5. Len(tu) = y + z /\ Len(st) = x + y /\ Len(a) = x + (y + z) /\ Len(b) = (x + y) + z
  BY <1>1, <1>2, <1>3, <1>4, Zenon
<1>6. x \in Nat /\ y \in Nat /\ z \in Nat
  BY <1>0
<1>. HIDE DEF x, y, z
<1>7. ASSUME NEW i \in 1..((x + y) + z) PROVE a[i] = b[i]
  <2>1. a[i] = (IF i <= x THEN s[i] ELSE tu[i - x]) /\ b[i] = IF i <= x + y THEN st[i] ELSE u[i - (x + y)]
    BY <1>1, <1>2, <1>3, <1>4, <1>6 DEF x, y, z
  <2>2. CASE i <= x
    BY <2>1, <2>2, <1>2, <1>6 DEF x, y
  <2>3. CASE i > x /\ i <= x + y
    <3>1. i - x \in 1..(y + z) /\ i - x <= y /\ i \in 1..(x + y) /\ ~(i <= x)
      BY <2>3, <1>6
    <3>2. tu[i - x] = t[i - x] /\ st[i] = t[i - x]
      BY <3>1, <1>1, <1>2, Zenon DEF x, y, z
    <3>. QED
      BY <3>1, <3>2, <2>1, <2>3
  <2>4. CASE i > x + y
    <3>1. /\ i - x \in 1..(y + z) /\ ~(i - x <= y) /\ (i - x) - y = i - (x + y)
          /\ ~(i <= x) /\ ~(i <= x + y)
      BY <2>4, <1>6
    <3>2. tu[i - x] = u[(i - x) - y]
      BY <3>1, <1>1, Zenon DEF x, y, z
    <3>. QED
      BY <3>1, <3>2, <2>1
  <2>. QED
    BY <2>2, <2>3, <2>4, <1>6
<1>8. Len(a) = Len(b) /\ 1..Len(a) = 1..((x + y) + z)
  BY <1>5, <1>6
<1>9. a = b
  BY <1>3, <1>4, <1>7, <1>8, SameSeq, Zenon
<1>. QED
  BY <1>9 DEF a, b, tu, st

-----------------------------------------------------------------------------
(* The decoder of the keyboard's bytes. *)

Bytes == 0..255
Flags == {"SHIFT", "CTRL", "ALT", "CAPS"}

Events == {Decoded(b, m, e) : b \in Bytes, m \in SUBSET Flags, e \in BOOLEAN} \ {NoEvent}

(* What decoding byte b, with flags m and prefix e, adds to the events o.  *)
WithEvent(o, b, m, e) == IF Decoded(b, m, e) = NoEvent THEN o ELSE Append(o, Decoded(b, m, e))

(* t follows the decoder through the queue q, byte by byte: the flags t.m, *)
(* the prefix t.e and the number t.c of events so far, which are those of  *)
(* the sequence o.                                                         *)
Follows(t, q, o) ==
  /\ t \in [0..Len(q) -> [m : SUBSET Flags, e : BOOLEAN, c : 0..Len(o)]]
  /\ t[0].c = 0 /\ t[Len(q)].c = Len(o)
  /\ \A i, j \in 0..Len(q) : i <= j => t[i].c <= t[j].c
  /\ \A j \in 1..Len(q) :
       /\ t[j].m = NextMods(q[j], t[j - 1].m, t[j - 1].e)
       /\ t[j].e = NextE0(q[j], t[j - 1].e)
       /\ IF Decoded(q[j], t[j - 1].m, t[j - 1].e) = NoEvent THEN t[j].c = t[j - 1].c
          ELSE /\ t[j].c = t[j - 1].c + 1
               /\ o[t[j].c] = Decoded(q[j], t[j - 1].m, t[j - 1].e)

(* Decoding q from flags m and prefix e gives the events o and ends with   *)
(* flags n and prefix f.                                                   *)
Decodes(q, m, e, o, n, f) ==
  \E t : Follows(t, q, o) /\ t[0].m = m /\ t[0].e = e /\ t[Len(q)].m = n /\ t[Len(q)].e = f

(* The bytes queued, decoded from the decoder's own state, give the events *)
(* owed and the flags of the keys queued; a flag is one of a key held.     *)
KInv ==
  /\ KTypeOK
  /\ fifo \in Seq(Bytes) /\ ser \in Seq(Serial) /\ typed \in Nat /\ lost \in BOOLEAN
  /\ owed \in Seq(Events)
  /\ latch \subseteq Flags
  /\ Decodes(fifo, s_mods, s_e0, owed, latch, FALSE)
  /\ ~lost => latch \ {"CAPS"} \subseteq {Modifier[k] : k \in down \cap DOMAIN Modifier}

-----------------------------------------------------------------------------
\* A byte leaves flags and a prefix.
LEMMA DecoderType ==
  ASSUME NEW b \in Bytes, NEW m \in SUBSET Flags, NEW e \in BOOLEAN
  PROVE  NextMods(b, m, e) \in SUBSET Flags /\ NextE0(b, e) \in BOOLEAN
<1>1. Flag(b % 128, e) \subseteq Flags
  BY DEF Flag, Flags
<1>2. NextMods(b, m, e) \in SUBSET Flags
  BY <1>1, Zenon DEF NextMods, Flags
<1>. QED
  BY <1>2, Zenon DEF NextE0

\* An event is one a byte can be decoded to.
LEMMA EventType ==
  ASSUME NEW b \in Bytes, NEW m \in SUBSET Flags, NEW e \in BOOLEAN, Decoded(b, m, e) # NoEvent
  PROVE  Decoded(b, m, e) \in Events
<1>. HIDE DEF Decoded, NoEvent
<1>. QED
  BY DEF Events

\* The events after one more byte.
LEMMA WithEventType ==
  ASSUME NEW o \in Seq(Events), NEW b \in Bytes, NEW m \in SUBSET Flags, NEW e \in BOOLEAN
  PROVE  WithEvent(o, b, m, e) \in Seq(Events)
BY EventType DEF WithEvent

\* Nothing queued: nothing is owed and the decoder's state is final.
LEMMA NothingQueued ==
  ASSUME NEW o \in Seq(Events), NEW m \in SUBSET Flags, NEW e \in BOOLEAN, NEW n, NEW f
  PROVE  Decodes(<< >>, m, e, o, n, f) <=> o = << >> /\ n = m /\ f = e
<1>1. Len(<< >>) = 0 /\ 0..0 = {0} /\ 1..0 = {}
  OBVIOUS
<1>2. ASSUME NEW t, Follows(t, << >>, o) PROVE o = << >>
  BY <1>1, <1>2 DEF Follows
<1>3. ASSUME o = << >> PROVE Decodes(<< >>, m, e, o, m, e)
  <2>. DEFINE t == [j \in 0..0 |-> [m |-> m, e |-> e, c |-> 0]]
  <2>1. t[0] = [m |-> m, e |-> e, c |-> 0] /\ Len(o) = 0
    BY <1>1, <1>3
  <2>2. t \in [0..Len(<< >>) -> [m : SUBSET Flags, e : BOOLEAN, c : 0..Len(o)]]
    BY <1>1, <2>1
  <2>3. Follows(t, << >>, o)
    BY <1>1, <2>1, <2>2, SMTT(40) DEF Follows
  <2>. QED
    BY <1>1, <2>1, <2>3 DEF Decodes
<1>. QED
  BY <1>1, <1>2, <1>3 DEF Decodes

\* A byte queued is decoded after the others.
LEMMA QueueByte ==
  ASSUME NEW q \in Seq(Bytes), NEW o \in Seq(Events), NEW b \in Bytes, NEW m, NEW e,
         NEW n \in SUBSET Flags, NEW f \in BOOLEAN, Decodes(q, m, e, o, n, f)
  PROVE  /\ Append(q, b) \in Seq(Bytes) /\ WithEvent(o, b, n, f) \in Seq(Events)
         /\ Decodes(Append(q, b), m, e, WithEvent(o, b, n, f), NextMods(b, n, f), NextE0(b, f))
<1>. DEFINE r == Append(q, b)
            p == WithEvent(o, b, n, f)
            L == Len(q)
            d == Decoded(b, n, f)
<1>1. PICK t : Follows(t, q, o) /\ t[0].m = m /\ t[0].e = e /\ t[L].m = n /\ t[L].e = f
  BY DEF Decodes
<1>2. /\ r \in Seq(Bytes) /\ Len(r) = L + 1 /\ L \in Nat /\ r[L + 1] = b
      /\ \A j \in 1..L : r[j] = q[j]
  OBVIOUS
<1>3. p \in Seq(Events) /\ Len(o) \in Nat /\ \A j \in 1..Len(o) : p[j] = o[j]
  BY EventType DEF WithEvent
<1>4. IF d = NoEvent THEN Len(p) = Len(o) ELSE Len(p) = Len(o) + 1 /\ p[Len(p)] = d
  BY EventType DEF WithEvent
<1>5. /\ t \in [0..L -> [m : SUBSET Flags, e : BOOLEAN, c : 0..Len(o)]]
      /\ t[0].c = 0 /\ t[L].c = Len(o)
      /\ \A i, j \in 0..L : i <= j => t[i].c <= t[j].c
      /\ \A j \in 1..L :
           /\ t[j].m = NextMods(q[j], t[j - 1].m, t[j - 1].e)
           /\ t[j].e = NextE0(q[j], t[j - 1].e)
           /\ IF Decoded(q[j], t[j - 1].m, t[j - 1].e) = NoEvent THEN t[j].c = t[j - 1].c
              ELSE /\ t[j].c = t[j - 1].c + 1
                   /\ o[t[j].c] = Decoded(q[j], t[j - 1].m, t[j - 1].e)
  BY <1>1, SMTT(40) DEF Follows
<1>. DEFINE new == [m |-> NextMods(b, n, f), e |-> NextE0(b, f), c |-> Len(p)]
            u == [j \in 0..Len(r) |-> IF j = L + 1 THEN new ELSE t[j]]
<1>6. new \in [m : SUBSET Flags, e : BOOLEAN, c : 0..Len(p)]
  <2>1. NextMods(b, n, f) \in SUBSET Flags /\ NextE0(b, f) \in BOOLEAN
    BY DecoderType, Zenon
  <2>. HIDE DEF p
  <2>2. Len(p) \in 0..Len(p)
    BY <1>3, SMTT(40)
  <2>. QED
    BY <2>1, <2>2
<1>. HIDE DEF r, p, d
<1>7. u[L + 1] = new /\ \A j \in 0..L : u[j] = t[j]
  BY <1>2
<1>. HIDE DEF new
<1>8. u \in [0..Len(r) -> [m : SUBSET Flags, e : BOOLEAN, c : 0..Len(p)]]
  <2>1. \A j \in 0..L : t[j] \in [m : SUBSET Flags, e : BOOLEAN, c : 0..Len(p)]
    <3>1. \A j \in 0..L : t[j] \in [m : SUBSET Flags, e : BOOLEAN, c : 0..Len(o)]
      BY <1>5, Zenon
    <3>2. 0..Len(o) \subseteq 0..Len(p)
      BY <1>3, <1>4
    <3>. QED
      BY <3>1, <3>2
  <2>2. \A j \in 0..Len(r) : j # L + 1 => j \in 0..L
    BY <1>2
  <2>. QED
    BY <1>6, <2>1, <2>2
<1>9. new.m = NextMods(b, n, f) /\ new.e = NextE0(b, f) /\ new.c = Len(p)
  BY DEF new
<1>10. \A i, j \in 0..Len(r) : i <= j => u[i].c <= u[j].c
  <2>1. \A j \in 0..L : t[j].c \in 0..Len(o)
    BY <1>5
  <2>2. Len(p) \in Nat /\ Len(o) <= Len(p)
    BY <1>3, <1>4, SMTT(40)
  <2>. SUFFICES ASSUME NEW i \in 0..Len(r), NEW j \in 0..Len(r), i <= j PROVE u[i].c <= u[j].c
    OBVIOUS
  <2>3. CASE j \in 0..L
    BY <2>3, <1>2, <1>5, <1>7, SMTT(40)
  <2>4. CASE j = L + 1 /\ i = L + 1
    <3>1. u[i].c = Len(p) /\ i = j
      BY <2>4, <1>7, <1>9, Zenon
    <3>. QED
      BY <3>1, <2>2, SMTT(40)
  <2>5. CASE j = L + 1 /\ i \in 0..L
    BY <2>5, <2>1, <2>2, <1>7, <1>9, <1>3, SMTT(40)
  <2>. QED
    BY <2>3, <2>4, <2>5, <1>2
<1>. HIDE DEF u
<1>11. ASSUME NEW j \in 1..Len(r)
       PROVE  /\ u[j].m = NextMods(r[j], u[j - 1].m, u[j - 1].e)
              /\ u[j].e = NextE0(r[j], u[j - 1].e)
              /\ IF Decoded(r[j], u[j - 1].m, u[j - 1].e) = NoEvent THEN u[j].c = u[j - 1].c
                 ELSE /\ u[j].c = u[j - 1].c + 1
                      /\ p[u[j].c] = Decoded(r[j], u[j - 1].m, u[j - 1].e)
  <2>1. CASE j = L + 1
    <3>1. u[j] = new /\ u[j - 1] = t[L] /\ r[j] = b
      BY <2>1, <1>2, <1>7, SMTT(40)
    <3>2. t[L].m = n /\ t[L].e = f /\ t[L].c = Len(o)
      BY <1>1, <1>5
    <3>. QED
      BY <3>1, <3>2, <1>9, <1>4, Zenon DEF d
  <2>2. CASE j \in 1..L
    <3>1. u[j] = t[j] /\ u[j - 1] = t[j - 1] /\ r[j] = q[j]
      BY <2>2, <1>2, <1>7, SMTT(40)
    <3>2. t[j].c \in 0..Len(o) /\ t[j - 1].c \in 0..Len(o)
      <4>1. j \in 0..L /\ j - 1 \in 0..L
        BY <2>2, <1>2
      <4>2. \A i \in 0..L : t[i].c \in 0..Len(o)
        BY <1>5, Zenon
      <4>. QED
        BY <4>1, <4>2
    <3>3. t[j].c = t[j - 1].c + 1 => t[j].c \in 1..Len(o)
      BY <3>2, <1>3, SMTT(40)
    <3>. QED
      BY <3>1, <3>3, <2>2, <1>5, <1>3, Zenon
  <2>. QED
    BY <2>1, <2>2, <1>2, SMTT(40)
<1>12. u[0].c = 0 /\ u[Len(r)].c = Len(p)
  BY <1>2, <1>5, <1>7, <1>9
<1>13. Follows(u, r, p)
  BY <1>8, <1>10, <1>11, <1>12, SMTT(40) DEF Follows
<1>14. u[0].m = m /\ u[0].e = e /\ u[Len(r)].m = NextMods(b, n, f) /\ u[Len(r)].e = NextE0(b, f)
  BY <1>1, <1>2, <1>7, <1>9, SMTT(40)
<1>15. Decodes(r, m, e, p, NextMods(b, n, f), NextE0(b, f))
  BY <1>13, <1>14 DEF Decodes
<1>. QED
  BY <1>15, <1>2, <1>3, SMTT(40) DEF r, p

\* Reading a byte: its event, if it has one, is the first owed, and the rest is decoded from there.
LEMMA ReadByte ==
  ASSUME NEW q \in Seq(Bytes), q # << >>, NEW o \in Seq(Events), NEW n, NEW f,
         NEW m \in SUBSET Flags, NEW e \in BOOLEAN, Decodes(q, m, e, o, n, f)
  PROVE  /\ Decoded(Head(q), m, e) # NoEvent => o # << >> /\ Head(o) = Decoded(Head(q), m, e)
         /\ Decodes(Tail(q), NextMods(Head(q), m, e), NextE0(Head(q), e),
                    IF Decoded(Head(q), m, e) = NoEvent THEN o ELSE Tail(o), n, f)
<1>. DEFINE r == Tail(q)
            L == Len(q)
            d == Decoded(Head(q), m, e)
            p == IF d = NoEvent THEN o ELSE Tail(o)
<1>1. PICK t : Follows(t, q, o) /\ t[0].m = m /\ t[0].e = e /\ t[L].m = n /\ t[L].e = f
  BY DEF Decodes
<1>2. /\ r \in Seq(Bytes) /\ Len(r) = L - 1 /\ L \in Nat \ {0} /\ Head(q) = q[1]
      /\ \A j \in 1..Len(r) : r[j] = q[j + 1]
  OBVIOUS
<1>3. /\ t \in [0..L -> [m : SUBSET Flags, e : BOOLEAN, c : 0..Len(o)]]
      /\ t[0].c = 0 /\ t[L].c = Len(o)
      /\ \A i, j \in 0..L : i <= j => t[i].c <= t[j].c
      /\ \A j \in 1..L :
           /\ t[j].m = NextMods(q[j], t[j - 1].m, t[j - 1].e)
           /\ t[j].e = NextE0(q[j], t[j - 1].e)
           /\ IF Decoded(q[j], t[j - 1].m, t[j - 1].e) = NoEvent THEN t[j].c = t[j - 1].c
              ELSE /\ t[j].c = t[j - 1].c + 1
                   /\ o[t[j].c] = Decoded(q[j], t[j - 1].m, t[j - 1].e)
  BY <1>1 DEF Follows
<1>18. \A i, j \in 0..L : i <= j => t[i].c <= t[j].c
  BY <1>3, Zenon
<1>19. \A j \in 0..L : t[j] \in [m : SUBSET Flags, e : BOOLEAN, c : 0..Len(o)]
  BY <1>3, Zenon
<1>4. Len(o) \in Nat /\ \A j \in 0..L : t[j].c \in 0..Len(o)
  BY <1>19
<1>5. t[1].m = NextMods(Head(q), m, e) /\ t[1].e = NextE0(Head(q), e)
      /\ IF d = NoEvent THEN t[1].c = 0 ELSE t[1].c = 1 /\ o[1] = d
  <2>1. 1 \in 1..L /\ 1 - 1 = 0 /\ 0 + 1 = 1
    BY <1>2, SMTT(40)
  <2>. HIDE DEF L
  <2>. QED
    BY <2>1, <1>1, <1>2, <1>3
<1>6. ASSUME d # NoEvent PROVE o # << >> /\ Head(o) = d
  <2>1. 1 \in 0..L /\ t[1].c = 1 /\ o[1] = d
    BY <1>6, <1>5, <1>2
  <2>2. Len(o) \in Nat /\ Len(o) >= 1
    BY <2>1, <1>4, SMTT(40)
  <2>. QED
    BY <2>1, <2>2, SMTT(40)
<1>7. /\ p \in Seq(Events) /\ Len(p) = Len(o) - t[1].c /\ Len(p) \in Nat
      /\ \A j \in 1..Len(p) : p[j] = o[j + t[1].c]
  <2>1. CASE d = NoEvent
    BY <2>1, <1>4, <1>5, SMTT(40)
  <2>2. CASE d # NoEvent
    BY <2>2, <1>4, <1>5, <1>6
  <2>. QED
    BY <2>1, <2>2, SMTT(40)
<1>. HIDE DEF p, d, r
<1>. DEFINE u == [j \in 0..Len(r) |-> [m |-> t[j + 1].m, e |-> t[j + 1].e,
                                       c |-> t[j + 1].c - t[1].c]]
<1>8. \A j \in 0..Len(r) : j + 1 \in 1..L /\ j + 1 \in 0..L /\ 1 \in 0..L
  BY <1>2
<1>9. \A j \in 0..Len(r) : /\ t[j + 1].m \in SUBSET Flags /\ t[j + 1].e \in BOOLEAN
                           /\ t[j + 1].c - t[1].c \in 0..Len(p)
  <2>. SUFFICES ASSUME NEW j \in 0..Len(r)
                PROVE  /\ t[j + 1].m \in SUBSET Flags /\ t[j + 1].e \in BOOLEAN
                       /\ t[j + 1].c - t[1].c \in 0..Len(p)
    BY Zenon
  <2>1. t[j + 1].m \in SUBSET Flags /\ t[j + 1].e \in BOOLEAN
    BY <1>8, <1>19
  <2>2. t[1].c <= t[j + 1].c /\ t[j + 1].c \in 0..Len(o) /\ t[1].c \in 0..Len(o)
    <3>1. 1 \in 0..L /\ j + 1 \in 0..L /\ 1 <= j + 1
      BY <1>2
    <3>. QED
      BY <3>1, <1>18, <1>4, Zenon
  <2>3. Len(p) = Len(o) - t[1].c /\ Len(o) \in Nat
    BY <1>4, <1>7
  <2>4. t[j + 1].c - t[1].c \in 0..Len(p)
    <3>. DEFINE x == t[j + 1].c
                y == t[1].c
    <3>1. x \in 0..Len(o) /\ y \in 0..Len(o) /\ y <= x /\ Len(p) = Len(o) - y
      BY <2>2, <2>3
    <3>. HIDE DEF x, y
    <3>2. x - y \in 0..Len(p)
      BY <3>1, <2>3
    <3>. QED
      BY <3>2 DEF x, y
  <2>. QED
    BY <2>1, <2>4, Zenon
<1>10. \A j \in 0..Len(r) : /\ u[j].m = t[j + 1].m /\ u[j].e = t[j + 1].e
                            /\ u[j].c = t[j + 1].c - t[1].c
  OBVIOUS
<1>11. u \in [0..Len(r) -> [m : SUBSET Flags, e : BOOLEAN, c : 0..Len(p)]]
  BY <1>9, Zenon
<1>. HIDE DEF u
<1>12. u[0].c = 0 /\ u[Len(r)].c = Len(p)
  <2>1. 0 \in 0..Len(r) /\ 0 + 1 = 1 /\ Len(r) \in 0..Len(r) /\ Len(r) + 1 = L
    BY <1>2, SMTT(40)
  <2>2. u[0].c = t[1].c - t[1].c /\ u[Len(r)].c = t[L].c - t[1].c /\ t[1].c \in 0..Len(o)
    BY <2>1, <1>4, <1>8, <1>10, SMTT(40)
  <2>. QED
    BY <2>2, <1>3, <1>4, <1>7
<1>13. ASSUME NEW i \in 0..Len(r), NEW j \in 0..Len(r), i <= j PROVE u[i].c <= u[j].c
  <2>1. i + 1 \in 0..L /\ j + 1 \in 0..L /\ i + 1 <= j + 1 /\ 1 \in 0..L
    BY <1>13, <1>2
  <2>2. t[i + 1].c <= t[j + 1].c
    BY <2>1, <1>18, Zenon
  <2>3. t[i + 1].c \in 0..Len(o) /\ t[j + 1].c \in 0..Len(o) /\ t[1].c \in 0..Len(o)
    BY <2>1, <1>4, Zenon
  <2>4. u[i].c = t[i + 1].c - t[1].c /\ u[j].c = t[j + 1].c - t[1].c
    BY <1>10, Zenon
  <2>. QED
    BY <2>2, <2>3, <2>4, SMTT(40)
<1>14. ASSUME NEW j \in 1..Len(r)
       PROVE  /\ u[j].m = NextMods(r[j], u[j - 1].m, u[j - 1].e)
              /\ u[j].e = NextE0(r[j], u[j - 1].e)
              /\ IF Decoded(r[j], u[j - 1].m, u[j - 1].e) = NoEvent THEN u[j].c = u[j - 1].c
                 ELSE /\ u[j].c = u[j - 1].c + 1
                      /\ p[u[j].c] = Decoded(r[j], u[j - 1].m, u[j - 1].e)
  <2>. DEFINE k == j + 1
  <2>1. /\ k \in 1..L /\ k - 1 = j /\ j - 1 \in 0..Len(r) /\ j \in 0..Len(r) /\ j - 1 + 1 = j
        /\ r[j] = q[k] /\ j \in 0..L /\ k \in 0..L /\ 1 \in 0..L
    BY <1>2
  <2>2. /\ u[j].m = t[k].m /\ u[j].e = t[k].e /\ u[j].c = t[k].c - t[1].c
        /\ u[j - 1].m = t[j].m /\ u[j - 1].e = t[j].e /\ u[j - 1].c = t[j].c - t[1].c
    BY <2>1, <1>10, Zenon
  <2>. HIDE DEF k
  <2>3. /\ t[k].m = NextMods(q[k], t[j].m, t[j].e)
        /\ t[k].e = NextE0(q[k], t[j].e)
        /\ IF Decoded(q[k], t[j].m, t[j].e) = NoEvent THEN t[k].c = t[j].c
           ELSE /\ t[k].c = t[j].c + 1 /\ o[t[k].c] = Decoded(q[k], t[j].m, t[j].e)
    BY <2>1, <1>3, Zenon
  <2>4. t[k].c \in 0..Len(o) /\ t[j].c \in 0..Len(o) /\ t[1].c \in 0..Len(o) /\ t[1].c <= t[j].c
    BY <2>1, <1>3, <1>4, SMTT(40)
  <2>5. ASSUME t[k].c = t[j].c + 1
        PROVE  u[j].c = u[j - 1].c + 1 /\ p[u[j].c] = o[t[k].c]
    <3>. DEFINE x == t[k].c
                y == t[j].c
                z == t[1].c
                l == Len(o)
    <3>1. /\ l \in Nat /\ x \in 0..l /\ y \in 0..l /\ z \in 0..l /\ z <= y /\ x = y + 1
          /\ u[j].c = x - z /\ u[j - 1].c = y - z /\ Len(p) = l - z
      BY <2>2, <2>4, <2>5, <1>7, <1>4, ZenonT(30)
    <3>. HIDE DEF x, y, z, l
    <3>2. x - z \in 1..(l - z) /\ x - z + z = x /\ x - z = y - z + 1
      BY <3>1, SMTT(40)
    <3>4. \A n1 \in 1..(l - z) : p[n1] = o[n1 + z]
      BY <3>1, <1>7, Zenon DEF z, l
    <3>3. p[x - z] = o[x - z + z]
      BY <3>2, <3>4, Zenon
    <3>. QED
      BY <3>1, <3>2, <3>3, Zenon DEF x
  <2>6. Decoded(r[j], u[j - 1].m, u[j - 1].e) = Decoded(q[k], t[j].m, t[j].e)
    BY <2>1, <2>2, Zenon
  <2>7. CASE Decoded(q[k], t[j].m, t[j].e) = NoEvent
    BY <2>1, <2>2, <2>3, <2>6, <2>7, Zenon
  <2>8. CASE Decoded(q[k], t[j].m, t[j].e) # NoEvent
    BY <2>1, <2>2, <2>3, <2>5, <2>6, <2>8, Zenon
  <2>. QED
    BY <2>7, <2>8, Zenon
<1>15. Follows(u, r, p)
  BY <1>11, <1>12, <1>13, <1>14, SMTT(40) DEF Follows
<1>16. /\ u[0].m = NextMods(Head(q), m, e) /\ u[0].e = NextE0(Head(q), e)
       /\ u[Len(r)].m = n /\ u[Len(r)].e = f
  BY <1>1, <1>2, <1>5, <1>10, SMTT(40)
<1>17. Decodes(r, NextMods(Head(q), m, e), NextE0(Head(q), e), p, n, f)
  BY <1>15, <1>16 DEF Decodes
<1>. QED
  BY <1>17, <1>6 DEF r, p, d

-----------------------------------------------------------------------------
\* Bytes queued one after the other.
LEMMA TwoBytes ==
  ASSUME NEW q \in Seq(Bytes), NEW a \in Bytes, NEW b \in Bytes
  PROVE  q \o <<a, b>> = Append(Append(q, a), b)
OBVIOUS

\* The two truth values.
LEMMA Truth == TRUE \in BOOLEAN /\ FALSE \in BOOLEAN
BY Zenon

(* The bytes w, queued with flags n, add the events that make o into p and *)
(* leave flags l, the prefix being used up.                                *)
Adds(w, n, o, p, l) ==
  \A q \in Seq(Bytes), m \in SUBSET Flags, e \in BOOLEAN :
     Decodes(q, m, e, o, n, FALSE)
       => q \o w \in Seq(Bytes) /\ Len(q \o w) > Len(q) /\ Decodes(q \o w, m, e, p, l, FALSE)

\* A key of one byte.
LEMMA OneByteKey ==
  ASSUME NEW b \in Bytes, NEW n \in SUBSET Flags, NEW o \in Seq(Events), ~NextE0(b, FALSE)
  PROVE  /\ WithEvent(o, b, n, FALSE) \in Seq(Events)
         /\ Adds(<<b>>, n, o, WithEvent(o, b, n, FALSE), NextMods(b, n, FALSE))
<1>1. ASSUME NEW q \in Seq(Bytes) PROVE q \o <<b>> = Append(q, b) /\ Len(Append(q, b)) > Len(q)
  OBVIOUS
<1>2. NextE0(b, FALSE) = FALSE
  BY DEF NextE0
<1>3. WithEvent(o, b, n, FALSE) \in Seq(Events)
  BY WithEventType, Truth, Zenon
<1>4. ASSUME NEW q \in Seq(Bytes), NEW m \in SUBSET Flags, NEW e \in BOOLEAN,
             Decodes(q, m, e, o, n, FALSE)
      PROVE  Append(q, b) \in Seq(Bytes)
             /\ Decodes(Append(q, b), m, e, WithEvent(o, b, n, FALSE), NextMods(b, n, FALSE), FALSE)
  <2>1. Append(q, b) \in Seq(Bytes)
        /\ Decodes(Append(q, b), m, e, WithEvent(o, b, n, FALSE), NextMods(b, n, FALSE),
                   NextE0(b, FALSE))
    BY <1>4, QueueByte, Truth, Zenon
  <2>. QED
    BY <1>2, <2>1, Zenon
<1>. QED
  BY <1>1, <1>3, <1>4, Zenon DEF Adds

\* A key with the extended prefix.
LEMMA ExtendedKey ==
  ASSUME NEW b \in Bytes, NEW n \in SUBSET Flags, NEW o \in Seq(Events), b \notin {E0, E1}
  PROVE  /\ WithEvent(o, b, n, TRUE) \in Seq(Events)
         /\ Adds(<<E0, b>>, n, o, WithEvent(o, b, n, TRUE), NextMods(b, n, TRUE))
<1>1. E0 \in Bytes /\ NextMods(E0, n, FALSE) = n /\ NextE0(E0, FALSE) = TRUE
      /\ Decoded(E0, n, FALSE) = NoEvent /\ NextE0(b, TRUE) = FALSE
  BY DEF NextMods, NextE0, Decoded, E0, E1, Bytes
<1>2. WithEvent(o, E0, n, FALSE) = o
  BY <1>1 DEF WithEvent
<1>3. WithEvent(o, b, n, TRUE) \in Seq(Events)
  BY WithEventType, Truth, Zenon
<1>4. ASSUME NEW q \in Seq(Bytes), NEW m \in SUBSET Flags, NEW e \in BOOLEAN,
             Decodes(q, m, e, o, n, FALSE)
      PROVE  /\ Append(Append(q, E0), b) \in Seq(Bytes) /\ Len(Append(Append(q, E0), b)) > Len(q)
             /\ Decodes(Append(Append(q, E0), b), m, e, WithEvent(o, b, n, TRUE),
                        NextMods(b, n, TRUE), FALSE)
  <2>1. Append(q, E0) \in Seq(Bytes) /\ Decodes(Append(q, E0), m, e, o, n, TRUE)
    <3>1. Append(q, E0) \in Seq(Bytes) /\ Decodes(Append(q, E0), m, e, WithEvent(o, E0, n, FALSE),
                                              NextMods(E0, n, FALSE), NextE0(E0, FALSE))
      BY <1>1, <1>4, QueueByte, Truth, Zenon
    <3>. QED
      BY <3>1, <1>1, <1>2, Zenon
  <2>2. Len(Append(Append(q, E0), b)) > Len(q)
    BY <1>1
  <2>3. /\ Append(Append(q, E0), b) \in Seq(Bytes)
        /\ Decodes(Append(Append(q, E0), b), m, e, WithEvent(o, b, n, TRUE), NextMods(b, n, TRUE),
                   NextE0(b, TRUE))
    BY <2>1, QueueByte, Truth, Zenon
  <2>. QED
    BY <2>2, <2>3, <1>1, Zenon
<1>5. \A q \in Seq(Bytes) : q \o <<E0, b>> = Append(Append(q, E0), b)
  BY <1>1, TwoBytes, Zenon
<1>. QED
  <2>1. ASSUME NEW q \in Seq(Bytes), NEW m \in SUBSET Flags, NEW e \in BOOLEAN,
               Decodes(q, m, e, o, n, FALSE)
        PROVE  /\ q \o <<E0, b>> \in Seq(Bytes) /\ Len(q \o <<E0, b>>) > Len(q)
               /\ Decodes(q \o <<E0, b>>, m, e, WithEvent(o, b, n, TRUE), NextMods(b, n, TRUE), FALSE)
    <3>. DEFINE w == q \o <<E0, b>>
    <3>1. w = Append(Append(q, E0), b)
      BY <1>5
    <3>. HIDE DEF w
    <3>2. w \in Seq(Bytes) /\ Len(w) > Len(q)
          /\ Decodes(w, m, e, WithEvent(o, b, n, TRUE), NextMods(b, n, TRUE), FALSE)
      BY <3>1, <2>1, <1>4, Zenon
    <3>. QED
      BY <3>2, Zenon DEF w
  <2>. QED
    BY <2>1, <1>3, Zenon DEF Adds

\* Bytes after bytes.
LEMMA AddsBoth ==
  ASSUME NEW v \in Seq(Bytes), NEW w \in Seq(Bytes), NEW n, NEW o, NEW p, NEW l, NEW r, NEW k,
         Adds(v, n, o, p, l), Adds(w, l, p, r, k)
  PROVE  v \o w \in Seq(Bytes) /\ Adds(v \o w, n, o, r, k)
<1>0. v \o w \in Seq(Bytes)
  OBVIOUS
<1>. SUFFICES ASSUME NEW q \in Seq(Bytes), NEW m \in SUBSET Flags, NEW e \in BOOLEAN,
                     Decodes(q, m, e, o, n, FALSE)
              PROVE  /\ q \o (v \o w) \in Seq(Bytes) /\ Len(q \o (v \o w)) > Len(q)
                     /\ Decodes(q \o (v \o w), m, e, r, k, FALSE)
  BY <1>0, Zenon DEF Adds
<1>. DEFINE x == q \o v
            y == x \o w
<1>1. q \o (v \o w) = y
  BY Regrouped
<1>2. x \in Seq(Bytes) /\ Len(x) > Len(q) /\ Decodes(x, m, e, p, l, FALSE)
  BY Zenon DEF Adds
<1>. HIDE DEF x
<1>3. y \in Seq(Bytes) /\ Len(y) > Len(x) /\ Decodes(y, m, e, r, k, FALSE)
  BY <1>2, Zenon DEF Adds
<1>. HIDE DEF y
<1>4. Len(y) > Len(q)
  BY <1>2, <1>3
<1>. QED
  BY <1>1, <1>3, <1>4, Zenon

\* Pause: six bytes that set the Ctrl flag and clear it.
LEMMA PauseKey ==
  ASSUME NEW n \in SUBSET Flags, NEW o \in Seq(Events)
  PROVE  Adds(Code["pause"], n, o, o, n \ {"CTRL"})
<1>. DEFINE c == n \cup {"CTRL"}
            d == n \ {"CTRL"}
            i == 225
            x == 29
            y == 69
            v == 157
            w == 197
<1>1. Code["pause"] = <<i>> \o (<<x>> \o (<<y>> \o (<<i>> \o (<<v>> \o <<w>>))))
  BY DEF Code, E1
<1>2. c \in SUBSET Flags /\ d \in SUBSET Flags
  BY DEF Flags
<1>3. ASSUME NEW b \in Bytes, NEW k \in SUBSET Flags, NEW j, ~NextE0(b, FALSE),
             NextMods(b, k, FALSE) = j, Decoded(b, k, FALSE) = NoEvent
      PROVE  Adds(<<b>>, k, o, o, j)
  BY <1>3, OneByteKey, Zenon DEF WithEvent
<1>4. /\ ~NextE0(i, FALSE) /\ ~NextE0(x, FALSE) /\ ~NextE0(y, FALSE)
      /\ ~NextE0(v, FALSE) /\ ~NextE0(w, FALSE)
  BY DEF NextE0, E0, E1
<1>5. /\ NextMods(i, n, FALSE) = n /\ Decoded(i, n, FALSE) = NoEvent
      /\ NextMods(i, c, FALSE) = c /\ Decoded(i, c, FALSE) = NoEvent
  BY DEF NextMods, Decoded, E0, E1
<1>6. /\ NextMods(y, c, FALSE) = c /\ Decoded(y, c, FALSE) = NoEvent
      /\ NextMods(w, d, FALSE) = d /\ Decoded(w, d, FALSE) = NoEvent
  BY DEF NextMods, Decoded, Flag, E0, E1
<1>7. NextMods(x, n, FALSE) = c /\ Decoded(x, n, FALSE) = NoEvent
  BY DEF NextMods, Decoded, Flag, E0, E1
<1>8. NextMods(v, c, FALSE) = d /\ Decoded(v, c, FALSE) = NoEvent
  BY DEF NextMods, Decoded, Flag, E0, E1
<1>9. i \in Bytes /\ x \in Bytes /\ y \in Bytes /\ v \in Bytes /\ w \in Bytes
  BY DEF Bytes
<1>. HIDE DEF c, d, i, x, y, v, w
<1>10. \A b \in Bytes : <<b>> \in Seq(Bytes)
  OBVIOUS
<1>11. /\ Adds(<<i>>, n, o, o, n) /\ Adds(<<x>>, n, o, o, c) /\ Adds(<<y>>, c, o, o, c)
       /\ Adds(<<i>>, c, o, o, c) /\ Adds(<<v>>, c, o, o, d) /\ Adds(<<w>>, d, o, o, d)
  BY <1>2, <1>3, <1>4, <1>5, <1>6, <1>7, <1>8, <1>9, Zenon
<1>12. Adds(<<v>> \o <<w>>, c, o, o, d) /\ <<v>> \o <<w>> \in Seq(Bytes)
  BY <1>9, <1>10, <1>11, AddsBoth, Zenon
<1>13. Adds(<<i>> \o (<<v>> \o <<w>>), c, o, o, d) /\ <<i>> \o (<<v>> \o <<w>>) \in Seq(Bytes)
  BY <1>9, <1>10, <1>11, <1>12, AddsBoth, Zenon
<1>14. /\ Adds(<<y>> \o (<<i>> \o (<<v>> \o <<w>>)), c, o, o, d)
       /\ <<y>> \o (<<i>> \o (<<v>> \o <<w>>)) \in Seq(Bytes)
  BY <1>9, <1>10, <1>11, <1>13, AddsBoth, Zenon
<1>15. /\ Adds(<<x>> \o (<<y>> \o (<<i>> \o (<<v>> \o <<w>>))), n, o, o, d)
       /\ <<x>> \o (<<y>> \o (<<i>> \o (<<v>> \o <<w>>))) \in Seq(Bytes)
  BY <1>9, <1>10, <1>11, <1>14, AddsBoth, Zenon
<1>16. Adds(<<i>> \o (<<x>> \o (<<y>> \o (<<i>> \o (<<v>> \o <<w>>)))), n, o, o, d)
  BY <1>9, <1>10, <1>11, <1>15, AddsBoth, Zenon
<1>. QED
  BY <1>1, <1>16, Zenon DEF d

-----------------------------------------------------------------------------
(* The events owed after a press of k with flags n, and the flags after    *)
(* its release.                                                            *)
Owed(k, n, o) == IF k \in {"a", "one", "enter", "home"} THEN Append(o, EventOf(k, n)) ELSE o
Broken(k, n) == IF k \in DOMAIN Modifier THEN n \ {Modifier[k]} ELSE n

\* The keys that hold a flag, and their flags.
LEMMA ModifierKeys ==
  /\ DOMAIN Modifier = {"lshift", "lctrl", "rctrl", "alt"}
  /\ Modifier["lshift"] = "SHIFT" /\ Modifier["lctrl"] = "CTRL"
  /\ Modifier["rctrl"] = "CTRL" /\ Modifier["alt"] = "ALT"
BY DEF Modifier

\* The bytes of a press decode to its event, and to its flag.
LEMMA PressAdds ==
  ASSUME NEW k \in Keys, NEW n \in SUBSET Flags, NEW o \in Seq(Events)
  PROVE  Owed(k, n, o) \in Seq(Events) /\ Adds(Code[k], n, o, Owed(k, n, o), Latched(k, n))
<1>1. CASE k = "lshift"
  <2>. DEFINE b == 42
  <2>1. Code[k] = <<b>> /\ b \in Bytes
    BY <1>1 DEF Code, E0, E1, Bytes
  <2>2. NextMods(b, n, FALSE) = Latched(k, n) /\ ~NextE0(b, FALSE)
    BY <1>1, ModifierKeys DEF NextMods, NextE0, Flag, Latched, E0, E1
  <2>3. WithEvent(o, b, n, FALSE) = Owed(k, n, o)
    BY <1>1, SMTT(40) DEF WithEvent, Decoded, Flag, Owed, EventOf, Event, NoEvent, E0, E1
  <2>. HIDE DEF b
  <2>. QED
    BY <2>1, <2>2, <2>3, OneByteKey, Zenon
<1>2. CASE k = "lctrl"
  <2>. DEFINE b == 29
  <2>1. Code[k] = <<b>> /\ b \in Bytes
    BY <1>2 DEF Code, E0, E1, Bytes
  <2>2. NextMods(b, n, FALSE) = Latched(k, n) /\ ~NextE0(b, FALSE)
    BY <1>2, ModifierKeys DEF NextMods, NextE0, Flag, Latched, E0, E1
  <2>3. WithEvent(o, b, n, FALSE) = Owed(k, n, o)
    BY <1>2, SMTT(40) DEF WithEvent, Decoded, Flag, Owed, EventOf, Event, NoEvent, E0, E1
  <2>. HIDE DEF b
  <2>. QED
    BY <2>1, <2>2, <2>3, OneByteKey, Zenon
<1>3. CASE k = "alt"
  <2>. DEFINE b == 56
  <2>1. Code[k] = <<b>> /\ b \in Bytes
    BY <1>3 DEF Code, E0, E1, Bytes
  <2>2. NextMods(b, n, FALSE) = Latched(k, n) /\ ~NextE0(b, FALSE)
    BY <1>3, ModifierKeys DEF NextMods, NextE0, Flag, Latched, E0, E1
  <2>3. WithEvent(o, b, n, FALSE) = Owed(k, n, o)
    BY <1>3, SMTT(40) DEF WithEvent, Decoded, Flag, Owed, EventOf, Event, NoEvent, E0, E1
  <2>. HIDE DEF b
  <2>. QED
    BY <2>1, <2>2, <2>3, OneByteKey, Zenon
<1>4. CASE k = "caps"
  <2>. DEFINE b == 58
  <2>1. Code[k] = <<b>> /\ b \in Bytes
    BY <1>4 DEF Code, E0, E1, Bytes
  <2>2. NextMods(b, n, FALSE) = Latched(k, n) /\ ~NextE0(b, FALSE)
    BY <1>4, ModifierKeys DEF NextMods, NextE0, Flag, Latched, E0, E1
  <2>3. WithEvent(o, b, n, FALSE) = Owed(k, n, o)
    BY <1>4, SMTT(40) DEF WithEvent, Decoded, Flag, Owed, EventOf, Event, NoEvent, E0, E1
  <2>. HIDE DEF b
  <2>. QED
    BY <2>1, <2>2, <2>3, OneByteKey, Zenon
<1>5. CASE k = "a"
  <2>. DEFINE b == 30
  <2>1. Code[k] = <<b>> /\ b \in Bytes
    BY <1>5 DEF Code, E0, E1, Bytes
  <2>2. NextMods(b, n, FALSE) = Latched(k, n) /\ ~NextE0(b, FALSE)
    BY <1>5, ModifierKeys DEF NextMods, NextE0, Flag, Latched, E0, E1
  <2>3. WithEvent(o, b, n, FALSE) = Owed(k, n, o)
    BY <1>5, SMTT(40) DEF WithEvent, Decoded, Flag, Owed, EventOf, Event, NoEvent, E0, E1
  <2>. HIDE DEF b
  <2>. QED
    BY <2>1, <2>2, <2>3, OneByteKey, Zenon
<1>6. CASE k = "one"
  <2>. DEFINE b == 2
  <2>1. Code[k] = <<b>> /\ b \in Bytes
    BY <1>6 DEF Code, E0, E1, Bytes
  <2>2. NextMods(b, n, FALSE) = Latched(k, n) /\ ~NextE0(b, FALSE)
    BY <1>6, ModifierKeys DEF NextMods, NextE0, Flag, Latched, E0, E1
  <2>3. WithEvent(o, b, n, FALSE) = Owed(k, n, o)
    BY <1>6, SMTT(40) DEF WithEvent, Decoded, Flag, Owed, EventOf, Event, NoEvent, E0, E1
  <2>. HIDE DEF b
  <2>. QED
    BY <2>1, <2>2, <2>3, OneByteKey, Zenon
<1>7. CASE k = "enter"
  <2>. DEFINE b == 28
  <2>1. Code[k] = <<b>> /\ b \in Bytes
    BY <1>7 DEF Code, E0, E1, Bytes
  <2>2. NextMods(b, n, FALSE) = Latched(k, n) /\ ~NextE0(b, FALSE)
    BY <1>7, ModifierKeys DEF NextMods, NextE0, Flag, Latched, E0, E1
  <2>3. WithEvent(o, b, n, FALSE) = Owed(k, n, o)
    BY <1>7 DEF WithEvent, Decoded, Flag, Owed, EventOf, Event, NoEvent, E0, E1
  <2>. HIDE DEF b
  <2>. QED
    BY <2>1, <2>2, <2>3, OneByteKey, Zenon
<1>8. CASE k = "rctrl"
  <2>. DEFINE b == 29
  <2>1. Code[k] = <<E0, b>> /\ b \in Bytes
    BY <1>8 DEF Code, E0, E1, Bytes
  <2>2. NextMods(b, n, TRUE) = Latched(k, n) /\ b \notin {E0, E1}
    BY <1>8, ModifierKeys DEF NextMods, NextE0, Flag, Latched, E0, E1
  <2>3. WithEvent(o, b, n, TRUE) = Owed(k, n, o)
    BY <1>8, SMTT(40) DEF WithEvent, Decoded, Flag, Owed, EventOf, Event, NoEvent, E0, E1
  <2>. HIDE DEF b
  <2>. QED
    BY <2>1, <2>2, <2>3, ExtendedKey, Zenon
<1>9. CASE k = "home"
  <2>. DEFINE b == 71
  <2>1. Code[k] = <<E0, b>> /\ b \in Bytes
    BY <1>9 DEF Code, E0, E1, Bytes
  <2>2. NextMods(b, n, TRUE) = Latched(k, n) /\ b \notin {E0, E1}
    BY <1>9, ModifierKeys DEF NextMods, NextE0, Flag, Latched, E0, E1
  <2>3. WithEvent(o, b, n, TRUE) = Owed(k, n, o)
    BY <1>9 DEF WithEvent, Decoded, Flag, Owed, EventOf, Event, NoEvent, E0, E1
  <2>. HIDE DEF b
  <2>. QED
    BY <2>1, <2>2, <2>3, ExtendedKey, Zenon
<1>10. CASE k = "pause"
  BY <1>10, PauseKey, ModifierKeys DEF Owed, Latched
<1>. QED
  BY <1>1, <1>2, <1>3, <1>4, <1>5, <1>6, <1>7, <1>8, <1>9, <1>10, KeyboardAssumption, Zenon

\* The bytes of a release decode to no event, and clear its flag.
LEMMA ReleaseAdds ==
  ASSUME NEW k \in Keys \ {"pause"}, NEW n \in SUBSET Flags, NEW o \in Seq(Events)
  PROVE  Adds(Break(k), n, o, o, Broken(k, n))
<1>1. CASE k = "lshift"
  <2>. DEFINE b == 170
  <2>1. Break(k) = <<b>> /\ b \in Bytes
    BY <1>1 DEF Code, Break, E0, E1, Bytes
  <2>2. NextMods(b, n, FALSE) = Broken(k, n) /\ ~NextE0(b, FALSE)
    BY <1>1, ModifierKeys DEF NextMods, NextE0, Flag, Broken, E0, E1
  <2>3. WithEvent(o, b, n, FALSE) = o
    BY <1>1, SMTT(40) DEF WithEvent, Decoded, Flag, Event, NoEvent, E0, E1
  <2>. HIDE DEF b
  <2>. QED
    BY <2>1, <2>2, <2>3, OneByteKey, Zenon
<1>2. CASE k = "lctrl"
  <2>. DEFINE b == 157
  <2>1. Break(k) = <<b>> /\ b \in Bytes
    BY <1>2 DEF Code, Break, E0, E1, Bytes
  <2>2. NextMods(b, n, FALSE) = Broken(k, n) /\ ~NextE0(b, FALSE)
    BY <1>2, ModifierKeys DEF NextMods, NextE0, Flag, Broken, E0, E1
  <2>3. WithEvent(o, b, n, FALSE) = o
    BY <1>2, SMTT(40) DEF WithEvent, Decoded, Flag, Event, NoEvent, E0, E1
  <2>. HIDE DEF b
  <2>. QED
    BY <2>1, <2>2, <2>3, OneByteKey, Zenon
<1>3. CASE k = "alt"
  <2>. DEFINE b == 184
  <2>1. Break(k) = <<b>> /\ b \in Bytes
    BY <1>3 DEF Code, Break, E0, E1, Bytes
  <2>2. NextMods(b, n, FALSE) = Broken(k, n) /\ ~NextE0(b, FALSE)
    BY <1>3, ModifierKeys DEF NextMods, NextE0, Flag, Broken, E0, E1
  <2>3. WithEvent(o, b, n, FALSE) = o
    BY <1>3, SMTT(40) DEF WithEvent, Decoded, Flag, Event, NoEvent, E0, E1
  <2>. HIDE DEF b
  <2>. QED
    BY <2>1, <2>2, <2>3, OneByteKey, Zenon
<1>4. CASE k = "caps"
  <2>. DEFINE b == 186
  <2>1. Break(k) = <<b>> /\ b \in Bytes
    BY <1>4 DEF Code, Break, E0, E1, Bytes
  <2>2. NextMods(b, n, FALSE) = Broken(k, n) /\ ~NextE0(b, FALSE)
    BY <1>4, ModifierKeys DEF NextMods, NextE0, Flag, Broken, E0, E1
  <2>3. WithEvent(o, b, n, FALSE) = o
    BY <1>4, SMTT(40) DEF WithEvent, Decoded, Flag, Event, NoEvent, E0, E1
  <2>. HIDE DEF b
  <2>. QED
    BY <2>1, <2>2, <2>3, OneByteKey, Zenon
<1>5. CASE k = "a"
  <2>. DEFINE b == 158
  <2>1. Break(k) = <<b>> /\ b \in Bytes
    BY <1>5 DEF Code, Break, E0, E1, Bytes
  <2>2. NextMods(b, n, FALSE) = Broken(k, n) /\ ~NextE0(b, FALSE)
    BY <1>5, ModifierKeys DEF NextMods, NextE0, Flag, Broken, E0, E1
  <2>3. WithEvent(o, b, n, FALSE) = o
    BY <1>5, SMTT(40) DEF WithEvent, Decoded, Flag, Event, NoEvent, E0, E1
  <2>. HIDE DEF b
  <2>. QED
    BY <2>1, <2>2, <2>3, OneByteKey, Zenon
<1>6. CASE k = "one"
  <2>. DEFINE b == 130
  <2>1. Break(k) = <<b>> /\ b \in Bytes
    BY <1>6 DEF Code, Break, E0, E1, Bytes
  <2>2. NextMods(b, n, FALSE) = Broken(k, n) /\ ~NextE0(b, FALSE)
    BY <1>6, ModifierKeys DEF NextMods, NextE0, Flag, Broken, E0, E1
  <2>3. WithEvent(o, b, n, FALSE) = o
    BY <1>6, SMTT(40) DEF WithEvent, Decoded, Flag, Event, NoEvent, E0, E1
  <2>. HIDE DEF b
  <2>. QED
    BY <2>1, <2>2, <2>3, OneByteKey, Zenon
<1>7. CASE k = "enter"
  <2>. DEFINE b == 156
  <2>1. Break(k) = <<b>> /\ b \in Bytes
    BY <1>7 DEF Code, Break, E0, E1, Bytes
  <2>2. NextMods(b, n, FALSE) = Broken(k, n) /\ ~NextE0(b, FALSE)
    BY <1>7, ModifierKeys DEF NextMods, NextE0, Flag, Broken, E0, E1
  <2>3. WithEvent(o, b, n, FALSE) = o
    BY <1>7 DEF WithEvent, Decoded, Flag, Event, NoEvent, E0, E1
  <2>. HIDE DEF b
  <2>. QED
    BY <2>1, <2>2, <2>3, OneByteKey, Zenon
<1>8. CASE k = "rctrl"
  <2>. DEFINE b == 157
  <2>1. Break(k) = <<E0, b>> /\ b \in Bytes
    BY <1>8 DEF Code, Break, E0, E1, Bytes
  <2>2. NextMods(b, n, TRUE) = Broken(k, n) /\ b \notin {E0, E1}
    BY <1>8, ModifierKeys DEF NextMods, NextE0, Flag, Broken, E0, E1
  <2>3. WithEvent(o, b, n, TRUE) = o
    BY <1>8, SMTT(40) DEF WithEvent, Decoded, Flag, Event, NoEvent, E0, E1
  <2>. HIDE DEF b
  <2>. QED
    BY <2>1, <2>2, <2>3, ExtendedKey, Zenon
<1>9. CASE k = "home"
  <2>. DEFINE b == 199
  <2>1. Break(k) = <<E0, b>> /\ b \in Bytes
    BY <1>9 DEF Code, Break, E0, E1, Bytes
  <2>2. NextMods(b, n, TRUE) = Broken(k, n) /\ b \notin {E0, E1}
    BY <1>9, ModifierKeys DEF NextMods, NextE0, Flag, Broken, E0, E1
  <2>3. WithEvent(o, b, n, TRUE) = o
    BY <1>9 DEF WithEvent, Decoded, Flag, Event, NoEvent, E0, E1
  <2>. HIDE DEF b
  <2>. QED
    BY <2>1, <2>2, <2>3, ExtendedKey, Zenon
<1>. QED
  BY <1>1, <1>2, <1>3, <1>4, <1>5, <1>6, <1>7, <1>8, <1>9, KeyboardAssumption, Zenon

\* Flags stay flags.
LEMMA LatchedType ==
  ASSUME NEW k, NEW n \in SUBSET Flags
  PROVE  Latched(k, n) \in SUBSET Flags /\ Broken(k, n) \in SUBSET Flags
BY ModifierKeys DEF Latched, Broken, Flags

-----------------------------------------------------------------------------
\* Nothing is queued and nothing is held at the start.
LEMMA KeyboardInit == KInit => KInv
<1>. SUFFICES ASSUME KInit PROVE KInv
  OBVIOUS
<1>1. /\ fifo = << >> /\ s_mods = {} /\ s_e0 = FALSE /\ owed = << >> /\ latch = {} /\ down = {}
      /\ ser = << >> /\ typed = 0 /\ lost = FALSE /\ ev.type = "KEY_NONE"
  BY DEF KInit, NoEvent, Event
<1>2. {} \in SUBSET Flags /\ << >> \in Seq(Events)
  OBVIOUS
<1>3. Decodes(<< >>, {}, FALSE, << >>, {}, FALSE)
  BY <1>2, NothingQueued, Truth, Zenon
<1>4. Decodes(fifo, s_mods, s_e0, owed, latch, FALSE)
  BY <1>1, <1>3, Zenon
<1>8. s_e0 \in BOOLEAN /\ lost \in BOOLEAN
  BY <1>1, Truth, Zenon
<1>5. KTypeOK
  <2>1. Len(fifo) <= FifoMax /\ Len(ser) <= SerMax /\ DOMAIN fifo = {}
    BY <1>1, KeyboardAssumption
  <2>2. s_mods \subseteq {"SHIFT", "CTRL", "ALT", "CAPS"} /\ down \subseteq Keys \ {"pause"}
    BY <1>1
  <2>. QED
    BY <2>1, <2>2, <1>1, <1>8, Zenon DEF KTypeOK
<1>6. latch \subseteq Flags /\ latch \ {"CAPS"} \subseteq {Modifier[k] : k \in down \cap DOMAIN Modifier}
  BY <1>1
<1>7. fifo \in Seq(Bytes) /\ ser \in Seq(Serial) /\ typed \in Nat
      /\ owed \in Seq(Events)
  BY <1>1
<1>. QED
  BY <1>4, <1>5, <1>6, <1>7, <1>8, Zenon DEF KInv

(* What queueing the bytes w of a key does to what is decoded. *)
LEMMA QueueStep ==
  ASSUME KInv, NEW w, NEW p, NEW l, Queue(w), Adds(w, latch, owed, p, l),
         fifo' # fifo => latch' = l /\ owed' = p,
         fifo' = fifo => latch' = latch /\ owed' = owed,
         s_mods' = s_mods, s_e0' = s_e0
  PROVE  /\ fifo' \in Seq(Bytes) /\ Len(fifo') <= FifoMax
         /\ \A i \in DOMAIN fifo' : fifo'[i] \in Bytes
         /\ Decodes(fifo', s_mods', s_e0', owed', latch', FALSE)
         /\ lost' \in BOOLEAN
         /\ ~lost' => ~lost /\ latch' = l
<1>1. /\ fifo \in Seq(Bytes) /\ s_mods \in SUBSET Flags /\ s_e0 \in BOOLEAN /\ Len(fifo) <= FifoMax
      /\ Decodes(fifo, s_mods, s_e0, owed, latch, FALSE) /\ lost \in BOOLEAN
  BY Zenon DEF KInv, KTypeOK, Flags
<1>2. ASSUME NEW r \in Seq(Bytes) PROVE \A i \in DOMAIN r : r[i] \in Bytes
  <2>1. DOMAIN r = 1..Len(r)
    OBVIOUS
  <2>. QED
    BY <2>1
<1>. DEFINE q == fifo \o w
<1>3. q \in Seq(Bytes) /\ Len(q) > Len(fifo) /\ Decodes(q, s_mods, s_e0, p, l, FALSE)
  BY <1>1, Zenon DEF Adds
<1>4. q # fifo
  BY <1>1, <1>3
<1>5. CASE Len(fifo) + Len(w) <= FifoMax
  <2>1. fifo' = q /\ lost' = lost
    BY <1>5 DEF Queue
  <2>2. Len(q) <= FifoMax
    BY <1>5, <1>1, <1>3 DEF Queue
  <2>. HIDE DEF q
  <2>3. latch' = l /\ owed' = p /\ s_mods' = s_mods /\ s_e0' = s_e0
    BY <2>1, <1>4
  <2>. QED
    BY <2>1, <2>2, <2>3, <1>1, <1>2, <1>3, Zenon
<1>6. CASE ~(Len(fifo) + Len(w) <= FifoMax)
  <2>1. fifo' = fifo /\ lost' = TRUE
    BY <1>6 DEF Queue
  <2>2. latch' = latch /\ owed' = owed /\ s_mods' = s_mods /\ s_e0' = s_e0
    BY <2>1
  <2>. QED
    BY <2>1, <2>2, <1>1, <1>2, Zenon
<1>. QED
  BY <1>5, <1>6, Zenon

\* A press keeps the invariant.
LEMMA PressStep == ASSUME KInv, NEW k \in Keys, Press(k) PROVE KInv'
<1>1. /\ down \subseteq Keys \ {"pause"} /\ owed \in Seq(Events) /\ latch \in SUBSET Flags
      /\ ser \in Seq(Serial) /\ Len(ser) <= SerMax /\ typed \in Nat
      /\ ~lost => latch \ {"CAPS"} \subseteq {Modifier[j] : j \in down \cap DOMAIN Modifier}
  BY DEF KInv, KTypeOK
<1>2. /\ Queue(Code[k]) /\ typed' = typed + 1 /\ down' = down \cup ({k} \ {"pause"})
      /\ ser' = ser /\ s_mods' = s_mods /\ s_e0' = s_e0 /\ ev' = ev
  BY DEF Press
<1>3. /\ fifo' # fifo => latch' = Latched(k, latch) /\ owed' = Owed(k, latch, owed)
      /\ fifo' = fifo => latch' = latch /\ owed' = owed
  BY DEF Press, Owed
<1>4. Owed(k, latch, owed) \in Seq(Events) /\ Latched(k, latch) \in SUBSET Flags
      /\ Adds(Code[k], latch, owed, Owed(k, latch, owed), Latched(k, latch))
  BY <1>1, PressAdds, LatchedType, Zenon
<1>5. /\ fifo' \in Seq(Bytes) /\ Len(fifo') <= FifoMax
      /\ \A i \in DOMAIN fifo' : fifo'[i] \in Bytes
      /\ Decodes(fifo', s_mods', s_e0', owed', latch', FALSE)
      /\ lost' \in BOOLEAN
      /\ ~lost' => ~lost /\ latch' = Latched(k, latch)
  BY <1>2, <1>3, <1>4, QueueStep, Zenon
<1>6. ASSUME ~lost'
      PROVE  latch' \ {"CAPS"} \subseteq {Modifier[j] : j \in down' \cap DOMAIN Modifier}
  <2>1. latch' = Latched(k, latch)
        /\ latch \ {"CAPS"} \subseteq {Modifier[j] : j \in down \cap DOMAIN Modifier}
    BY <1>6, <1>5, <1>1
  <2>2. k \in DOMAIN Modifier => k # "pause"
    BY ModifierKeys
  <2>3. latch' \ {"CAPS"} \subseteq latch \cup {Modifier[j] : j \in {k} \cap DOMAIN Modifier}
    BY <2>1, ModifierKeys, Zenon DEF Latched
  <2>. QED
    BY <2>1, <2>2, <2>3, <1>2
<1>7. down' \subseteq Keys \ {"pause"}
  BY <1>1, <1>2
<1>8. typed' \in Nat /\ latch' \subseteq Flags /\ owed' \in Seq(Events)
  BY <1>1, <1>2, <1>3, <1>4, SMTT(40)
<1>9. KTypeOK'
  BY <1>1, <1>2, <1>5, <1>7 DEF KInv, KTypeOK, Bytes
<1>. QED
  BY <1>1, <1>2, <1>5, <1>6, <1>8, <1>9, Zenon DEF KInv

\* A release keeps the invariant.
LEMMA ReleaseStep == ASSUME KInv, NEW k \in Keys, Release(k) PROVE KInv'
<1>1. /\ down \subseteq Keys \ {"pause"} /\ owed \in Seq(Events) /\ latch \in SUBSET Flags
      /\ ser \in Seq(Serial) /\ Len(ser) <= SerMax /\ typed \in Nat
      /\ ~lost => latch \ {"CAPS"} \subseteq {Modifier[j] : j \in down \cap DOMAIN Modifier}
  BY DEF KInv, KTypeOK
<1>2. /\ Queue(Break(k)) /\ k \in Keys \ {"pause"} /\ down' = down \ {k}
      /\ ser' = ser /\ s_mods' = s_mods /\ s_e0' = s_e0 /\ ev' = ev
      /\ owed' = owed /\ typed' = typed
  BY <1>1 DEF Release
<1>3. /\ fifo' # fifo => latch' = Broken(k, latch) /\ owed' = owed
      /\ fifo' = fifo => latch' = latch /\ owed' = owed
  BY SMTT(40) DEF Release, Broken
<1>4. Broken(k, latch) \in SUBSET Flags /\ Adds(Break(k), latch, owed, owed, Broken(k, latch))
  BY <1>1, <1>2, ReleaseAdds, LatchedType
<1>5. /\ fifo' \in Seq(Bytes) /\ Len(fifo') <= FifoMax
      /\ \A i \in DOMAIN fifo' : fifo'[i] \in Bytes
      /\ Decodes(fifo', s_mods', s_e0', owed', latch', FALSE)
      /\ lost' \in BOOLEAN
      /\ ~lost' => ~lost /\ latch' = Broken(k, latch)
  BY <1>2, <1>3, <1>4, QueueStep, Zenon
<1>6. ASSUME ~lost'
      PROVE  latch' \ {"CAPS"} \subseteq {Modifier[j] : j \in down' \cap DOMAIN Modifier}
  BY <1>6, <1>5, <1>1, <1>2, SMTT(40) DEF Broken
<1>7. latch' \subseteq Flags
  BY <1>1, <1>3, <1>4, SMTT(40)
<1>8. KTypeOK'
  BY <1>1, <1>2, <1>5 DEF KInv, KTypeOK, Bytes
<1>. QED
  BY <1>1, <1>2, <1>5, <1>6, <1>7, <1>8, Zenon DEF KInv

\* A byte on the serial line changes nothing the invariant speaks of but the serial queue.
LEMMA SerialStep == ASSUME KInv, NEW b \in Serial, SerialByte(b) PROVE KInv'
<1>1. ser' \in Seq(Serial) /\ Len(ser') <= SerMax
  BY KeyboardAssumption DEF KInv, SerialByte
<1>2. /\ down' = down /\ fifo' = fifo /\ s_mods' = s_mods /\ s_e0' = s_e0 /\ ev' = ev
      /\ latch' = latch /\ owed' = owed /\ lost' = lost /\ typed' = typed
  BY DEF SerialByte
<1>. QED
  BY <1>1, <1>2, Zenon DEF KInv, KTypeOK

\* What a call of input_try_read_event that reads a scan code does.
LEMMA ReadStep ==
  ASSUME KInv, input_try_read_event, fifo # << >>
  PROVE  /\ fifo' \in Seq(Bytes) /\ Len(fifo') <= FifoMax
         /\ \A i \in DOMAIN fifo' : fifo'[i] \in Bytes
         /\ s_mods' \in SUBSET Flags /\ s_e0' \in BOOLEAN
         /\ owed' \in Seq(Events)
         /\ Decodes(fifo', s_mods', s_e0', owed', latch, FALSE)
         /\ ev'.from = "ps2" => owed # << >> /\ ev' = Head(owed)
<1>. DEFINE h == Head(fifo)
            d == Decoded(h, s_mods, s_e0)
<1>1. /\ fifo \in Seq(Bytes) /\ s_mods \in SUBSET Flags /\ s_e0 \in BOOLEAN /\ Len(fifo) <= FifoMax
      /\ Decodes(fifo, s_mods, s_e0, owed, latch, FALSE) /\ owed \in Seq(Events)
  BY Zenon DEF KInv, KTypeOK, Flags
<1>2. /\ h \in Bytes /\ Tail(fifo) \in Seq(Bytes) /\ Len(Tail(fifo)) <= FifoMax
      /\ \A i \in DOMAIN Tail(fifo) : Tail(fifo)[i] \in Bytes
  <2>1. /\ h \in Bytes /\ Tail(fifo) \in Seq(Bytes) /\ Len(Tail(fifo)) = Len(fifo) - 1
        /\ Len(fifo) \in Nat /\ DOMAIN Tail(fifo) = 1..Len(Tail(fifo))
    BY <1>1
  <2>2. \A i \in DOMAIN Tail(fifo) : Tail(fifo)[i] \in Bytes
    BY <2>1
  <2>. QED
    BY <2>1, <2>2, <1>1, KeyboardAssumption
<1>3. /\ fifo' = Tail(fifo) /\ s_mods' = NextMods(h, s_mods, s_e0) /\ s_e0' = NextE0(h, s_e0)
      /\ owed' = IF d # NoEvent /\ owed # << >> THEN Tail(owed) ELSE owed
      /\ \/ ev' = d
         \/ d = NoEvent /\ \E b : ev' = FromSerial(b)
  BY DEF input_try_read_event
<1>4. /\ d # NoEvent => owed # << >> /\ Head(owed) = d
      /\ Decodes(Tail(fifo), NextMods(h, s_mods, s_e0), NextE0(h, s_e0),
                 IF d = NoEvent THEN owed ELSE Tail(owed), latch, FALSE)
  BY <1>1, ReadByte, Zenon
<1>5. owed' = (IF d = NoEvent THEN owed ELSE Tail(owed))
  BY <1>3, <1>4, Zenon
<1>6. s_mods' \in SUBSET Flags /\ s_e0' \in BOOLEAN
  BY <1>1, <1>2, <1>3, DecoderType, Zenon
<1>7. owed' \in Seq(Events)
  BY <1>1, <1>4, <1>5
<1>8. NoEvent.from = "none" /\ \A b : FromSerial(b).from = "serial"
  BY DEF NoEvent, FromSerial, Event
<1>9. ev'.from = "ps2" => owed # << >> /\ ev' = Head(owed)
  BY <1>3, <1>4, <1>8, Zenon
<1>. QED
  BY <1>2, <1>3, <1>4, <1>5, <1>6, <1>7, <1>9, Zenon

\* A call of input_try_read_event keeps the invariant.
LEMMA TryReadStep == ASSUME KInv, input_try_read_event PROVE KInv'
<1>1. /\ down' = down /\ latch' = latch /\ lost' = lost /\ typed' = typed
      /\ (ser' = ser \/ (ser # << >> /\ ser' = Tail(ser)))
  BY DEF input_try_read_event
<1>2. ser' \in Seq(Serial) /\ Len(ser') <= SerMax
  <2>1. ser \in Seq(Serial) /\ Len(ser) <= SerMax /\ Len(ser) \in Nat
    BY DEF KInv, KTypeOK
  <2>2. ser # << >> => Tail(ser) \in Seq(Serial) /\ Len(Tail(ser)) = Len(ser) - 1
    BY <2>1
  <2>. QED
    BY <1>1, <2>1, <2>2, KeyboardAssumption
<1>3. ev'.type \in {"KEY_NONE", "KEY_CHAR", "KEY_ENTER", "KEY_HOME", "KEY_BACKSPACE", "KEY_ESC",
                    "KEY_TAB"}
  <2>1. \A b : FromSerial(b).type \in {"KEY_CHAR", "KEY_ENTER", "KEY_BACKSPACE", "KEY_ESC", "KEY_TAB"}
    BY DEF FromSerial, Event
  <2>2. \A b, m, e : Decoded(b, m, e).type \in {"KEY_NONE", "KEY_CHAR", "KEY_ENTER", "KEY_HOME"}
    BY DEF Decoded, NoEvent, Event
  <2>3. NoEvent.type = "KEY_NONE"
    BY DEF NoEvent, Event
  <2>4. ev' = NoEvent \/ (\E b, m, e : ev' = Decoded(b, m, e)) \/ (\E b : ev' = FromSerial(b))
    BY DEF input_try_read_event
  <2>. QED
    BY <2>1, <2>2, <2>3, <2>4
<1>4. CASE fifo = << >>
  <2>1. fifo' = fifo /\ s_mods' = s_mods /\ s_e0' = s_e0 /\ owed' = owed
    BY <1>4 DEF input_try_read_event
  <2>. QED
    BY <2>1, <1>1, <1>2, <1>3, Zenon DEF KInv, KTypeOK
<1>5. CASE fifo # << >>
  <2>1. /\ fifo' \in Seq(Bytes) /\ Len(fifo') <= FifoMax
        /\ \A i \in DOMAIN fifo' : fifo'[i] \in Bytes
        /\ s_mods' \in SUBSET Flags /\ s_e0' \in BOOLEAN
        /\ owed' \in Seq(Events)
        /\ Decodes(fifo', s_mods', s_e0', owed', latch, FALSE)
    BY <1>5, ReadStep, Zenon
  <2>2. KTypeOK'
    BY <2>1, <1>1, <1>2, <1>3 DEF KInv, KTypeOK, Flags, Bytes
  <2>. QED
    BY <2>1, <2>2, <1>1, <1>2, Zenon DEF KInv
<1>. QED
  BY <1>4, <1>5

\* Every press, release and read keeps it.
LEMMA KeyboardStep == KInv /\ [KNext]_kvars => KInv'
<1>. SUFFICES ASSUME KInv, [KNext]_kvars PROVE KInv'
  OBVIOUS
<1>1. CASE UNCHANGED kvars
  <2>1. /\ down' = down /\ fifo' = fifo /\ s_mods' = s_mods /\ s_e0' = s_e0 /\ ev' = ev /\ ser' = ser
        /\ latch' = latch /\ owed' = owed /\ lost' = lost /\ typed' = typed
    BY <1>1 DEF kvars
  <2>. QED
    BY <2>1, Zenon DEF KInv, KTypeOK
<1>2. ASSUME NEW k \in Keys, Press(k) \/ Release(k) PROVE KInv'
  BY <1>2, PressStep, ReleaseStep
<1>3. ASSUME NEW b \in Serial, SerialByte(b) PROVE KInv'
  BY <1>3, SerialStep
<1>4. CASE input_try_read_event
  BY <1>4, TryReadStep
<1>. QED
  BY <1>1, <1>2, <1>3, <1>4 DEF KNext

\* So the invariant holds at all times.
LEMMA KeyboardInvariant == KSpec => []KInv
BY KeyboardInit, KeyboardStep, PTL DEF KSpec

\* Once every byte is read, the decoder's state is what the queued keys stand for and nothing is owed.
LEMMA Drained == KInv /\ fifo = << >> => owed = << >> /\ latch = s_mods /\ ~s_e0
<1>. SUFFICES ASSUME KInv, fifo = << >> PROVE owed = << >> /\ latch = s_mods /\ ~s_e0
  OBVIOUS
<1>1. /\ owed \in Seq(Events) /\ s_mods \in SUBSET Flags /\ s_e0 \in BOOLEAN
      /\ Decodes(<< >>, s_mods, s_e0, owed, latch, FALSE)
  BY Zenon DEF KInv, KTypeOK, Flags
<1>. DEFINE f == FALSE
<1>3. Decodes(<< >>, s_mods, s_e0, owed, latch, f)
  BY <1>1, Zenon
<1>. HIDE DEF f
<1>4. owed = << >> /\ latch = s_mods /\ f = s_e0
  BY <1>1, <1>3, NothingQueued
<1>2. owed = << >> /\ latch = s_mods /\ FALSE = s_e0
  BY <1>4, Zenon DEF f
<1>. QED
  BY <1>2, Zenon

(* The decoder of src/kernel64/input.c leaves no modifier set behind: when *)
(* every byte is read and no key is held, s_mods has at most Caps Lock,    *)
(* for every sequence of presses, repetitions and releases of every length *)
(* of which the keyboard dropped none.                                     *)
THEOREM KeyboardNoStuckModifier == KSpec => []NoStuckModifier
<1>1. KInv => NoStuckModifier
  <2>. SUFFICES ASSUME KInv, down = {}, fifo = << >>, ~lost PROVE s_mods \subseteq {"CAPS"} /\ ~s_e0
    BY Zenon DEF KInv, NoStuckModifier
  <2>1. latch \ {"CAPS"} \subseteq {Modifier[k] : k \in down \cap DOMAIN Modifier}
    BY DEF KInv
  <2>2. latch \subseteq {"CAPS"}
    BY <2>1
  <2>. QED
    BY <2>2, Drained, Zenon
<1>. QED
  BY <1>1, KeyboardInvariant, PTL

(* The events ps2_try_read_event_internal hands on are those of the        *)
(* presses, in order and with the flags of the moment of the press, for    *)
(* queues of every length, and none is missing once the queue is drained.  *)
THEOREM KeyboardEventsAsPressed == KSpec => EventsAsPressed
<1>1. KInv => (fifo = << >> => owed = << >>)
  BY Drained
<1>2. KInv /\ [KNext]_kvars
        => [ev'.from = "ps2" /\ Len(fifo') < Len(fifo) => owed # << >> /\ ev' = Head(owed)]_kvars
  <2>. SUFFICES ASSUME KInv, KNext, ev'.from = "ps2", Len(fifo') < Len(fifo)
                PROVE  owed # << >> /\ ev' = Head(owed)
    OBVIOUS
  <2>0. fifo \in Seq(Bytes)
    BY DEF KInv
  <2>1. ASSUME NEW w, Queue(w) PROVE fifo' = fifo \/ fifo' = fifo \o w
    BY <2>1 DEF Queue
  <2>2. ASSUME NEW k \in Keys, Press(k) \/ Release(k) PROVE FALSE
    <3>1. fifo' = fifo \/ fifo' = fifo \o Code[k] \/ fifo' = fifo \o Break(k)
      BY <2>1, <2>2 DEF Press, Release
    <3>. QED
      BY <3>1, <2>0, SMTT(40)
  <2>3. ASSUME NEW b \in Serial, SerialByte(b) PROVE FALSE
    BY <2>0, <2>3 DEF SerialByte
  <2>4. CASE input_try_read_event
    <3>1. fifo # << >>
      BY <2>4, <2>0 DEF input_try_read_event
    <3>. QED
      BY <3>1, <2>4, ReadStep
  <2>. QED
    BY <2>2, <2>3, <2>4 DEF KNext
<1>. QED
  BY <1>1, <1>2, KeyboardInvariant, PTL DEF KSpec, EventsAsPressed

-----------------------------------------------------------------------------
(* Byte access through devfs. *)

-----------------------------------------------------------------------------
(* Arithmetic: pairs, quotients and multiples of the sector size. *)

\* The lesser of two, as Min gives it.
LEMMA LesserOf ==
  ASSUME NEW a \in Int, NEW b \in Int
  PROVE  Min({a, b}) = IF a <= b THEN a ELSE b
<1>1. \E x \in {a, b} : \A y \in {a, b} : x <= y
  OBVIOUS
<1>. QED
  BY <1>1 DEF Min

\* The greater of two, as Max gives it.
LEMMA GreaterOf ==
  ASSUME NEW a \in Int, NEW b \in Int
  PROVE  Max({a, b}) = IF a >= b THEN a ELSE b
<1>1. \E x \in {a, b} : \A y \in {a, b} : x >= y
  OBVIOUS
<1>. QED
  BY <1>1 DEF Max

\* A number is its whole sectors and the bytes in the last one.
LEMMA Split ==
  ASSUME NEW x \in Nat
  PROVE  /\ x \div Sec \in Nat /\ x % Sec \in 0..(Sec - 1)
         /\ x = (x \div Sec) * Sec + (x % Sec)
         /\ (x \div Sec) * Sec \in Nat
BY DevfsAssumption

\* A multiple of the sector size is as great as the count of sectors.
LEMMA Multiples ==
  ASSUME NEW a \in Nat, NEW b \in Nat
  PROVE  /\ a * Sec \in Nat
         /\ (a + b) * Sec = a * Sec + b * Sec
         /\ a <= b => a * Sec <= b * Sec
         /\ a < b => a * Sec + Sec <= b * Sec
         /\ a * Sec < b * Sec => a < b
         /\ a * Sec <= b * Sec => a <= b
<1>1. a * Sec \in Nat /\ b * Sec \in Nat /\ (a + b) * Sec = a * Sec + b * Sec
  BY DevfsAssumption
<1>2. ASSUME NEW x \in Nat, NEW y \in Nat, x < y
      PROVE  x * Sec + Sec <= y * Sec
  <2>1. PICK k \in Nat : y = x + 1 + k
    <3>1. y - x - 1 \in Nat /\ y = x + 1 + (y - x - 1)
      BY <1>2
    <3>. QED
      BY <3>1
  <2>2. y * Sec = x * Sec + Sec + k * Sec /\ k * Sec \in Nat /\ x * Sec \in Nat
    BY <2>1, DevfsAssumption
  <2>. QED
    BY <2>2, DevfsAssumption
<1>3. a < b \/ a = b \/ b < a
  OBVIOUS
<1>. QED
  BY <1>1, <1>2, <1>3, DevfsAssumption

\* The bytes past a whole number of sectors are the remainder.
LEMMA RemainderOf ==
  ASSUME NEW q \in Nat, NEW r \in 0..(Sec - 1)
  PROVE  (q * Sec + r) % Sec = r
<1> DEFINE x == q * Sec + r
<1>1. x \in Nat
  BY Multiples, DevfsAssumption
<1>2. /\ x \div Sec \in Nat /\ x % Sec \in 0..(Sec - 1)
      /\ x = (x \div Sec) * Sec + (x % Sec)
  BY <1>1, Split
<1>3. q * Sec + r = (x \div Sec) * Sec + (x % Sec)
  BY <1>2
<1> DEFINE p == x \div Sec
           m == x % Sec
<1>4. p \in Nat /\ m \in 0..(Sec - 1) /\ q * Sec + r = p * Sec + m
  BY <1>2, <1>3
<1> HIDE DEF p, m, x
<1>5. /\ q * Sec \in Nat /\ p * Sec \in Nat
      /\ q < p => q * Sec + Sec <= p * Sec
      /\ p < q => p * Sec + Sec <= q * Sec
  BY <1>4, Multiples
<1>6. p = q
  BY <1>4, <1>5, DevfsAssumption
<1>7. m = r
  BY <1>4, <1>5, <1>6, DevfsAssumption
<1>. QED
  BY <1>7 DEF m, x

\* A byte between two sector boundaries is in a sector between them.
LEMMA SectorOf ==
  ASSUME NEW x \in Nat, NEW a \in Nat, NEW b \in Nat, a * Sec <= x, x < b * Sec
  PROVE  x \div Sec \in a..(b - 1)
<1> DEFINE q == x \div Sec
<1>1. q \in Nat /\ q * Sec \in Nat /\ q * Sec <= x /\ x < q * Sec + Sec
  BY Split, DevfsAssumption
<1> HIDE DEF q
<1>2. q * Sec < b * Sec /\ q < b
  BY <1>1, Multiples, DevfsAssumption
<1>3. ~(q < a)
  <2> SUFFICES ASSUME q < a PROVE FALSE
    OBVIOUS
  <2>1. q * Sec + Sec <= a * Sec
    BY <1>1, Multiples
  <2>. QED
    BY <1>1, <2>1, Multiples, DevfsAssumption
<1>. QED
  BY <1>1, <1>2, <1>3 DEF q

-----------------------------------------------------------------------------
(* The inductive invariant and its steps. *)

IInv == InPlace /\ PrefixWritten /\ ReadsWhatIsThere /\ AllOrError

(* Appending the next n bytes of a function to its first m. *)
LEMMA Extend ==
  ASSUME NEW S, NEW f, NEW s \in Nat, NEW m \in Nat, NEW n \in Nat,
         \A k \in 1..(m + n) : f[s + k - 1] \in S
  PROVE  [k \in 1..m |-> f[s + k - 1]] \o [k \in 1..n |-> f[s + m + k - 1]]
           = [k \in 1..(m + n) |-> f[s + k - 1]]
<1> DEFINE A == [k \in 1..m |-> f[s + k - 1]]
           B == [k \in 1..n |-> f[s + m + k - 1]]
           C == [k \in 1..(m + n) |-> f[s + k - 1]]
<1>1. A \in Seq(S) /\ Len(A) = m
  <2>1. \A k \in 1..m : f[s + k - 1] \in S
    OBVIOUS
  <2>. QED
    BY <2>1
<1>2. B \in Seq(S) /\ Len(B) = n
  <2>1. \A k \in 1..n : f[s + m + k - 1] \in S
    <3> TAKE k \in 1..n
    <3>1. m + k \in 1..(m + n) /\ s + (m + k) - 1 = s + m + k - 1
      OBVIOUS
    <3>. QED
      BY <3>1
  <2>. QED
    BY <2>1
<1>3. C \in Seq(S) /\ Len(C) = m + n
  OBVIOUS
<1>4. A \o B \in Seq(S) /\ Len(A \o B) = m + n
  BY <1>1, <1>2, Joined
<1>5. ASSUME NEW k \in 1..(m + n) PROVE (A \o B)[k] = C[k]
  <2>1. (A \o B)[k] = IF k <= m THEN A[k] ELSE B[k - m]
    BY <1>1, <1>2, Joined
  <2>2. CASE k <= m
    BY <2>1, <2>2
  <2>3. CASE k > m
    <3>1. k - m \in 1..n /\ s + m + (k - m) - 1 = s + k - 1
      BY <2>3
    <3>. QED
      BY <2>1, <2>3, <3>1
  <2>. QED
    BY <2>2, <2>3
<1>. QED
  BY <1>3, <1>4, <1>5, SameSeq

(* The types of what a call works on, as numbers. *)
LEMMA CallFacts ==
  ASSUME IInv
  PROVE  /\ call.op \in {"read", "write"} /\ call.dev \in Devs
         /\ call.off \in Nat /\ call.len \in Nat /\ pos \in 0..call.len
         /\ call.dev.base \in Nat /\ call.dev.count \in Nat
         /\ call.dev.count * Sec < Word /\ call.dev.count * Sec \in Nat
         /\ Start \in Nat /\ lba \in Nat
         /\ remaining \in Nat /\ remaining = call.len - pos
<1>1. TypeOK
  BY DEF IInv, PrefixWritten
<1>2. call.dev \in [base : Nat, count : Nat, writable : BOOLEAN]
  BY <1>1, DevfsAssumption DEF TypeOK
<1>3. call.dev.count * Sec < Word
  BY <1>1, DevfsAssumption DEF TypeOK
<1>4. call.dev.count * Sec \in Nat /\ call.dev.base * Sec \in Nat
  BY <1>2, Multiples, Zenon
<1>5. call.off \in Nat
  <2>1. Offs \cup {0} \subseteq Nat
    BY DevfsAssumption
  <2>. QED
    BY <1>1, <2>1 DEF TypeOK
<1>. QED
  BY <1>1, <1>2, <1>3, <1>4, <1>5, SMTT(40) DEF TypeOK, Start, remaining

\* At boot no call has been made.
LEMMA DevfsInit == Init => IInv
<1> SUFFICES ASSUME Init PROVE IInv
  OBVIOUS
<1>1. disk \in [Disk -> Nat \X Nat] /\ Sectors * Sec \in Nat
  BY Multiples, DevfsAssumption DEF Init, Disk
<1>2. TypeOK
  BY <1>1, DevfsAssumption DEF Init, TypeOK
<1>3. out = [k \in 1..pos |-> disk[Start + k - 1]]
  BY DEF Init
<1>. QED
  BY <1>2, <1>3 DEF Init, IInv, InPlace, PrefixWritten, ReadsWhatIsThere, AllOrError

(* A part that begins at the next byte of the buffer and stays inside the  *)
(* disk: the bytes before it stay written, or read, and it adds its own.   *)
LEMMA PartStep ==
  ASSUME IInv, calls > 0,
         NEW b \in Nat, NEW n \in Nat, NEW sectors \in Nat,
         At(call.dev, lba, b) = Start + pos, n <= remaining,
         Start + pos + n <= Sectors * Sec,
         Transfer(b, n, sectors), pc' \in {"head", "rest"},
         UNCHANGED <<call, ret, calls, old>>
  PROVE  PrefixWritten' /\ ReadsWhatIsThere' /\ AllOrError'
<1>1. TypeOK /\ disk = IF call.op = "write" THEN Written(pos) ELSE old
  BY DEF IInv, PrefixWritten
<1>2. /\ call.op \in {"read", "write"} /\ call.len \in Nat /\ pos \in 0..call.len
      /\ Start \in Nat /\ lba \in Nat /\ remaining = call.len - pos
  BY CallFacts
<1>3. Start' = Start /\ calls \in Nat /\ Sectors * Sec \in Nat
  BY <1>1, Multiples, DevfsAssumption DEF TypeOK, Start
<1>4. pos' = pos + n /\ pos' \in 0..call.len /\ lba' \in Nat
  BY <1>2 DEF Transfer
<1>5. CASE call.op = "write"
  <2>1. disk' = Put(call.dev, lba, b, n) /\ out' = out
    BY <1>5, SMTT(20) DEF Transfer
  <2>2. ASSUME NEW p \in Disk
        PROVE  disk'[p] = Written(pos + n)[p] /\ disk'[p] \in Nat \X Nat
    <3>1. p \in Nat
      BY <1>3 DEF Disk
    <3>2. disk[p] = (IF p \in Start..(Start + pos - 1) THEN In(p - Start) ELSE old[p])
      BY <1>1, <1>5 DEF Written
    <3>3. disk'[p] = IF p \in (Start + pos)..(Start + pos + n - 1)
                     THEN In(pos + (p - (Start + pos))) ELSE disk[p]
      BY <2>1, SMTT(20) DEF Put
    <3>6. /\ Written(pos + n)[p] = IF p \in Start..(Start + (pos + n) - 1) THEN In(p - Start) ELSE old[p]
          /\ disk[p] \in Nat \X Nat
      BY <1>1 DEF Written, TypeOK
    <3>4. CASE p \in (Start + pos)..(Start + pos + n - 1)
      <4>1. pos + (p - (Start + pos)) = p - Start /\ p - Start \in Nat
            /\ p \in Start..(Start + (pos + n) - 1)
        BY <1>2, <3>1, <3>4, SMTT(20)
      <4>. QED
        <5>1. disk'[p] = In(p - Start) /\ Written(pos + n)[p] = In(p - Start)
          BY <3>3, <3>4, <3>6, <4>1, Zenon
        <5>2. In(p - Start) \in Nat \X Nat
          BY <1>3, <4>1 DEF In
        <5>. QED
          BY <5>1, <5>2, Zenon
    <3>5. CASE p \notin (Start + pos)..(Start + pos + n - 1)
      <4>1. p \in Start..(Start + (pos + n) - 1) <=> p \in Start..(Start + pos - 1)
        BY <1>2, <3>1, <3>5
      <4>. QED
        BY <3>2, <3>3, <3>5, <3>6, <4>1, Zenon
    <3>. QED
      BY <3>4, <3>5
  <2>3. disk' = Written(pos + n) /\ disk' \in [Disk -> Nat \X Nat]
    BY <2>1, <2>2 DEF Put, Written
  <2>4. Written(pos)' = Written(pos + n)
    BY <1>3, <1>4 DEF Written, In
  <2>. QED
    <3>1. TypeOK'
      BY <1>1, <1>4, <2>1, <2>3, Zenon DEF TypeOK
    <3>2. PrefixWritten'
      BY <3>1, <1>4, <1>5, <2>3, <2>4 DEF PrefixWritten
    <3>. QED
      BY <3>2, <1>5 DEF ReadsWhatIsThere, AllOrError
<1>6. CASE call.op = "read"
  <2>1. disk' = disk /\ out' = out \o Got(call.dev, lba, b, n)
    BY <1>6 DEF Transfer
  <2>2. out = [k \in 1..pos |-> disk[Start + k - 1]]
    BY <1>6 DEF IInv, ReadsWhatIsThere
  <2>3. Got(call.dev, lba, b, n) = [k \in 1..n |-> disk[Start + pos + k - 1]]
    BY DEF Got
  <2>4. \A k \in 1..(pos + n) : disk[Start + k - 1] \in Nat \X Nat
    <3> TAKE k \in 1..(pos + n)
    <3>1. Start + k - 1 \in Disk
      BY <1>2, <1>3, SMTT(20) DEF Disk
    <3>. QED
      BY <1>1, <3>1 DEF TypeOK
  <2>5. out' = [k \in 1..(pos + n) |-> disk[Start + k - 1]]
    BY <1>2, <2>1, <2>2, <2>3, <2>4, Extend
  <2>6. out' \in Seq(Nat \X Nat)
    BY <1>2, <2>4, <2>5
  <2>. QED
    <3>1. TypeOK'
      BY <1>1, <1>4, <2>1, <2>6, Zenon DEF TypeOK
    <3>2. PrefixWritten'
      BY <3>1, <1>1, <1>6, <2>1 DEF PrefixWritten
    <3>. QED
      BY <3>2, <1>3, <1>4, <2>1, <2>5 DEF ReadsWhatIsThere, AllOrError
<1>. QED
  BY <1>2, <1>5, <1>6

(* A driver call of n sectors from lba on that is accepted ends inside the *)
(* device and inside the disk.                                             *)
LEMMA AcceptedInside ==
  ASSUME IInv, NEW n \in Nat, Accepts(n)
  PROVE  /\ lba * Sec \in Nat /\ n * Sec \in Nat /\ call.dev.base * Sec \in Nat
         /\ At(call.dev, lba, 0) = call.dev.base * Sec + lba * Sec
         /\ lba * Sec + n * Sec <= call.dev.count * Sec
         /\ call.dev.base * Sec + lba * Sec + n * Sec <= Sectors * Sec
         /\ Sectors * Sec \in Nat
<1> DEFINE base == call.dev.base
           cnt == call.dev.count
<1>1. base \in Nat /\ cnt \in Nat /\ lba \in Nat /\ Sectors \in Nat
  BY CallFacts, DevfsAssumption, SMTT(20)
<1>2. lba + n <= cnt /\ base + lba + n <= Sectors
  BY DEF Accepts, part_InBounds
<1>3. At(call.dev, lba, 0) = (base + lba) * Sec + 0
  BY DEF At
<1> HIDE DEF base, cnt
<1>4. /\ lba * Sec \in Nat /\ n * Sec \in Nat /\ base * Sec \in Nat /\ Sectors * Sec \in Nat
      /\ (lba + n) * Sec = lba * Sec + n * Sec
      /\ (base + lba) * Sec = base * Sec + lba * Sec
  BY <1>1, Multiples, Zenon
<1>5. (base + (lba + n)) * Sec = base * Sec + (lba + n) * Sec
  BY <1>1, Multiples
<1>6. (lba + n) * Sec <= cnt * Sec
  <2>1. lba + n \in Nat
    BY <1>1
  <2>. QED
    BY <1>1, <1>2, <2>1, Multiples
<1>7. (base + (lba + n)) * Sec <= Sectors * Sec
  <2>1. base + (lba + n) \in Nat /\ base + (lba + n) <= Sectors
    BY <1>1, <1>2
  <2>. QED
    BY <1>1, <2>1, Multiples
<1>. QED
  BY <1>3, <1>4, <1>5, <1>6, <1>7 DEF base, cnt

(* The head: from the offset to the end of its sector, or of the call. *)
LEMMA HeadStep == ASSUME IInv, HeadPart PROVE IInv'
<1> DEFINE h == head_off
           n == Min({Sec - h, remaining})
<1>1. /\ pos = 0 /\ lba = call.off \div Sec /\ h # 0 /\ calls > 0
      /\ call.off + call.len <= call.dev.count * Sec
  BY DEF IInv, InPlace, HeadPart
<1>2. /\ call.off \in Nat /\ call.len \in Nat /\ lba \in Nat /\ Start \in Nat
      /\ remaining \in Nat /\ remaining = call.len - pos
  BY CallFacts
<1>3. h \in 0..(Sec - 1) /\ call.off = lba * Sec + h
  BY <1>1, <1>2, Split, Zenon DEF head_off
<1>4. Accepts(1) /\ Transfer(h, n, 1) /\ pc' = "rest" /\ UNCHANGED <<call, ret, calls, old>>
  BY DEF HeadPart
<1>5. n = IF Sec - h <= remaining THEN Sec - h ELSE remaining
  BY <1>2, <1>3, LesserOf, DevfsAssumption
<1>6. n \in Nat /\ n <= remaining /\ h + n <= Sec
  BY <1>2, <1>3, <1>5, DevfsAssumption
<1>7. /\ lba * Sec \in Nat /\ 1 * Sec = Sec /\ call.dev.base * Sec \in Nat
      /\ At(call.dev, lba, 0) = call.dev.base * Sec + lba * Sec
      /\ call.dev.base * Sec + lba * Sec + 1 * Sec <= Sectors * Sec
      /\ Sectors * Sec \in Nat
  BY <1>4, AcceptedInside, DevfsAssumption
<1>8. At(call.dev, lba, h) = At(call.dev, lba, 0) + h
  <2>1. (call.dev.base + lba) * Sec \in Nat
    <3>1. call.dev.base + lba \in Nat
      BY <1>2, CallFacts
    <3>. QED
      BY <3>1, Multiples
  <2>. QED
    BY <1>3, <2>1 DEF At
<1> HIDE DEF h, n
<1>9. Start = call.dev.base * Sec + call.off
  BY DEF Start
<1>10. At(call.dev, lba, h) = Start + pos /\ Start + pos + n <= Sectors * Sec
  BY <1>1, <1>2, <1>3, <1>6, <1>7, <1>8, <1>9, DevfsAssumption, SMTT(20)
<1>11. PrefixWritten' /\ ReadsWhatIsThere' /\ AllOrError'
  <2>1. h \in Nat
    BY <1>3
  <2>. QED
    BY <1>1, <1>4, <1>6, <1>10, <2>1, PartStep
<1>12. InPlace'
  <2>1. pos' = n /\ lba' = lba + 1 /\ (lba + 1) * Sec = lba * Sec + Sec
    BY <1>1, <1>2, <1>4, <1>6, DevfsAssumption DEF Transfer
  <2>2. remaining' = call.len - n
    BY <1>4, <2>1 DEF remaining
  <2>3. remaining' = 0 \/ lba' * Sec = call.off + pos'
    <3>1. lba' * Sec = lba * Sec + Sec
      BY <2>1
    <3>2. Sec \in Nat /\ h \in Nat /\ remaining = call.len
      BY <1>1, <1>2, <1>3, DevfsAssumption
    <3>3. CASE Sec - h <= remaining
      <4>1. n = Sec - h
        BY <1>5, <3>3
      <4>. QED
        BY <1>3, <1>7, <2>1, <3>1, <3>2, <4>1
    <3>4. CASE ~(Sec - h <= remaining)
      BY <1>2, <1>5, <2>2, <3>2, <3>4
    <3>. QED
      BY <3>3, <3>4
  <2>4. calls > 0 /\ call.len > 0 /\ call.off + call.len <= call.dev.count * Sec
    BY DEF IInv, InPlace, HeadPart
  <2>. QED
    BY <1>4, <2>3, <2>4 DEF InPlace
<1>. QED
  BY <1>11, <1>12 DEF IInv

(* After the head: a part from a sector boundary, of n bytes in `sectors'  *)
(* sectors, all of them full unless it is the last part.                   *)
LEMMA AlignedStep ==
  ASSUME IInv, pc = "rest", remaining > 0,
         NEW n \in Nat, NEW sectors \in Nat, Accepts(sectors),
         n <= remaining, n = sectors * Sec \/ (n = remaining /\ n <= sectors * Sec),
         Transfer(0, n, sectors), UNCHANGED <<call, pc, ret, calls, old>>
  PROVE  IInv'
<1>1. /\ lba * Sec = call.off + pos /\ calls > 0 /\ call.len > 0
      /\ call.off + call.len <= call.dev.count * Sec
  <2>1. InPlace
    BY Zenon DEF IInv
  <2>. QED
    BY <2>1 DEF InPlace
<1>2. /\ call.off \in Nat /\ call.len \in Nat /\ lba \in Nat /\ Start \in Nat
      /\ remaining = call.len - pos /\ pos \in 0..call.len
  BY CallFacts, Zenon
<1>3. /\ lba * Sec \in Nat /\ sectors * Sec \in Nat /\ call.dev.base * Sec \in Nat
      /\ At(call.dev, lba, 0) = call.dev.base * Sec + lba * Sec
      /\ call.dev.base * Sec + lba * Sec + sectors * Sec <= Sectors * Sec
      /\ Sectors * Sec \in Nat
  BY AcceptedInside
<1>4. Start = call.dev.base * Sec + call.off
  BY DEF Start
<1>5. At(call.dev, lba, 0) = Start + pos /\ Start + pos + n <= Sectors * Sec
  BY <1>1, <1>2, <1>3, <1>4
<1>6. PrefixWritten' /\ ReadsWhatIsThere' /\ AllOrError'
  BY <1>1, <1>5, PartStep
<1>7. InPlace'
  <2>1. pos' = pos + n /\ lba' = lba + sectors /\ lba' * Sec = lba * Sec + sectors * Sec
    BY <1>2, Multiples DEF Transfer
  <2>2. remaining' = call.len - (pos + n)
    BY <2>1 DEF remaining
  <2>3. remaining' = 0 \/ lba' * Sec = call.off + pos'
    BY <1>1, <1>2, <1>3, <2>1, <2>2
  <2>. QED
    BY <1>1, <2>3 DEF InPlace
<1>. QED
  BY <1>6, <1>7, SMTT(20) DEF IInv

\* Whole sectors, at most MaxChunk of them.
LEMMA MiddleStep == ASSUME IInv, Middle PROVE IInv'
<1> DEFINE cnt == Min({remaining \div Sec, MaxChunk})
<1>1. /\ remaining \in Nat /\ remaining >= Sec /\ pc = "rest"
      /\ Accepts(cnt) /\ Transfer(0, cnt * Sec, cnt) /\ UNCHANGED <<call, pc, ret, calls, old>>
  <2>1. remaining \in Nat
    BY CallFacts
  <2>2. /\ remaining >= Sec /\ pc = "rest"
        /\ Accepts(cnt) /\ Transfer(0, cnt * Sec, cnt) /\ UNCHANGED <<call, pc, ret, calls, old>>
    BY DEF Middle
  <2>. QED
    BY <2>1, <2>2, Zenon
<1>2. /\ remaining \div Sec \in Nat /\ (remaining \div Sec) * Sec \in Nat
      /\ (remaining \div Sec) * Sec <= remaining
  BY <1>1, Split, DevfsAssumption
<1>3. cnt \in Nat /\ cnt <= remaining \div Sec
  BY <1>2, LesserOf, DevfsAssumption
<1> HIDE DEF cnt
<1>4. cnt * Sec \in Nat /\ cnt * Sec <= (remaining \div Sec) * Sec
  BY <1>2, <1>3, Multiples
<1>. QED
  BY <1>1, <1>2, <1>3, <1>4, AlignedStep, DevfsAssumption, SMTT(20)

\* What is left of the last sector.
LEMMA TailStep == ASSUME IInv, TailPart PROVE IInv'
<1>1. /\ remaining \in Nat /\ remaining \in 1..(Sec - 1) /\ pc = "rest" /\ Accepts(1)
      /\ Transfer(0, remaining, 1) /\ UNCHANGED <<call, pc, ret, calls, old>>
  BY CallFacts DEF TailPart
<1>2. remaining <= 1 * Sec
  BY <1>1, DevfsAssumption
<1>. QED
  BY <1>1, <1>2, AlignedStep, SMTT(20)

\* A call enters: its end is cut to the device, and an empty one returns 0.
LEMMA CallStep ==
  ASSUME IInv, NEW op \in {"read", "write"}, NEW d \in Devs, NEW off \in Offs,
         NEW len \in Lens, Call(op, d, off, len)
  PROVE  IInv'
<1> DEFINE end == end_of(d, off, len)
<1>1. off \in Nat /\ len \in Nat /\ Word \in Nat /\ off < Word
  BY DevfsAssumption
<1>2. d \in [base : Nat, count : Nat, writable : BOOLEAN] /\ d.count * Sec < Word
  BY DevfsAssumption
<1>3. d.count * Sec \in Nat /\ d.base * Sec \in Nat
  BY <1>2, Multiples
<1>4. end \in Nat /\ end <= d.count * Sec
  <2>1. (off + len) % Word \in Nat
    BY <1>1
  <2>. QED
    BY <1>3, <2>1, LesserOf DEF end_of
<1>5. call' = [op |-> op, dev |-> d, off |-> off, len |-> Max({end - off, 0})]
  BY DEF Call
<1>6. /\ pos' = 0 /\ out' = << >> /\ lba' = off \div Sec /\ calls' = calls + 1
      /\ old' = disk /\ disk' = disk /\ pc = "idle" /\ calls < MaxCalls
  BY DEF Call
<1>7. \/ end <= off /\ pc' = "idle" /\ ret' = 0
      \/ end > off /\ pc' = (IF (off % Sec) # 0 THEN "head" ELSE "rest") /\ ret' = ret
  BY DEF Call, Return
<1> HIDE DEF end
<1>8. Max({end - off, 0}) = IF end - off >= 0 THEN end - off ELSE 0
  BY <1>1, <1>4, GreaterOf
<1>9. /\ call'.op = op /\ call'.dev = d /\ call'.off = off
      /\ call'.len = IF end - off >= 0 THEN end - off ELSE 0
  BY <1>5, <1>8
<1>10. TypeOK
  BY DEF IInv, PrefixWritten
<1>11. calls' \in 0..MaxCalls /\ calls' > 0
  BY <1>6, <1>10, DevfsAssumption DEF TypeOK
<1>12. off = (off \div Sec) * Sec + (off % Sec) /\ off \div Sec \in Nat
  BY <1>1, Split
<1>13. call'.len \in Nat
  <2>1. end - off \in Int /\ (end - off >= 0 => end - off \in Nat) /\ 0 \in Nat
    BY <1>1, <1>4
  <2>. QED
    BY <1>9, <2>1, Zenon
<1>14. TypeOK'
  <2>1. call' \in [op : {"read", "write"}, dev : Devs, off : Offs \cup {0}, len : Nat]
    BY <1>5, <1>9, <1>13
  <2>2. pc' \in {"idle", "head", "rest"} /\ ret' \in -1..(Sectors * Sec + Word)
    <3>1. Sectors * Sec \in Nat
      BY Multiples, DevfsAssumption
    <3>. QED
      BY <1>1, <1>7, <1>10, <3>1 DEF TypeOK
  <2>3. disk' \in [Disk -> Nat \X Nat] /\ old' \in [Disk -> Nat \X Nat]
    BY <1>6, <1>10, Zenon DEF TypeOK
  <2>4. pos' \in 0..call'.len
    BY <1>6, <1>13
  <2>5. lba' \in Nat /\ out' \in Seq(Nat \X Nat)
    BY <1>6, <1>12
  <2>. QED
    BY <1>11, <2>1, <2>2, <2>3, <2>4, <2>5, Zenon DEF TypeOK
<1>15. PrefixWritten'
  <2>1. Start' \in Nat
    BY <1>1, <1>3, <1>9 DEF Start
  <2>2. Written(pos)' = old'
    <3>1. old' \in [Disk -> Nat \X Nat]
      BY <1>14 DEF TypeOK
    <3>2. ASSUME NEW p \in Disk PROVE Written(pos)'[p] = old'[p]
      <4>1. p \notin Start'..(Start' + 0 - 1)
        BY <2>1
      <4>. QED
        BY <1>6, <4>1 DEF Written
    <3>3. Written(pos)' = [p \in Disk |-> Written(pos)'[p]]
      BY DEF Written
    <3>. QED
      BY <3>1, <3>2, <3>3
  <2>. QED
    BY <1>6, <1>14, <2>2 DEF PrefixWritten
<1>16. ReadsWhatIsThere'
  BY <1>6 DEF ReadsWhatIsThere
<1>17. InPlace'
  <2>1. CASE pc' = "idle"
    BY <2>1 DEF InPlace
  <2>2. CASE pc' # "idle"
    <3>1. end > off /\ call'.len = end - off /\ call'.len > 0
      BY <1>1, <1>4, <1>7, <1>9, <2>2
    <3>2. pc' = "head" => (off % Sec) # 0
      BY <1>7
    <3>3. pc' = "rest" => (off % Sec) = 0
      BY <1>7
    <3>4. pc' = "rest" => lba' * Sec = off + pos'
      BY <1>1, <1>6, <1>12, <3>3, Split, SMTT(20)
    <3>5. call'.off + call'.len <= call'.dev.count * Sec
      BY <1>1, <1>3, <1>4, <1>9, <3>1
    <3>. QED
      BY <1>6, <1>9, <1>11, <3>1, <3>2, <3>4, <3>5 DEF InPlace, head_off
  <2>. QED
    BY <2>1, <2>2
<1>18. AllOrError'
  <2>1. pc' = "idle" => ret' = call'.len
    BY <1>1, <1>4, <1>7, <1>9, SMTT(20)
  <2>. QED
    BY <2>1 DEF AllOrError
<1>. QED
  BY <1>15, <1>16, <1>17, <1>18 DEF IInv

(* A refused part: the call returns -1, for one of the reasons AllOrError  *)
(* names.  A chunk is refused only where the device is not writable or     *)
(* outruns its disk, since the call ends inside the device.                *)
LEMMA FailStep == ASSUME IInv, Fail PROVE IInv'
<1>1. pc' = "idle" /\ ret' = -1 /\ UNCHANGED <<disk, call, pos, lba, out, calls, old>>
  BY DEF Fail, Return
<1>2. /\ call.off \in Nat /\ call.len \in Nat /\ lba \in Nat /\ Start \in Nat
      /\ remaining \in Nat /\ remaining = call.len - pos /\ pos \in 0..call.len
      /\ call.dev.count \in Nat /\ call.dev.base \in Nat
  BY CallFacts
<1>3. pc # "idle" => call.off + call.len <= call.dev.count * Sec
  BY DEF IInv, InPlace
<1>4. pc = "rest" /\ remaining > 0 => lba * Sec = call.off + pos
  BY <1>2 DEF IInv, InPlace
<1> DEFINE Reason == \/ call.off % Sec > 0 \/ (call.off + call.len) % Sec > 0
                     \/ call.op = "write" /\ ~call.dev.writable
                     \/ Start + call.len > Sectors * Sec
<1>5. Reason
  <2>1. CASE pc = "head"
    <3>1. head_off # 0
      BY <2>1 DEF IInv, InPlace
    <3>2. call.off % Sec > 0
      BY <1>2, <3>1, Split, DevfsAssumption DEF head_off
    <3>. QED
      BY <3>2
  <2>2. CASE pc = "rest" /\ remaining \in 1..(Sec - 1)
    <3>1. call.off + call.len = lba * Sec + remaining
      BY <1>2, <1>4, <2>2
    <3>2. remaining \in 0..(Sec - 1)
      BY <2>2
    <3>3. (lba * Sec + remaining) % Sec = remaining
      BY <1>2, <3>2, RemainderOf
    <3>. QED
      BY <2>2, <3>1, <3>3
  <2>3. CASE pc = "rest" /\ remaining >= Sec /\ ~Accepts(Min({remaining \div Sec, MaxChunk}))
    <3> DEFINE cnt == Min({remaining \div Sec, MaxChunk})
    <3>1. /\ remaining \div Sec \in Nat /\ (remaining \div Sec) * Sec \in Nat
          /\ (remaining \div Sec) * Sec <= remaining
      BY <1>2, Split, DevfsAssumption
    <3>2. cnt \in Nat /\ cnt <= remaining \div Sec
      BY <3>1, LesserOf, DevfsAssumption
    <3>3. ~Accepts(cnt) /\ lba * Sec = call.off + pos
      BY <1>2, <1>4, <2>3, DevfsAssumption
    <3> HIDE DEF cnt
    <3>4. cnt * Sec \in Nat /\ cnt * Sec <= remaining
      <4>1. cnt * Sec \in Nat /\ cnt * Sec <= (remaining \div Sec) * Sec
        BY <3>1, <3>2, Multiples
      <4>. QED
        BY <1>2, <3>1, <4>1
    <3>5. lba + cnt \in Nat /\ (lba + cnt) * Sec = lba * Sec + cnt * Sec
      BY <1>2, <3>2, Multiples
    <3>6. (lba + cnt) * Sec <= call.off + call.len
      BY <1>2, <3>3, <3>4, <3>5
    <3>7. lba + cnt <= call.dev.count
      <4>1. call.dev.count * Sec \in Nat /\ (lba + cnt) * Sec \in Nat
        BY <1>2, <3>5, Multiples, Zenon
      <4>2. (lba + cnt) * Sec <= call.dev.count * Sec
        BY <1>2, <1>3, <2>3, <3>6, <4>1
      <4>. QED
        BY <1>2, <3>5, <4>2, Multiples, Zenon
    <3>8. CASE call.op = "write" /\ ~call.dev.writable
      BY <3>8
    <3>9. CASE ~(call.op = "write" /\ ~call.dev.writable)
      <4>1. call.dev.base + (lba + cnt) > Sectors
        <5>1. ~part_InBounds(call.dev, lba, cnt)
          BY <3>3, <3>9 DEF Accepts
        <5>. QED
          BY <1>2, <3>2, <3>7, <5>1, DevfsAssumption DEF part_InBounds
      <4>2. /\ call.dev.base + (lba + cnt) \in Nat
            /\ (call.dev.base + (lba + cnt)) * Sec = call.dev.base * Sec + (lba + cnt) * Sec
        <5>1. call.dev.base + (lba + cnt) \in Nat
          BY <1>2, <3>5
        <5>. QED
          BY <1>2, <3>5, <5>1, Multiples, Zenon
      <4>3. Sectors * Sec + Sec <= (call.dev.base + (lba + cnt)) * Sec
        BY <4>1, <4>2, Multiples, DevfsAssumption, SMTT(20)
      <4>4. /\ Sectors * Sec \in Nat /\ call.dev.base * Sec \in Nat
            /\ Start = call.dev.base * Sec + call.off
        BY <1>2, Multiples, DevfsAssumption DEF Start
      <4>5. Start + call.len > Sectors * Sec
        BY <1>2, <3>5, <3>6, <4>2, <4>3, <4>4, DevfsAssumption
      <4>. QED
        BY <4>5
    <3>. QED
      BY <3>8, <3>9
  <2>. QED
    BY <2>1, <2>2, <2>3 DEF Fail
<1>6. AllOrError'
  <2>1. Start' = Start
    BY <1>1 DEF Start
  <2>. QED
    BY <1>1, <1>5, <2>1, SMTT(20) DEF AllOrError
<1>7. TypeOK'
  <2>1. Sectors * Sec \in Nat
    BY Multiples, DevfsAssumption
  <2>. QED
    BY <1>1, <2>1, DevfsAssumption DEF IInv, PrefixWritten, TypeOK
<1>8. PrefixWritten' /\ ReadsWhatIsThere'
  <2>1. UNCHANGED <<disk, call, pos, out, calls, old>>
    BY <1>1
  <2>2. PrefixWritten /\ ReadsWhatIsThere
    BY DEF IInv
  <2>3. PrefixWritten'
    BY <1>7, <2>1, <2>2, Zenon DEF PrefixWritten, Written, Start, In
  <2>4. ReadsWhatIsThere'
    BY <2>1, <2>2, Zenon DEF ReadsWhatIsThere, Start
  <2>. QED
    BY <2>3, <2>4
<1>. QED
  BY <1>1, <1>6, <1>8 DEF IInv, InPlace

\* Nothing remains: the call returns the bytes it moved, all it asked for.
LEMMA FinishStep == ASSUME IInv, Finish PROVE IInv'
<1>1. pc' = "idle" /\ ret' = pos /\ UNCHANGED <<disk, call, pos, lba, out, calls, old>>
  BY SMTT(20) DEF Finish, Return
<1>2. pos = call.len
  BY CallFacts DEF Finish
<1>3. /\ call.off \in Nat /\ call.len \in Nat /\ call.dev.count * Sec \in Nat
      /\ call.dev.count * Sec < Word
      /\ call.off + call.len <= call.dev.count * Sec
  BY CallFacts DEF IInv, InPlace, Finish
<1>4. TypeOK'
  <2>1. Sectors * Sec \in Nat
    BY Multiples, DevfsAssumption
  <2>2. ret' \in -1..(Sectors * Sec + Word)
    BY <1>1, <1>2, <1>3, <2>1, DevfsAssumption, SMTT(20)
  <2>. QED
    BY <1>1, <2>2 DEF IInv, PrefixWritten, TypeOK
<1>5. PrefixWritten' /\ ReadsWhatIsThere'
  BY <1>1, <1>4 DEF IInv, PrefixWritten, ReadsWhatIsThere, Written, Start, In
<1>. QED
  BY <1>1, <1>2, <1>5 DEF IInv, InPlace, AllOrError

\* Every step keeps the invariant.
LEMMA DevfsStep == IInv /\ [Next]_vars => IInv'
<1> SUFFICES ASSUME IInv, [Next]_vars PROVE IInv'
  OBVIOUS
<1>1. CASE UNCHANGED vars
  <2>1. TypeOK' /\ Start' = Start /\ remaining' = remaining /\ head_off' = head_off
    BY <1>1 DEF vars, IInv, PrefixWritten, TypeOK, Start, remaining, head_off
  <2>2. Written(pos)' = Written(pos)
    BY <1>1, <2>1 DEF vars, Written, In
  <2>3. PrefixWritten' /\ ReadsWhatIsThere' /\ AllOrError'
    BY <1>1, <2>1, <2>2 DEF vars, IInv, PrefixWritten, ReadsWhatIsThere, AllOrError
  <2>4. InPlace'
    BY <1>1, <2>1 DEF vars, IInv, InPlace
  <2>. QED
    BY <2>3, <2>4 DEF IInv
<1>2. CASE Next
  BY <1>2, CallStep, HeadStep, MiddleStep, TailStep, FailStep, FinishStep DEF Next
<1>. QED
  BY <1>1, <1>2, Zenon

\* The invariant holds throughout.
LEMMA DevfsInvariant == Spec => []IInv
BY DevfsInit, DevfsStep, PTL DEF Spec

-----------------------------------------------------------------------------
(* The properties. *)

(* However a write is cut and wherever it fails, the disk is the old one   *)
(* with a prefix of the buffer at the offset asked for (devfs_write).      *)
THEOREM DevfsPrefixWritten == Spec => []PrefixWritten
<1>1. IInv => PrefixWritten
  BY DEF IInv
<1>. QED
  BY <1>1, DevfsInvariant, PTL

(* However a read is cut, the caller's buffer holds the bytes at the       *)
(* offset, in order (devfs_read).                                          *)
THEOREM DevfsReadsWhatIsThere == Spec => []ReadsWhatIsThere
<1>1. IInv => ReadsWhatIsThere
  BY DEF IInv
<1>. QED
  BY <1>1, DevfsInvariant, PTL

(* A call moves all it asked for or returns -1, and -1 only for the        *)
(* reasons AllOrError names.                                               *)
THEOREM DevfsAllOrError == Spec => []AllOrError
<1>1. IInv => AllOrError
  BY SMTT(20) DEF IInv
<1>. QED
  BY <1>1, DevfsInvariant, PTL

(* The place of a byte is a number. *)
LEMMA BytePlace ==
  ASSUME NEW p \in Disk PROVE p \in Nat
BY Multiples, DevfsAssumption DEF Disk

(* An accepted driver call that moves at most its sectors' bytes changes   *)
(* only bytes of the call's device.                                        *)
LEMMA TransferInside ==
  ASSUME IInv, NEW b \in Nat, NEW n \in Nat, NEW sectors \in Nat,
         Accepts(sectors), b + n <= sectors * Sec, Transfer(b, n, sectors),
         NEW p \in Disk, disk'[p] # disk[p]
  PROVE  p \div Sec \in call.dev.base..(call.dev.base + call.dev.count - 1)
<1> DEFINE base == call.dev.base
           cnt == call.dev.count
<1>1. /\ base \in Nat /\ cnt \in Nat /\ lba \in Nat
  BY CallFacts, ZenonT(30)
<1>2. /\ lba * Sec \in Nat /\ sectors * Sec \in Nat /\ base * Sec \in Nat
      /\ lba * Sec + sectors * Sec <= cnt * Sec
  BY AcceptedInside, Zenon DEF base, cnt
<1>3. p \in Nat
  BY BytePlace, Zenon
<1>4. p \in At(call.dev, lba, b)..(At(call.dev, lba, b) + n - 1)
  BY DEF Transfer, Put
<1>5. At(call.dev, lba, b) = (base + lba) * Sec + b
  BY DEF At
<1> HIDE DEF base, cnt
<1>6. /\ (base + lba) * Sec = base * Sec + lba * Sec
      /\ (base + cnt) * Sec = base * Sec + cnt * Sec
      /\ cnt * Sec \in Nat
  BY <1>1, Multiples, Zenon
<1>7. base * Sec <= p /\ p < (base + cnt) * Sec
  BY <1>2, <1>3, <1>4, <1>5, <1>6
<1>8. base + cnt \in Nat
  BY <1>1
<1>9. p \div Sec \in base..(base + cnt - 1)
  BY <1>1, <1>3, <1>7, <1>8, SectorOf
<1>. QED
  BY <1>9, Zenon DEF base, cnt

(* No call on a partition changes a byte of another one.                   *)
THEOREM DevfsPartitionIsolated == Spec => PartitionIsolated
<1> DEFINE Inside == \A p \in Disk : disk'[p] # disk[p] =>
             p \div Sec \in call.dev.base..(call.dev.base + call.dev.count - 1)
<1>1. ASSUME IInv, [Next]_vars PROVE [Inside]_vars
  <2>1. CASE HeadPart
    <3>1. call.off \in Nat /\ remaining \in Nat
      BY <1>1, CallFacts
    <3>2. head_off \in 0..(Sec - 1)
      BY <3>1, Split, Zenon DEF head_off
    <3> DEFINE n == Min({Sec - head_off, remaining})
    <3>0. Sec - head_off \in Int /\ remaining \in Int
      <4>1. \A h \in 0..(Sec - 1) : Sec - h \in Int
        BY DevfsAssumption
      <4>. QED
        BY <4>1, <3>1, <3>2
    <3>3. n = IF Sec - head_off <= remaining THEN Sec - head_off ELSE remaining
      BY <3>0, LesserOf, Zenon
    <3>4. n \in Nat /\ head_off + n <= 1 * Sec /\ head_off \in Nat
      BY <3>1, <3>2, <3>3, DevfsAssumption
    <3>5. Accepts(1) /\ Transfer(head_off, n, 1)
      BY <2>1 DEF HeadPart
    <3> HIDE DEF n
    <3>. QED
      BY <1>1, <3>4, <3>5, TransferInside
  <2>2. CASE Middle
    <3> DEFINE cnt == Min({remaining \div Sec, MaxChunk})
    <3>1. remaining \div Sec \in Nat
      BY <1>1, CallFacts, Split
    <3>2. cnt \in Nat
      BY <3>1, LesserOf, DevfsAssumption
    <3>3. Accepts(cnt) /\ Transfer(0, cnt * Sec, cnt)
      BY <2>2 DEF Middle
    <3> HIDE DEF cnt
    <3>4. cnt * Sec \in Nat /\ 0 + cnt * Sec <= cnt * Sec
      <4>1. cnt * Sec \in Nat
        BY <3>2, Multiples, Zenon
      <4>. QED
        BY <4>1
    <3>. QED
      BY <1>1, <3>2, <3>3, <3>4, TransferInside
  <2>3. CASE TailPart
    <3>1. remaining \in Nat /\ 0 + remaining <= 1 * Sec
      BY <1>1, <2>3, CallFacts, DevfsAssumption DEF TailPart
    <3>. QED
      BY <1>1, <2>3, <3>1, TransferInside DEF TailPart
  <2>4. CASE UNCHANGED disk
    BY <2>4
  <2>. QED
    BY <1>1, <2>1, <2>2, <2>3, <2>4, Zenon DEF Next, Call, Fail, Finish, vars
<1>. QED
  BY <1>1, DevfsInvariant, PTL DEF Spec, PartitionIsolated
=============================================================================
