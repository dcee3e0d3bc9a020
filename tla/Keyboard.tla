------------------------------ MODULE Keyboard ------------------------------
(***************************************************************************)
(* src/kernel64/input.c up to input_try_read_event: scancode bytes from    *)
(* the PS/2 controller are decoded one per call, with the modifier flags   *)
(* and the extended prefix kept between calls; the serial line is polled   *)
(* when the keyboard gives no event.  The keyboard is external: it queues  *)
(* the bytes of each press and release, and loses those of a key that      *)
(* finds the queue full, because nothing polls it while a command runs.    *)
(***************************************************************************)
EXTENDS Integers, Sequences, FiniteSets

CONSTANTS Keys,      \* keys of the keyboard, out of the domain of Code
          Serial,    \* kinds of serial bytes
          FifoMax,   \* bytes the keyboard queues
          SerMax,    \* bound: serial bytes waiting
          MaxTyped   \* bound: presses

ASSUME KeyboardAssumption ==
  /\ Keys \subseteq {"lshift", "lctrl", "rctrl", "alt", "caps", "a", "one", "enter", "home", "pause"}
  /\ FifoMax \in Nat /\ SerMax \in Nat /\ MaxTyped \in Nat

E0 == 224
E1 == 225

(* Set 1 scancodes, external: the keys of each kind the decoder knows *)
Code == [lshift |-> <<42>>, lctrl |-> <<29>>, rctrl |-> <<E0, 29>>, alt |-> <<56>>,
         caps |-> <<58>>, a |-> <<30>>, one |-> <<2>>, enter |-> <<28>>, home |-> <<E0, 71>>,
         pause |-> <<E1, 29, 69, E1, 29 + 128, 69 + 128>>]

Break(k) == [Code[k] EXCEPT ![Len(Code[k])] = @ + 128]

VARIABLES down,      \* keys held
          fifo, ser, \* bytes waiting
          s_mods, s_e0,
          ev,        \* what the last input_try_read_event gave
          latch,     \* history: flags the keys queued so far have set
          owed,      \* history: events the queued presses stand for
          lost,      \* history: the keyboard has dropped a key
          typed      \* presses so far

kvars == <<down, fifo, ser, s_mods, s_e0, ev, latch, owed, lost, typed>>

Event(type, ch, mods, from) == [type |-> type, ch |-> ch, mods |-> mods, from |-> from]
NoEvent == Event("KEY_NONE", << >>, {}, "none")

KInit == /\ down = {} /\ fifo = << >> /\ ser = << >>
        /\ s_mods = {} /\ s_e0 = FALSE /\ ev = NoEvent
        /\ latch = {} /\ owed = << >> /\ lost = FALSE /\ typed = 0

-----------------------------------------------------------------------------
(* The user and the keyboard (external) *)

Modifier == [k \in {"lshift", "lctrl", "rctrl", "alt"} |->
               IF k = "lshift" THEN "SHIFT" ELSE IF k = "alt" THEN "ALT" ELSE "CTRL"]

Upper(mods) == ("SHIFT" \in mods) # ("CAPS" \in mods)

(* The event a press of k stands for *)
EventOf(k, mods) ==
  Event(CASE k = "enter" -> "KEY_ENTER" [] k = "home" -> "KEY_HOME" [] OTHER -> "KEY_CHAR",
        CASE k = "a" -> <<30, Upper(mods)>> [] k = "one" -> <<2, "SHIFT" \in mods>>
          [] OTHER -> << >>,
        mods, "ps2")

Queue(bytes) == IF Len(fifo) + Len(bytes) <= FifoMax
                THEN fifo' = fifo \o bytes /\ UNCHANGED lost
                ELSE lost' = TRUE /\ UNCHANGED fifo

(* What a press of k makes of the flags m.  A flag is set by any of its    *)
(* keys until any of them is released; Pause sends Ctrl's codes.           *)
Latched(k, m) ==
  CASE k \in DOMAIN Modifier -> m \cup {Modifier[k]}
    [] k = "caps" -> IF "CAPS" \in m THEN m \ {"CAPS"} ELSE m \cup {"CAPS"}
    [] k = "pause" -> m \ {"CTRL"}
    [] OTHER -> m

(* A press, or its repetition while the key is held. *)
Press(k) ==
  /\ typed < MaxTyped /\ typed' = typed + 1
  /\ Queue(Code[k])
  /\ down' = down \cup ({k} \ {"pause"})
  /\ latch' = IF fifo' # fifo THEN Latched(k, latch) ELSE latch
  /\ owed' = IF fifo' # fifo /\ k \in {"a", "one", "enter", "home"}
             THEN Append(owed, EventOf(k, latch)) ELSE owed
  /\ UNCHANGED <<ser, s_mods, s_e0, ev>>

Release(k) ==
  /\ k \in down /\ down' = down \ {k}
  /\ Queue(Break(k))
  /\ latch' = IF fifo' # fifo /\ k \in DOMAIN Modifier THEN latch \ {Modifier[k]} ELSE latch
  /\ UNCHANGED <<ser, s_mods, s_e0, ev, owed, typed>>

SerialByte(b) == /\ Len(ser) < SerMax /\ ser' = Append(ser, b)
                 /\ UNCHANGED <<down, fifo, s_mods, s_e0, ev, latch, owed, lost, typed>>

-----------------------------------------------------------------------------
(* The decoder: what byte sc does with modifiers m and prefix e *)

Flag(code, e) == CASE ~e /\ code \in {42, 54} -> {"SHIFT"}
                   [] code = 29 -> {"CTRL"}
                   [] code = 56 -> {"ALT"}
                   [] OTHER -> {}

NextMods_RightStays(sc, m, e) ==
  LET code == sc % 128 brk == sc >= 128
  IN  IF sc \in {E0, E1} THEN m
      ELSE IF Flag(code, e) # {}
      THEN (IF brk /\ ~e THEN m \ Flag(code, e) ELSE m \cup Flag(code, e))
      ELSE IF ~e /\ code = 58 /\ ~brk
      THEN (IF "CAPS" \in m THEN m \ {"CAPS"} ELSE m \cup {"CAPS"})
      ELSE m
NextMods(sc, m, e) ==
  LET code == sc % 128 brk == sc >= 128
  IN  IF sc \in {E0, E1} THEN m
      ELSE IF Flag(code, e) # {} THEN (IF brk THEN m \ Flag(code, e) ELSE m \cup Flag(code, e))
      ELSE IF ~e /\ code = 58 /\ ~brk
      THEN (IF "CAPS" \in m THEN m \ {"CAPS"} ELSE m \cup {"CAPS"})
      ELSE m

NextE0_KeptOnBreak(sc, e) == IF sc = E0 THEN TRUE ELSE IF sc = E1 THEN e ELSE sc >= 128 /\ e
NextE0(sc, e) == IF sc = E0 THEN TRUE ELSE IF sc = E1 THEN e ELSE FALSE

(* The event of a make code that is no modifier; an extended code the      *)
(* switch does not list, or one the maps hold no character for, has none.  *)
Decoded(sc, m, e) ==
  IF sc \in {E0, E1} \/ sc >= 128 \/ Flag(sc, e) # {} \/ (~e /\ sc = 58) THEN NoEvent
  ELSE IF e THEN (IF sc = 71 THEN Event("KEY_HOME", << >>, m, "ps2") ELSE NoEvent)
  ELSE CASE sc = 28 -> Event("KEY_ENTER", << >>, m, "ps2")
         [] sc = 30 -> Event("KEY_CHAR", <<sc, Upper(m)>>, m, "ps2")
         [] sc = 2 -> Event("KEY_CHAR", <<sc, "SHIFT" \in m>>, m, "ps2")
         [] OTHER -> NoEvent

FromSerial(b) ==
  Event(CASE b \in {"cr", "lf"} -> "KEY_ENTER" [] b \in {"bs", "del"} -> "KEY_BACKSPACE"
          [] b = "esc" -> "KEY_ESC" [] b = "tab" -> "KEY_TAB" [] OTHER -> "KEY_CHAR",
        IF b = "print" THEN <<b>> ELSE << >>, {}, "serial")

(* One call: a byte of the keyboard, and the serial line if it gave none;  *)
(* a serial byte that is neither known nor printable is read and dropped.  *)
input_try_read_event ==
  LET key == IF fifo = << >> THEN NoEvent ELSE Decoded(Head(fifo), s_mods, s_e0)
      b == IF key = NoEvent /\ ser # << >> THEN Head(ser) ELSE "none"
  IN  /\ fifo # << >> \/ ser # << >>
      /\ IF fifo = << >> THEN UNCHANGED <<fifo, s_mods, s_e0>>
         ELSE /\ fifo' = Tail(fifo)
              /\ s_mods' = NextMods(Head(fifo), s_mods, s_e0)
              /\ s_e0' = NextE0(Head(fifo), s_e0)
      /\ ser' = IF b = "none" THEN ser ELSE Tail(ser)
      /\ ev' = IF b \in {"none", "other"} THEN key ELSE FromSerial(b)
      /\ owed' = IF key # NoEvent /\ owed # << >> THEN Tail(owed) ELSE owed
      /\ UNCHANGED <<down, latch, lost, typed>>

KNext ==
  \/ \E k \in Keys : Press(k)
  \/ \E k \in Keys : Release(k)
  \/ \E b \in Serial : SerialByte(b)
  \/ input_try_read_event

KSpec == KInit /\ [][KNext]_kvars

-----------------------------------------------------------------------------
\* Type correctness of the decoder of src/kernel64/input.c: every event handed on has a type set
\* (no path returns 1 with ev->type unset), and the queues hold scan codes.
KTypeOK ==
  /\ down \subseteq Keys \ {"pause"}
  /\ Len(fifo) <= FifoMax /\ \A i \in DOMAIN fifo : fifo[i] \in 0..255
  /\ Len(ser) <= SerMax
  /\ s_mods \subseteq {"SHIFT", "CTRL", "ALT", "CAPS"} /\ s_e0 \in BOOLEAN
  /\ ev.type \in {"KEY_NONE", "KEY_CHAR", "KEY_ENTER", "KEY_HOME", "KEY_BACKSPACE", "KEY_ESC",
                  "KEY_TAB"}

(* With no key held, and every byte read, no modifier is left set, unless  *)
(* the keyboard had to drop a key: neither the second of two keys that     *)
(* share a flag, an extended key, nor the bytes of Pause leave one behind. *)
NoStuckModifier ==
  KTypeOK /\ (down = {} /\ fifo = << >> /\ ~lost => s_mods \subseteq {"CAPS"} /\ ~s_e0)

(* Keyboard events are the presses that reached the queue: none is left    *)
(* out once the queue is drained, and each comes in the order of the       *)
(* presses and with the case and flags of the moment it was pressed,       *)
(* however late the byte is read and whatever arrives on the serial line   *)
(* in between.                                                             *)
EventsAsPressed ==
  /\ [](fifo = << >> => owed = << >>)
  /\ [][ev'.from = "ps2" /\ Len(fifo') < Len(fifo) => owed # << >> /\ ev' = Head(owed)]_kvars
=============================================================================
