---------------------------- MODULE AddressSpace ----------------------------
(***************************************************************************)
(* What an address space promises, without tables: a partial function from *)
(* virtual pages to frames.  A call that succeeds changes the page it      *)
(* names, as asked, and no other; a call that fails changes none.          *)
(***************************************************************************)
CONSTANTS Pages, None

VARIABLES map,   \* the frame every page leads to, or None
          last   \* the last call: its page, the frame asked for, its result

avars == <<map, last>>

AInit == map = [v \in Pages |-> None]

ADone == /\ last'.ret = 0 /\ last'.page \in Pages
         /\ map' = [map EXCEPT ![last'.page] = last'.frame]

AFail == last'.ret # 0 /\ map' = map

ANext == ADone \/ AFail

ASpec == AInit /\ [][ANext]_avars
=============================================================================
