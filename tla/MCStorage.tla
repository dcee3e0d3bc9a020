----------------------------- MODULE MCStorage ------------------------------
(***************************************************************************)
(* Modules: an exFAT image, a blank one, a partitioned one and one of a    *)
(* broken size; names that collide with boot's devices and mounts; mounts  *)
(* that fail for the file system, for the device, and for the table's      *)
(* size.                                                                   *)
(***************************************************************************)
EXTENDS Storage

MCModules == {[whole |-> TRUE, exfat |-> TRUE, table |-> {}],
              [whole |-> TRUE, exfat |-> FALSE, table |-> {}],
              [whole |-> TRUE, exfat |-> FALSE, table |-> {1, 3}],
              [whole |-> FALSE, exfat |-> FALSE, table |-> {1}]}
MCMountArgs == {<<"exfat", "m", <<"ram1">>>>, <<"exfat", "root", <<"ram0">>>>,
                <<"exfat", "m", NoDev>>, <<"devfs", "m", NoDev>>, <<"fat", "m", <<"ram0">>>>}
=============================================================================
