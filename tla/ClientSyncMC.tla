------------------------- MODULE ClientSyncMC -------------------------
(* Small rooms of two tabs for TLC. *)
EXTENDS ClientSync

SmallValues == 0..(MaxEdits + MaxStrays)
=======================================================================
