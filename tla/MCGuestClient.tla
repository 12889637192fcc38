--------------------------- MODULE MCGuestClient ---------------------------
(* The instance of GuestClient for TLC has nothing but bounds.               *)
EXTENDS GuestClient
=============================================================================
