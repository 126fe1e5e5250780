---------------------------- MODULE MC_NanTimer ----------------------------
(* One device booted 200 TU after the clock's epoch, libev waking 1 TU     *)
(* late, DW-start sends of 0, 15 and 20 TU, and one received beacon whose  *)
(* sender's clock is 3 ms behind or 40 ms ahead.                           *)
EXTENDS NanTimer

MCSkews == {-3000, 40000}
=============================================================================
