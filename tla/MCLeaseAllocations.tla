------------------------- MODULE MCLeaseAllocations -------------------------
(* The instance of LeaseAllocations for TLC is given by its configuration.  *)
EXTENDS LeaseAllocations
=============================================================================
