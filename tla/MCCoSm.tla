-------------------------------- MODULE MCCoSm --------------------------------
(* CoSm over a small ring.                                                 *)
EXTENDS CoSm
=============================================================================
