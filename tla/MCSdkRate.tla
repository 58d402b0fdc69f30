------------------------------ MODULE MCSdkRate ------------------------------
(* SdkRate on the instances of MCSdk. *)
EXTENDS SdkRate, MCSdk
=============================================================================
