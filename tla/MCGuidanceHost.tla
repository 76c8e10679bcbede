---------------------------- MODULE MCGuidanceHost ----------------------------
(* Score requests may be larger than the pipe.                                *)
EXTENDS GuidanceHost

MCScore == {"score"}
=============================================================================
