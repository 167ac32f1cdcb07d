--------------------------- MODULE MCProcessPool ---------------------------
(* ProcessPool for TLC.                                                    *)
EXTENDS ProcessPool
=============================================================================
