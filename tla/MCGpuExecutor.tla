--------------------------- MODULE MCGpuExecutor ---------------------------
(* The instances of GpuExecutor that TLC checks.                           *)
EXTENDS GpuExecutor
=============================================================================
