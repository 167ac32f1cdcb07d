---------------------------- MODULE MCSyncClient ----------------------------
(***************************************************************************)
(* Two verbs and two calls of close(), one of which the exit handler       *)
(* makes. c1 is a call without a timeout, c2 a result() with one.          *)
(***************************************************************************)
EXTENDS SyncClient
=============================================================================
