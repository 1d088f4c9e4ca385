----------------------------- MODULE MCConnector -----------------------------
(***************************************************************************)
(* A window of five days read in chunks of three with an overlap of two:   *)
(* a first read takes two chunks.  The vendor accepts events one day late. *)
(***************************************************************************)
EXTENDS Connector
=============================================================================
