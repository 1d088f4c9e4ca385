---------------------------- MODULE MCFlagControl ----------------------------
(***************************************************************************)
(* Small instances of FlagControl: one flag, two arms, a plan with a       *)
(* guardrail and one without.  A tick of the safety loop is two units, so  *)
(* that a pass can be late by half a tick; the gap is one tick, as in      *)
(* desk/ledger.go.                                                         *)
(***************************************************************************)
EXTENDS FlagControl

SomeObjects == 1 .. 5

SomeStarts == 1 .. 2
=============================================================================
