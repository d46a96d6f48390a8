----------------------------- MODULE MCTracing -----------------------------
(***************************************************************************)
(* An instance of Tracing for TLC: a process and its child, seized or      *)
(* attached to, without options and with all of them.                      *)
(***************************************************************************)
EXTENDS Tracing, TLC

SomeOptSets == {{}, {"TRACESYSGOOD", "TRACEFORK", "TRACEEXIT"}}
=============================================================================
