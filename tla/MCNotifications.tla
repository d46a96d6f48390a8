-------------------------- MODULE MCNotifications --------------------------
(***************************************************************************)
(* Signals and Tracing, what the kernel tells a program of others and of   *)
(* its own, in one instance for TLC.  They share no state and no calls: a  *)
(* behaviour runs one of them, and the other rests in an initial state.    *)
(***************************************************************************)
EXTENDS MCSignals, MCTracing

VARIABLE part   \* the part that runs

notificationVars == <<part, vars, tracingVars>>

InitNotifications ==
    /\ part \in {"signals", "tracing"}
    /\ Init /\ (part # "signals" => mask = [t \in Thread |-> {}])
    /\ InitTracing

SignalsPart == part = "signals" /\ Next /\ UNCHANGED <<part, tracingVars>>

\* All threads may wait, with nobody left who sends a signal.
SignalsRest ==
    /\ part = "signals" /\ \A t \in Thread : pc[t] # "runs"
    /\ UNCHANGED notificationVars

TracingPart == part = "tracing" /\ NextTracing /\ UNCHANGED <<part, vars>>

NextNotifications == SignalsPart \/ SignalsRest \/ TracingPart

SpecNotifications == InitNotifications /\ [][NextNotifications]_notificationVars
=============================================================================
