--------------------------- MODULE MCChildCloner ---------------------------
(***************************************************************************)
(* An instance of ChildCloner for TLC.                                     *)
(***************************************************************************)
EXTENDS ChildCloner, TLC

CONSTANTS t1, t2

Setting(forward, noexe, callback) ==
    [forward |-> forward, noexe |-> noexe, complete |-> TRUE, callback |-> callback]

\* A program with and without error forwarding, and with a callback that
\* throws; children that run no program, of which one exits by itself and one
\* never ends; and an object without an executable.
MixedConfigs ==
    {Setting(TRUE, FALSE, "returns"), Setting(TRUE, FALSE, "throws"), Setting(TRUE, TRUE, "returns"),
     Setting(FALSE, FALSE, "returns"), Setting(FALSE, TRUE, "exits"), Setting(FALSE, TRUE, "blocks"),
     [Setting(TRUE, FALSE, "returns") EXCEPT !.complete = FALSE]}

\* The callers are alike: of two states that differ in their names only, one
\* will do.  Unusual settings meet other settings, not themselves.
Number(setting) ==
    (IF setting.forward THEN 0 ELSE 8) + (IF setting.noexe THEN 4 ELSE 0)
        + (IF setting.complete THEN 2 ELSE 0) + (IF setting.callback = "returns" THEN 1 ELSE 0)

Usual(setting) == setting.callback = "returns" /\ ~setting.noexe

InOrder ==
    /\ Number(config[t1]) <= Number(config[t2])
    /\ config[t1] = config[t2] => Usual(config[t1])

InitInOrder == Init /\ InOrder

SpecInOrder == InitInOrder /\ [][Next]_vars

FairSpecInOrder == SpecInOrder /\ Fairness
=============================================================================
