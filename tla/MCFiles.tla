------------------------------ MODULE MCFiles -------------------------------
(* Three paths on two devices; one path is short for the first buffer, one  *)
(* fills it, and one is too long.                                           *)
EXTENDS Files, TLC

CONSTANTS a, b, c

Lengths == a :> 1 @@ b :> 2 @@ c :> 3
Devices == a :> 1 @@ b :> 1 @@ c :> 2
Nodes == {<<1, 1>>, <<1, 2>>, <<2, 1>>}
Worlds == {a :> "REGULAR" @@ b :> "REGULAR" @@ c :> "DIRECTORY",
           a :> "LINK" @@ b :> "DIRECTORY" @@ c :> "REGULAR"}
Search == <<a, b>>
Modes == {{"OWNER_READ"}, {"OWNER_READ", "OTHER_READ", "OWNER_EXEC"}, {"OTHER_READ", "OTHER_EXEC"}}
=============================================================================
