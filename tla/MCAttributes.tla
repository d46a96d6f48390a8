---------------------------- MODULE MCAttributes ----------------------------
(* Options of three levels that share the number 2, and some of their own. *)
EXTENDS Attributes, TLC

CONSTANTS reg, mem, pip, tcp, udp

Kinds == reg :> "regular" @@ mem :> "memfd" @@ pip :> "pipe" @@ tcp :> "tcp4" @@ udp :> "udp6"
Options == {<<"SOCKET", 2>>, <<"SOCKET", 25>>, <<"IP", 2>>, <<"TCP", 2>>, <<"IP", 51>>,
            <<"IPV6", 1>>, <<"UDP", 1>>}
=============================================================================
