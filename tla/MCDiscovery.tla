---------------------------- MODULE MCDiscovery ----------------------------
(* Buses of up to three targets for Discovery: toolbox devices and others,   *)
(* ids of one and of two digits, at the end of the array of types and behind. *)
EXTENDS Discovery

Target(n, toolbox, generic, busy) ==
    [id |-> n, toolbox |-> toolbox, generic |-> generic, busy |-> busy]

Drive(n)  == Target(n, TRUE, TRUE, FALSE)
Plain(n)  == Target(n, FALSE, TRUE, FALSE)
Hidden(n) == Target(n, TRUE, FALSE, FALSE)
Busy(n)   == Target(n, TRUE, TRUE, TRUE)

MCBuses == {<<>>, <<Plain(0), Drive(3), Drive(7)>>, <<Drive(8), Drive(9), Drive(11)>>,
            <<Busy(2), Plain(4), Busy(6)>>, <<Drive(1), Hidden(2), Drive(5)>>}

MCUninitialised == {0, 5, 171}
MCAll == Platforms
=============================================================================
