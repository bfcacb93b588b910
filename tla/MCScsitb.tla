------------------------------ MODULE MCScsitb ------------------------------
(* Command lines for Scsitb: words that are in the name of one device, of two *)
(* and of none, numbers at the ends of a byte and behind, missing arguments.   *)
EXTENDS Scsitb

Target_(n, toolbox) == [id |-> n, toolbox |-> toolbox, generic |-> TRUE, busy |-> FALSE]

MCBuses == {<<>>, <<Target_(1, FALSE), Target_(5, TRUE), Target_(3, TRUE)>>}

MCWords == {"info", "lsdir", "lsimg", "get", "debug", "put", "setimg", "-v", "-h",
            "sg3", "sg", "sg9", "file", "0", "1", "255", "256"}

\* sg is in every name, sg3 in one, sg9 in none.
MCNamed == [w \in MCWords |-> CASE w = "sg3" -> {3} [] w = "sg" -> 0..15 [] OTHER -> {}]

MCValue == [w \in MCWords |-> CASE w = "1" -> 1 [] w = "255" -> 255 [] w = "256" -> 256
                                [] OTHER -> 0]
MCSingle == {"0", "1"}

MCLines ==
    {<<>>, <<"-h">>, <<"info">>, <<"sg3">>, <<"sg3", "-h">>, <<"-v", "sg3", "lsdir">>,
     <<"sg3", "info">>, <<"sg9", "info">>,
     <<"sg3", "lsdir">>, <<"sg9", "lsdir">>,
     <<"sg", "lsimg">>, <<"sg3", "lsimg">>, <<"sg9", "lsimg">>,
     <<"sg3", "get">>, <<"sg3", "get", "file">>, <<"sg9", "put", "file">>,
     <<"sg", "put", "file">>,
     <<"sg3", "debug">>, <<"sg", "debug", "1">>, <<"sg3", "debug", "256">>,
     <<"sg3", "debug", "255">>, <<"sg9", "debug", "1">>,
     <<"sg3", "setimg", "1">>, <<"sg3", "setimg", "255">>, <<"sg", "setimg", "256">>}

MCEmulates == [n \in 0..15 |-> CASE n = 3 -> 2 [] n = 5 -> 255 [] OTHER -> 0]
MCInquiryByte == [n \in 0..15 |-> IF n = 3 THEN 37 ELSE n]
MCUninitialised == {3, 200}
MCAll == Platforms
=============================================================================
