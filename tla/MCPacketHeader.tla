---------------------------- MODULE MCPacketHeader ----------------------------
(***************************************************************************)
(* Precincts of one to three code-blocks in one or two bands, two or three  *)
(* layers, every code-block style: code-blocks that come late or never,     *)
(* that pause, passes across the terminations, long and empty passes, tag   *)
(* trees of one to three levels.                                            *)
(***************************************************************************)
EXTENDS PacketHeader

\* A code-block: lens its passes' lengths.
Blk(zero, lens, trial, layers) ==
    [zero |-> zero, lens |-> lens, trial |-> trial, layers |-> layers]

Band(w, h, blocks) == [w |-> w, h |-> h, blocks |-> blocks]

\* Lengths 1, 9, 0, 2 in turn.
Mixed(n) == [i \in 1 .. n |-> <<1, 9, 0, 2>>[(i % 4) + 1]]

Early == Blk(0, Mixed(7), <<1, 6, 0>>, <<2, 0, 5>>)
Late == Blk(2, <<0, 17, 1, 4>>, <<0, 3, 0>>, <<0, 1, 2>>)
Never == Blk(1, <<3>>, <<0, 1, 0>>, <<0, 0, 0>>)

Small(style, eph) ==
    [style |-> style, eph |-> eph,
     bands |-> <<Band(2, 1, <<Late, Early>>), Band(1, 1, <<Blk(3, <<2, 5, 1, 0>>, <<2, 0, 0>>, <<1, 1, 0>>)>>)>>]

Wide(style) ==
    [style |-> style, eph |-> FALSE, bands |-> <<Band(3, 1, <<Never, Late, Early>>)>>]

\* Past the tenth pass, where the bypass begins.
Long(style) ==
    [style |-> style, eph |-> FALSE,
     bands |-> <<Band(1, 2, <<Blk(1, Mixed(16), <<10, 5>>, <<9, 5>>), Blk(1, Mixed(13), <<0, 13>>, <<0, 13>>)>>)>>]

\* More passes than the shorter codes hold.
Many ==
    [style |-> "plain", eph |-> FALSE,
     bands |-> <<Band(1, 1, <<Blk(0, [i \in 1 .. 46 |-> IF i = 40 THEN 30 ELSE 0], <<6, 37>>, <<37, 8>>)>>)>>]

MCInputs ==
    {Small(s, e) : s \in {"plain", "termall"}, e \in BOOLEAN}
        \union {Wide(s) : s \in {"plain", "termall"}}
        \union {Long(s) : s \in {"lazy", "plain"}} \union {Many}
===============================================================================
