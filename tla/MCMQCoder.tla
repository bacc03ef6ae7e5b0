-------------------------------- MODULE MCMQCoder --------------------------------
EXTENDS MQCoder

\* States as in states.go, with probabilities that fit: four that adapt, for each
\* symbol, and the even one that does not.
MCTable ==
    LET q == <<86, 52, 24, 5>>
        row(i, mps) == [qeval |-> q[i], mps |-> mps,
                        nmps |-> 2 * (IF i < 4 THEN i ELSE i - 1) + mps,
                        nlps |-> IF i = 1 THEN 1 - mps ELSE 2 * (i - 2) + mps]
    IN  [s \in 0 .. 8 |-> IF s = 8 THEN [qeval |-> 86, mps |-> 0, nmps |-> 8, nlps |-> 8]
                                   ELSE row(s \div 2 + 1, s % 2)]
MCInitial == [uni |-> 8, zc |-> 4, agg |-> 0]

\* A code-block with these many decisions in its passes; those that are not named
\* have none.
MCBlock(numbps, style, x, least, most, cuts) ==
    LET count(f) == [p \in 1 .. NumPasses(numbps) |-> IF p <= Len(f) THEN f[p] ELSE 0]
    IN  [numbps |-> numbps, style |-> style, contexts |-> {x},
         least |-> count(least), most |-> count(most), cuts |-> cuts]

Quiet == <<0, 0, 0, 0, 0, 0, 0, 0, 0>>
MCBlocks ==
    {MCBlock(1, {}, x, <<1>>, <<11>>, {1}) : x \in {"uni", "zc"}}
      \cup {MCBlock(2, {}, "agg", <<4, 3, 0, 2>>, <<4, 3, 0, 2>>, 1 .. 4)}
      \cup {MCBlock(2, style, "uni", <<2, 1, 0, 1>>, <<3, 1, 2, 1>>, 1 .. 4) :
               style \in {{"termall"}, {"pterm"}, {"pterm", "termall", "reset"}, {"segsym"}}}
      \cup {MCBlock(5, style, "uni", <<2>> \o Quiet \o <<0, 0, 1>>, <<2>> \o Quiet \o c, {11, 12, 13}) :
               style \in {{"lazy"}, {"lazy", "pterm"}}, c \in {<<3, 2, 1>>, <<7, 0, 1>>}}
================================================================================
