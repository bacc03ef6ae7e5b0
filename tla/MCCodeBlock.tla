------------------------------- MODULE MCCodeBlock -------------------------------
EXTENDS CodeBlock

\* Values have one bit of fraction. One wide and five high: a stripe of four, and one
\* of a row; then stripes that see each other's corners, and columns next to each other.
MCBlock(w, h, style, roi, values) == [w |-> w, h |-> h, style |-> style, roi |-> roi, values |-> values]
MCBlocks ==
    {MCBlock(1, 5, style, 0, {-7, 0, 1, 4}) : style \in {{}, {"vsc"}}}
      \cup {MCBlock(2, 4, {"segsym"}, 0, {0, -5}), MCBlock(2, 3, {}, 0, {0, 3, -4}),
            MCBlock(3, 2, {"vsc"}, 0, {0, -2, 5})}
      \cup {MCBlock(2, 5, style, 0, {0, -6}) : style \in {{}, {"vsc"}}}
      \cup {MCBlock(3, 1, style, 0, {-33, 0, 2, 35, -39}) : style \in {{"lazy"}, {"lazy", "termall"}}}
      \cup {MCBlock(2, 2, {}, 2, {0, 2, -3})}
==================================================================================
