----------------------------- MODULE MC_VAScan -----------------------------
EXTENDS VAScan

MCValues == 0..2
MCGarbage == {0}
MCWideValues == 0..6
\* no bitmap, or one restricting the scan to tuples 1 and 3
MCInputs == {{}, {1, 3}}
MCNoInput == {{}}

\* norm arguments: a numeric node, a numeral, 'max' and a rejected 100
NormArg(kind, text, len, num) == [kind |-> kind, text |-> text, len |-> len, num |-> num]
MCNormL1 == {NormArg("Integer", "", 0, 1)}
MCNormL2Max == {NormArg("String", "2", 1, 2), NormArg("String", "max", 3, 0),
                NormArg("Integer", "", 0, 100)}

=============================================================================
