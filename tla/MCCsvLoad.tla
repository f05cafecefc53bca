----------------------------- MODULE MCCsvLoad -----------------------------
EXTENDS CsvLoad

MCModes == {"rows", "cols", "frame"}
MCLists == {"rows"}
MCFiles == UNION {[1 .. k -> {"x", "n"}] : k \in 1 .. 7}

\* Files that end with the end of a line, without blank lines.
MCEnded ==
    {f \in MCFiles :
       /\ f[1] = "x" /\ f[Len(f)] = "n"
       /\ \A k \in 2 .. Len(f) : ~(f[k - 1] = "n" /\ f[k] = "n")}
============================================================================
