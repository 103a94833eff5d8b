----------------------------- MODULE MCWriteFS -----------------------------
(* Constants with which TLC checks WriteFS.                                *)
EXTENDS WriteFS

CONSTANTS d, f   \* two names, used at both levels

\* Paths of at most two components.
MCNames == {<<>>, <<d>>, <<f>>, <<d, d>>, <<d, f>>}

\* A directory with a file in it, as the embedded tree has.  What it holds no
\* echo prints.
MCBase == [p \in MCNames |-> IF p \in {<<>>, <<d>>} THEN Directory
                             ELSE IF p = <<d, f>> THEN File(<<"base", "base">>) ELSE Absent]
=============================================================================
