----------------------------- MODULE MCEditEngine -----------------------------
EXTENDS EditEngine

CONSTANTS p1, p2, new, dir, out

MCNone == {}
MCOut == {out}
MCFiles == {p1, p2}
MCSecond == {p2}
MCFilesAndNew == {p1, p2, new}
MCFilesAndDir == {p1, p2, dir}
MCNoDirs == [a \in {} |-> {}]
MCBelowDir == [a \in {dir} |-> {p1, p2}]
==============================================================================
