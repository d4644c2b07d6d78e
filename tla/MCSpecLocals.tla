---------------------------- MODULE MCSpecLocals ----------------------------
EXTENDS SpecLocals, FiniteSets
CONSTANTS MaxArgs, MaxCaptures, MaxTemps
MCArgCounts == 0 .. MaxArgs
MCCaptureCounts == 0 .. MaxCaptures
MCTempCounts == 1 .. MaxTemps
\* All paths of up to two elements, and those of three that start as a
\* captured variable does.
Elems == {Deref, 0, 1}
MCProjections == {<<>>} \union {<<e>> : e \in Elems}
                        \union {<<e, f>> : e, f \in Elems}
                        \union {<<Deref, 0, e>> : e \in Elems}
=============================================================================
