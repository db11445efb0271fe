--------------------------- MODULE MCAtomicTable ---------------------------
EXTENDS AtomicTable, TLC

CONSTANTS a, b, c, p, q

MCJobs == {a, b, c}
MCTwoJobs == {a, b}
MCParts == {p, q}
MCOnePart == {p}

JobSymmetry == Permutations(MCJobs) \cup Permutations(MCParts)
=============================================================================
