------------------------------- MODULE MCBloom -------------------------------
EXTENDS Bloom

CONSTANTS f1, f2, c1, c2, a, b, c

\* All callers share the first filter.
MCUses == [k \in Callers |-> f1]

\* Neighbours share a bit, and a and c together pass for b.
MCPositions == [i \in Items |-> CASE i = a -> {1, 2} [] i = b -> {2, 3} [] i = c -> {3, 4}]

MCBatches == {<<a, b>>, <<c, a, b>>}

\* An older version has stored one item as an array of Booleans.
MCPrevious == {[format |-> "legacy", bits |-> {1, 2}, count |-> 1]}
=============================================================================
