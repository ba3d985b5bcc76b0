------------------------------ MODULE MCMePool ------------------------------
(* Instances of MePool for TLC.                                            *)
EXTENDS MePool, TLC

\* Sessions and writers are interchangeable: nothing orders their ids.
Symmetry == Permutations(Conns) \cup Permutations(Writers)

\* Bound: either sessions share one writer that is not drained, or writers come
\* and go without a session: two of which one is drained, or one marked twice.
SharedOrDrained ==
    LET drained == {w \in Writers : draining[w] # "no"}
        marked  == {m \in Writers \X Marks : drain[m] # "none"}
    IN \/ Cardinality(born) <= 1 /\ drained = {}
       \/ /\ \A c \in Conns : sess[c] = "new"
          /\ Cardinality(drained) <= 1
          /\ Cardinality(born) + Cardinality(marked) <= 3
=============================================================================
