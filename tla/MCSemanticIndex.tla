--------------------------- MODULE MCSemanticIndex ---------------------------
EXTENDS SemanticIndex, TLC

Symmetry == Permutations(Card) \cup Permutations(Builder)
              \cup Permutations(Text) \cup Permutations(Filters)
=============================================================================
