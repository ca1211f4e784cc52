----------------------------- MODULE MCDeckEdits ------------------------------
(* Two sessions over two decks, a red card in the mainboard and a blue one *)
(* in the sideboard.                                                       *)
EXTENDS DeckEdits, TLC

CONSTANTS redMain, blueSide, red, blue, s1, s2, d1, d2

MCSlot == {redMain, blueSide}
MCColoursOf ==
    [x \in MCSlot |-> IF x = redMain THEN {red} ELSE {blue}]
Sessions == {s1, s2}
Decks == {d1, d2}
Symmetry == Permutations(Sessions) \cup Permutations(Decks)
=============================================================================
