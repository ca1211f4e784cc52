------------------------------- MODULE MCPanels -------------------------------
(* Two kinds of view, four arrivals at a history of two, one card that     *)
(* both kinds name and the empty id that one of them names by mistake.     *)
EXTENDS Panels

CONSTANTS suggestions, swaps, island, blank, gone

MCKind == {suggestions, swaps}
MCCard == {island, blank}
MCCardsOf == (suggestions :> {island, blank}) @@ (swaps :> {island})
MCInstant == 1 .. 3
=============================================================================
