------------------------ MODULE MCInvestigationPage ------------------------
(* Two pages and two investigations, of which one is remembered: the       *)
(* second evicts the first.                                                *)
EXTENDS InvestigationPage

CONSTANTS p1, p2

TwoPages == {p1, p2}
=============================================================================
