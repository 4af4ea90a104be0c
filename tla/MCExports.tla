------------------------------- MODULE MCExports -------------------------------
(* Two programs; two keys that decode to one place, and one of another       *)
(* mission's.                                                                *)
EXTENDS Exports, TLC

MCPlaceOf == ("a" :> <<1, 5>>) @@ ("alias of a" :> <<1, 5>>) @@ ("b" :> <<2, 5>>)
MCKeys == DOMAIN MCPlaceOf
MCMosaicOrder ==
    [i \in 1..6 |-> <<"mosaic", (i + 2) \div 3,
                      <<"composite", "floor-rgba", "surface-rgb">>[((i - 1) % 3) + 1]>>]
MCSorted ==
    [S \in SUBSET {MCMosaicOrder[i] : i \in 1..6} |->
        SelectSeq(MCMosaicOrder, LAMBDA f : f \in S)]
MCWebpOrder == <<<<"webp", 1>>, <<"webp", 2>>>>
MCImages == {MCMosaicOrder[i] : i \in 1..6} \cup {MCWebpOrder[i] : i \in 1..2}
Symmetry == Permutations(Programs)
==============================================================================
