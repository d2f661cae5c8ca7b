--------------------------- MODULE MCMaskCommand ----------------------------
(* Three rules of the kinds the built-in ones are of: a key that holds its *)
(* keyword (destroyed), a name behind a noun in any case (the k8s rules),  *)
(* and a run of mixed symbols without a keyword.                           *)
EXTENDS MaskCommand

CONSTANTS key, noun, Noun, blank, x, y, left, right, inert

MCRules == <<
    [type |-> "key", symbols |-> {key, x, y}, words |-> {key}, keys |-> {key}, behind |-> FALSE,
     span |-> 3, varied |-> FALSE, destroy |-> TRUE],
    [type |-> "name", symbols |-> {noun, x, y}, words |-> {noun, Noun}, keys |-> {noun}, behind |-> TRUE,
     span |-> 1, varied |-> FALSE, destroy |-> FALSE],
    [type |-> "hex", symbols |-> {x, y}, words |-> {}, keys |-> {}, behind |-> FALSE,
     span |-> 3, varied |-> TRUE, destroy |-> FALSE]>>

(* Every short text for the keys, for the names, and with literal and      *)
(* escaped tokens; and two nouns with a name each.                         *)
MCInputs ==
    UNION {SeqOf({key, x, y}, 5), SeqOf({noun, blank, x}, 5),
           SeqOf({key, noun, Noun, blank, x}, 4), SeqOf({noun, x, left, right, inert}, 4),
           {<<p, blank, x, blank, q, blank, y>> : p \in {noun, Noun, y}, q \in {noun, Noun}}}

MCLiteral == [type |-> "name", text |-> <<y>>]

(* One word the writer can remember but for its last symbol, one it cannot. *)
MCDenyList == {<<Raw(x), Raw(x), Raw(x)>>, <<Raw(noun), Raw(noun), Raw(noun), Raw(noun)>>}
=============================================================================
