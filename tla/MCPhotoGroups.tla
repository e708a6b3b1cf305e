---------------------------- MODULE MCPhotoGroups -----------------------------
(***************************************************************************)
(* Small instances of PhotoViews:  three images on a line of perceptual    *)
(* hashes, each at distance 2 from the next, and two without a hash of the *)
(* worker's own: the analyzer's is empty for d and parses for e, at        *)
(* distance 1 from a and 3 from b.                                         *)
(***************************************************************************)
EXTENDS PhotoViews

CONSTANTS a, b, c, d, e   \* images

MCBits == 1..4

MCHash == [i \in Images |-> CASE i = a -> {}
                              [] i = b -> {1, 2}
                              [] i = c -> {1, 2, 3, 4}
                              [] i = d -> {}
                              [] i = e -> {3}]
MCHashable == Images \ {d, e}
MCParsable == Images \ {d}

MCQuality == [i \in Images |-> IF i \in {a, c} THEN 200 ELSE 0]

MCSymmetry == Permutations(Photos) \cup Permutations(Workers) \cup Permutations(Owners \ {Anonymous})
===============================================================================
