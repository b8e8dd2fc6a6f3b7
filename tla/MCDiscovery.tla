----------------------------- MODULE MCDiscovery -----------------------------
(* Small sources for Discovery: sectors of 2, 3 or 4 units, scans of 2      *)
(* sectors from the start and of 6 at the end, up to two locators and two   *)
(* blocks. The offset 30 lies behind the end of every source.               *)
EXTENDS Discovery, TLC

Locator(kind, info, eow) == [kind |-> kind, info |-> info, eow |-> eow]

MCLocators ==
  { Locator("info", <<5, 0, 6>>, <<0, 0>>),
    Locator("info", <<-3, 30, 6>>, <<0, 0>>),
    Locator("eow", <<6, 30, 0>>, <<0, 5>>),
    Locator("eow", <<0, 0, 0>>, <<3, 5>>) }

Positions == {1, 2, 7, 8, 11}

(* No locator, one, or two. *)
MCPlacements ==
  UNION { [ps -> MCLocators] : ps \in {qs \in SUBSET Positions : Cardinality(qs) <= 2} }

(* The header at 3 claims more than any source has. *)
MCEows == (3 :> [size |-> 1, version |-> 2]) @@ (5 :> [size |-> 2, version |-> 1])

Image(len, size, bpb, shift, raw, locators, blocks) ==
  [len |-> len, size |-> size, hasSize |-> 0, bpb |-> bpb, shift |-> shift,
   perCluster |-> 0, clusterShift |-> 1, raw |-> raw, locators |-> locators,
   blocks |-> blocks, eows |-> MCEows]

MCBlocks == { (5 :> "bad") @@ (6 :> "good"), (5 :> "good") @@ (6 :> "good"), (6 :> "bad"),
              (0 :> "good") @@ (5 :> "bad") }

MCImages ==
  { Image(len, size, sizes[1], sizes[2], <<0, 0, 0>>, locators, blocks) :
      len \in {7, 8, 10, 13}, size \in {0, 10, 13},
      sizes \in {<<2, 2>>, <<4, 4>>, <<0, 4>>, <<2, 4>>, <<0, 0>>, <<3, 0>>, <<4, 3>>},
      locators \in MCPlacements, blocks \in MCBlocks }
  \union
  { [Image(len, 0, 0, 0, raw, locators, blocks) EXCEPT !.hasSize = hasSize,
                                            !.perCluster = per, !.clusterShift = shift] :
      len \in {8, 13}, hasSize \in {0, 13}, raw \in {0, 3, 6} \X {0, 1} \X {0, 5},
      locators \in { <<>> } \union [{2} -> MCLocators],
      blocks \in MCBlocks, per \in {0, 3}, shift \in {0, 26} }

(* The three metadata blocks of an image whose boot sector has their offsets. *)
BootSectorImages ==
  { Image(13, size, 2, 2, <<5, 6, 9>>, <<>>, [at \in {5, 6, 9} |-> "good"]) : size \in {0, 13} }
=============================================================================
