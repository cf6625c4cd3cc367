--------------------------- MODULE MCWowStreamer ---------------------------
(***************************************************************************)
(* Instances of WowStreamer for TLC.  The main one has two tiles side by   *)
(* side and a place beyond them: a city and a tree stand on their border   *)
(* and both list them.  The other map has one building, under an id that   *)
(* the first uses too, and a tile that does not load.                      *)
(***************************************************************************)
EXTENDS WowStreamer

Pair   == {<<x, 0>> : x \in 0 .. 1}
Places == {<<x, 0>> : x \in 0 .. 2}

PairMaps == [m \in Maps |-> Pair]

PairPlacements ==
    [m \in Maps |-> [t \in Pair |->
        IF m = "cave" THEN {"city"} ELSE {"city", "tree"}]]

CaveBad == {<<"cave", <<1, 0>>>>}

=============================================================================
