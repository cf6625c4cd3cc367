----------------------------- MODULE MCObjects -----------------------------
(* Two units of one template, the player and another.                      *)
EXTENDS Objects

CONSTANTS self, ann, wolf, cub, beast

MCEntry == [g \in Units |-> beast]

=============================================================================
