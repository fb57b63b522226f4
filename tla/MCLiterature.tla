---------------------------- MODULE MCLiterature ----------------------------
(* The chain of three copies of one work, read by several calls at once. *)
EXTENDS Literature, TLC

CONSTANTS d1, d2, d3, i1, i2, i3

CopyIds == d1 :> {i1} @@ d2 :> {i1, i2} @@ d3 :> {i2, i3}
CopyUrls == d1 :> {i1} @@ d2 :> {i2} @@ d3 :> {i3}
CopyMentions == d1 :> {} @@ d2 :> {} @@ d3 :> {i1, i3}
=============================================================================
