----------------------------- MODULE MCArchiver -----------------------------
(***************************************************************************)
(* A card with two photos; the same card, both overwritten without a trace *)
(* in their metadata, so that a copy may be a mixture that no card had;    *)
(* and another card with a photo that looks alike.                         *)
(***************************************************************************)
EXTENDS PhotoArchiver

TwoPhotos   == [volume |-> "v1", photos |-> [i \in 1..2 |-> [meta |-> "m", data |-> "d"]]]
Overwritten == [TwoPhotos EXCEPT !.photos[1].data = "x", !.photos[2].data = "x"]
Lookalike   == [volume |-> "v2", photos |-> [i \in 1..1 |-> [meta |-> "m", data |-> "y"]]]

ArchiverCards == {TwoPhotos, Overwritten, Lookalike}

=============================================================================
