---------------------------- MODULE MCThumbnails ----------------------------
(* Small instances of Thumbnails for TLC.                                   *)
EXTENDS Thumbnails, TLC

CONSTANTS r1, r2, r3, w1, w2, jpg, gif, raw, txt

MCInodes == 1..14

TwoRequests == {r1, r2}
ThreeRequests == {r1, r2, r3}

ImageTypes == jpg :> "jpeg" @@ gif :> "gif" @@ raw :> "raw" @@ txt :> "unsupported"
ImageSizes == jpg :> 5 @@ gif :> 5 @@ raw :> 5 @@ txt :> 5

JpgOnly == {jpg}
AllFiles == {jpg, gif, raw, txt}

(* Calls of the same kind and workers are interchangeable.                  *)
TwoSymmetric == Permutations(TwoRequests) \cup Permutations({w1, w2})
ThreeSymmetric == Permutations(ThreeRequests) \cup Permutations({w1, w2})

=============================================================================
