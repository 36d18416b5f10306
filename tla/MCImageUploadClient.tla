------------------------ MODULE MCImageUploadClient ------------------------
(* Model-checking instance of ImageUploadClient: two concurrent flows, two *)
(* photos.                                                                 *)
EXTENDS ImageUploadClient, TLC

CONSTANTS c1, c2, p1, p2, noPhoto

MCCalls == {c1, c2}
MCPhotos == {p1, p2}

\* Every settlement the container distinguishes.
MCAllReplies == ReplyKinds
MCAllSignResults == SignKinds

\* What the upload server of index.js produces: a URL, or status 200 with
\* an error body for every check it makes.
MCServerReplies == {"url", "errorBody"}
MCSignOk == {"sig"}

MCSymmetry == Permutations(MCCalls) \cup Permutations(MCPhotos)
=============================================================================
