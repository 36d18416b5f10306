--------------------------- MODULE MCImageUpload ---------------------------
(***************************************************************************)
(* Small instances of ImageUpload for TLC.  One existing account alice     *)
(* whose active and owner authorities share a key, a syntactically valid   *)
(* name bob that is not on chain, and a name nobody may hold.  Two images: *)
(* one within MAX_IMAGE_SIZE_IN_BYTES and one over it.                     *)
(***************************************************************************)
EXTENDS ImageUpload, TLC

CONSTANTS r1, r2, r3, r4, alice, bob, badname, kPosting, kActive, kEve, kBogus,
          img1, img2, sigMalformed, unset

MCRequests2 == {r1, r2}
MCRequests3 == {r1, r2, r3}
MCRequests4 == {r1, r2, r3, r4}
MCNames == {alice, bob, badname}
MCAliceOnly == {alice}
MCValidNames == {alice, bob}
MCAccounts == {alice}
\* Two accounts: bob's every authority holds kEve, the outsider key for alice.
MCAccounts2 == {alice, bob}
MCKeys == {kPosting, kActive, kEve}
MCAuthKey == [a \in {alice} |->
                [posting |-> kPosting, active |-> kActive, owner |-> kActive]]
MCAuthKey2 == [a \in {alice, bob} |->
                 IF a = alice
                 THEN [posting |-> kPosting, active |-> kActive, owner |-> kActive]
                 ELSE [posting |-> kEve, active |-> kEve, owner |-> kEve]]
MCImages == {img1, img2}
MCImgSize == [i \in MCImages |-> IF i = img1 THEN 2 ELSE 5]
MCTypes == {"png", "webp", "svg+xml"}
MCMaxImageSize == 4

\* Every way a request body can fail or pass decoding.
MCEnvelopes ==
    {[type |-> "png", comma |-> TRUE, img |-> img1],
     [type |-> "webp", comma |-> TRUE, img |-> img1],
     [type |-> "png", comma |-> TRUE, img |-> img2],
     [type |-> "svg+xml", comma |-> TRUE, img |-> img1],
     [type |-> "png", comma |-> FALSE, img |-> img1]}

\* Only well-formed bodies: used where the question is the rate limiter.
MCGoodEnvelopes ==
    {[type |-> "png", comma |-> TRUE, img |-> img1],
     [type |-> "webp", comma |-> TRUE, img |-> img1]}

\* Signatures by alice's two keys and by an outsider, over img1, over img2,
\* and a malformed one.
MCSigs ==
    {[signer |-> kPosting, msg |-> img1], [signer |-> kActive, msg |-> img1],
     [signer |-> kEve, msg |-> img1], [signer |-> kPosting, msg |-> img2],
     sigMalformed}

MCGoodSigs == {[signer |-> kPosting, msg |-> img1], [signer |-> kEve, msg |-> img1]}

MCSymmetry2 == Permutations(MCRequests2)
MCSymmetry3 == Permutations(MCRequests3)
MCSymmetry4 == Permutations(MCRequests4)
=============================================================================
