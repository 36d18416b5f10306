\* GET / against the rate-limit table.
CONSTANTS
    r1 = r1  r2 = r2  r3 = r3  r4 = r4  alice = alice  bob = bob  badname = badname
    kPosting = kPosting  kActive = kActive  kEve = kEve  kBogus = kBogus
    img1 = img1  img2 = img2  sigMalformed = sigMalformed  unset = unset
    Requests <- MCRequests2
    Names <- MCAliceOnly
    ValidNames <- MCAliceOnly
    Accounts <- MCAccounts
    Keys <- MCKeys
    AuthKey <- MCAuthKey
    BogusKey <- kBogus
    Images <- MCImages
    ImgSize <- MCImgSize
    Types <- MCTypes
    Envelopes <- MCGoodEnvelopes
    Sigs <- MCGoodSigs
    Malformed <- sigMalformed
    Unset <- unset
    MaxJsonBody <- unset
    MaxImageSize <- MCMaxImageSize
    Points = 1
    Cost = 1
    MaxEpoch = 1
SPECIFICATION Spec
SYMMETRY MCSymmetry2
CHECK_DEADLOCK FALSE
PROPERTY QuotaClearedOnlyByExpiry
