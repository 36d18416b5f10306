\* Every stage of the pipeline, two concurrent requests, budget of one upload.
CONSTANTS
    r1 = r1  r2 = r2  r3 = r3  r4 = r4  alice = alice  bob = bob  badname = badname
    kPosting = kPosting  kActive = kActive  kEve = kEve  kBogus = kBogus
    img1 = img1  img2 = img2  sigMalformed = sigMalformed  unset = unset
    Requests <- MCRequests2
    Names <- MCNames
    ValidNames <- MCValidNames
    Accounts <- MCAccounts2
    Keys <- MCKeys
    AuthKey <- MCAuthKey2
    BogusKey <- kBogus
    Images <- MCImages
    ImgSize <- MCImgSize
    Types <- MCTypes
    Envelopes <- MCEnvelopes
    Sigs <- MCSigs
    Malformed <- sigMalformed
    Unset <- unset
    MaxJsonBody <- unset
    MaxImageSize <- MCMaxImageSize
    Points = 1
    Cost = 1
    MaxEpoch = 1
SPECIFICATION Spec
SYMMETRY MCSymmetry2
INVARIANTS TypeOK QuotaRespected OkImpliesAuthentic
PROPERTIES NoWriteWithoutCharge Refinement
CHECK_DEADLOCK FALSE
