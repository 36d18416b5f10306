\* The login and signature checks of _uploadPhoto do not stop the upload.
CONSTANTS
    c1 = c1
    c2 = c2
    p1 = p1
    p2 = p2
    noPhoto = noPhoto
    Calls <- MCCalls
    Photos <- MCPhotos
    NoPhoto <- noPhoto
    Replies <- MCAllReplies
    SignResults <- MCAllSignResults
SPECIFICATION Spec
SYMMETRY MCSymmetry
CHECK_DEADLOCK FALSE
INVARIANT NoUnsignedUpload
