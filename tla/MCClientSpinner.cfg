\* Against the real server's replies the spinner can stay on for ever.
CONSTANTS
    c1 = c1
    c2 = c2
    p1 = p1
    p2 = p2
    noPhoto = noPhoto
    Calls <- MCCalls
    Photos <- MCPhotos
    NoPhoto <- noPhoto
    Replies <- MCServerReplies
    SignResults <- MCSignOk
SPECIFICATION FairSpec
CHECK_DEADLOCK FALSE
PROPERTY SpinnerClears
