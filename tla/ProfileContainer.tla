------------------------- MODULE ProfileContainer --------------------------
(***************************************************************************)
(* The profile screen container of the mobile client, Profile.tsx: the     *)
(* profile fetch started by the credentials effect, by leaving edit mode   *)
(* and by pull-to-refresh (_getUserProfileData, two awaits), and the       *)
(* profile update flow (_handlePressUpdate, the secure-key prompt,         *)
(* _updateProfile and its broadcast).  The ledger holds each user's        *)
(* profile metadata; the app's login state is the environment.            *)
(***************************************************************************)
EXTENDS Naturals, FiniteSets

CONSTANTS
    Users,        \* account names that can log in
    Metas,        \* profile metadata values
    NoUser,       \* the username of logged-out credentials
    NoData,       \* null profileData / profileParams / no broadcast
    Fetches,      \* slots for concurrent _getUserProfileData calls
    PostsMayFail  \* whether fetchPosts may reject

KeyTypes == {"posting", "active"}

ASSUME ProfileAssumption ==
    /\ IsFiniteSet(Fetches) /\ Users # {} /\ Metas # {}
    /\ NoUser \notin Users
    /\ NoData \notin Metas
    /\ PostsMayFail \in BOOLEAN

VARIABLES
    cred,           \* authState.currentCredentials: [user, key]
    chain,          \* chain[u]: u's profile metadata on the ledger
    profileData,    \* the profileData state
    fetching,       \* the fetching state
    profileFetched, \* the profileFetched state
    refreshing,     \* the refreshing state
    editMode,       \* the editMode state
    updating,       \* the updating state
    showSecureKey,  \* the showSecureKey state
    profileParams,  \* the profileParams state
    fetch,          \* fetch[f]: one in-flight _getUserProfileData call
    bcast           \* the in-flight broadcastProfileUpdate call, or NoData

vars == <<cred, chain, profileData, fetching, profileFetched, refreshing,
          editMode, updating, showSecureKey, profileParams, fetch, bcast>>

Profile == [owner : Users, meta : Metas]

FetchPCs == {"idle", "profile", "posts", "done"}

Fetch == [pc : FetchPCs, author : Users \cup {NoUser},
          read : Metas \cup {NoData}, refresh : BOOLEAN]

Broadcast == [user : Users, params : Metas, key : KeyTypes,
              base : Profile \cup {NoData}]

LoggedIn == cred.user # NoUser

\* _getUserProfileData(author) up to its first await, in slot f.
StartFetch(f, author, isRefresh) ==
    /\ fetch[f].pc \in {"idle", "done"}
    /\ fetching' = TRUE
    /\ fetch' = [fetch EXCEPT ![f] = [pc |-> "profile", author |-> author,
                                      read |-> NoData, refresh |-> isRefresh]]

\* The effect on [editMode]: a fetch when edit mode has been left, the
\* profile is shown and no fetch is running.
EditEffect(oldEdit, newEdit, data) ==
    IF oldEdit /\ ~newEdit /\ data # NoData /\ ~fetching
    THEN \E f \in Fetches : StartFetch(f, cred.user, FALSE)
    ELSE UNCHANGED <<fetching, fetch>>

-----------------------------------------------------------------------------

Init ==
    /\ cred = [user |-> NoUser, key |-> "posting"]
    /\ chain \in [Users -> Metas]
    /\ profileData = NoData
    /\ fetching = FALSE
    /\ profileFetched = FALSE
    /\ refreshing = FALSE
    /\ editMode = FALSE
    /\ updating = FALSE
    /\ showSecureKey = FALSE
    /\ profileParams = NoData
    /\ fetch = [f \in Fetches |->
                  [pc |-> "idle", author |-> NoUser, read |-> NoData,
                   refresh |-> FALSE]]
    /\ bcast = NoData

\* New credentials (login, account switch, key change) and the effect on
\* [authState.currentCredentials]: it fetches only when no fetch is running.
CredentialsChange ==
    /\ \E u \in Users \cup {NoUser}, k \in KeyTypes :
          /\ cred' = [user |-> u, key |-> k]
          /\ IF u # NoUser /\ ~fetching
             THEN /\ \E f \in Fetches : StartFetch(f, u, FALSE)
                  /\ profileFetched' = FALSE
             ELSE UNCHANGED <<fetching, fetch, profileFetched>>
    /\ UNCHANGED <<chain, profileData, refreshing, editMode, updating,
                   showSecureKey, profileParams, bcast>>

\* The ledger serves getUserProfileData: it reads the author's metadata.
ProfileRead(f) ==
    /\ fetch[f].pc = "profile" /\ fetch[f].read = NoData
    /\ fetch[f].author # NoUser
    /\ fetch' = [fetch EXCEPT ![f].read = chain[fetch[f].author]]
    /\ UNCHANGED <<cred, chain, profileData, fetching, profileFetched,
                   refreshing, editMode, updating, showSecureKey,
                   profileParams, bcast>>

\* Seeded fault for TypeOK: the !_profileData check dropped, so whatever
\* getUserProfileData gave (nothing, for an undefined author) is stored.
ProfileReturnsNoCheck(f) ==
    LET c == fetch[f] IN
    /\ c.pc = "profile"
    /\ profileData' = [owner |-> c.author, meta |-> c.read]
    /\ fetch' = [fetch EXCEPT ![f].pc = "posts"]
    /\ UNCHANGED <<profileFetched, fetching, refreshing, cred, chain, editMode,
                   updating, showSecureKey, profileParams, bcast>>

\* getUserProfileData settles: no data ends the call (and a refresh that
\* awaited it); otherwise profileData is set and fetchPosts is awaited.
ProfileReturns(f) ==
    LET c == fetch[f] IN
    /\ c.pc = "profile"
    /\ \/ /\ profileFetched' = FALSE
          /\ fetching' = FALSE
          /\ refreshing' = (refreshing /\ ~c.refresh)
          /\ fetch' = [fetch EXCEPT ![f].pc = "done"]
          /\ UNCHANGED profileData
       \/ /\ c.read # NoData
          /\ profileData' = [owner |-> c.author, meta |-> c.read]
          /\ fetch' = [fetch EXCEPT ![f].pc = "posts"]
          /\ UNCHANGED <<profileFetched, fetching, refreshing>>
    /\ UNCHANGED <<cred, chain, editMode, updating, showSecureKey,
                   profileParams, bcast>>

\* fetchPosts settles.  A rejection escapes _getUserProfileData, leaving
\* fetching (and a refresh's refreshing) set.
PostsReturns(f) ==
    LET c == fetch[f] IN
    /\ c.pc = "posts"
    /\ fetch' = [fetch EXCEPT ![f].pc = "done"]
    /\ \/ /\ profileFetched' = TRUE
          /\ fetching' = FALSE
          /\ refreshing' = (refreshing /\ ~c.refresh)
       \/ /\ PostsMayFail
          /\ UNCHANGED <<profileFetched, fetching, refreshing>>
    /\ UNCHANGED <<cred, chain, profileData, editMode, updating,
                   showSecureKey, profileParams, bcast>>

\* _refreshPosts: pull-to-refresh on the profile screen, with no guard.
RefreshPosts ==
    /\ ~editMode /\ profileData # NoData
    /\ refreshing' = TRUE
    /\ \E f \in Fetches : StartFetch(f, cred.user, TRUE)
    /\ UNCHANGED <<cred, chain, profileData, profileFetched, editMode,
                   updating, showSecureKey, profileParams, bcast>>

\* _handlePressEdit.
PressEdit ==
    /\ ~editMode /\ profileData # NoData
    /\ editMode' = TRUE
    /\ UNCHANGED <<cred, chain, profileData, fetching, profileFetched,
                   refreshing, updating, showSecureKey, profileParams,
                   fetch, bcast>>

\* _handlePressCancelUpdate, then the edit-mode effect.
CancelEdit ==
    /\ editMode /\ ~showSecureKey /\ profileData # NoData
    /\ editMode' = FALSE
    /\ EditEffect(editMode, FALSE, profileData)
    /\ UNCHANGED <<cred, chain, profileData, profileFetched, refreshing,
                   updating, showSecureKey, profileParams, bcast>>

\* _handlePressUpdate from the edit form (which shows the updating
\* spinner): a posting-key login is sent to the secure-key prompt, an
\* active-key login broadcasts with _updateProfile.
PressUpdate ==
    /\ editMode /\ ~showSecureKey /\ profileData # NoData
    /\ LoggedIn /\ ~updating
    /\ \E p \in Metas :
          /\ updating' = TRUE
          /\ profileParams' = p
          /\ IF cred.key = "posting"
             THEN showSecureKey' = TRUE /\ UNCHANGED bcast
             ELSE /\ bcast' = [user |-> cred.user, params |-> p,
                               key |-> cred.key, base |-> profileData]
                  /\ UNCHANGED showSecureKey
    /\ UNCHANGED <<cred, chain, profileData, fetching, profileFetched,
                   refreshing, editMode, fetch>>

\* _handleSecureKeyResult with an accepted active key.
SecureKeyAccepted ==
    /\ editMode /\ showSecureKey /\ LoggedIn
    /\ showSecureKey' = FALSE
    /\ bcast' = [user |-> cred.user, params |-> profileParams,
                 key |-> "active", base |-> profileData]
    /\ UNCHANGED <<cred, chain, profileData, fetching, profileFetched,
                   refreshing, editMode, updating, profileParams, fetch>>

\* _cancelSecureKey.
CancelSecureKey ==
    /\ editMode /\ showSecureKey
    /\ showSecureKey' = FALSE
    /\ updating' = FALSE
    /\ UNCHANGED <<cred, chain, profileData, fetching, profileFetched,
                   refreshing, editMode, profileParams, fetch, bcast>>

\* broadcastProfileUpdate settles.  On success the ledger holds the new
\* metadata and profileData is rebuilt from the profileData captured when
\* _updateProfile was called.  Edit mode is left, and its effect runs.
BroadcastReturns ==
    /\ bcast # NoData
    /\ \/ /\ chain' = [chain EXCEPT ![bcast.user] = bcast.params]
          /\ profileData' = [owner |-> bcast.base.owner,
                             meta |-> bcast.params]
       \/ UNCHANGED <<chain, profileData>>
    /\ editMode' = FALSE
    /\ updating' = FALSE
    /\ bcast' = NoData
    /\ EditEffect(editMode, FALSE, profileData')
    /\ UNCHANGED <<cred, profileFetched, refreshing, showSecureKey,
                   profileParams>>

Next ==
    \/ CredentialsChange \/ RefreshPosts \/ PressEdit \/ CancelEdit
    \/ PressUpdate \/ SecureKeyAccepted \/ CancelSecureKey
    \/ BroadcastReturns
    \/ \E f \in Fetches : ProfileRead(f) \/ ProfileReturns(f) \/ PostsReturns(f)

Spec == Init /\ [][Next]_vars

-----------------------------------------------------------------------------
(* Properties.                                                             *)

TypeOK ==
    /\ cred \in [user : Users \cup {NoUser}, key : KeyTypes]
    /\ chain \in [Users -> Metas]
    /\ profileData \in Profile \cup {NoData}
    /\ {fetching, profileFetched, refreshing, editMode, updating,
        showSecureKey} \subseteq BOOLEAN
    /\ profileParams \in Metas \cup {NoData}
    /\ fetch \in [Fetches -> Fetch]
    /\ bcast \in Broadcast \cup {NoData}

\* Once no fetch and no broadcast is outstanding, the profile shown is the
\* logged-in user's profile as the ledger holds it: the credentials effect
\* and the refetch after an update are meant to keep it so.
ProfileShowsChain ==
    (/\ LoggedIn /\ profileData # NoData /\ bcast = NoData
     /\ \A f \in Fetches : fetch[f].pc \in {"idle", "done"})
    => profileData = [owner |-> cred.user, meta |-> chain[cred.user]]

=============================================================================
