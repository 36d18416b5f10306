---------------------- MODULE ProfileContainerProofs ----------------------
(***************************************************************************)
(* Proofs about the profile screen of ProfileContainer.tsx for any number  *)
(* of users, metadata values and concurrent fetches: the state stays well  *)
(* typed whatever the order of logins, key changes, prompts and replies.  *)
(***************************************************************************)
EXTENDS ProfileContainer, TLAPS

USE ProfileAssumption

\* TypeOK strengthened so that one step preserves it: a broadcast in
\* flight was built from a profile on screen (BroadcastReturns reads its
\* owner); while the secure-key prompt is up, the parameters and the
\* profile it will broadcast are set; a fetch that read the ledger has an
\* author (ProfileReturns makes the profile from both).
ProfileInv ==
    /\ TypeOK
    /\ bcast # NoData => bcast.base \in Profile
    /\ showSecureKey => profileParams \in Metas /\ profileData \in Profile
    /\ \A f \in Fetches : fetch[f].read # NoData => fetch[f].author \in Users

\* Starting a fetch keeps the fetch slots and the flag well typed; the slot
\* it takes has not read the ledger yet, and the others are untouched.
LEMMA StartFetchType ==
    ASSUME TypeOK, NEW f \in Fetches, NEW a \in Users \cup {NoUser},
           NEW r \in BOOLEAN, StartFetch(f, a, r)
    PROVE  /\ fetch' \in [Fetches -> Fetch] /\ fetching' \in BOOLEAN
           /\ \A g \in Fetches : fetch'[g] = fetch[g] \/ fetch'[g].read = NoData
BY DEF StartFetch, TypeOK, Fetch, FetchPCs

\* So does the edit-mode effect, which fetches for the logged-in user.
LEMMA EditEffectType ==
    ASSUME TypeOK, NEW o, NEW n, NEW d, EditEffect(o, n, d)
    PROVE  /\ fetch' \in [Fetches -> Fetch] /\ fetching' \in BOOLEAN
           /\ \A g \in Fetches : fetch'[g] = fetch[g] \/ fetch'[g].read = NoData
<1>1. CASE o /\ ~n /\ d # NoData /\ ~fetching
  <2>1. PICK f \in Fetches : StartFetch(f, cred.user, FALSE)
    BY <1>1 DEF EditEffect
  <2>2. cred.user \in Users \cup {NoUser}
    BY DEF TypeOK
  <2>. QED BY <2>1, <2>2, StartFetchType
<1>2. CASE ~(o /\ ~n /\ d # NoData /\ ~fetching)
  BY <1>2 DEF EditEffect, TypeOK
<1>. QED BY <1>1, <1>2

LEMMA InitProfileInv == Init => ProfileInv
<1>. SUFFICES ASSUME Init PROVE ProfileInv
  OBVIOUS
<1>1. {fetching, profileFetched, refreshing, editMode, updating,
       showSecureKey} \subseteq BOOLEAN
  BY DEF Init
<1>2. fetch \in [Fetches -> Fetch] /\ \A f \in Fetches : fetch[f].read = NoData
  BY DEF Init, Fetch, FetchPCs
<1>3. TypeOK
  BY <1>1, <1>2 DEF Init, TypeOK, KeyTypes
<1>. QED BY <1>2, <1>3 DEF Init, ProfileInv

LEMMA NextProfileInv == ProfileInv /\ [Next]_vars => ProfileInv'
<1>. SUFFICES ASSUME ProfileInv, [Next]_vars PROVE ProfileInv'
  OBVIOUS
<1>0. TypeOK
  BY DEF ProfileInv
<1>1. CASE CredentialsChange
  <2>1. PICK u \in Users \cup {NoUser}, k \in KeyTypes :
          /\ cred' = [user |-> u, key |-> k]
          /\ IF u # NoUser /\ ~fetching
             THEN /\ \E f \in Fetches : StartFetch(f, u, FALSE)
                  /\ profileFetched' = FALSE
             ELSE UNCHANGED <<fetching, fetch, profileFetched>>
    BY <1>1 DEF CredentialsChange
  <2>2. /\ fetch' \in [Fetches -> Fetch] /\ fetching' \in BOOLEAN
        /\ profileFetched' \in BOOLEAN
        /\ \A g \in Fetches : fetch'[g] = fetch[g] \/ fetch'[g].read = NoData
    BY <1>0, <2>1, StartFetchType DEF TypeOK
  <2>. QED BY <1>0, <1>1, <2>1, <2>2 DEF CredentialsChange, ProfileInv, TypeOK
<1>2. CASE RefreshPosts
  <2>1. PICK f \in Fetches : StartFetch(f, cred.user, TRUE)
    BY <1>2 DEF RefreshPosts
  <2>2. /\ fetch' \in [Fetches -> Fetch] /\ fetching' \in BOOLEAN
        /\ \A g \in Fetches : fetch'[g] = fetch[g] \/ fetch'[g].read = NoData
    BY <1>0, <2>1, StartFetchType DEF TypeOK
  <2>. QED BY <1>0, <1>2, <2>2 DEF RefreshPosts, ProfileInv, TypeOK
<1>3. CASE PressEdit
  BY <1>0, <1>3 DEF PressEdit, ProfileInv, TypeOK
<1>4. CASE CancelEdit
  <2>1. /\ fetch' \in [Fetches -> Fetch] /\ fetching' \in BOOLEAN
        /\ \A g \in Fetches : fetch'[g] = fetch[g] \/ fetch'[g].read = NoData
    BY <1>0, <1>4, EditEffectType DEF CancelEdit
  <2>. QED BY <1>0, <1>4, <2>1 DEF CancelEdit, ProfileInv, TypeOK
\* The key check of _handlePressUpdate: a posting key goes to the prompt,
\* so a broadcast built here carries the only other key type, active.
<1>5. CASE PressUpdate
  <2>1. PICK p \in Metas :
          /\ updating' = TRUE
          /\ profileParams' = p
          /\ IF cred.key = "posting"
             THEN showSecureKey' = TRUE /\ UNCHANGED bcast
             ELSE /\ bcast' = [user |-> cred.user, params |-> p,
                               key |-> cred.key, base |-> profileData]
                  /\ UNCHANGED showSecureKey
    BY <1>5 DEF PressUpdate
  <2>2. CASE cred.key = "posting"
    BY <1>0, <1>5, <2>1, <2>2 DEF PressUpdate, ProfileInv, TypeOK
  <2>3. CASE cred.key # "posting"
    <3>1. cred.key = "active" /\ cred.user \in Users /\ profileData \in Profile
      BY <1>0, <1>5, <2>3 DEF PressUpdate, TypeOK, KeyTypes, LoggedIn
    <3>2. bcast' \in Broadcast /\ bcast'.key = "active" /\ bcast'.base \in Profile
      BY <2>1, <2>3, <3>1 DEF Broadcast, KeyTypes
    <3>. QED BY <1>0, <1>5, <2>1, <2>3, <3>2
             DEF PressUpdate, ProfileInv, TypeOK
  <2>. QED BY <2>2, <2>3
<1>6. CASE SecureKeyAccepted
  <2>1. profileParams \in Metas /\ profileData \in Profile /\ cred.user \in Users
    BY <1>0, <1>6 DEF SecureKeyAccepted, ProfileInv, TypeOK, LoggedIn
  <2>2. bcast' \in Broadcast /\ bcast'.key = "active" /\ bcast'.base \in Profile
    BY <1>6, <2>1 DEF SecureKeyAccepted, Broadcast, KeyTypes
  <2>. QED BY <1>0, <1>6, <2>2 DEF SecureKeyAccepted, ProfileInv, TypeOK
<1>7. CASE CancelSecureKey
  BY <1>0, <1>7 DEF CancelSecureKey, ProfileInv, TypeOK
<1>8. CASE BroadcastReturns
  <2>1. bcast \in Broadcast /\ bcast.base \in Profile
    BY <1>0, <1>8 DEF BroadcastReturns, ProfileInv, TypeOK
  <2>2. chain' \in [Users -> Metas] /\ profileData' \in Profile \cup {NoData}
    BY <1>0, <1>8, <2>1 DEF BroadcastReturns, TypeOK, Broadcast, Profile
  <2>3. /\ fetch' \in [Fetches -> Fetch] /\ fetching' \in BOOLEAN
        /\ \A g \in Fetches : fetch'[g] = fetch[g] \/ fetch'[g].read = NoData
    BY <1>0, <1>8, EditEffectType DEF BroadcastReturns
  <2>4. \A f \in Fetches : fetch'[f].read # NoData => fetch'[f].author \in Users
    BY <2>3 DEF ProfileInv
  <2>5. showSecureKey' => profileParams' \in Metas /\ profileData' \in Profile
    BY <1>8, <2>1 DEF BroadcastReturns, ProfileInv, Broadcast, Profile
  <2>6. {fetching', profileFetched', refreshing', editMode', updating',
         showSecureKey'} \subseteq BOOLEAN
    BY <1>0, <1>8, <2>3 DEF BroadcastReturns, TypeOK
  <2>7. TypeOK'
    BY <1>0, <1>8, <2>2, <2>3, <2>6 DEF BroadcastReturns, TypeOK
  <2>. QED BY <1>8, <2>4, <2>5, <2>7 DEF BroadcastReturns, ProfileInv
<1>9. ASSUME NEW f \in Fetches, ProfileRead(f) PROVE ProfileInv'
  <2>1. fetch' \in [Fetches -> Fetch] /\ fetch'[f].author \in Users
        /\ \A g \in Fetches \ {f} : fetch'[g] = fetch[g]
    BY <1>0, <1>9 DEF ProfileRead, TypeOK, Fetch
  <2>. QED BY <1>0, <1>9, <2>1 DEF ProfileRead, ProfileInv, TypeOK
<1>10. ASSUME NEW f \in Fetches, ProfileReturns(f) PROVE ProfileInv'
  <2>1. fetch' \in [Fetches -> Fetch] /\ fetch'[f].read = fetch[f].read
        /\ fetch'[f].author = fetch[f].author
        /\ \A g \in Fetches \ {f} : fetch'[g] = fetch[g]
    BY <1>0, <1>10 DEF ProfileReturns, TypeOK, Fetch, FetchPCs
  <2>2. profileData' \in Profile \cup {NoData}
        /\ (profileData \in Profile => profileData' \in Profile)
    <3>1. fetch[f].read # NoData => fetch[f].author \in Users /\ fetch[f].read \in Metas
      BY <1>0 DEF ProfileInv, TypeOK, Fetch
    <3>. QED BY <1>0, <1>10, <3>1 DEF ProfileReturns, TypeOK, Profile
  <2>. QED BY <1>0, <1>10, <2>1, <2>2 DEF ProfileReturns, ProfileInv, TypeOK
<1>11. ASSUME NEW f \in Fetches, PostsReturns(f) PROVE ProfileInv'
  <2>1. fetch' \in [Fetches -> Fetch] /\ fetch'[f].read = fetch[f].read
        /\ fetch'[f].author = fetch[f].author
        /\ \A g \in Fetches \ {f} : fetch'[g] = fetch[g]
    BY <1>0, <1>11 DEF PostsReturns, TypeOK, Fetch, FetchPCs
  <2>. QED BY <1>0, <1>11, <2>1 DEF PostsReturns, ProfileInv, TypeOK
<1>12. CASE UNCHANGED vars
  BY <1>12 DEF vars, ProfileInv, TypeOK
<1>. QED BY <1>1, <1>2, <1>3, <1>4, <1>5, <1>6, <1>7, <1>8, <1>9, <1>10,
            <1>11, <1>12 DEF Next

\* The profile screen's state is well typed in every reachable state.
THEOREM ProfileTypeCorrect == Spec => []TypeOK
<1>1. ProfileInv => TypeOK
  BY DEF ProfileInv
<1>. QED BY InitProfileInv, NextProfileInv, <1>1, PTL DEF Spec

=============================================================================
