# Formal model of the Blurt image upload service and its clients

This directory holds TLA+ specifications of the parts of the repository that have
concurrent or stateful behaviour. It also holds the TLC configurations that
model-check them and the TLAPS proofs of their main invariants. Everything is run
from this directory:

    tlasany ImageUpload.tla
    tlc -workers 2 -config MCImageUpload.cfg MCImageUpload
    tlapm ImageUploadProofs.tla
    tlapm UploadRefinementProofs.tla

## 1. The system

The code under `src/` has three parts.

| Part | Source | State | Operations |
|---|---|---|---|
| Upload server | `storage/imageupload/src/index.js` | in-memory rate-limit table (`RateLimiterMemory`, one record per account name, fixed 1 h window), the IPFS daemon's content | `POST /:username/:sig` (`hdl_upload_s3`), `GET /`, `GET /test_cors`, startup |
| Imagehoster helpers | `storage/imagehoster/src/utils.ts` | a blob store reached through `storeExists` / `storeWrite` | option parsing, stream buffering, MIME sniffing, exists/write, base58 |
| Mobile and wallet clients | `ui/letsblurt/.../ImageUploadContainer.tsx`, `Profile.tsx`, `CommentContainer.tsx`, `ui/wallet/.../OrderhistoryRow.jsx` | React component state (`uploading`, `fetching`, `profileData`, `submitting`, `showOriginal`, `animate`) | pick/sign/upload, profile/bookmark/favorite fetches, profile update, comment submit, translation toggle, row highlight timer |

**How they interact.** The upload container signs the image bytes with the user's
posting key and POSTs them to the upload server, which answers with a URL. The server
calls three collaborators:

- the ledger, through `getAccountsAsync`;
- the rate limiter;
- the IPFS daemon, through `ipfs.add`.

**Concurrency.** Node runs one handler segment at a time. `hdl_upload_s3` yields at
`getAccountsAsync` (line 98) and at `ipfs.add` (line 131). `rateLimiter.consume`
(line 129) settles in the same turn, so its await cannot interleave. Requests
therefore interleave at two points each. The process has no persistent state: a
crash loses the rate-limit table and every request in flight. Bytes already handed
to the daemon may still be stored.

**What makes it correct, and what can go wrong:**

1. **Quota.** The uploads granted to a name in one window never cost more than the
   budget, however many requests of that name are parked at the ledger lookup.
2. **Authentication.** A success response (a URL) is only given for bytes signed by
   a key of the named account, with an allowed type and size. Each check happens in
   a different segment of the handler, so the property spans several steps.
3. **Charge before store.** The daemon only receives bytes that were charged.
4. **Failure handling.** A failure of `ipfs.add`, a crash triggered by `GET /`, and
   a replayed request each interact with the quota. Section 4 records where the code
   and the specification part ways.

## 2. Modules

| Module | Models | Kind |
|---|---|---|
| `ImageUpload` | the upload server: `hdl_upload_s3`, the rate limiter, the IPFS store, `GET /` | component spec |
| `MCImageUpload` | TLC instance: model values, small input sets, symmetry | model |
| `UploadQuota` | what the upload server promises: an atomic per-name admission ledger | abstract spec |
| `ImageUploadProofs` | TLAPS proofs of `TypeOK` and `QuotaRespected` | proofs |
| `UploadRefinementProofs` | TLAPS proof that `ImageUpload` implements `UploadQuota` | proofs |
| `UploadAuthProofs` | TLAPS proofs of `OkImpliesAuthentic` and of the action property `NoWriteWithoutCharge` | proofs |
| `ImageUploadClient` | the client upload flow of `ImageUploadContainer.tsx`, with the server reduced to the replies it gives | component spec |
| `MCImageUploadClient` | TLC instance: two flows, two photos | model |
| `ImageUploadClientProofs` | TLAPS proof of the client's `TypeOK` | proofs |
| `ProfileContainer` | the profile fetch and profile update flows of `Profile.tsx` | component spec |
| `MCProfileContainer` | TLC instance: users, metadata values, two fetch slots | model |
| `ProfileContainerProofs` | TLAPS proof of the profile screen's `TypeOK` | proofs |
| `CommentContainer` | the handlers of `CommentContainer.tsx`: reply, edit, translation, children, submit | component spec |
| `MCCommentContainer` | TLC instance: two submissions, two translation requests | model |

### `ImageUpload`: how state and actions correspond to the code

**State.**

- `req[r]` is one HTTP request slot. It holds the name, the envelope (content type,
  whether the data URI has a comma, and the image), the signature, whether it is a
  fresh request or a replay, and the handler's position `pc`:
  - `idle` means no request has arrived yet;
  - `lookup` means parked at `getAccountsAsync`;
  - `store` means parked at `ipfs.add`;
  - `done` means answered;
  - `lost` means killed by a crash.

  The slot also holds the response, whether the request took a point (`granted`), and
  the window it took it in (`epoch`).
- `consumed[n]` is `RateLimiterMemory`'s point count for key `n`.
- `store` is the set of images the daemon holds.
- `epoch[n]` is a history variable: the number of windows of `n` that have ended. It
  lets a property talk about "the current window".

**Data abstraction.**

- An image is a model value with a byte size.
- A signature is the record `[signer, msg]`: the key that produced it and the image it
  signs. `Signature.recover` returns the signer for the signed bytes and an unknown
  key (`BogusKey`) for any other bytes. This is how secp256k1 recovery behaves,
  short of collisions.
- A body that is not a data URI with a comma is the envelope flag `comma = FALSE`.
- The body size is `DataLength`, the length of the base64 data URI the client sends.
- `Exceeds` keeps the code's comparison against an environment variable that may be
  unset: `x > undefined` is false, so an unset limit never rejects.

**Actions.**

| Action | Code | Meaning |
|---|---|---|
| `Receive(r)` | lines 41-98 | The synchronous prefix of the handler. `ReceiveError` is its chain of early exits, in the code's order: body length, comma, type allow-list, decoded size, `validateAccountName`. The request is either answered or parked at the lookup. A request is any client-built one (`Arrivals`) or a verbatim copy of one already sent. |
| `LookupReply(r)` | lines 98-131 | `getAccountsAsync` settles or rejects. `SignatureError` runs the checks that follow: unknown account, malformed signature, recovered key not among the account's first posting/active/owner keys, `verifyBuffer`. Then `consume` adds `Cost` to the name's points, and rejects if the total is over `Points`. Otherwise the request is parked at `ipfs.add`. |
| `StoreReply(r)` | lines 131-141 | `ipfs.add` resolves, giving `ok` and the URL, or rejects, giving `StoreUnavailable`. A rejection may come after the daemon took the bytes. Nothing gives the point back. |
| `WindowEnds(n)` | `rate_limit_opts`, lines 30-35 | The memory record of key `n` expires. |
| `RootCrash` | lines 154-158 | `GET /` calls `res.send` unbound. The unhandled rejection ends the process, and it restarts with an empty limiter table. Every parked request is lost. Any subset of the `ipfs.add` calls already sent is completed by the daemon. |

Every action models its whole segment of the handler, including the response it
sends.

### `UploadQuota`: the abstract specification, and the refinement

`UploadQuota` says what the server promises about quota and storage, with no
awaits, messages or error paths. Its state is `grants[n]` (admissions of `n` in its
current window), `pending` (admitted images whose write has not settled) and
`store`. Its actions:

- `Admit(n, i)` checks and charges in one step. It needs `<<n, i>>` in `Admissible`
  and `Cost * (grants[n] + 1) <= Points`.
- `Settle(i)`: an admitted write settles, and its bytes may or may not have landed.
- `Expire(n)` ends one name's window.
- `Restart` ends every window and drops the pending uploads, some of which may land.

`ImageUpload` defines the mapping `Quota`:

- `Admissible` is `AdmissiblePairs`: the name and image of every request that passes
  `ReceiveError` and `SignatureError`.
- `grants[n]` is `Cardinality(GrantedInWindow(n))`.
- `pending` is the images of the requests parked at `ipfs.add`.
- `store` is the daemon's content.

`Refinement == Quota!QSpec` is a property of the pipeline run. Under the mapping:

- the handler's grant step is `Admit`;
- `StoreReply` is `Settle`;
- `WindowEnds` is `Expire`;
- `RootCrash` is `Restart`;
- every other step (receive, rejections, lookup failures) leaves the ledger
  unchanged.

The refinement shows that the split between the lookup await and the consume call
never lets two requests share the last point. It also shows that no path stores
unadmitted bytes.

### `CommentContainer`

**State.** The React state of the comment component: `submitting`, `showReply`,
`editMode`, `body`, `showOriginal`, `translatedBody`, the `comment.body` given to
`CommentView`, `showChildComments`, and the last toast. Two more pieces of state are
added:

- the in-flight `_handleSubmitComment` calls (`submit[s]`), with the Editor each
  came from and the kind of posting it builds, plus the set `posted` of what
  `submitPost` broadcast;
- the in-flight translation requests (`translation[t]`), with the text each was
  asked for.

Texts are abstract: the html body, the markdown source, and their translations.

**Actions.**

| Action | Code | Meaning |
|---|---|---|
| `PressReply`, `PressEditComment`, `PressChildren` | lines 121-131, 192-195 | `CommentView`'s buttons, present only while `editMode` is off. Edit loads the markdown source and leaves the reply Editor open. |
| `PressTranslation` | lines 133-164 | Logged out, a toast. Otherwise the toggle flips, and the original, the cached translation, or a new request for the current body follows. |
| `TranslationReturns(t)` | lines 161-188 | The cloud function settles. It sets the body, the cached translation and `comment.body`, or it toasts. |
| `CloseEditor` | lines 198-201 | `_closeEditor`, which closes both Editors. |
| `SubmitComment(s, e)` | lines 73-109 | `_handleSubmitComment` from Editor `e`, up to the `submitPost` await. The kind, edit or reply, comes from `editMode` alone. |
| `SubmitReturns(s)` | lines 105-118 | `submitPost` settles. The flag and both Editors are cleared. |

### `ImageUploadClient`

**State.** It holds the container's React state: `uploading`, `closeActionSheet`,
`uploadedImage`, and the last toast. Two history sets are added: `delivered`, the
images passed to `getImageURL`, and `sent`, the requests handed to `uploadImage`.
`call[c]` records the progress of one pick-and-upload flow. Flows may overlap,
because nothing stops a second pick while an upload is pending. The native picker
is modal, so only one flow is picking at a time.

**Actions.**

| Action | Code | Meaning |
|---|---|---|
| `OpenPicker` | lines 51-82 | Opens the picker or the camera. |
| `PickerFails` | lines 84-89 | `_handleSelectionFailure`. |
| `PickerResolves` | lines 92-105 | The synchronous prefix of `_uploadPhoto`. The login check clears the spinner and does not return. |
| `SignReply` | lines 105-114 | `signImage` settles with a signature, a falsy value, or a rejection. A rejection escapes the un-awaited `_uploadPhoto` promise. Any other outcome sends the upload. |
| `UploadReply` | lines 114-141 | The `then` / `catch` callbacks of `uploadImage`. |

**The server, reduced.** `ReplyFor` is the upload server reduced to what it can
answer a request: a request without a valid signature never gets a URL.

**Fairness.** `FairSpec` assumes weak fairness of `SignReply` and `UploadReply`:
the collaborators always settle. The code has no timeout to justify this. The
assumption is used only to show that the spinner can stay on *even if* they
settle.

### `ProfileContainer`

**State.**

- The container's React state: `profileData`, `fetching`, `profileFetched`,
  `refreshing`, `editMode`, `updating`, `showSecureKey` and `profileParams`.
- The credentials: a user and a key level.
- The ledger's profile metadata per user (`chain`).
- The in-flight `_getUserProfileData` calls (`fetch[f]`).
- The in-flight broadcast (`bcast`). It records the `profileData` that
  `_updateProfile` captured when it was called.

**Actions.**

| Action | Code | Meaning |
|---|---|---|
| `CredentialsChange` | lines 90-99 | New credentials, with the effect on `authState.currentCredentials`, guarded by `!fetching`. |
| `ProfileRead`, `ProfileReturns`, `PostsReturns` | lines 108-139 | The steps of `_getUserProfileData`. The ledger read is its own step, because the server reads at some point while the call is in flight. |
| `RefreshPosts` | lines 345-353 | Pull to refresh. It has no guard. |
| `PressEdit`, `CancelEdit` | lines 169-172, 265-267 | Enter and leave edit mode. Leaving runs the edit-mode effect of lines 101-107. |
| `PressUpdate` | lines 197-226 | Submit the edit form. |
| `SecureKeyAccepted`, `CancelSecureKey` | lines 250-273 | The secure-key prompt's outcomes. |
| `BroadcastReturns` | lines 228-248 | The end of `_updateProfile`, followed by the edit-mode effect. |

**Simplifications.**

- **Effects.** React runs an effect after the commit. The model runs it in the same
  step as the state change that triggers it. A fetch that settles in between only
  makes the effect's `!fetching` guard pass, so no violation found depends on this.
- **Edit form.** The edit form is assumed to disable Update while `updating` is
  set. The form is not in the repository.
- **Fetch slots.** A fetch needs a free slot, and the bound is the size of
  `Fetches`.

### Bounds (`MCImageUpload`)

The inputs cover every distinct outcome of the handler:

- **Names:** `alice` and `bob` (accounts) and `badname` (invalid). The
  single-account runs make `bob` a valid name with no account.
- **Keys:** alice's posting and active keys (owner = active), and `kEve`, which is
  an outsider to alice and every key of bob. A second account lets a window expiry
  of one name be told apart from a reset of all names, which `Refinement` needs.
- **Images:** `img1` fits the 4-byte limit and `img2` does not.
- **Envelopes:** types `png`, `webp` and `svg+xml`, with and without a comma.
- **Signatures:** signatures by `kPosting` and `kEve` over each image, plus an
  unparsable one.

Together these reach `ok` and every error response except `InvalidSignature`, which the code cannot return.
Two request slots give every interleaving of two requests. The pipeline's budget
admits one upload per window, so two requests race for the last point. `MaxEpoch = 1` allows one window expiry or restart per name. That is
enough to distinguish a point charged in an earlier window from one charged in the
current window. Request slots are interchangeable, so symmetry over `Requests` is
sound: no property names a slot.

Deadlock checking is off (`CHECK_DEADLOCK FALSE`) because the request slots are
finite. Once every slot has been answered and the windows are used up, the server
really has nothing left to do.

## 3. Runs

| Run | cfg | Expect | What it shows |
|---|---|---|---|
| pipeline | `MCImageUpload.cfg` | pass | Covers all inputs, two accounts, 2 concurrent requests, window expiry and crashes. It checks `Refinement` (the server implements `UploadQuota`), `TypeOK`, `QuotaRespected`, `OkImpliesAuthentic` (a URL is only returned for an existing account, a signature of those bytes by one of its keys, an allowed type, a size within the limit, a charged point and stored bytes) and `NoWriteWithoutCharge` (an action property: the daemon's content only grows by the image of a request that is parked at `ipfs.add` holding a point). |
| store_retry | `MCStoreRetry.cfg` | violation | `StoreFailureNotCharged`: after `StoreUnavailable` the point is still counted in the current window. Spec §7 says nothing is committed before a successful store. |
| root_crash | `MCRootCrash.cfg` | violation | `QuotaClearedOnlyByExpiry`: a `GET /` request wipes all quotas. |
| replay | `MCReplay.cfg` | violation | `ReplayNeverCharged`: a verbatim replay of a signed upload is charged to the signer. |
| mutated_bytes | `MCMutatedBytes.cfg` | violation | `MutatedBytesNotKeyMismatch`: a valid signature sent with different bytes is answered "Invalid key.", never `InvalidSignature` (spec §8). The `verifyBuffer` branch is unreachable. |

| client | `MCClient.cfg` | pass | Two overlapping flows against every kind of settlement. It checks `TypeOK`. Whether a URL reaches the parent only for a signed upload is decided by the server's replies (`ReplyFor`), not by the container, so it is not stated of the client: the container's own checks are the subject of `client_unsigned`. |
| client_unsigned | `MCClientUnsigned.cfg` | violation | `NoUnsignedUpload`: the commented-out `return`s let an upload with no user and no signature be sent. |
| spinner_stuck | `MCClientSpinner.cfg` | violation | `SpinnerClears` under `FairSpec`: an error answer of the real server (HTTP 200 with an error body) leaves `uploading` on for ever. |

| profile | `MCProfile.cfg` | pass | One user logging in and out, refreshing, editing, prompted for a key, and broadcasting, with two fetch slots. It checks `TypeOK`. The key-level check of `_handlePressUpdate` is a single guard, so no property restates it; the screen's real hazards are the subject of the two violation runs below. |
| profile_switch | `MCProfileSwitch.cfg` | violation | `ProfileShowsChain`: once nothing is in flight, the profile shown should be the logged-in user's profile as the ledger holds it. An account switch during a fetch breaks this. |
| profile_overwrite | `MCProfileOverwrite.cfg` | violation | `ProfileShowsChain` with a single user: a fetch that read the ledger before an update lands after it. |

| comment_reply_edit | `MCCommentReplyEdit.cfg` | violation | `ReplyNeverEdits`: a text submitted from the reply Editor is broadcast as an edit of the comment. It takes four steps: reply, edit, submit from the reply Editor, settle. |

**Mutants.** Each property of a passing run is broken by a plausible bug seeded in
the mapped code. The seeded faults are defined in `ImageUpload.tla`, next to the
operator they replace:

- `OverBudgetBeforeIncrement` tests the count before adding the cost.
- `SignatureErrorNoKeyMatch` drops the key-match check.
- `LookupReplyAddFirst` calls `ipfs.add` before `consume`.
- `StoreReplyRefund` gives the point back on failure.
- `UploadReplyKeepsBody` stores the response kind as the image.
- `ProfileReturnsNoCheck` drops the `!_profileData` check.
- `WindowEndsAll` ends every name's window when one record expires. It breaks
  `Refinement`: the abstract `Expire(n)` ends one name's window only.

## 4. Findings

1. **Budget.** `points: 69` is 69 uploads per hour, not "3 images". This is a configuration value, and `QuotaRespected` bounds uploads by `Points / Cost` whatever the value is, so no run asserts the comment.
2. **Store failure.** `consume` precedes `ipfs.add`, so a failed store still costs a
   point, and a retry costs another.
3. **Crash via `GET /`.** `peers().then(res.send)` crashes the process on Node 15 and
   later. Any client can therefore reset every quota and abort every in-flight
   upload.
4. **Replay.** The signature covers only the bytes, with no name, nonce or time, so a
   replay is accepted and charged.
5. **Mutated bytes.** They are reported as a key mismatch. `InvalidSignature` can
   never be returned.
6. **Client checks.** The client's login and signature checks do not stop the
   upload, because their `return`s are commented out.
7. **Stuck spinner.** The client clears the spinner only on a URL or a rejected
   promise. This server reports every error as a resolved 200 response, so after
   any rejected upload the spinner stays on and no message is shown.

   Whether `uploadImage` maps the server's `data` field to `data.url` depends on
   the provider, which is not in the repository. The model assumes a success reply
   reaches the `url` branch.
8. **Profile after a switch.** Switching accounts during a profile fetch leaves the
   old account's profile on screen. After a `fetchPosts` rejection, `fetching` is
   never cleared and no later switch refetches.
9. **Profile after an update.** A profile fetch that read the ledger before an
   update can land after it and show the old profile again.
10. **Reply posted as an edit.** The edit button stays on screen while the reply
    Editor is open, and pressing it leaves the reply Editor open. Both Editors call
    the same `_handleSubmitComment`, which picks edit or reply from `editMode`
    alone (line 98). A reply typed in the reply Editor is then broadcast with the
    comment's own permlink and parent, and it replaces the comment's body.

## 5. Proofs

### `ImageUploadProofs`

Both theorems hold for every value of the constants that satisfies
`ConstAssumption`. That is: finite request slots; non-empty input sets; accounts
that are valid names; `BogusKey` not a key of anyone; `Cost > 0`; and natural or
unset limits.

- **`TypeCorrect: Spec => []TypeOK`.** There is one step per action. Record updates
  go through the lemmas `SetDone` and `SetGranted`, and `RootCrash` is proved per
  slot.
- **`QuotaSafe: Spec => []QuotaRespected`.** `QuotaRespected` is not inductive: a
  step that grants a point only preserves it if the granted requests are already
  paid for by `consumed[n]`. The inductive invariant `QuotaInv` therefore
  strengthens it with three facts:
  1. requests not yet past the lookup hold no point;
  2. a granted request's window is never later than its name's current window;
  3. `Cost * |GrantedInWindow(n)| <= consumed[n]`, where `GrantedInWindow(n)` is the
     set of requests granted in `n`'s current window.

  **Why each action preserves it:**
  - A grant adds one request and `Cost` points together: lemmas `GrantedFinite`
    and `GrantedCardinality`, plus `FS_AddElement`.
  - A rejection adds points only.
  - Window expiry and a crash move the window, which empties
    `GrantedInWindow(n)` (lemma `GrantedEmptied`).
  - Answers do not change the granted set (`AnswerKeepsQuotaInv`).

  Together with `consumed[n] <= Points` after a grant, this gives the bound. TLC
  checked `QuotaInv` as an invariant before it was proved.

### `UploadRefinementProofs`

**`Refines: Spec => Refinement`.** The invariant is `RefInv = QuotaInv /\ LookupClean`.
`LookupClean` says that a request parked at the lookup passed `ReceiveError`. A
grant therefore has an admissible pair, and `QuotaInv` gives the abstract guard
`Cost * (grants[n] + 1) <= Points`.

The step lemma `NextRefined` has one case per action:

- the grant maps to `Admit`, and the mapped `grants[n]` rises by one because the
  request joins `GrantedInWindow(n)`;
- `StoreReply` maps to `Settle`;
- `WindowEnds` maps to `Expire`;
- `RootCrash` maps to `Restart`, with the landed images as witness;
- receives, lookup failures and rejections leave `grants`, `pending` and `store`
  unchanged (lemma `LedgerStutter`).

`InitRefined` maps the initial state to `QInit`. The theorem combines the two by
PTL.

### `ImageUploadClientProofs`

**`ClientTypeCorrect: Spec => []TypeOK`** holds for any number of flows, photos
and replies (`ClientAssumption`). The inductive invariant `ClientInv` adds one
fact: a flow past the picker holds a photo, which the `then` callback hands to
`setUploadedImage`.

### `ProfileContainerProofs`

**`ProfileTypeCorrect: Spec => []TypeOK`** holds for any number of users,
metadata values and fetch slots (`ProfileAssumption`). The inductive invariant `ProfileInv` adds three facts:

- a broadcast in flight was built from a displayed profile;
- while the secure-key prompt is up, its parameters and profile are set;
- a fetch that read the ledger has an author.

These are what `TypeOK` needs for `BroadcastReturns`, `SecureKeyAccepted` and
`ProfileReturns`. The lemmas `StartFetchType` and `EditEffectType` cover every
place a fetch starts.

### `UploadAuthProofs`

These theorems hold under `ConstAssumption`, like those of `ImageUploadProofs`.

**`AuthenticOnly: Spec => []OkImpliesAuthentic`.** `OkImpliesAuthentic` speaks only
of answered requests, and no single step preserves it as it stands: the answer
"ok" is given by `StoreReply`, which repeats none of the checks. The inductive
invariant `AuthInv` carries the checks forward from the step that made them to
the answer:

- a handler parked at an await (`lookup`, `store`) has not answered;
- one parked at `getAccountsAsync` passed `ReceiveError` (lines 46-96);
- one parked at `ipfs.add`, or answered "ok", also passed `SignatureError`
  (lines 99-126) and holds a point;
- the bytes of an "ok" answer are in the store.

The last conjunct is kept because the store never shrinks (`RootCrash` keeps the
landed images), which lemma `ReqOKStore` states per request. Lemma
`ChecksAuthentic` turns the two checks into the property's facts: `Recover`
yields a key of someone only for the signed bytes (otherwise it yields
`BogusKey`, which is no account's key), so the signer's key matches and the
signed message is the uploaded image. The step proof `NextAuthInv` has one case
per action; a `RootCrash` resets parked requests to answered errors (lemma
`ReqOKAnswered`). TLC checked `AuthInv` on the pipeline instance before it was
proved.

**`ChargedBeforeWrite: Spec => NoWriteWithoutCharge`.** The action property is
`[][WriteCharged]_vars`. Under `AuthInv`, every step satisfies `WriteCharged`:
only `StoreReply` adds bytes, and it adds those of a request parked at
`ipfs.add`, which `AuthInv` says holds a point; a crash adds only images already
in flight for such requests. The theorem follows from `[]AuthInv` by PTL.

**Only model-checked:** every invariant and action property of the passing runs
now has a theorem. What stays with TLC:

- the liveness property `SpinnerClears` of the client. Its run is a violation
  run, so there is nothing to prove, and liveness under fairness, or anything
  stated with `ENABLED`, is in any case beyond the proof system;
- the properties of the violation runs (`StoreFailureNotCharged`,
  `QuotaClearedOnlyByExpiry`, `ReplayNeverCharged`, `MutatedBytesNotKeyMismatch`,
  `NoUnsignedUpload`, `ProfileShowsChain`, `ReplyNeverEdits`). They are false of
  the code, and TLC's counterexamples are the evidence;
- the `CommentContainer` model, whose only run is a violation run.

## 6. Not modelled, and the plan

- **`GET /test_cors`.** It changes no state.
- **Startup `bw()` / `peers()` (lines 19-20).** They have no `catch`, so a dead
  daemon kills the process at boot. This happens before any request and changes no
  modelled state.
- **`utils.ts`.** `storeExists` and `storeWrite` are one-call wrappers of the blob
  store. Nothing in this repository calls them, so any interleaving of them
  would be invented rather than translated. `parseBool` and `camelToSnake` are stateless conversions of
  configuration read once at startup. `readStream`, `mimeMagic` and `base58` wrap
  libraries.
- **`OrderhistoryRow.jsx`.** Its only state is the `animate` flag. Its defects,
  listed as hazards, are one-step consequences of lines 16-44:
  - the timer id is never stored, so unmount clears nothing;
  - each order change starts another timer, and an earlier timer ends a later
    animation early.

  Their only effect is a CSS class and a React warning.
- **Profile screen.** The bookmark and favorite fetches of `Profile.tsx` have the
  same await-then-set shape as the profile fetch, on state no property tells apart.
- **Liveness of the server.** Every request is eventually answered only under weak
  fairness of the ledger and the daemon. The code has no timeout (hazard at line
  98), so no such fairness is assumed.
- **Planned:** a composition of `ImageUploadClient` with `ImageUpload` itself,
  replacing `ReplyFor`, and a proof of the client's liveness property, which
  needs `ENABLED` and is left to TLC.
