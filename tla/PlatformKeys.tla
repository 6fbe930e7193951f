--------------------------- MODULE PlatformKeys ---------------------------
(***************************************************************************)
(* The signing keys with which the backend and the PEP authenticate to OPA *)
(* and the backend signs sessions: the versions of a Vault transit key,    *)
(* the rows of platform_signing_keys, the caches of platformKeys.js, the   *)
(* two-phase rotation of routes/platformKeys.js, revocation, the tokens    *)
(* minted meanwhile and the keys OPA trusts.  A version number stands for  *)
(* its public key and fingerprint.  One purpose is followed at a time: the *)
(* purposes share no state.                                                *)
(***************************************************************************)
EXTENDS Integers

CONSTANTS
  Rotators,    \* rotate requests in flight
  Revokers,    \* revoke requests in flight
  None,        \* no version, no token, no bundle, no request
  MaxVersion,  \* bound on the versions of the key
  MaxFaults    \* bound on crashes, failures and restarts of OPA and the PEP

KeysAssumption ==
  MaxVersion \in Nat \ {0} /\ MaxFaults \in Nat /\ None \notin Nat

PURPOSES == {"opa-auth-signing", "session-signing", "pep-opa-auth-signing"}
Versions == 1..MaxVersion

VARIABLES
  purpose,     \* the purpose that is followed
  vault,       \* latest_version of the transit key: transit/sign uses it
  status,      \* platform_signing_keys: the status of each version's row
  boot,        \* "starting" until loadOrInitPlatformKeys() is through, then "up"
  pointer,     \* _activeKeyByPurpose
  pubkeys,     \* _pubkeyByKid
  broken,      \* _brokenByPurpose
  rotation,    \* what each rotate request has done, and the version it read
  revocation,  \* what each revoke request has done
  bundle,      \* platform_keys of the cached bundle
  builds,      \* what the builds in flight have read: a poll's, a rotation's
  trusted,     \* data.platform_keys of the running OPA
  token,       \* the last token: its kid, the version that signed it, and the
               \*   _cachedFp of opaClient.js
  minting,     \* a token being minted: the same, before Vault signs
  pepKid,      \* kid of platformSigner.js
  faults

request == <<rotation, revocation>>
opa == <<bundle, builds, trusted>>
tokens == <<token, minting, pepKid>>
vars == <<purpose, vault, status, boot, pointer, pubkeys, broken, request, opa, tokens, faults>>

-----------------------------------------------------------------------------
(* Rows, tokens and the decision of OPA.                                   *)

ActiveRows == {v \in Versions : status[v] = "active"}
ActiveRow == IF ActiveRows = {} THEN None ELSE CHOOSE v \in ActiveRows : TRUE

\* buildOpaPublishDocument(): the active and the retired keys.
PublishDocument == {v \in Versions : status[v] \in {"active", "retired"}}

\* verifyJwtEdDSA() and system.authz: the key named by kid is known, and it is
\* the one that signed.
VerifiesUnder(t, keys) == t # None /\ t.kid \in keys /\ t.kid = t.signed

\* Where the tokens of the purpose are verified.
Accepted(t) ==
  VerifiesUnder(t, IF purpose = "session-signing" THEN pubkeys ELSE trusted)

\* authorize(): studio.authz needs opa_trust and jwt_signer, and the backend
\* must reach OPA with a token that OPA accepts.
Authorized ==
  /\ broken => purpose = "pep-opa-auth-signing"
  /\ purpose # "pep-opa-auth-signing" => Accepted(token)

Init ==
  /\ purpose \in PURPOSES
  /\ vault = 1
  /\ status = [v \in Versions |-> "absent"]
  /\ boot = "starting"
  /\ pointer = None
  /\ pubkeys = {}
  /\ broken = FALSE
  /\ rotation = [r \in Rotators |-> None]
  /\ revocation = [r \in Revokers |-> None]
  /\ bundle = None
  /\ builds = [b \in {"poll", "eager"} |-> None]
  /\ trusted = {}
  /\ token = None
  /\ minting = None
  /\ pepKid = vault
  /\ faults = 0

-----------------------------------------------------------------------------
(* Boot.                                                                   *)

Reconciled(p, keys, isBroken) ==
  /\ boot' = "up"
  /\ pointer' = p
  /\ pubkeys' = keys
  /\ broken' = isBroken

\* Mutant: only the active key is cached.
BootMatches_ActiveOnly ==
  /\ boot = "starting" /\ ActiveRow = vault
  /\ Reconciled(vault, pubkeys \cup {vault}, FALSE)
  /\ UNCHANGED <<purpose, vault, status, request, opa, tokens, faults>>

\* _bootPurpose(): the active row has the key that Vault signs with; the retired
\* keys are cached as well.
BootMatches ==
  /\ boot = "starting" /\ ActiveRow = vault
  /\ Reconciled(vault, pubkeys \cup PublishDocument, FALSE)
  /\ UNCHANGED <<purpose, vault, status, request, opa, tokens, faults>>

\* It has not: trust is broken and no key becomes the active one.
BootMismatch ==
  /\ boot = "starting" /\ ActiveRow \notin {None, vault}
  /\ Reconciled(pointer, pubkeys, TRUE)
  /\ UNCHANGED <<purpose, vault, status, request, opa, tokens, faults>>

\* No active row: the key of Vault is registered, unless it has a row already.
BootRegisters ==
  /\ boot = "starting" /\ ActiveRow = None
  /\ status' = [status EXCEPT ![vault] = IF @ = "absent" THEN "active" ELSE @]
  /\ Reconciled(vault, pubkeys \cup {vault}, FALSE)
  /\ UNCHANGED <<purpose, vault, request, opa, tokens, faults>>

\* Vault or the database fails: broken until the next start.
BootFails ==
  /\ boot = "starting" /\ faults < MaxFaults
  /\ faults' = faults + 1
  /\ Reconciled(pointer, pubkeys, TRUE)
  /\ UNCHANGED <<purpose, vault, status, request, opa, tokens>>

\* The backend dies with everything it keeps in memory, and starts again.
Crash ==
  /\ faults < MaxFaults
  /\ faults' = faults + 1
  /\ boot' = "starting" /\ pointer' = None /\ pubkeys' = {} /\ broken' = FALSE
  /\ rotation' = [r \in Rotators |-> None]
  /\ revocation' = [r \in Revokers |-> None]
  /\ bundle' = None
  /\ builds' = [b \in DOMAIN builds |-> None]
  /\ token' = IF purpose = "opa-auth-signing" THEN None ELSE token
  /\ minting' = IF purpose = "pep-opa-auth-signing" THEN minting ELSE None
  /\ UNCHANGED <<purpose, vault, status, trusted, pepKid>>

-----------------------------------------------------------------------------
(* POST /api/platform-keys/rotate.                                         *)

Step(r, name, version) ==
  rotation' = [rotation EXCEPT ![r] = [step |-> name, version |-> version]]
Rotating(r, name) == rotation[r] # None /\ rotation[r].step = name

\* Mutant: every request rotates.
Pending_Never == FALSE

\* A rotation that timed out left the active row ahead of the signing pointer.
Pending == ActiveRow # None /\ pointer # None /\ ActiveRow # pointer

\* The request resumes a pending rotation, or starts one and has Vault rotate.
ResumeRotation(r) ==
  /\ rotation[r] = None /\ Authorized /\ Pending
  /\ Step(r, "publish", ActiveRow)
  /\ UNCHANGED <<purpose, vault, status, boot, pointer, pubkeys, broken, revocation, opa,
                 tokens, faults>>

\* Mutant: nothing is read back from Vault.
VaultRotate_NoRead(r) ==
  /\ rotation[r] = None /\ Authorized /\ ~Pending
  /\ pointer # None
  /\ vault < MaxVersion
  /\ vault' = vault + 1
  /\ Step(r, "register", None)
  /\ UNCHANGED <<purpose, status, boot, pointer, pubkeys, broken, revocation, opa, tokens,
                 faults>>

VaultRotate(r) ==
  /\ rotation[r] = None /\ Authorized /\ ~Pending
  /\ pointer # None
  /\ vault < MaxVersion
  /\ vault' = vault + 1
  /\ Step(r, "read", None)
  /\ UNCHANGED <<purpose, status, boot, pointer, pubkeys, broken, revocation, opa, tokens,
                 faults>>

\* getPublicKey() is a request of its own and returns the latest version.
ReadPublicKey(r) ==
  /\ Rotating(r, "read")
  /\ Step(r, "register", vault)
  /\ UNCHANGED <<purpose, vault, status, boot, pointer, pubkeys, broken, revocation, opa,
                 tokens, faults>>

\* withAudit(): the active row is retired, the new one inserted ON CONFLICT DO
\* NOTHING; the key joins the verification cache.
Register(r) ==
  LET new == rotation[r].version IN
  /\ Rotating(r, "register")
  /\ status' = [v \in Versions |->
                  IF status[v] = "active" THEN "retired"
                  ELSE IF v = new /\ status[v] = "absent" THEN "active"
                  ELSE status[v]]
  /\ pubkeys' = pubkeys \cup {new}
  /\ broken' = FALSE
  /\ Step(r, "publish", new)
  /\ UNCHANGED <<purpose, vault, boot, pointer, revocation, opa, tokens, faults>>

\* publish() drops the cached bundle, and buildBundle() starts a build that no
\* poll joins.
Publish(r) ==
  /\ Rotating(r, "publish")
  /\ bundle' = None
  /\ builds' = [builds EXCEPT !["eager"] = PublishDocument]
  /\ Step(r, "wait", rotation[r].version)
  /\ UNCHANGED <<purpose, vault, status, boot, pointer, pubkeys, broken, revocation, trusted,
                 tokens, faults>>

\* waitForOpaPlatformKey() sees the key in OPA: commitRotation() flips the
\* signing pointer, and invalidateAuthCache() drops the token of the backend.
Commit(r) ==
  /\ Rotating(r, "wait") /\ builds["eager"] = None
  /\ rotation[r].version \in trusted
  /\ purpose = "opa-auth-signing" => Accepted(token)
  /\ pointer' = rotation[r].version
  /\ token' = IF purpose = "opa-auth-signing" THEN None ELSE token
  /\ rotation' = [rotation EXCEPT ![r] = None]
  /\ UNCHANGED <<purpose, vault, status, boot, pubkeys, broken, revocation, opa, minting,
                 pepKid, faults>>

\* The wait is over first: 202, pending.
TimesOut(r) ==
  /\ Rotating(r, "wait") /\ builds["eager"] = None
  /\ rotation' = [rotation EXCEPT ![r] = None]
  /\ UNCHANGED <<purpose, vault, status, boot, pointer, pubkeys, broken, revocation, opa,
                 tokens, faults>>

\* Vault or the database fails before the row is committed.
RotationFails(r) ==
  /\ Rotating(r, "read") \/ Rotating(r, "register")
  /\ faults < MaxFaults
  /\ faults' = faults + 1
  /\ rotation' = [rotation EXCEPT ![r] = None]
  /\ UNCHANGED <<purpose, vault, status, boot, pointer, pubkeys, broken, revocation, opa, tokens>>

-----------------------------------------------------------------------------
(* POST /api/platform-keys/:fp/revoke.                                     *)

\* Mutant: an active key can be revoked.
Revoke_AnyRow(r, v) ==
  /\ revocation[r] = None /\ Authorized /\ boot = "up"
  /\ status[v] \in {"active", "retired"}
  /\ status' = [status EXCEPT ![v] = "revoked"]
  /\ pubkeys' = pubkeys \ {v}
  /\ revocation' = [revocation EXCEPT ![r] = "publish"]
  /\ UNCHANGED <<purpose, vault, boot, pointer, broken, rotation, opa, tokens, faults>>

\* platformKeys.revoke() refuses an active key, and revokePlatformKeyTx() any
\* that is not retired; the key leaves the verification cache.
Revoke(r, v) ==
  /\ revocation[r] = None /\ Authorized /\ boot = "up"
  /\ status[v] = "retired"
  /\ status' = [status EXCEPT ![v] = "revoked"]
  /\ pubkeys' = pubkeys \ {v}
  /\ revocation' = [revocation EXCEPT ![r] = "publish"]
  /\ UNCHANGED <<purpose, vault, boot, pointer, broken, rotation, opa, tokens, faults>>

PublishRevocation(r) ==
  /\ revocation[r] = "publish"
  /\ bundle' = None
  /\ revocation' = [revocation EXCEPT ![r] = None]
  /\ UNCHANGED <<purpose, vault, status, boot, pointer, pubkeys, broken, rotation, builds,
                 trusted, tokens, faults>>

-----------------------------------------------------------------------------
(* OPA and its bundle (BundleCache has the cache in full).                 *)

PollCached ==
  /\ bundle # None
  /\ trusted' = bundle
  /\ UNCHANGED <<purpose, vault, status, boot, pointer, pubkeys, broken, request, bundle,
                 builds, tokens, faults>>

\* A poll that finds no bundle starts a build, which reads the rows.
PollBuilds ==
  /\ bundle = None /\ builds["poll"] = None
  /\ builds' = [builds EXCEPT !["poll"] = PublishDocument]
  /\ UNCHANGED <<purpose, vault, status, boot, pointer, pubkeys, broken, request, bundle,
                 trusted, tokens, faults>>

\* The build caches what it read, and a poll that waits for it is answered.
BuildEnds(b) ==
  /\ builds[b] # None
  /\ bundle' = builds[b]
  /\ trusted' = IF b = "poll" THEN builds[b] ELSE trusted
  /\ builds' = [builds EXCEPT ![b] = None]
  /\ UNCHANGED <<purpose, vault, status, boot, pointer, pubkeys, broken, request, tokens, faults>>

\* A failed build answers 500 to a poll; the rotation goes on without one.
BuildFails(b) ==
  /\ builds[b] # None /\ faults < MaxFaults
  /\ faults' = faults + 1
  /\ builds' = [builds EXCEPT ![b] = None]
  /\ UNCHANGED <<purpose, vault, status, boot, pointer, pubkeys, broken, request, bundle,
                 trusted, tokens>>

OpaRestarts ==
  /\ faults < MaxFaults
  /\ faults' = faults + 1
  /\ trusted' = {}
  /\ UNCHANGED <<purpose, vault, status, boot, pointer, pubkeys, broken, request, bundle,
                 builds, tokens>>

-----------------------------------------------------------------------------
(* Tokens.  The header names the version that getPublicKey() answers, and  *)
(* Vault signs with the version that is the latest when it comes to sign.  *)

\* Mutant: the header names the signing pointer.
MintRead_NamesPointer ==
  /\ purpose # "pep-opa-auth-signing" /\ minting = None
  /\ pointer # None
  /\ purpose = "opa-auth-signing" /\ token # None => token.under # pointer
  /\ minting' = [kid |-> pointer,
                  under |-> IF purpose = "opa-auth-signing" THEN pointer ELSE None]
  /\ token' = IF purpose = "opa-auth-signing" THEN None ELSE token
  /\ UNCHANGED <<purpose, vault, status, boot, pointer, pubkeys, broken, request, opa, pepKid,
                 faults>>

\* authHeaders() of opaClient.js and signToken() of auth.js.
MintRead ==
  /\ purpose # "pep-opa-auth-signing" /\ minting = None
  /\ pointer # None
  /\ purpose = "opa-auth-signing" /\ token # None => token.under # pointer
  /\ minting' = [kid |-> vault,
                  under |-> IF purpose = "opa-auth-signing" THEN pointer ELSE None]
  /\ token' = IF purpose = "opa-auth-signing" THEN None ELSE token
  /\ UNCHANGED <<purpose, vault, status, boot, pointer, pubkeys, broken, request, opa, pepKid,
                 faults>>

\* mint() of platformSigner.js: the kid was read when the PEP started.
PepMint ==
  /\ purpose = "pep-opa-auth-signing" /\ minting = None /\ token = None
  /\ minting' = [kid |-> pepKid, under |-> None]
  /\ UNCHANGED <<purpose, vault, status, boot, pointer, pubkeys, broken, request, opa, token,
                 pepKid, faults>>

MintSign ==
  /\ minting # None
  /\ token' = [kid |-> minting.kid, signed |-> vault, under |-> minting.under]
  /\ minting' = None
  /\ UNCHANGED <<purpose, vault, status, boot, pointer, pubkeys, broken, request, opa, pepKid,
                 faults>>

\* A cached token is renewed five seconds before it expires; a session expires.
TokenExpires ==
  /\ token # None
  /\ token' = None
  /\ UNCHANGED <<purpose, vault, status, boot, pointer, pubkeys, broken, request, opa, minting,
                 pepKid, faults>>

\* createPepSigner(): the kid is read anew, and the cached token is gone.
PepRestarts ==
  /\ purpose = "pep-opa-auth-signing" /\ faults < MaxFaults
  /\ faults' = faults + 1
  /\ pepKid' = vault
  /\ token' = None /\ minting' = None
  /\ UNCHANGED <<purpose, vault, status, boot, pointer, pubkeys, broken, request, opa>>

-----------------------------------------------------------------------------
Boots == BootMatches \/ BootMismatch \/ BootRegisters
Rotate(r) == ResumeRotation(r) \/ VaultRotate(r)
Proceeds(r) == ReadPublicKey(r) \/ Register(r) \/ Publish(r)
Ends(r) == Commit(r) \/ TimesOut(r)
Mints == MintRead \/ PepMint \/ MintSign
Polls == PollCached \/ PollBuilds

Next ==
  \/ Boots \/ BootFails \/ Crash
  \/ \E r \in Rotators : Rotate(r) \/ Proceeds(r) \/ Ends(r) \/ RotationFails(r)
  \/ \E r \in Revokers : (\E v \in Versions : Revoke(r, v)) \/ PublishRevocation(r)
  \/ Polls \/ (\E b \in DOMAIN builds : BuildEnds(b) \/ BuildFails(b)) \/ OpaRestarts
  \/ Mints \/ TokenExpires \/ PepRestarts

\* Handlers and builds run on once started, OPA polls for ever, calls for a
\* token keep coming and tokens keep expiring.  Nobody has to rotate.
Fairness ==
  /\ WF_vars(Boots)
  /\ \A r \in Rotators : WF_vars(Proceeds(r)) /\ WF_vars(Ends(r))
  /\ \A r \in Revokers : WF_vars(PublishRevocation(r))
  /\ WF_vars(Polls) /\ \A b \in {"poll", "eager"} : WF_vars(BuildEnds(b))
  /\ WF_vars(Mints) /\ WF_vars(TokenExpires)

Spec == Init /\ [][Next]_vars
FairSpec == Spec /\ Fairness

-----------------------------------------------------------------------------
TokenRecord == [kid : Versions, signed : Versions, under : Versions \cup {None}]

TypeOK ==
  /\ purpose \in PURPOSES
  /\ vault \in Versions
  /\ status \in [Versions -> {"absent", "active", "retired", "revoked"}]
  /\ boot \in {"starting", "up"}
  /\ pointer \in Versions \cup {None}
  /\ pubkeys \subseteq Versions
  /\ broken \in BOOLEAN
  /\ rotation \in [Rotators -> {None} \cup
        [step : {"read", "register", "publish", "wait"}, version : Versions \cup {None}]]
  /\ revocation \in [Revokers -> {None, "publish"}]
  /\ bundle \in {None} \cup SUBSET Versions
  /\ builds \in [{"poll", "eager"} -> {None} \cup SUBSET Versions]
  /\ trusted \subseteq Versions
  /\ token \in {None} \cup TokenRecord
  /\ minting \in {None} \cup [kid : Versions, under : Versions \cup {None}]
  /\ pepKid \in Versions
  /\ faults \in 0..MaxFaults

\* Vault signs with its latest version, whatever the pointer says.  That version
\* is never retired or revoked, and no version is active beyond it: revoke()
\* refuses the active key, and a rotation registers the version it read.
\* services/platformKeys.js:11 calls the active key the one the backend signs
\* with.  It holds for one rotation of a purpose at a time (run Keys) and not
\* for two that overlap (run TwoRotations).
SigningKeyStaysActive ==
  /\ status[vault] \in {"absent", "active"}
  /\ \A v \in Versions : v > vault => status[v] = "absent"

\* A backend whose trust is intact verifies everything signed with an active or
\* retired key, after rotations, revocations and restarts: sessions outlive them.
RegisteredKeysVerify ==
  boot = "up" /\ ~broken => PublishDocument \subseteq pubkeys

\* routes/platformKeys.js:108-113: a repeated rotate request finishes the pending
\* rotation and does not mint yet another key.
OneKeyPending ==
  boot = "up" /\ pointer # None =>
    \A v, w \in {u \in Versions : u > pointer /\ status[u] # "absent"} : v = w

\* The rotation died after Vault rotated and before the new key had a row.
Orphaned == status[vault] = "absent"
Outdated == bundle # None /\ bundle # PublishDocument

\* Rotations and revocations over, the backend's tokens are accepted again: OPA
\* for its own, itself for sessions.  Left out are a version without a row, a
\* bundle cached by a build that a rotation overtook, and a failed boot.
TrustRecovers ==
  []<>(purpose = "pep-opa-auth-signing"
       \/ Accepted(token) \/ Orphaned \/ Outdated \/ broken)

\* platformSigner.js:131-134: "the cached JWT expires every 30s anyway so the
\* next mint() naturally picks up the new key".  After a rotation is committed it
\* picks up the new signature and keeps the old kid.
PicksUpNewKey ==
  [][purpose = "pep-opa-auth-signing" /\ pointer = vault /\ token' # None
       => token'.kid = token'.signed]_vars
=============================================================================
